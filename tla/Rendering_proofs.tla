-------------------------- MODULE Rendering_proofs --------------------------
(***************************************************************************)
(* What the window's shell keeps true (UiShell), for a text of any length  *)
(* and any number of materials, and what the row passes of the bloom       *)
(* filter keep true (RowDispatch), for any number of rows and workers and  *)
(* any chunk; and that the parts a frame is cut into match the whole       *)
(* (FrameParts), for any frame, threads, tile and radius.                  *)
(*                                                                         *)
(* The shell: each handler is a composition of small functions of UiState, *)
(* so most of the work is in lemmas about those: a function takes a sound  *)
(* state to a sound state.  The steps of the window then follow one by     *)
(* one.                                                                    *)
(* The passes: a row of the present pass is in exactly one place - not yet *)
(* handed out, in one worker's hands, or written; a step moves rows from   *)
(* one place to the next.                                                  *)
(***************************************************************************)
EXTENDS UiShell, RowDispatch, FiniteSetTheorems,
        SequenceTheorems, TLAPS

UiSpec == UiInit /\ [][UiNext]_uiVars

(***************************************************************************)
(* The invariant.                                                          *)
(***************************************************************************)
Widgets == {None, "input", "button", "tab", "previous", "preset", "animation",
            "advanced", "material", "reset"} \cup OverBar

UiStates ==
  [hover : {None, "button"}, pressed : Widgets, drag : BOOLEAN,
   slider : {None} \cup Sliders, anchor : Nat \cup {NoPlace}, focused : BOOLEAN,
   length : Nat, caret : Nat, selection : {<<>>} \cup (Nat \X Nat), scroll : 0..2,
   open : BOOLEAN, advanced : BOOLEAN, preset : 0..(Materials - 1),
   override : 0..(Materials - 1), animation : Off..Lively]

Frames == {None, "fresh", "drifted", "stale"}

\* The caret and the selection are within the text.
TextSound(u) ==
  /\ u.caret <= u.length
  /\ u.selection # <<>> =>
       /\ u.selection[1] <= u.length
       /\ u.selection[1] # u.selection[2]
       /\ u.selection[2] = u.caret

\* A slider value, and a drag of that slider, belong to the material shown.
MaterialSound(u) ==
  /\ u.override # 0 => u.override = u.preset
  /\ u.slider = "material" => u.preset # 0

Sound(u) == u \in UiStates /\ TextSound(u) /\ MaterialSound(u)

\* What is left alone by every change of the text.
SameMaterial(u, v) ==
  v.preset = u.preset /\ v.override = u.override /\ v.slider = u.slider

UiTyped ==
  /\ clock \in 0..1
  /\ cache \in [0..1 -> Frames]
  /\ pending \in Shortcuts \cup Typed \cup {None}

\* A character is expected only while it is on its way, and it is not expected
\* only if its key has not acted.
ShortcutInv ==
  /\ acted \in 0..1
  /\ suppress # None => suppress = pending
  /\ pending # None /\ suppress = None => acted = 0

UiInv == Sound(ui) /\ UiTyped /\ ShortcutInv /\ FramesAreFresh

(***************************************************************************)
(* The text under edit.                                                    *)
(***************************************************************************)
\* The order of two numbers decides the least of them.
LEMMA LeastOfNats ==
  ASSUME NEW a \in Nat, NEW b \in Nat
  PROVE  Least(a, b) \in Nat /\ Least(a, b) <= a /\ Least(a, b) <= b
           /\ Least(a, b) \in {a, b}
  BY DEF Least

\* set_input_selection clamps both ends, whatever places it is given.
LEMMA SelectionIsSound ==
  ASSUME NEW u, Sound(u), NEW a \in Nat, NEW f \in Nat
  PROVE  Sound(SetSelection(u, a, f))
  <1> DEFINE x == Least(a, u.length)
             y == Least(f, u.length)
  <1>1. u.length \in Nat BY DEF Sound, UiStates
  <1>2. x \in Nat /\ y \in Nat /\ x <= u.length /\ y <= u.length
    BY <1>1, LeastOfNats
  <1>3. SetSelection(u, a, f)
          = [u EXCEPT !.caret = y, !.selection = IF x = y THEN <<>> ELSE <<x, y>>]
    BY DEF SetSelection
  <1> HIDE DEF x, y
  <1>4. CASE x = y
    BY <1>2, <1>3, <1>4 DEF Sound, UiStates, TextSound, MaterialSound
  <1>5. CASE x # y
    <2>1. <<x, y>> \in Nat \X Nat /\ <<x, y>>[1] = x /\ <<x, y>>[2] = y BY <1>2
    <2> DEFINE z == <<x, y>>
    <2>2. SetSelection(u, a, f) = [u EXCEPT !.caret = y, !.selection = z] BY <1>3, <1>5
    <2>3. z \in Nat \X Nat /\ z[1] = x /\ z[2] = y BY <2>1
    <2> DEFINE v == [u EXCEPT !.caret = y, !.selection = z]
    <2> HIDE DEF z
    <2>4. v \in UiStates BY <1>2, <2>3 DEF Sound, UiStates
    <2>5. v.caret = y /\ v.selection = z /\ v.length = u.length
          /\ v.override = u.override /\ v.preset = u.preset /\ v.slider = u.slider
      BY DEF Sound, UiStates
    <2> HIDE DEF v
    <2>6. TextSound(v) BY <1>2, <1>5, <2>3, <2>5 DEF TextSound
    <2>7. MaterialSound(v) BY <2>5 DEF Sound, MaterialSound
    <2> QED BY <2>2, <2>4, <2>6, <2>7 DEF Sound, v
  <1> QED BY <1>4, <1>5

\* set_input_caret clamps the place and drops the selection.
LEMMA CaretIsSound ==
  ASSUME NEW u, Sound(u), NEW k \in Nat
  PROVE  Sound(SetCaret(u, k))
  <1> DEFINE x == Least(k, u.length)
  <1>1. u.length \in Nat BY DEF Sound, UiStates
  <1>2. x \in Nat /\ x <= u.length BY <1>1, LeastOfNats
  <1>3. SetCaret(u, k) = [u EXCEPT !.caret = x, !.selection = <<>>] BY DEF SetCaret
  <1> HIDE DEF x
  <1> QED BY <1>2, <1>3 DEF Sound, UiStates, TextSound, MaterialSound

\* input_selection: nothing, or two places of the text in order.
LEMMA SelectedInOrder ==
  ASSUME NEW u, Sound(u), Selected(u) # <<>>
  PROVE  /\ Selected(u)[1] \in Nat /\ Selected(u)[2] \in Nat
         /\ Selected(u)[1] < Selected(u)[2] /\ Selected(u)[2] <= u.length
  <1> DEFINE a == Least(u.selection[1], u.length)
             b == Least(u.selection[2], u.length)
  <1>1. u.length \in Nat /\ u.selection # <<>> /\ u.selection \in Nat \X Nat
    BY DEF Sound, UiStates, Selected
  <1>2. u.selection[1] \in Nat /\ u.selection[2] \in Nat BY <1>1
  <1>3. a \in Nat /\ b \in Nat /\ a <= u.length /\ b <= u.length
    BY <1>1, <1>2, LeastOfNats
  <1>4. Selected(u) = IF a < b THEN <<a, b>> ELSE IF b < a THEN <<b, a>> ELSE <<>>
    BY <1>1 DEF Selected
  <1> HIDE DEF a, b
  <1> QED BY <1>1, <1>3, <1>4

\* delete_input_selection leaves the caret where the selection began.
LEMMA DeletionIsSound ==
  ASSUME NEW u, Sound(u)
  PROVE  Sound(DeleteSelection(u)) /\ (Selected(u) # <<>> => DeleteSelection(u).selection = <<>>)
  <1> DEFINE s == Selected(u)
  <1>1. CASE s = <<>> BY <1>1 DEF DeleteSelection
  <1>2. CASE s # <<>>
    <2>1. s[1] \in Nat /\ s[2] \in Nat /\ s[1] < s[2] /\ s[2] <= u.length
      BY <1>2, SelectedInOrder
    <2>2. u.length \in Nat BY DEF Sound, UiStates
    <2>3. DeleteSelection(u)
            = [u EXCEPT !.length = u.length - (s[2] - s[1]), !.caret = s[1], !.selection = <<>>]
      BY <1>2, <2>2 DEF DeleteSelection, Sound, UiStates
    <2> DEFINE a == s[1]
               b == s[2]
    <2>4. u.length - (b - a) \in Nat /\ a <= u.length - (b - a) BY <2>1, <2>2
    <2> HIDE DEF s, a, b
    <2> QED BY <2>1, <2>3, <2>4 DEF Sound, UiStates, TextSound, MaterialSound, a, b
  <1> QED BY <1>1, <1>2

\* With nothing selected there is no stored selection either: a stored one is
\* not empty.
LEMMA NothingSelected ==
  ASSUME NEW u, Sound(u), Selected(u) = <<>>
  PROVE  u.selection = <<>>
  <1> SUFFICES ASSUME u.selection # <<>> PROVE FALSE OBVIOUS
  <1>1. u.length \in Nat /\ u.caret \in Nat /\ u.selection \in Nat \X Nat
    BY DEF Sound, UiStates
  <1> DEFINE a == u.selection[1]
             b == u.selection[2]
  <1>2. a \in Nat /\ b \in Nat BY <1>1
  <1>3. a <= u.length /\ b <= u.length /\ a # b BY DEF Sound, TextSound
  <1>4. Least(a, u.length) = a /\ Least(b, u.length) = b BY <1>1, <1>2, <1>3 DEF Least
  <1>5. Selected(u) = IF a < b THEN <<a, b>> ELSE IF b < a THEN <<b, a>> ELSE <<>>
    BY <1>4 DEF Selected
  <1> HIDE DEF a, b
  <1> QED BY <1>2, <1>3, <1>5

\* insert_input_text: n characters for the selection, the caret after them.
LEMMA InsertionIsSound ==
  ASSUME NEW u, Sound(u), NEW n \in Nat
  PROVE  Sound(InsertText(u, n))
  <1> DEFINE d == DeleteSelection(u)
  <1>1. Sound(d) BY DeletionIsSound
  <1>2. d.selection = <<>>
    <2>1. CASE Selected(u) # <<>> BY <2>1, DeletionIsSound
    <2>2. CASE Selected(u) = <<>> BY <2>2, NothingSelected DEF DeleteSelection
    <2> QED BY <2>1, <2>2
  <1>3. InsertText(u, n) = [d EXCEPT !.length = d.length + n, !.caret = d.caret + n]
    BY <1>1 DEF InsertText, Sound, UiStates
  <1>4. d.length \in Nat /\ d.caret \in Nat /\ d.caret <= d.length
    BY <1>1 DEF Sound, UiStates, TextSound
  <1> DEFINE l == d.length + n
             k == d.caret + n
  <1>5. l \in Nat /\ k \in Nat /\ k <= l BY <1>4
  <1>6. InsertText(u, n) = [d EXCEPT !.length = l, !.caret = k] BY <1>3
  <1> HIDE DEF d, l, k
  <1> QED BY <1>1, <1>2, <1>5, <1>6 DEF Sound, UiStates, TextSound, MaterialSound

\* backspace_input
LEMMA BackspaceIsSound ==
  ASSUME NEW u, Sound(u)
  PROVE  Sound(BackspaceInput(u))
  <1>1. CASE Selected(u) # <<>> \/ u.caret = 0
    BY <1>1, DeletionIsSound DEF BackspaceInput
  <1>2. CASE Selected(u) = <<>> /\ u.caret # 0
    <2>1. BackspaceInput(u) = [u EXCEPT !.length = u.length - 1, !.caret = u.caret - 1]
      BY <1>2 DEF BackspaceInput, Sound, UiStates
    <2>2. u.selection = <<>> BY <1>2, NothingSelected
    <2>3. u.length \in Nat /\ u.caret \in Nat /\ u.caret <= u.length
      BY DEF Sound, UiStates, TextSound
    <2> DEFINE l == u.length - 1
               k == u.caret - 1
    <2>4. l \in Nat /\ k \in Nat /\ k <= l BY <1>2, <2>3
    <2>5. BackspaceInput(u) = [u EXCEPT !.length = l, !.caret = k] BY <2>1
    <2> HIDE DEF l, k
    <2> QED BY <2>2, <2>4, <2>5 DEF Sound, UiStates, TextSound, MaterialSound
  <1> QED BY <1>1, <1>2

\* delete_forward_input
LEMMA ForwardDeletionIsSound ==
  ASSUME NEW u, Sound(u)
  PROVE  Sound(DeleteForward(u))
  <1>1. CASE Selected(u) # <<>> \/ u.caret >= u.length
    BY <1>1, DeletionIsSound DEF DeleteForward
  <1>2. CASE Selected(u) = <<>> /\ ~ (u.caret >= u.length)
    <2>1. DeleteForward(u) = [u EXCEPT !.length = u.length - 1]
      BY <1>2 DEF DeleteForward, Sound, UiStates
    <2>2. u.selection = <<>> BY <1>2, NothingSelected
    <2>3. u.length \in Nat /\ u.caret \in Nat BY DEF Sound, UiStates
    <2>4. u.length - 1 \in Nat /\ u.caret <= u.length - 1 BY <1>2, <2>3
    <2> QED BY <2>1, <2>2, <2>4 DEF Sound, UiStates, TextSound, MaterialSound
  <1> QED BY <1>1, <1>2

\* move_input_caret
LEMMA CaretMovesSoundly ==
  ASSUME NEW u, Sound(u), NEW right \in BOOLEAN, NEW shift \in BOOLEAN
  PROVE  Sound(MoveCaret(u, right, shift))
  <1> DEFINE s    == Selected(u)
             next == IF right THEN Least(u.caret + 1, u.length)
                     ELSE IF u.caret = 0 THEN 0 ELSE u.caret - 1
             from == IF u.selection # <<>> THEN u.selection[1] ELSE u.caret
             end  == IF right THEN s[2] ELSE s[1]
  <1>1. u.length \in Nat /\ u.caret \in Nat /\ u.caret + 1 \in Nat
    BY DEF Sound, UiStates
  <1>2. next \in Nat
    <2>1. Least(u.caret + 1, u.length) \in Nat BY <1>1, LeastOfNats
    <2>2. u.caret # 0 => u.caret - 1 \in Nat BY <1>1
    <2> QED BY <2>1, <2>2
  <1>3. from \in Nat
    BY <1>1 DEF Sound, UiStates
  <1>4. s # <<>> => end \in Nat
    BY SelectedInOrder
  <1>5. MoveCaret(u, right, shift)
          = IF shift THEN SetSelection(u, from, next)
            ELSE IF s # <<>> THEN SetCaret(u, end) ELSE SetCaret(u, next)
    BY DEF MoveCaret
  <1> HIDE DEF s, next, from, end
  <1> QED BY <1>2, <1>3, <1>4, <1>5, SelectionIsSound, CaretIsSound

\* Following the end of the intent scrolls, and no more.
LEMMA FollowingIsSound ==
  ASSUME NEW u, Sound(u)
  PROVE  Sound(FollowIntent(u))
  BY DEF FollowIntent, Sound, UiStates, TextSound, MaterialSound

\* No key can take the caret or the selection out of the text.
LEMMA EditsAreSound ==
  ASSUME NEW u, Sound(u), NEW key \in Keys
  PROVE  Sound(Edit(u, key))
  <1>1. u.length \in Nat BY DEF Sound, UiStates
  <1>2. CASE key = "A"
    BY <1>1, <1>2, SelectionIsSound DEF Edit
  <1>3. CASE key \in {"C", "Enter"}
    BY <1>3 DEF Edit
  <1>4. CASE key = "X"
    BY <1>4, DeletionIsSound, FollowingIsSound DEF Edit
  <1>5. CASE key \in {"V", "letter"}
    BY <1>5, InsertionIsSound, FollowingIsSound DEF Edit
  <1>6. CASE key = "Delete"
    BY <1>6, ForwardDeletionIsSound, FollowingIsSound DEF Edit
  <1>7. CASE key = "Backspace"
    BY <1>7, BackspaceIsSound, FollowingIsSound DEF Edit
  <1>8. CASE key \in Carets
    BY <1>8, CaretMovesSoundly DEF Edit, Carets
  <1> QED BY <1>2, <1>3, <1>4, <1>5, <1>6, <1>7, <1>8 DEF Keys, Shortcuts, Typed

(***************************************************************************)
(* The pointer.                                                            *)
(***************************************************************************)
\* update_slider_from_x: the override is of the material that is shown.
LEMMA SlidesAreSound ==
  ASSUME NEW u, Sound(u), NEW slider \in Sliders, NEW k \in Nat
  PROVE  Sound(Slide(u, slider, k))
  <1>1. Least(k, Lively) \in Off..Lively BY DEF Least, Off, Lively
  <1> QED BY <1>1 DEF Slide, Sound, UiStates, TextSound, MaterialSound

\* Moves of the pointer, in every mode a press can have left behind.
LEMMA MovesAreSound ==
  ASSUME NEW u, Sound(u), NEW p \in Points(u)
  PROVE  Sound(Move(u, p))
  <1>1. p.place \in Nat /\ Hovered(p.target) \in {None, "button"}
    BY UiAssumption DEF Points, Hovered
  <1>2. CASE u.slider # None
    <2>1. u.slider \in Sliders BY <1>2 DEF Sound, UiStates
    <2> QED BY <1>1, <1>2, <2>1, SlidesAreSound DEF Move
  <1>3. CASE u.slider = None /\ u.drag
    <2>1. Least(p.place, 1) \in 0..2 BY <1>1 DEF Least
    <2>2. Move(u, p) = [u EXCEPT !.scroll = Least(p.place, 1)] BY <1>3 DEF Move
    <2> QED BY <2>1, <2>2 DEF Sound, UiStates, TextSound, MaterialSound
  <1>4. CASE u.slider = None /\ ~ u.drag /\ u.anchor # NoPlace
    <2> DEFINE v == SetSelection(u, u.anchor, p.place)
               h == Hovered(p.target)
    <2>1. u.anchor \in Nat BY <1>4 DEF Sound, UiStates
    <2>2. Sound(v) BY <1>1, <2>1, SelectionIsSound
    <2>3. Move(u, p) = [v EXCEPT !.hover = h] BY <1>4 DEF Move
    <2>4. h \in {None, "button"} BY <1>1
    <2> HIDE DEF v, h
    <2> QED BY <2>2, <2>3, <2>4 DEF Sound, UiStates, TextSound, MaterialSound
  <1>5. CASE u.slider = None /\ ~ u.drag /\ u.anchor = NoPlace
    <2> DEFINE h == Hovered(p.target)
    <2>1. Move(u, p) = [u EXCEPT !.hover = h] BY <1>5 DEF Move
    <2>2. h \in {None, "button"} BY <1>1
    <2> HIDE DEF h
    <2> QED BY <2>1, <2>2 DEF Sound, UiStates, TextSound, MaterialSound
  <1> QED BY <1>2, <1>3, <1>4, <1>5

\* What a press starts with: whatever was dragged before is let go.
LEMMA PressesLetGo ==
  ASSUME NEW u, Sound(u), NEW drag \in BOOLEAN, NEW focused \in BOOLEAN
  PROVE  Sound([u EXCEPT !.drag = drag, !.slider = None, !.anchor = NoPlace,
                         !.focused = focused])
  BY DEF Sound, UiStates, TextSound, MaterialSound, None, NoPlace

\* A press finds the material slider only where a material is shown.
LEMMA PressesAreSound ==
  ASSUME NEW u, Sound(u), NEW p \in Points(u)
  PROVE  Sound(Press(u, p))
  <1> DEFINE t == p.target
             d == [u EXCEPT !.drag = (t = "thumb"), !.slider = None, !.anchor = NoPlace,
                            !.focused = (t = "input" \/ t \in OverBar)]
             k == Least(p.place, u.length)
             c == IF t = "input" THEN [SetCaret(d, p.place) EXCEPT !.anchor = k]
                  ELSE IF t \in Sliders THEN Slide([d EXCEPT !.slider = t], t, p.place)
                  ELSE d
             q == IF t = "thumb" THEN None ELSE t
  <1>1. Press(u, p) = [c EXCEPT !.pressed = q] BY DEF Press
  <1>2. p.place \in Nat /\ t \in Widgets /\ (t = "material" => u.preset # 0)
    BY UiAssumption DEF Points, Visible, Widgets, OverBar, None
  <1>3. q \in Widgets BY <1>2 DEF Widgets
  <1>4. k \in Nat BY <1>2, LeastOfNats DEF Sound, UiStates
  <1>5. Sound(d) BY PressesLetGo
  <1>6. d.preset = u.preset /\ d.override = u.override BY DEF Sound, UiStates
  <1> HIDE DEF d, k, q
  <1>7. Sound(c)
    <2>1. CASE t = "input"
      <3> DEFINE e == SetCaret(d, p.place)
      <3>1. Sound(e) BY <1>2, <1>5, CaretIsSound
      <3>2. c = [e EXCEPT !.anchor = k] BY <2>1
      <3> HIDE DEF e, c
      <3> QED BY <1>4, <3>1, <3>2 DEF Sound, UiStates, TextSound, MaterialSound
    <2>2. CASE t \in Sliders
      <3> DEFINE e == [d EXCEPT !.slider = t]
      <3>1. Sound(e)
        BY <1>2, <1>5, <1>6, <2>2 DEF Sound, UiStates, TextSound, MaterialSound
      <3>2. c = Slide(e, t, p.place) BY <2>2 DEF Sliders
      <3> HIDE DEF e, c
      <3> QED BY <1>2, <2>2, <3>1, <3>2, SlidesAreSound
    <2>3. CASE t # "input" /\ t \notin Sliders BY <1>5, <2>3
    <2> QED BY <2>1, <2>2, <2>3
  <1> HIDE DEF c
  <1> QED BY <1>1, <1>3, <1>7 DEF Sound, UiStates, TextSound, MaterialSound

\* The material buttons and the selects: no override is left for another
\* material, none can be dragged meanwhile.
LEMMA ClicksAreSound ==
  ASSUME NEW u, Sound(u), u.slider = None, NEW t \in Widgets
  PROVE  Sound(Click(u, t))
  <1>1. u.preset \in 0..(Materials - 1) /\ Materials \in Nat \ {0, 1}
    BY UiAssumption DEF Sound, UiStates
  <1> DEFINE back == (u.preset + Materials - 1) % Materials
             next == (u.preset + 1) % Materials
  <1>2. back \in 0..(Materials - 1) /\ next \in 0..(Materials - 1)
    <2>1. u.preset + Materials - 1 \in Int /\ u.preset + 1 \in Int BY <1>1
    <2>2. \A i \in Int : i % Materials \in 0..(Materials - 1) BY <1>1
    <2> QED BY <2>1, <2>2
  <1>2a. 0 \in 0..(Materials - 1) BY <1>1
  <1>3. CASE t = "tab"
    BY <1>3 DEF Click, Sound, UiStates, TextSound, MaterialSound
  <1>4. CASE t = "advanced"
    BY <1>4 DEF Click, Sound, UiStates, TextSound, MaterialSound
  <1>5. CASE t = "previous"
    <2>1. Click(u, t) = [u EXCEPT !.preset = back, !.override = 0]
      BY <1>5 DEF Click, ClearOverrides, Sound, UiStates
    <2>2. back \in 0..(Materials - 1) BY <1>2
    <2> HIDE DEF back
    <2>3. Click(u, t) \in UiStates BY <1>2a, <2>1, <2>2 DEF Sound, UiStates
    <2>4. TextSound(Click(u, t)) BY <2>1 DEF Sound, UiStates, TextSound
    <2>5. MaterialSound(Click(u, t)) BY <2>1 DEF Sound, UiStates, MaterialSound, None
    <2> QED BY <2>3, <2>4, <2>5 DEF Sound
  <1>6. CASE t = "preset"
    <2>1. Click(u, t) = [u EXCEPT !.preset = next, !.override = 0]
      BY <1>6 DEF Click, ClearOverrides, Sound, UiStates
    <2>2. next \in 0..(Materials - 1) BY <1>2
    <2> HIDE DEF next
    <2>3. Click(u, t) \in UiStates BY <1>2a, <2>1, <2>2 DEF Sound, UiStates
    <2>4. TextSound(Click(u, t)) BY <2>1 DEF Sound, UiStates, TextSound
    <2>5. MaterialSound(Click(u, t)) BY <2>1 DEF Sound, UiStates, MaterialSound, None
    <2> QED BY <2>3, <2>4, <2>5 DEF Sound
  <1>7. CASE t = "reset"
    <2>1. Click(u, t) = [u EXCEPT !.override = 0] BY <1>7 DEF Click, ClearOverrides
    <2> QED BY <1>1, <2>1 DEF Sound, UiStates, TextSound, MaterialSound
  <1>8. CASE t \notin {"tab", "advanced", "previous", "preset", "reset"}
    BY <1>8 DEF Click
  <1> QED BY <1>3, <1>4, <1>5, <1>6, <1>7, <1>8

\* A release ends what the press began; it is a click only when it ends
\* neither a drag nor a slider.
LEMMA ReleasesAreSound ==
  ASSUME NEW u, Sound(u), NEW p \in Points(u)
  PROVE  Sound(Release(u, p))
  <1> DEFINE r == [u EXCEPT !.anchor = NoPlace]
  <1>1. Sound(r) /\ r.slider = u.slider
    BY DEF Sound, UiStates, TextSound, MaterialSound
  <1>2. p.target \in Widgets
    BY DEF Points, Visible, Widgets
  <1>3. None \in Widgets BY DEF Widgets
  <1>4. CASE u.drag
    <2>1. Release(u, p) = [r EXCEPT !.drag = FALSE, !.pressed = None]
      BY <1>4 DEF Release
    <2> HIDE DEF r
    <2> QED BY <1>1, <1>3, <2>1 DEF Sound, UiStates, TextSound, MaterialSound
  <1>5. CASE ~ u.drag /\ u.slider # None
    <2>1. Release(u, p) = [r EXCEPT !.slider = None, !.pressed = None]
      BY <1>5 DEF Release
    <2> HIDE DEF r
    <2> QED BY <1>1, <1>3, <2>1 DEF Sound, UiStates, TextSound, MaterialSound, None
  <1>6. CASE ~ u.drag /\ u.slider = None
    <2> DEFINE c == IF p.target = u.pressed THEN Click(r, p.target) ELSE r
    <2>1. Release(u, p) = [c EXCEPT !.pressed = None]
      BY <1>6 DEF Release
    <2> HIDE DEF r
    <2>2. Sound(c) BY <1>1, <1>2, <1>6, ClicksAreSound
    <2> HIDE DEF c
    <2> QED BY <1>3, <2>1, <2>2 DEF Sound, UiStates, TextSound, MaterialSound
  <1> QED BY <1>4, <1>5, <1>6

\* Wheel
LEMMA TurnsAreSound ==
  ASSUME NEW u, Sound(u), NEW up \in BOOLEAN
  PROVE  Sound(Turn(u, up))
  <1> DEFINE x == IF up THEN 0 ELSE Least(Least(u.scroll, 1) + 1, 1)
  <1>1. x \in 0..2 BY DEF Least, Sound, UiStates
  <1>2. Turn(u, up) = [u EXCEPT !.scroll = x] BY DEF Turn
  <1> HIDE DEF x
  <1> QED BY <1>1, <1>2 DEF Sound, UiStates, TextSound, MaterialSound

(***************************************************************************)
(* The steps of the window.                                                *)
(***************************************************************************)
\* A move that does not make frames out of date has changed nothing at all.
LEMMA CleanMovesChangeNothing ==
  ASSUME NEW u, Sound(u), NEW p \in Points(u), ~ DirtyMove(u, Move(u, p))
  PROVE  Move(u, p) = u
  <1> DEFINE v == Move(u, p)
  <1>1. /\ v.hover = u.hover /\ v.drag = u.drag /\ v.slider = u.slider
        /\ v.drag = FALSE /\ v.slider = None /\ v.anchor = NoPlace
    <2>1. Sound(v) BY MovesAreSound
    <2>2. /\ <<u.hover, u.pressed, u.drag, u.slider>> = <<v.hover, v.pressed, v.drag, v.slider>>
          /\ ~ v.drag /\ v.slider = None /\ v.anchor = NoPlace
      BY DEF DirtyMove
    <2>3. v.drag \in BOOLEAN BY <2>1 DEF Sound, UiStates
    <2> QED BY <2>2, <2>3
  <1>2. u.slider = None /\ u.drag = FALSE BY <1>1
  <1>3. u.anchor = NoPlace
    <2> SUFFICES ASSUME u.anchor # NoPlace PROVE FALSE OBVIOUS
    <2>1. v = [SetSelection(u, u.anchor, p.place) EXCEPT !.hover = Hovered(p.target)]
      BY <1>2 DEF Move
    <2>2. SetSelection(u, u.anchor, p.place).anchor = u.anchor
      BY DEF SetSelection, Sound, UiStates
    <2>3. v.anchor = u.anchor BY <2>1, <2>2
    <2> QED BY <1>1, <2>3
  <1>4. v = [u EXCEPT !.hover = Hovered(p.target)] BY <1>2, <1>3 DEF Move
  <1>5. v.hover = Hovered(p.target) BY <1>4 DEF Sound, UiStates
  <1>6. [u EXCEPT !.hover = u.hover] = u BY DEF Sound, UiStates
  <1> HIDE DEF v
  <1>7. v = u BY <1>1, <1>4, <1>5, <1>6
  <1> QED BY <1>7 DEF v

\* The state of the interface stays sound, whichever message comes.
LEMMA StepsAreSound ==
  ASSUME Sound(ui), UiTyped, UiNext
  PROVE  Sound(ui')
  <1>1. CASE MouseMove BY <1>1, MovesAreSound DEF MouseMove
  <1>2. CASE MouseButton
    BY <1>2, PressesAreSound, ReleasesAreSound, TurnsAreSound DEF MouseButton
  <1>3. CASE KeyDown BY <1>3, EditsAreSound DEF KeyDown
  <1>4. CASE Char
    <2>1. pending \in Keys BY <1>4 DEF Char, UiTyped, Keys
    <2> QED BY <1>4, <2>1, EditsAreSound DEF Char
  <1>5. CASE Tick \/ Refresh \/ Paint BY <1>5 DEF Tick, Refresh, Paint
  <1> QED BY <1>1, <1>2, <1>3, <1>4, <1>5 DEF UiNext

\* What a paint would show changes only as the cached frames are given up.
LEMMA PicturesGiveUpFrames ==
  ASSUME Sound(ui), UiNext, Picture(ui', clock') # Picture(ui, clock)
  PROVE  InvalidateVisual
  <1>1. CASE MouseMove
    <2>1. PICK p \in Points(ui) : ui' = Move(ui, p) BY <1>1 DEF MouseMove
    <2>2. CASE DirtyMove(ui, ui') BY <1>1, <2>2 DEF MouseMove
    <2>3. CASE ~ DirtyMove(ui, ui')
      <3>1. ui' = ui BY <2>1, <2>3, CleanMovesChangeNothing
      <3>2. clock' = clock BY <1>1 DEF MouseMove
      <3> QED BY <3>1, <3>2
    <2> QED BY <2>2, <2>3
  <1>2. CASE MouseButton BY <1>2 DEF MouseButton
  <1>3. CASE KeyDown BY <1>3 DEF KeyDown
  <1>4. CASE Char
    <2>1. clock' = clock BY <1>4 DEF Char
    <2>2. ui' # ui BY <2>1
    <2> QED BY <1>4, <2>2 DEF Char
  <1>5. CASE Tick
    <2>1. CASE ui.animation = Lively BY <1>5, <2>1 DEF Tick
    <2>2. CASE ui.animation # Lively
      <3>1. ui' = ui BY <1>5 DEF Tick
      <3>2. Picture(ui', clock') = Picture(ui, clock) BY <2>2, <3>1 DEF Picture
      <3> QED BY <3>2
    <2> QED BY <2>1, <2>2
  <1>6. CASE Refresh BY <1>6 DEF Refresh
  <1>7. CASE Paint
    <2>1. ui' = ui /\ clock' = clock BY <1>7 DEF Paint
    <2> QED BY <2>1
  <1> QED BY <1>1, <1>2, <1>3, <1>4, <1>5, <1>6, <1>7 DEF UiNext

\* A picture shows the material that is selected and what the animation stands at.
LEMMA PicturesShowTheControls ==
  ASSUME NEW u, NEW v, NEW c, NEW d, Picture(u, c) = Picture(v, d)
  PROVE  u.preset = v.preset /\ u.animation = v.animation
  <1> DEFINE s == Picture(u, c)
             t == Picture(v, d)
  <1>1. s[10] = u.preset /\ t[10] = v.preset /\ s[12] = u.animation /\ t[12] = v.animation
    BY DEF Picture
  <1> HIDE DEF s, t
  <1>2. s = t BY DEF s, t
  <1> QED BY <1>1, <1>2

\* A phase that moves behind the frames' back belongs to a faint animation.
LEMMA PhasesMoveFaintly ==
  ASSUME Sound(ui), UiNext, Picture(ui', clock') = Picture(ui, clock),
         Phase(ui', clock') # Phase(ui, clock)
  PROVE  InvalidateVisual \/ (ui'.animation = Faint /\ ui'.preset \in Animated)
  <1>1. ui'.preset = ui.preset /\ ui'.animation = ui.animation
    BY PicturesShowTheControls
  <1>2. clock' # clock /\ ui.preset \in Animated /\ ui.animation # Off
    BY <1>1 DEF Phase
  <1>3. Tick \/ InvalidateVisual
    BY <1>2 DEF UiNext, MouseMove, MouseButton, KeyDown, Char, Refresh, Paint
  <1>4. ui.animation \in {Off, Faint, Lively}
    BY DEF Sound, UiStates, Off, Faint, Lively
  <1> QED BY <1>1, <1>2, <1>3, <1>4 DEF Tick

\* No frame of the present generation goes out of date, but for that.
LEMMA StepsKeepFramesFresh ==
  ASSUME Sound(ui), UiTyped, FramesAreFresh, UiNext
  PROVE  FramesAreFresh' /\ cache' \in [0..1 -> Frames]
  <1> DEFINE Excused(u) == u.animation = Faint /\ u.preset \in Animated
  <1>1. InvalidateVisual => FramesAreFresh' /\ cache' \in [0..1 -> Frames]
    BY DEF InvalidateVisual, FramesAreFresh, None, Frames
  <1>2. CASE Picture(ui', clock') # Picture(ui, clock)
    BY <1>1, <1>2, PicturesGiveUpFrames
  <1>3. CASE Picture(ui', clock') = Picture(ui, clock) /\ ~InvalidateVisual
    <2>1. Excused(ui') <=> Excused(ui)
      BY <1>3, PicturesShowTheControls
    <2>2. Phase(ui', clock') # Phase(ui, clock) => Excused(ui')
      BY <1>3, PhasesMoveFaintly
    <2>3. cache \in [0..1 -> Frames]
      BY DEF UiTyped
    <2>4. /\ \A s \in 0..1 : cache[s] # "stale"
          /\ \A s \in 0..1 : cache[s] = "drifted" => Excused(ui')
      BY <2>1 DEF FramesAreFresh
    <2> HIDE DEF Excused
    <2>5. KeepFrames => /\ cache' \in [0..1 -> Frames]
                        /\ \A s \in 0..1 : cache'[s] # "stale"
                        /\ \A s \in 0..1 : cache'[s] = "drifted" => Excused(ui')
      BY <1>3, <2>2, <2>3, <2>4 DEF KeepFrames, Frames, None
    <2>6. UNCHANGED cache \/ Paint => /\ cache' \in [0..1 -> Frames]
                                      /\ \A s \in 0..1 : cache'[s] # "stale"
                                      /\ \A s \in 0..1 : cache'[s] = "drifted" => Excused(ui')
      BY <2>3, <2>4 DEF Paint, Frames
    <2>7. KeepFrames \/ UNCHANGED cache \/ Paint
      BY <1>3 DEF UiNext, MouseMove, MouseButton, KeyDown, Char, Tick, Refresh
    <2>8. /\ cache' \in [0..1 -> Frames]
          /\ \A s \in 0..1 : cache'[s] # "stale"
          /\ \A s \in 0..1 : cache'[s] = "drifted" => Excused(ui')
      BY <2>5, <2>6, <2>7
    <2> QED BY <2>8 DEF Excused, FramesAreFresh
  <1> QED BY <1>1, <1>2, <1>3

\* A key that acted as it went down leaves a character to be swallowed, and
\* only the window's next message may be that character.
LEMMA ShortcutsStep ==
  ASSUME UiTyped, ShortcutInv, UiNext
  PROVE  ShortcutInv' /\ pending' \in Shortcuts \cup Typed \cup {None}
  <1>1. CASE KeyDown
    BY <1>1 DEF KeyDown, ShortcutInv, Takes, Shortcuts, Typed, Carets, None
  <1>2. CASE Char
    BY <1>2 DEF Char, ShortcutInv
  <1>3. CASE MouseMove \/ MouseButton \/ Tick \/ Refresh \/ Paint
    BY <1>3 DEF MouseMove, MouseButton, Tick, Refresh, Paint, UiTyped, ShortcutInv
  <1> QED BY <1>1, <1>2, <1>3 DEF UiNext

(***************************************************************************)
(* The theorems.                                                           *)
(***************************************************************************)
\* The invariant holds, whatever messages come in whatever order: presses
\* without releases, releases without presses, characters without their keys.
THEOREM UiInvariant == UiSpec => []UiInv
  <1>1. UiInit => UiInv
    <2> SUFFICES ASSUME UiInit PROVE UiInv OBVIOUS
    <2>1. ui \in UiStates
      BY UiAssumption DEF UiInit, UiStates, Widgets, Off, Lively
    <2>2. TextSound(ui) /\ MaterialSound(ui)
      BY DEF UiInit, TextSound, MaterialSound, None
    <2>3. UiTyped /\ ShortcutInv /\ FramesAreFresh
      BY DEF UiInit, UiTyped, ShortcutInv, FramesAreFresh, None, Frames
    <2> QED BY <2>1, <2>2, <2>3 DEF UiInv, Sound
  <1>2. UiInv /\ [UiNext]_uiVars => UiInv'
    <2> SUFFICES ASSUME UiInv, [UiNext]_uiVars PROVE UiInv' OBVIOUS
    <2>1. CASE UiNext
      <3>1. Sound(ui') BY <2>1, StepsAreSound DEF UiInv
      <3>2. FramesAreFresh' /\ cache' \in [0..1 -> Frames]
        BY <2>1, StepsKeepFramesFresh DEF UiInv
      <3>3. ShortcutInv' /\ pending' \in Shortcuts \cup Typed \cup {None}
        BY <2>1, ShortcutsStep DEF UiInv
      <3>4. clock' \in 0..1
        BY <2>1 DEF UiInv, UiTyped, UiNext, MouseMove, MouseButton, KeyDown, Char, Tick,
                    Refresh, Paint
      <3> QED BY <3>1, <3>2, <3>3, <3>4 DEF UiInv, UiTyped
    <2>2. CASE UNCHANGED uiVars
      BY <2>2 DEF uiVars, UiInv, UiTyped, ShortcutInv, FramesAreFresh
    <2> QED BY <2>1, <2>2
  <1> QED BY <1>1, <1>2, PTL DEF UiSpec

\* Whatever drags, edits and shortcuts came before, the caret and the ends of
\* the selection are places in the text (char_to_byte).
THEOREM SelectionsStayLive == UiSpec => []SelectionsAreLive
  <1>1. UiInv => SelectionsAreLive
    BY DEF UiInv, Sound, UiStates, TextSound, SelectionsAreLive
  <1> QED BY <1>1, UiInvariant, PTL

\* A slider value does not outlive the material it was set for
\* (clear_material_overrides).
THEOREM OverridesKeepTheirMaterial == UiSpec => []OverridesBelongToMaterial
  <1>1. UiInv => OverridesBelongToMaterial
    BY DEF UiInv, Sound, MaterialSound, OverridesBelongToMaterial
  <1> QED BY <1>1, UiInvariant, PTL

\* No cached frame of the present generation shows another state, but that an
\* animated material does not move in it while the animation is faint (paint).
THEOREM FramesStayFresh == UiSpec => []FramesAreFresh
  <1>1. UiInv => FramesAreFresh BY DEF UiInv
  <1> QED BY <1>1, UiInvariant, PTL

\* A shortcut acts at most once, by its key or by its character, and the
\* character that is expected is the one that comes (suppress_ctrl_char).
THEOREM ShortcutsStayOnce == UiSpec => []ShortcutsActOnce
  <1>1. UiInv => ShortcutsActOnce BY DEF UiInv, ShortcutInv, ShortcutsActOnce
  <1> QED BY <1>1, UiInvariant, PTL

\* A step that changes what a paint would show, the phase of the material apart,
\* gives up every cached frame (invalidate_visual): a move that does not, has
\* changed nothing that shows.
THEOREM PicturesInvalidate ==
  UiSpec => [][Picture(ui', clock') # Picture(ui, clock)
                 => cache' = [s \in 0..1 |-> None]]_uiVars
  <1>1. UiInv /\ [UiNext]_uiVars
          => [Picture(ui', clock') # Picture(ui, clock)
                => cache' = [s \in 0..1 |-> None]]_uiVars
    BY PicturesGiveUpFrames DEF UiInv, InvalidateVisual
  <1> QED BY <1>1, UiInvariant, PTL DEF UiSpec

(***************************************************************************)
(* The row passes of the bloom filter.                                     *)
(***************************************************************************)
RowSpec == RowInit /\ [][RowNext]_rowVars

Distinct(s) == \A i, j \in DOMAIN s : s[i] = s[j] => i = j

Hands == [t \in Workers |-> ToSet(hand[t])]

\* The rows of pass p that no worker has been given yet.
Unclaimed(p) ==
  ToSet(items) \cup ToSet(unpushed)
    \cup {r \in 1..Rows : dispatch \in {"cursor", "pool"} /\ r > cursor[p]}

\* A row is unclaimed, or in one hand, or else it is written.
Split(H, U, W) ==
  /\ U \subseteq 1..Rows
  /\ \A t \in Workers : H[t] \subseteq 1..Rows /\ H[t] \cap U = {}
  /\ \A t, u \in Workers : t # u => H[t] \cap H[u] = {}
  /\ \A r \in 1..Rows : W[r] = 1 <=> r \notin U /\ \A t \in Workers : r \notin H[t]

RowTyped ==
  /\ dispatch \in Dispatches
  /\ pass \in [Workers -> Passes]
  /\ items \in Seq(1..Rows) /\ unpushed \in Seq(1..Rows)
  /\ sealed \in BOOLEAN
  /\ cursor \in [Passes -> Nat]
  /\ hand \in [Workers -> Seq(1..Rows)]
  /\ state \in [Workers -> {"running", "waiting", "done"}]
  /\ written \in [Passes -> [1..Rows -> 0..1]]

\* Every worker is in pass p; the passes before are finished, those after are
\* not begun.
InPass(p) ==
  /\ p <= LastPass
  /\ \A t \in Workers : pass[t] = p
  /\ \A q \in Passes : q > p => cursor[q] = 0 /\ \A r \in 1..Rows : written[q][r] = 0
  /\ \A q \in Passes : q < p => \A r \in 1..Rows : written[q][r] = 1

\* No row is listed twice.
RowsAreListedOnce ==
  /\ Distinct(items) /\ Distinct(unpushed) /\ ToSet(items) \cap ToSet(unpushed) = {}
  /\ \A t \in Workers : Distinct(hand[t])

\* Only a queue has items, only an open one a producer; it is sealed last.
QueuesAreUsed ==
  /\ sealed => unpushed = <<>>
  /\ dispatch # "open" => sealed
  /\ dispatch \notin {"queue", "open"} => items = <<>>

\* A worker that is done with pass p has found nothing left to claim.
DoneInPass(p) ==
  \A t \in Workers :
    /\ state[t] # "running" => hand[t] = <<>>
    /\ state[t] = "done" => Unclaimed(p) = {}

RowInvAt(p) ==
  /\ InPass(p) /\ Split(Hands, Unclaimed(p), written[p])
  /\ RowsAreListedOnce /\ QueuesAreUsed /\ DoneInPass(p)

RowInv == RowTyped /\ \E p \in Passes : RowInvAt(p)

(***************************************************************************)
(* Sequences of rows.                                                      *)
(***************************************************************************)
\* Taking the first row of a list without repetitions.
LEMMA TakingTheFirst ==
  ASSUME NEW s \in Seq(1..Rows), s # <<>>, Distinct(s)
  PROVE  /\ Head(s) \in 1..Rows /\ Head(s) \in ToSet(s) /\ Tail(s) \in Seq(1..Rows)
         /\ Distinct(Tail(s)) /\ ToSet(Tail(s)) = ToSet(s) \ {Head(s)}
  <1>0. s[1] \in 1..Rows
    <2>1. Len(s) \in Nat /\ Len(s) # 0 OBVIOUS
    <2>2. 1 \in 1..Len(s) BY <2>1
    <2> QED BY <2>2, ElementOfSeq
  <1>1. /\ Head(s) = s[1] /\ 1 \in DOMAIN s /\ DOMAIN s = 1..Len(s) /\ Len(s) \in Nat
        /\ Tail(s) \in Seq(1..Rows) /\ DOMAIN Tail(s) = 1..(Len(s) - 1)
        /\ \A i \in 1..(Len(s) - 1) : Tail(s)[i] = s[i + 1]
    OBVIOUS
  <1>2. Head(s) \in 1..Rows /\ Head(s) \in ToSet(s) BY <1>0, <1>1 DEF ToSet
  <1>3. Distinct(Tail(s))
    <2> SUFFICES ASSUME NEW i \in DOMAIN Tail(s), NEW j \in DOMAIN Tail(s),
                        Tail(s)[i] = Tail(s)[j]
                 PROVE  i = j
      BY DEF Distinct
    <2>1. i + 1 \in DOMAIN s /\ j + 1 \in DOMAIN s /\ s[i + 1] = s[j + 1] BY <1>1
    <2>2. i + 1 = j + 1 BY <2>1 DEF Distinct
    <2> QED BY <1>1, <2>2
  <1>4. ToSet(Tail(s)) \subseteq ToSet(s) \ {Head(s)}
    <2> SUFFICES ASSUME NEW i \in DOMAIN Tail(s)
                 PROVE  Tail(s)[i] \in ToSet(s) /\ Tail(s)[i] # Head(s)
      BY DEF ToSet
    <2>1. i + 1 \in DOMAIN s /\ Tail(s)[i] = s[i + 1] /\ i + 1 # 1 BY <1>1
    <2> QED BY <1>1, <2>1 DEF ToSet, Distinct
  <1>5. ToSet(s) \ {Head(s)} \subseteq ToSet(Tail(s))
    <2> SUFFICES ASSUME NEW i \in DOMAIN s, s[i] # Head(s)
                 PROVE  s[i] \in ToSet(Tail(s))
      BY DEF ToSet
    <2>1. i # 1 /\ i - 1 \in 1..(Len(s) - 1) BY <1>1
    <2>2. Tail(s)[i - 1] = s[i] BY <1>1, <2>1
    <2> QED BY <1>1, <2>1, <2>2 DEF ToSet
  <1> QED BY <1>1, <1>2, <1>3, <1>4, <1>5

\* Adding a new row at the end of such a list.
LEMMA AddingARow ==
  ASSUME NEW s \in Seq(1..Rows), Distinct(s), NEW r \in 1..Rows, r \notin ToSet(s)
  PROVE  /\ Append(s, r) \in Seq(1..Rows) /\ Distinct(Append(s, r))
         /\ ToSet(Append(s, r)) = ToSet(s) \cup {r}
  <1> DEFINE a == Append(s, r)
  <1>1. /\ a \in Seq(1..Rows) /\ Len(s) \in Nat /\ DOMAIN s = 1..Len(s)
        /\ DOMAIN a = 1..(Len(s) + 1) /\ a[Len(s) + 1] = r
        /\ \A i \in 1..Len(s) : a[i] = s[i]
    OBVIOUS
  <1> HIDE DEF a
  <1>2. \A i \in DOMAIN s : s[i] # r BY DEF ToSet
  <1>3. Distinct(a) BY <1>1, <1>2 DEF Distinct
  <1>4. ToSet(a) = ToSet(s) \cup {r} BY <1>1 DEF ToSet
  <1> QED BY <1>1, <1>3, <1>4 DEF a

\* A single row, and none.
LEMMA FewRows ==
  /\ ToSet(<<>>) = {} /\ Distinct(<<>>)
  /\ \A r \in 1..Rows : <<r>> \in Seq(1..Rows) /\ ToSet(<<r>>) = {r} /\ Distinct(<<r>>)
  BY DEF ToSet, Distinct

\* The rows of a span are those it is named for, each once.
LEMMA SpanRows ==
  ASSUME NEW a \in Nat, NEW b \in Nat, b <= Rows
  PROVE  /\ RowSpan(a, b) \in Seq(1..Rows) /\ Distinct(RowSpan(a, b))
         /\ ToSet(RowSpan(a, b)) = (a + 1)..b
  <1> DEFINE s == RowSpan(a, b)
  <1>0. Rows \in Nat BY RowsAssumption
  <1>1. DOMAIN s = 1..(b - a) /\ \A i \in 1..(b - a) : s[i] = a + i /\ s[i] \in 1..Rows
    BY <1>0 DEF RowSpan
  <1>2. s \in Seq(1..Rows)
    <2> DEFINE n == IF a <= b THEN b - a ELSE 0
    <2>1. n \in Nat /\ 1..(b - a) = 1..n OBVIOUS
    <2>2. s = [i \in 1..n |-> a + i] BY <2>1 DEF RowSpan
    <2>3. \A i \in 1..n : a + i \in 1..Rows BY <1>1, <2>1
    <2> HIDE DEF s, n
    <2> QED BY <2>1, <2>2, <2>3
  <1>3. Distinct(s) BY <1>1 DEF Distinct
  <1>4. ToSet(s) = (a + 1)..b
    <2>1. ASSUME NEW r \in (a + 1)..b PROVE r \in ToSet(s)
      <3>1. r - a \in 1..(b - a) /\ a + (r - a) = r OBVIOUS
      <3>2. s[r - a] = r BY <1>1, <3>1
      <3> QED BY <1>1, <3>1, <3>2 DEF ToSet
    <2>2. ASSUME NEW r \in ToSet(s) PROVE r \in (a + 1)..b
      <3>1. PICK i \in DOMAIN s : s[i] = r BY <2>2 DEF ToSet
      <3> QED BY <1>1, <3>1
    <2> QED BY <2>1, <2>2
  <1> QED BY <1>2, <1>3, <1>4

(***************************************************************************)
(* Moving rows.                                                            *)
(***************************************************************************)
\* A worker with empty hands claims rows.
LEMMA ClaimingRows ==
  ASSUME NEW H, NEW U, NEW W, Split(H, U, W), H = [t \in Workers |-> H[t]],
         NEW t \in Workers, H[t] = {}, NEW S \in SUBSET U
  PROVE  Split([H EXCEPT ![t] = S], U \ S, W)
  BY DEF Split

\* A worker writes a row it holds.
LEMMA WritingARow ==
  ASSUME NEW H, NEW U, NEW W \in [1..Rows -> 0..1], Split(H, U, W),
         H = [t \in Workers |-> H[t]], NEW t \in Workers, NEW r \in H[t]
  PROVE  /\ W[r] = 0
         /\ Split([H EXCEPT ![t] = H[t] \ {r}], U, [W EXCEPT ![r] = 1])
  <1>1. r \in 1..Rows /\ r \notin U /\ W[r] # 1 BY DEF Split
  <1>2. W[r] = 0 BY <1>1
  <1> DEFINE G == [H EXCEPT ![t] = H[t] \ {r}]
             V == [W EXCEPT ![r] = 1]
  <1>3. \A u \in Workers : G[u] = IF u = t THEN H[t] \ {r} ELSE H[u] OBVIOUS
  <1>4. \A q \in 1..Rows : V[q] = IF q = r THEN 1 ELSE W[q] BY <1>1
  <1>5. \A u \in Workers : u # t => r \notin H[u] BY DEF Split
  <1> HIDE DEF G, V
  <1>6. \A q \in 1..Rows : V[q] = 1 <=> q \notin U /\ \A u \in Workers : q \notin G[u]
    BY <1>1, <1>3, <1>4, <1>5 DEF Split
  <1>7. Split(G, U, V) BY <1>3, <1>6 DEF Split
  <1> QED BY <1>2, <1>7 DEF G, V

\* What an untouched buffer looks like.
Untouched == [r \in 1..Rows |-> 0]

\* Nothing is handed out at first, or by a queue or a counter the whole pass.
LEMMA NothingHandedOut == Split([t \in Workers |-> {}], 1..Rows, Untouched)
  BY DEF Split, Untouched

\* Products of the size of a band keep the order of the workers.
LEMMA BandsInOrder ==
  ASSUME NEW a \in Nat, NEW b \in Nat, a <= b, NEW k \in Nat
  PROVE  a * k \in Nat /\ b * k \in Nat /\ a * k <= b * k
  <1>1. b - a \in Nat /\ (b - a) * k \in Nat OBVIOUS
  <1>2. b * k = a * k + (b - a) * k OBVIOUS
  <1>3. a * k \in Nat /\ b * k \in Nat OBVIOUS
  <1> QED BY <1>1, <1>2, <1>3

\* div_ceil: n bands of that size reach the last row.
LEMMA BandsReachTheEnd ==
  ASSUME NEW n \in Nat \ {0}, NEW h \in Nat \ {0}
  PROVE  /\ CeilDiv(h, n) \in Nat \ {0}
         /\ h <= n * CeilDiv(h, n)
  <1> DEFINE a == h + n - 1
             q == a \div n
  <1>1. a \in Nat /\ a >= n OBVIOUS
  <1>2. q \in Int /\ n * q <= a /\ a < n * q + n
    <2>1. \A x \in Nat : (x \div n) \in Int /\ n * (x \div n) <= x /\ x < n * (x \div n) + n
      OBVIOUS
    <2> HIDE DEF a
    <2> QED BY <1>1, <2>1
  <1>3. h <= n * q BY <1>2
  <1>4. q \in Nat \ {0}
    <2> SUFFICES ASSUME q <= 0 PROVE FALSE BY <1>2
    <2>1. n * q <= 0
      <3>1. -q \in Nat BY <1>2
      <3>2. n * (-q) \in Nat BY <3>1
      <3>3. n * q = -(n * (-q)) BY <1>2
      <3> HIDE DEF q
      <3> QED BY <1>2, <3>2, <3>3
    <2> QED BY <1>3, <2>1
  <1> QED BY <1>3, <1>4 DEF CeilDiv

\* The bands are of rows, overlap nowhere and leave out no row.
LEMMA BandsSplit ==
  /\ \A t \in Workers : Band(t) \in Seq(1..Rows) /\ Distinct(Band(t))
  /\ Split([t \in Workers |-> ToSet(Band(t))], {}, Untouched)
  <1> DEFINE n == Cardinality(Workers)
             k == CeilDiv(Rows, n)
  <1>1. n \in Nat \ {0} /\ Workers = 1..n /\ Rows \in Nat \ {0}
    <2>1. n \in Nat BY WorkersAssumption, FS_CardinalityType
    <2> QED BY <2>1, WorkersAssumption, RowsAssumption
  <1> HIDE DEF n
  <1>2. k \in Nat \ {0} /\ Rows <= n * k
    BY <1>1, BandsReachTheEnd
  <1>3. \A t \in Workers : Band(t) = RowSpan((t - 1) * k, Lesser(t * k, Rows))
    BY DEF Band, n
  <1> HIDE DEF k
  <1>4. ASSUME NEW t \in Workers
        PROVE  /\ (t - 1) * k \in Nat /\ t * k \in Nat
               /\ Band(t) \in Seq(1..Rows) /\ Distinct(Band(t))
               /\ ToSet(Band(t)) \subseteq 1..Rows
               /\ \A r \in 1..Rows : r \in ToSet(Band(t)) <=> (t - 1) * k < r /\ r <= t * k
    <2>1. t \in Nat /\ t - 1 \in Nat BY <1>1
    <2>2. (t - 1) * k \in Nat /\ t * k \in Nat BY <1>2, <2>1, BandsInOrder
    <2> DEFINE a == (t - 1) * k
               c == t * k
               b == Lesser(c, Rows)
    <2>3. a \in Nat /\ c \in Nat BY <2>2
    <2>4. Band(t) = RowSpan(a, b) BY <1>3
    <2> HIDE DEF a, c
    <2>5. b \in Nat /\ b <= Rows /\ \A r \in 1..Rows : r <= b <=> r <= c
      BY <1>1, <2>3 DEF Lesser
    <2> HIDE DEF b
    <2>6. /\ Band(t) \in Seq(1..Rows) /\ Distinct(Band(t))
          /\ ToSet(Band(t)) = (a + 1)..b
      BY <2>3, <2>4, <2>5, SpanRows
    <2>7. \A r \in 1..Rows : r \in ToSet(Band(t)) <=> a < r /\ r <= c
      <3> SUFFICES ASSUME NEW r \in 1..Rows
                   PROVE  r \in (a + 1)..b <=> a < r /\ r <= c
        BY <2>6
      <3>1. r \in Nat /\ (r <= b <=> r <= c) BY <1>1, <2>5
      <3> QED BY <2>3, <2>5, <3>1
    <2>8. ToSet(Band(t)) \subseteq 1..Rows BY <1>1, <2>3, <2>5, <2>6
    <2> QED BY <2>2, <2>6, <2>7, <2>8 DEF a, c
  <1>5. ASSUME NEW r \in 1..Rows
        PROVE  \E t \in Workers : r \in ToSet(Band(t))
    <2> DEFINE m == (r - 1) \div k
    <2>1. m \in Nat /\ m * k <= r - 1 /\ r - 1 < m * k + k
      <3>1. \A x \in Nat : (x \div k) \in Nat /\ (x \div k) * k <= x /\ x < (x \div k) * k + k
        BY <1>2
      <3>2. r - 1 \in Nat BY <1>1
      <3> QED BY <3>1, <3>2
    <2> HIDE DEF m
    <2>2. m < n
      <3> SUFFICES ASSUME n <= m PROVE FALSE BY <1>1, <2>1
      <3>1. n * k <= m * k BY <1>1, <1>2, <2>1, BandsInOrder
      <3>2. n * k \in Nat /\ m * k \in Nat BY <1>1, <1>2, <2>1, BandsInOrder
      <3> QED BY <1>1, <1>2, <2>1, <3>1, <3>2
    <2>3. m + 1 \in Workers BY <1>1, <2>1, <2>2
    <2>4. ((m + 1) - 1) * k = m * k /\ (m + 1) * k = m * k + k BY <1>2, <2>1
    <2>5. m * k \in Nat BY <1>2, <2>1, BandsInOrder
    <2>6. m * k < r /\ r <= m * k + k BY <1>1, <1>2, <2>1, <2>5
    <2>7. r \in ToSet(Band(m + 1)) BY <1>4, <2>3, <2>4, <2>6
    <2> QED BY <2>3, <2>7
  <1>6. ASSUME NEW t \in Workers, NEW u \in Workers, t < u
        PROVE  ToSet(Band(t)) \cap ToSet(Band(u)) = {}
    <2>1. t * k <= (u - 1) * k /\ t * k \in Nat /\ (u - 1) * k \in Nat
      BY <1>1, <1>2, <1>6, BandsInOrder
    <2>2. ToSet(Band(t)) \subseteq 1..Rows
      BY <1>4
    <2>3. ASSUME NEW r \in ToSet(Band(t)), r \in ToSet(Band(u)) PROVE FALSE
      <3>1. r \in 1..Rows BY <2>2
      <3>2. r <= t * k /\ (u - 1) * k < r BY <1>4, <2>3, <3>1
      <3> QED BY <1>1, <2>1, <3>1, <3>2
    <2> QED BY <2>3
  <1>7. \A t \in Workers : ToSet(Band(t)) \subseteq 1..Rows
    BY <1>4
  <1>8. \A t, u \in Workers : t # u => ToSet(Band(t)) \cap ToSet(Band(u)) = {}
    <2> SUFFICES ASSUME NEW t \in Workers, NEW u \in Workers, t # u
                 PROVE  ToSet(Band(t)) \cap ToSet(Band(u)) = {}
      OBVIOUS
    <2>1. t < u \/ u < t BY <1>1
    <2> QED BY <1>6, <2>1
  <1> DEFINE H == [t \in Workers |-> ToSet(Band(t))]
  <1>9. Split(H, {}, Untouched)
    BY <1>5, <1>7, <1>8 DEF Split, Untouched
  <1> QED BY <1>4, <1>9

(***************************************************************************)
(* The steps.                                                              *)
(***************************************************************************)
\* Steps that move no row: workers wait, wake or stop, a row passes from the
\* producer to the queue, the queue is sealed.
LEMMA NoRowMoves ==
  ASSUME RowTyped, NEW p \in Passes, RowInvAt(p),
         UNCHANGED <<dispatch, pass, cursor, hand, written>>,
         Unclaimed(p)' = Unclaimed(p),
         \A t \in Workers :
           \/ state'[t] = "running" \/ state'[t] = state[t]
           \/ hand[t] = <<>> /\ (state'[t] = "done" => Unclaimed(p) = {})
  PROVE  InPass(p)' /\ Split(Hands, Unclaimed(p), written[p])' /\ DoneInPass(p)'
  <1>1. InPass(p)' BY DEF RowInvAt, InPass, LastPass
  <1>2. Split(Hands, Unclaimed(p), written[p])'
    <2>1. Hands' = Hands /\ written'[p] = written[p] BY DEF Hands
    <2> QED BY <2>1 DEF RowInvAt, Split
  <1>3. DoneInPass(p)' BY DEF RowInvAt, DoneInPass
  <1> QED BY <1>1, <1>2, <1>3

\* push
LEMMA PushStep ==
  ASSUME RowTyped, NEW p \in Passes, RowInvAt(p), Push
  PROVE  RowTyped' /\ RowInvAt(p)'
  <1> DEFINE r == Head(unpushed)
  <1>1. /\ unpushed \in Seq(1..Rows) /\ unpushed # <<>> /\ Distinct(unpushed)
        /\ items \in Seq(1..Rows) /\ Distinct(items)
        /\ ToSet(items) \cap ToSet(unpushed) = {}
    BY DEF Push, RowTyped, RowInvAt, RowsAreListedOnce
  <1>2. /\ r \in 1..Rows /\ r \in ToSet(unpushed) /\ Tail(unpushed) \in Seq(1..Rows)
        /\ Distinct(Tail(unpushed)) /\ ToSet(Tail(unpushed)) = ToSet(unpushed) \ {r}
    BY <1>1, TakingTheFirst
  <1>3. r \notin ToSet(items) BY <1>1, <1>2
  <1>4. /\ Append(items, r) \in Seq(1..Rows) /\ Distinct(Append(items, r))
        /\ ToSet(Append(items, r)) = ToSet(items) \cup {r}
    BY <1>1, <1>2, <1>3, AddingARow
  <1>5. items' = Append(items, r) /\ unpushed' = Tail(unpushed)
    BY DEF Push
  <1>6. ~ sealed /\ dispatch = "open"
    BY <1>1 DEF RowInvAt, QueuesAreUsed
  <1>7. /\ state' \in [Workers -> {"running", "waiting", "done"}]
        /\ \A t \in Workers : state'[t] = "running" \/ state'[t] = state[t]
    BY DEF Push, Waiting, RowTyped
  <1>8. UNCHANGED <<dispatch, pass, sealed, woken, cursor, hand, written>>
    BY DEF Push
  <1> HIDE DEF r
  <1>9. Unclaimed(p)' = Unclaimed(p)
    BY <1>2, <1>4, <1>5, <1>8 DEF Unclaimed
  <1>10. RowTyped'
    BY <1>2, <1>4, <1>5, <1>7, <1>8 DEF RowTyped
  <1>11. RowsAreListedOnce'
    <2>1. ToSet(items') \cap ToSet(unpushed') = {} BY <1>1, <1>2, <1>4, <1>5
    <2> QED BY <1>2, <1>4, <1>5, <1>8, <2>1 DEF RowInvAt, RowsAreListedOnce
  <1>12. QueuesAreUsed'
    BY <1>6, <1>8 DEF QueuesAreUsed
  <1> QED BY <1>7, <1>8, <1>9, <1>10, <1>11, <1>12, NoRowMoves DEF RowInvAt

\* seal, and the notifications, wanted and spurious.
LEMMA SealAndWakeStep ==
  ASSUME RowTyped, NEW p \in Passes, RowInvAt(p),
         SetSealed \/ WakeAll \/ \E t \in Workers : WakeSpuriously(t)
  PROVE  RowTyped' /\ RowInvAt(p)'
  <1>1. UNCHANGED <<dispatch, pass, items, unpushed, cursor, hand, written>>
    BY DEF SetSealed, WakeAll, WakeSpuriously
  <1>2. /\ state' \in [Workers -> {"running", "waiting", "done"}]
        /\ \A t \in Workers : state'[t] = "running" \/ state'[t] = state[t]
    BY DEF SetSealed, WakeAll, WakeSpuriously, Waiting, RowTyped
  <1>3. sealed' \in BOOLEAN /\ (sealed => sealed') /\ (sealed' => sealed \/ unpushed = <<>>)
    <2>1. SetSealed => sealed' = TRUE /\ unpushed = <<>> BY DEF SetSealed
    <2>2. WakeAll \/ (\E t \in Workers : WakeSpuriously(t)) => sealed' = sealed
      BY DEF WakeAll, WakeSpuriously
    <2>3. sealed \in BOOLEAN BY DEF RowTyped
    <2>4. sealed' = sealed \/ (sealed' = TRUE /\ unpushed = <<>>) BY <2>1, <2>2, Zenon
    <2>5. CASE sealed' = sealed BY <2>3, <2>5
    <2>6. CASE sealed' = TRUE /\ unpushed = <<>> BY <2>6
    <2> QED BY <2>4, <2>5, <2>6
  <1>4. Unclaimed(p)' = Unclaimed(p) BY <1>1 DEF Unclaimed
  <1>5. RowTyped' BY <1>1, <1>2, <1>3 DEF RowTyped
  <1>6. RowsAreListedOnce' BY <1>1 DEF RowInvAt, RowsAreListedOnce
  <1>7. QueuesAreUsed' BY <1>1, <1>3 DEF RowInvAt, QueuesAreUsed
  <1> QED BY <1>1, <1>2, <1>4, <1>5, <1>6, <1>7, NoRowMoves DEF RowInvAt

\* A worker that finds nothing more for it stops, or waits.
LEMMA NothingFound ==
  ASSUME RowTyped, NEW p \in Passes, RowInvAt(p), NEW t \in Workers, hand[t] = <<>>,
         NEW x \in {"waiting", "done"}, x = "done" => Unclaimed(p) = {},
         state' = [state EXCEPT ![t] = x],
         UNCHANGED <<dispatch, pass, items, sealed, unpushed, cursor, hand, written>>
  PROVE  RowTyped' /\ RowInvAt(p)'
  <1>1. Unclaimed(p)' = Unclaimed(p) BY DEF Unclaimed
  <1>2. \A u \in Workers : state'[u] = IF u = t THEN x ELSE state[u] BY DEF RowTyped
  <1>3. RowTyped' BY DEF RowTyped
  <1>4. RowsAreListedOnce' BY DEF RowInvAt, RowsAreListedOnce
  <1>5. QueuesAreUsed' BY DEF RowInvAt, QueuesAreUsed
  <1> QED BY <1>1, <1>2, <1>3, <1>4, <1>5, NoRowMoves DEF RowInvAt

\* A worker with empty hands gets the rows of h, which were unclaimed.
LEMMA RowsHandedOut ==
  ASSUME RowTyped, NEW p \in Passes, RowInvAt(p), NEW t \in Workers,
         state[t] = "running", hand[t] = <<>>,
         NEW h \in Seq(1..Rows), Distinct(h), ToSet(h) \subseteq Unclaimed(p),
         hand' = [hand EXCEPT ![t] = h],
         Unclaimed(p)' = Unclaimed(p) \ ToSet(h),
         cursor' \in [Passes -> Nat], \A q \in Passes \ {p} : cursor'[q] = cursor[q],
         items' \in Seq(1..Rows), Distinct(items'), ToSet(items') \subseteq ToSet(items),
         items = <<>> => items' = <<>>,
         UNCHANGED <<dispatch, pass, sealed, unpushed, state, written>>
  PROVE  RowTyped' /\ RowInvAt(p)'
  <1>1. RowTyped' BY DEF RowTyped
  <1>2. InPass(p)'
    BY DEF RowInvAt, InPass, LastPass, Passes
  <1>3. Split(Hands, Unclaimed(p), written[p])'
    <2>1. Hands[t] = {} BY FewRows DEF Hands
    <2>2. Hands = [u \in Workers |-> Hands[u]] BY DEF Hands
    <2>3. Split([Hands EXCEPT ![t] = ToSet(h)], Unclaimed(p) \ ToSet(h), written[p])
      BY <2>1, <2>2, ClaimingRows DEF RowInvAt
    <2>4. Hands' = [Hands EXCEPT ![t] = ToSet(h)] BY DEF Hands, RowTyped
    <2>5. written'[p] = written[p] OBVIOUS
    <2> QED BY <2>3, <2>4, <2>5 DEF Split
  <1>4. RowsAreListedOnce'
    <2>1. \A u \in Workers : hand'[u] = IF u = t THEN h ELSE hand[u] BY DEF RowTyped
    <2>2. ToSet(items') \cap ToSet(unpushed') = {} BY DEF RowInvAt, RowsAreListedOnce
    <2> QED BY <2>1, <2>2 DEF RowInvAt, RowsAreListedOnce
  <1>5. QueuesAreUsed' BY DEF RowInvAt, QueuesAreUsed
  <1>6. DoneInPass(p)'
    <2>1. \A u \in Workers : u # t => hand'[u] = hand[u] BY DEF RowTyped
    <2>2. Unclaimed(p) = {} => Unclaimed(p)' = {} OBVIOUS
    <2> QED BY <2>1, <2>2 DEF RowInvAt, DoneInPass
  <1> QED BY <1>1, <1>2, <1>3, <1>4, <1>5, <1>6 DEF RowInvAt

\* pop
LEMMA PopStep ==
  ASSUME RowTyped, NEW p \in Passes, RowInvAt(p), NEW t \in Workers, Pop(t)
  PROVE  RowTyped' /\ RowInvAt(p)'
  <1>1. /\ dispatch \in {"queue", "open"} /\ state[t] = "running" /\ hand[t] = <<>>
        /\ UNCHANGED <<dispatch, pass, sealed, unpushed, woken, cursor, written>>
    BY DEF Pop, Idle
  <1>2. /\ items \in Seq(1..Rows) /\ Distinct(items)
        /\ ToSet(items) \cap ToSet(unpushed) = {}
    BY DEF RowTyped, RowInvAt, RowsAreListedOnce
  <1>3. Unclaimed(p) = ToSet(items) \cup ToSet(unpushed)
    BY <1>1 DEF Unclaimed
  <1>4. CASE items # <<>>
    <2> DEFINE r == Head(items)
               h == <<r>>
    <2>1. /\ r \in 1..Rows /\ r \in ToSet(items) /\ Tail(items) \in Seq(1..Rows)
          /\ Distinct(Tail(items)) /\ ToSet(Tail(items)) = ToSet(items) \ {r}
      BY <1>2, <1>4, TakingTheFirst
    <2>2. /\ hand' = [hand EXCEPT ![t] = h] /\ items' = Tail(items) /\ state' = state
      BY <1>4 DEF Pop
    <2> HIDE DEF r
    <2>3. h \in Seq(1..Rows) /\ ToSet(h) = {r} /\ Distinct(h) BY <2>1, FewRows
    <2> HIDE DEF h
    <2>4. Unclaimed(p)' = ToSet(items') \cup ToSet(unpushed')
      BY <1>1 DEF Unclaimed
    <2>5. Unclaimed(p)' = Unclaimed(p) \ ToSet(h)
      BY <1>1, <1>2, <1>3, <2>1, <2>2, <2>3, <2>4
    <2>6. ToSet(h) \subseteq Unclaimed(p) BY <1>3, <2>1, <2>3
    <2>7. /\ cursor' \in [Passes -> Nat] /\ \A q \in Passes \ {p} : cursor'[q] = cursor[q]
          /\ items' \in Seq(1..Rows) /\ Distinct(items') /\ ToSet(items') \subseteq ToSet(items)
      BY <1>1, <2>1, <2>2 DEF RowTyped
    <2> QED BY <1>1, <1>4, <2>2, <2>3, <2>5, <2>6, <2>7, RowsHandedOut
  <1>5. CASE items = <<>>
    <2> DEFINE x == IF sealed THEN "done" ELSE "waiting"
    <2>1. state' = [state EXCEPT ![t] = x] /\ UNCHANGED <<items, hand>>
      BY <1>5 DEF Pop
    <2>2. x = "done" => Unclaimed(p) = {}
      BY <1>3, <1>5, FewRows DEF RowInvAt, QueuesAreUsed
    <2>3. x \in {"waiting", "done"} OBVIOUS
    <2> HIDE DEF x
    <2> QED BY <1>1, <2>1, <2>2, <2>3, NothingFound
  <1> QED BY <1>4, <1>5

\* claim_rows: the counter of the pass moves past the rows it gave.
LEMMA ClaimStep ==
  ASSUME RowTyped, NEW p \in Passes, RowInvAt(p), NEW t \in Workers, Claim(t)
  PROVE  RowTyped' /\ RowInvAt(p)'
  <1> DEFINE start == cursor[p]
             stop  == Lesser(start + Chunk, Rows)
             h     == RowSpan(start, stop)
  <1>1. /\ dispatch \in {"cursor", "pool"} /\ state[t] = "running" /\ hand[t] = <<>>
        /\ UNCHANGED <<dispatch, pass, items, sealed, unpushed, woken, written>>
    BY DEF Claim, Idle
  <1>2. pass[t] = p BY DEF RowInvAt, InPass
  <1>3. start \in Nat /\ Rows \in Nat /\ Chunk \in Nat /\ Chunk # 0
    BY RowsAssumption DEF RowTyped
  <1>4. cursor' = [cursor EXCEPT ![p] = start + Chunk]
    BY <1>2 DEF Claim
  <1>5. /\ cursor' \in [Passes -> Nat] /\ cursor'[p] = start + Chunk
        /\ \A q \in Passes \ {p} : cursor'[q] = cursor[q]
    BY <1>3, <1>4 DEF RowTyped
  <1>6. items = <<>> /\ unpushed = <<>>
    BY <1>1 DEF RowInvAt, QueuesAreUsed
  <1>7. /\ Unclaimed(p) = {r \in 1..Rows : r > start}
        /\ Unclaimed(p)' = {r \in 1..Rows : r > start + Chunk}
    <2>1. ToSet(items) = {} /\ ToSet(unpushed) = {} BY <1>6, FewRows
    <2>2. ToSet(items') = {} /\ ToSet(unpushed') = {} BY <1>1, <2>1
    <2> QED BY <1>1, <1>5, <2>1, <2>2 DEF Unclaimed
  <1>8. CASE start >= Rows
    <2>1. state' = [state EXCEPT ![t] = "done"] /\ UNCHANGED hand
      BY <1>2, <1>8 DEF Claim
    <2>2. Unclaimed(p) = {} /\ Unclaimed(p)' = {}
      BY <1>3, <1>7, <1>8
    <2>3. \A u \in Workers : state'[u] = IF u = t THEN "done" ELSE state[u]
      BY <2>1 DEF RowTyped
    <2>4. RowTyped' BY <1>1, <1>5, <2>1 DEF RowTyped
    <2>5. InPass(p)'
      <3>1. UNCHANGED <<dispatch, pass, written>> BY <1>1
      <3>2. \A q \in Passes : q > p => cursor'[q] = cursor[q] BY <1>5 DEF Passes
      <3> QED BY <3>1, <3>2 DEF RowInvAt, InPass, LastPass
    <2>6. Split(Hands, Unclaimed(p), written[p])'
      <3>1. Hands' = Hands /\ written'[p] = written[p] BY <1>1, <2>1 DEF Hands
      <3> QED BY <2>2, <3>1 DEF RowInvAt, Split
    <2>7. RowsAreListedOnce' BY <1>1, <2>1 DEF RowInvAt, RowsAreListedOnce
    <2>8. QueuesAreUsed' BY <1>1 DEF RowInvAt, QueuesAreUsed
    <2>9. DoneInPass(p)' BY <1>1, <2>1, <2>2, <2>3 DEF RowInvAt, DoneInPass
    <2> QED BY <2>4, <2>5, <2>6, <2>7, <2>8, <2>9 DEF RowInvAt
  <1>9. CASE ~ (start >= Rows)
    <2>1. hand' = [hand EXCEPT ![t] = h] /\ state' = state
      BY <1>2, <1>9 DEF Claim
    <2>2. stop \in Nat /\ stop <= Rows /\ stop <= start + Chunk
          /\ (stop = Rows \/ stop = start + Chunk)
      BY <1>3 DEF Lesser
    <2>3. h \in Seq(1..Rows) /\ Distinct(h) /\ ToSet(h) = (start + 1)..stop
      BY <1>3, <2>2, SpanRows
    <2> HIDE DEF start, stop, h
    <2>4. ToSet(h) \subseteq Unclaimed(p) BY <1>3, <1>7, <2>2, <2>3
    <2>5. Unclaimed(p)' = Unclaimed(p) \ ToSet(h)
      <3>1. ASSUME NEW r \in 1..Rows
            PROVE  r > start + Chunk <=> r > start /\ r \notin (start + 1)..stop
        BY <1>3, <2>2
      <3> QED BY <1>7, <2>3, <3>1
    <2>6. items' = items /\ items \in Seq(1..Rows) /\ Distinct(items)
      BY <1>1 DEF RowTyped, RowInvAt, RowsAreListedOnce
    <2> QED BY <1>1, <1>5, <2>1, <2>3, <2>4, <2>5, <2>6, RowsHandedOut
  <1> QED BY <1>8, <1>9

\* The end of a band.
LEMMA EndBandStep ==
  ASSUME RowTyped, NEW p \in Passes, RowInvAt(p), NEW t \in Workers, EndBand(t)
  PROVE  RowTyped' /\ RowInvAt(p)'
  <1>1. /\ dispatch = "band" /\ hand[t] = <<>> /\ state' = [state EXCEPT ![t] = "done"]
        /\ UNCHANGED <<dispatch, pass, items, sealed, unpushed, woken, cursor, hand, written>>
    BY DEF EndBand, Idle
  <1>2. items = <<>> /\ unpushed = <<>>
    BY <1>1 DEF RowInvAt, QueuesAreUsed
  <1>3. Unclaimed(p) = {} BY <1>1, <1>2, FewRows DEF Unclaimed
  <1> QED BY <1>1, <1>3, NothingFound

\* bright_row, hblur_row, vblur_row: the row was not written before.
LEMMA WriteStep ==
  ASSUME RowTyped, NEW p \in Passes, RowInvAt(p), NEW t \in Workers, WriteRow(t)
  PROVE  RowTyped' /\ RowInvAt(p)'
  <1> DEFINE r == Head(hand[t])
             h == Tail(hand[t])
             W == written[p]
  <1>1. /\ state[t] = "running" /\ hand[t] # <<>> /\ hand[t] \in Seq(1..Rows)
        /\ Distinct(hand[t]) /\ W \in [1..Rows -> 0..1] /\ pass[t] = p
        /\ UNCHANGED <<dispatch, pass, items, sealed, unpushed, woken, cursor, state>>
    BY DEF WriteRow, RowTyped, RowInvAt, RowsAreListedOnce, InPass
  <1>2. /\ r \in 1..Rows /\ r \in ToSet(hand[t]) /\ h \in Seq(1..Rows)
        /\ Distinct(h) /\ ToSet(h) = ToSet(hand[t]) \ {r}
    BY <1>1, TakingTheFirst
  <1>3. hand' = [hand EXCEPT ![t] = h] BY DEF WriteRow
  <1>4. /\ Hands[t] = ToSet(hand[t]) /\ Hands = [u \in Workers |-> Hands[u]]
        /\ Split(Hands, Unclaimed(p), W)
    BY DEF Hands, RowInvAt
  <1>5. /\ W[r] = 0
        /\ Split([Hands EXCEPT ![t] = Hands[t] \ {r}], Unclaimed(p), [W EXCEPT ![r] = 1])
    <2> HIDE DEF W, r
    <2> QED BY <1>1, <1>2, <1>4, WritingARow
  <1>6. written' = [written EXCEPT ![p] = [W EXCEPT ![r] = 1]]
    <2>1. written' = [written EXCEPT ![p] = [W EXCEPT ![r] = W[r] + 1]]
      BY <1>1 DEF WriteRow, RowTyped
    <2>2. W[r] + 1 = 1 BY <1>5
    <2> QED BY <2>1, <2>2
  <1>7. /\ written' \in [Passes -> [1..Rows -> 0..1]]
        /\ written'[p] = [W EXCEPT ![r] = 1]
        /\ \A q \in Passes \ {p} : written'[q] = written[q]
    <2> DEFINE V == [W EXCEPT ![r] = 1]
    <2>1. V \in [1..Rows -> 0..1] BY <1>1, <1>2
    <2> HIDE DEF V
    <2>2. written' = [written EXCEPT ![p] = V] BY <1>6 DEF V
    <2>3. /\ written' \in [Passes -> [1..Rows -> 0..1]] /\ written'[p] = V
          /\ \A q \in Passes \ {p} : written'[q] = written[q]
      BY <2>1, <2>2 DEF RowTyped
    <2> QED BY <2>3 DEF V
  <1> HIDE DEF r, h, W
  <1>8. RowTyped' BY <1>1, <1>2, <1>3, <1>7 DEF RowTyped
  <1>9. InPass(p)'
    BY <1>1, <1>7 DEF RowInvAt, InPass, LastPass, Passes
  <1>10. Split(Hands, Unclaimed(p), written[p])'
    <2>1. Hands' = [Hands EXCEPT ![t] = Hands[t] \ {r}]
      BY <1>2, <1>3, <1>4 DEF Hands, RowTyped
    <2>2. Unclaimed(p)' = Unclaimed(p) BY <1>1 DEF Unclaimed
    <2> QED BY <1>5, <1>7, <2>1, <2>2 DEF Split
  <1>11. \A u \in Workers : hand'[u] = IF u = t THEN h ELSE hand[u]
    BY <1>3 DEF RowTyped
  <1>12. RowsAreListedOnce'
    BY <1>1, <1>2, <1>11 DEF RowInvAt, RowsAreListedOnce
  <1>13. QueuesAreUsed' BY <1>1 DEF RowInvAt, QueuesAreUsed
  <1>14. DoneInPass(p)'
    <2>1. Unclaimed(p)' = Unclaimed(p) BY <1>1 DEF Unclaimed
    <2> QED BY <1>1, <1>11, <2>1 DEF RowInvAt, DoneInPass
  <1> QED BY <1>8, <1>9, <1>10, <1>12, <1>13, <1>14 DEF RowInvAt

\* A pass begins: every row is to be handed out once, none is written.
PassBeginning(p) ==
  /\ RowTyped /\ InPass(p) /\ QueuesAreUsed
  /\ written[p] = Untouched /\ cursor[p] = 0
  /\ items = (IF dispatch = "queue" THEN AllRows ELSE <<>>)
  /\ unpushed = (IF dispatch = "open" THEN AllRows ELSE <<>>)
  /\ hand = [t \in Workers |-> IF dispatch = "band" THEN Band(t) ELSE <<>>]
  /\ state = [t \in Workers |-> "running"]

\* What the invariant says then.
LEMMA PassBegins ==
  ASSUME NEW CONSTANT p \in Passes, PassBeginning(p)
  PROVE  RowInvAt(p)
  <1>0. /\ RowTyped /\ InPass(p) /\ QueuesAreUsed
        /\ written[p] = Untouched
        /\ items = (IF dispatch = "queue" THEN AllRows ELSE <<>>)
        /\ unpushed = (IF dispatch = "open" THEN AllRows ELSE <<>>)
        /\ hand = [t \in Workers |-> IF dispatch = "band" THEN Band(t) ELSE <<>>]
        /\ state = [t \in Workers |-> "running"] /\ cursor[p] = 0
    BY DEF PassBeginning
  <1>1. Rows \in Nat /\ dispatch \in Dispatches BY <1>0, RowsAssumption DEF RowTyped
  <1>2. AllRows \in Seq(1..Rows) /\ Distinct(AllRows) /\ ToSet(AllRows) = 1..Rows
    <2>1. 0 + 1 = 1 OBVIOUS
    <2> QED BY <1>1, <2>1, SpanRows DEF AllRows
  <1>3. RowsAreListedOnce
    BY <1>0, <1>2, FewRows, BandsSplit DEF RowsAreListedOnce
  <1>4. DoneInPass(p) BY <1>0 DEF DoneInPass
  <1>5. Split(Hands, Unclaimed(p), written[p])
    <2>1. CASE dispatch = "band"
      <3>1. Hands = [t \in Workers |-> ToSet(Band(t))] BY <1>0, <2>1 DEF Hands
      <3>2. Unclaimed(p) = {} BY <1>0, <2>1, FewRows DEF Unclaimed
      <3> QED BY <1>0, <3>1, <3>2, BandsSplit
    <2>2. CASE dispatch # "band"
      <3>1. Hands = [t \in Workers |-> {}] BY <1>0, <2>2, FewRows DEF Hands
      <3>2. Unclaimed(p) = 1..Rows
        <4>1. CASE dispatch = "queue" BY <1>0, <1>2, <4>1, FewRows DEF Unclaimed
        <4>2. CASE dispatch = "open" BY <1>0, <1>2, <4>2, FewRows DEF Unclaimed
        <4>3. CASE dispatch \in {"cursor", "pool"}
          <5>1. \A r \in 1..Rows : r > 0 OBVIOUS
          <5>2. items = <<>> /\ unpushed = <<>> BY <1>0, <4>3
          <5> QED BY <1>0, <4>3, <5>1, <5>2, FewRows DEF Unclaimed
        <4> QED BY <1>1, <2>2, <4>1, <4>2, <4>3 DEF Dispatches
      <3> QED BY <1>0, <3>1, <3>2, NothingHandedOut
    <2> QED BY <2>1, <2>2
  <1> QED BY <1>0, <1>3, <1>4, <1>5 DEF RowInvAt

\* The same of the state a step leads to.
LEMMA PassBeginsNext ==
  ASSUME NEW CONSTANT p \in Passes
  PROVE  (PassBeginning(p) => RowInvAt(p))'
  <1>1. PassBeginning(p) => RowInvAt(p) BY PassBegins
  <1> QED BY <1>1, PTL

\* When every worker is done, so is the pass.
LEMMA DonePassIsWritten ==
  ASSUME RowTyped, NEW p \in Passes, RowInvAt(p), \A t \in Workers : state[t] = "done"
  PROVE  \A r \in 1..Rows : written[p][r] = 1
  <1>1. PICK t \in Workers : TRUE BY WorkersAssumption
  <1>2. Unclaimed(p) = {} /\ \A u \in Workers : hand[u] = <<>>
    BY <1>1 DEF RowInvAt, DoneInPass
  <1>3. \A u \in Workers : Hands[u] = {} BY <1>2, FewRows DEF Hands
  <1> QED BY <1>2, <1>3 DEF RowInvAt, Split

\* The join of a scope, or the barrier, between two passes.
LEMMA NextPassStep ==
  ASSUME RowTyped, NEW p \in Passes, RowInvAt(p), NextPass
  PROVE  RowTyped' /\ p + 1 \in Passes /\ RowInvAt(p + 1)'
  <1> DEFINE q == p + 1
  <1>1. /\ \A t \in Workers : state[t] = "done" /\ pass[t] = p /\ p < LastPass
        /\ pass' = [t \in Workers |-> pass[t] + 1]
        /\ items' = IF dispatch = "queue" THEN AllRows ELSE items
        /\ hand' = [t \in Workers |-> IF dispatch = "band" THEN Band(t) ELSE <<>>]
        /\ state' = [t \in Workers |-> "running"]
        /\ UNCHANGED <<dispatch, sealed, unpushed, woken, cursor, written>>
    BY DEF NextPass, RowInvAt, InPass
  <1>2. p < LastPass /\ \E t \in Workers : TRUE BY <1>1, WorkersAssumption
  <1>3. dispatch # "open" /\ LastPass = 3 /\ q \in Passes /\ q <= LastPass
    BY <1>2 DEF LastPass, Passes
  <1>4. items = <<>> \/ dispatch = "queue"
    BY <1>3 DEF RowInvAt, QueuesAreUsed
  <1>5. sealed /\ unpushed = <<>> BY <1>3 DEF RowInvAt, QueuesAreUsed
  <1>6. AllRows \in Seq(1..Rows)
    <2>1. Rows \in Nat BY RowsAssumption
    <2> QED BY <2>1, SpanRows DEF AllRows
  <1>7. \A t \in Workers : Band(t) \in Seq(1..Rows) BY BandsSplit
  <1>8. RowTyped'
    <2>1. pass' \in [Workers -> Passes] BY <1>1, <1>3
    <2>2. items' \in Seq(1..Rows) BY <1>1, <1>6 DEF RowTyped
    <2>3. hand' \in [Workers -> Seq(1..Rows)]
      <3>1. <<>> \in Seq(1..Rows) OBVIOUS
      <3>2. \A t \in Workers : (IF dispatch = "band" THEN Band(t) ELSE <<>>) \in Seq(1..Rows)
        BY <1>7, <3>1
      <3> QED BY <1>1, <3>2
    <2>4. state' \in [Workers -> {"running", "waiting", "done"}] BY <1>1
    <2> QED BY <1>1, <2>1, <2>2, <2>3, <2>4 DEF RowTyped
  <1>9. InPass(q)'
    <2>1. \A t \in Workers : pass'[t] = q BY <1>1
    <2>2. \A r \in 1..Rows : written[p][r] = 1 BY <1>1, DonePassIsWritten
    <2>3. \A x \in Passes : x < q => x < p \/ x = p BY DEF Passes
    <2>4. \A x \in Passes : x > q => x > p BY DEF Passes
    <2> HIDE DEF q
    <2>5. UNCHANGED <<dispatch, cursor, written>> BY <1>1
    <2> QED BY <1>3, <2>1, <2>2, <2>3, <2>4, <2>5 DEF RowInvAt, InPass, LastPass
  <1>10. written'[q] = Untouched /\ cursor'[q] = 0
    <2>1. q > p BY DEF Passes
    <2>2. written[q] \in [1..Rows -> 0..1] BY <1>3 DEF RowTyped
    <2>3. cursor[q] = 0 /\ \A r \in 1..Rows : written[q][r] = 0
      BY <1>3, <2>1 DEF RowInvAt, InPass
    <2> HIDE DEF q
    <2>4. written[q] = Untouched BY <2>2, <2>3 DEF Untouched
    <2> QED BY <1>1, <2>3, <2>4
  <1>11. QueuesAreUsed' BY <1>1, <1>3, <1>4, <1>5 DEF RowInvAt, QueuesAreUsed
  <1>12. /\ items' = (IF dispatch' = "queue" THEN AllRows ELSE <<>>)
         /\ unpushed' = (IF dispatch' = "open" THEN AllRows ELSE <<>>)
         /\ hand' = [t \in Workers |-> IF dispatch' = "band" THEN Band(t) ELSE <<>>]
    BY <1>1, <1>3, <1>4, <1>5
  <1> HIDE DEF q
  <1>13. (PassBeginning(q) => RowInvAt(q))' BY <1>3, PassBeginsNext
  <1>14. RowInvAt(q)'
    BY <1>1, <1>8, <1>9, <1>10, <1>11, <1>12, <1>13 DEF PassBeginning
  <1> QED BY <1>3, <1>8, <1>14 DEF q

\* The invariant of the passes, for all five ways rows are handed out.
THEOREM RowInvariant == RowSpec => []RowInv
  <1>1. RowInit => RowInv
    <2> SUFFICES ASSUME RowInit PROVE RowInv OBVIOUS
    <2>1. Rows \in Nat BY RowsAssumption
    <2>2. AllRows \in Seq(1..Rows) BY <2>1, SpanRows DEF AllRows
    <2>3. \A t \in Workers : Band(t) \in Seq(1..Rows) BY BandsSplit
    <2>4. RowTyped
      <3>1. <<>> \in Seq(1..Rows) OBVIOUS
      <3>2. items \in Seq(1..Rows) /\ unpushed \in Seq(1..Rows)
        BY <2>2, <3>1 DEF RowInit
      <3>3. \A t \in Workers : (IF dispatch = "band" THEN Band(t) ELSE <<>>) \in Seq(1..Rows)
        BY <2>3, <3>1
      <3>4. hand \in [Workers -> Seq(1..Rows)] BY <3>3 DEF RowInit
      <3> QED BY <3>2, <3>4 DEF RowInit, RowTyped, Passes
    <2>5. InPass(1)
      BY DEF RowInit, InPass, LastPass, Passes
    <2>6. QueuesAreUsed BY DEF RowInit, QueuesAreUsed
    <2>7. 1 \in Passes /\ written[1] = Untouched /\ cursor[1] = 0
      BY DEF RowInit, Passes, Untouched
    <2>8. RowInvAt(1) BY <2>4, <2>5, <2>6, <2>7, PassBegins DEF RowInit, PassBeginning
    <2> QED BY <2>4, <2>7, <2>8 DEF RowInv
  <1>2. RowInv /\ [RowNext]_rowVars => RowInv'
    <2> SUFFICES ASSUME RowInv, [RowNext]_rowVars PROVE RowInv' OBVIOUS
    <2>1. RowTyped BY DEF RowInv
    <2>2. PICK p \in Passes : RowInvAt(p) BY DEF RowInv
    <2>3. CASE Push BY <2>1, <2>2, <2>3, PushStep DEF RowInv
    <2>4. CASE SetSealed \/ WakeAll \/ \E t \in Workers : WakeSpuriously(t)
      BY <2>1, <2>2, <2>4, SealAndWakeStep DEF RowInv
    <2>5. CASE NextPass BY <2>1, <2>2, <2>5, NextPassStep DEF RowInv
    <2>6. ASSUME NEW t \in Workers, WorkerStep(t) PROVE RowInv'
      <3>1. CASE Pop(t) BY <2>1, <2>2, <3>1, PopStep DEF RowInv
      <3>2. CASE Claim(t) BY <2>1, <2>2, <3>2, ClaimStep DEF RowInv
      <3>3. CASE EndBand(t) BY <2>1, <2>2, <3>3, EndBandStep DEF RowInv
      <3>4. CASE WriteRow(t) BY <2>1, <2>2, <3>4, WriteStep DEF RowInv
      <3> QED BY <2>6, <3>1, <3>2, <3>3, <3>4 DEF WorkerStep
    <2>7. CASE UNCHANGED rowVars
      <3>1. Unclaimed(p)' = Unclaimed(p) /\ Hands' = Hands
        BY <2>7 DEF rowVars, Unclaimed, Hands
      <3>2. RowTyped' BY <2>1, <2>7 DEF rowVars, RowTyped
      <3>3. InPass(p)' /\ RowsAreListedOnce' /\ QueuesAreUsed'
        BY <2>2, <2>7 DEF rowVars, RowInvAt, InPass, LastPass, RowsAreListedOnce, QueuesAreUsed
      <3>4. Split(Hands, Unclaimed(p), written[p])'
        BY <2>2, <2>7, <3>1 DEF rowVars, RowInvAt, Split
      <3>5. DoneInPass(p)' BY <2>2, <2>7, <3>1 DEF rowVars, RowInvAt, DoneInPass
      <3> QED BY <3>2, <3>3, <3>4, <3>5 DEF RowInv, RowInvAt
    <2> QED BY <2>3, <2>4, <2>5, <2>6, <2>7 DEF RowNext
  <1> QED BY <1>1, <1>2, PTL DEF RowSpec

\* No row of a buffer is in two hands or written again, and a worker reads the
\* buffer of the pass before only when every row of it is written (the SAFETY
\* comments of run_rows and par_rows).
THEOREM RowsStayExclusive == RowSpec => []RowsAreExclusive
  <1>1. RowInv => RowsAreExclusive
    <2> SUFFICES ASSUME RowInv, NEW t \in Workers, NEW i \in DOMAIN hand[t]
                 PROVE  LET row == hand[t][i] IN
                          /\ written[pass[t]][row] = 0
                          /\ \A u \in Workers \ {t} :
                               pass[u] = pass[t] => row \notin ToSet(hand[u])
                          /\ pass[t] > 1 => \A r \in 1..Rows : written[pass[t] - 1][r] = 1
      BY DEF RowsAreExclusive
    <2>1. PICK p \in Passes : RowInvAt(p) BY DEF RowInv
    <2>2. pass[t] = p /\ written[p] \in [1..Rows -> 0..1]
      BY <2>1 DEF RowInv, RowTyped, RowInvAt, InPass
    <2> DEFINE row == hand[t][i]
    <2>3. row \in Hands[t] BY DEF Hands, ToSet
    <2>4. row \in 1..Rows /\ written[p][row] # 1
      BY <2>1, <2>3 DEF RowInvAt, Split
    <2>5. written[p][row] = 0
      <3> HIDE DEF row
      <3>1. written[p][row] \in 0..1 BY <2>2, <2>4
      <3> QED BY <2>4, <3>1
    <2>6. \A u \in Workers \ {t} : row \notin ToSet(hand[u])
      <3>1. \A u \in Workers \ {t} : row \notin Hands[u]
        BY <2>1, <2>3 DEF RowInvAt, Split
      <3> QED BY <3>1 DEF Hands
    <2>7. p > 1 => p - 1 \in Passes /\ p - 1 < p BY DEF Passes
    <2>8. p > 1 => \A r \in 1..Rows : written[p - 1][r] = 1
      BY <2>1, <2>7 DEF RowInvAt, InPass
    <2> QED BY <2>2, <2>5, <2>6, <2>8
  <1> QED BY <1>1, RowInvariant, PTL

\* When every worker has come back from the last pass, every row of the frame
\* is written: what is left to liveness is that they come back.
THEOREM FramesAreWritten ==
  RowSpec => []((\A t \in Workers : state[t] = "done" /\ pass[t] = LastPass) => RowsFinished)
  <1>1. RowInv => ((\A t \in Workers : state[t] = "done" /\ pass[t] = LastPass) => RowsFinished)
    <2> SUFFICES ASSUME RowInv, \A t \in Workers : state[t] = "done" /\ pass[t] = LastPass
                 PROVE  RowsFinished
      OBVIOUS
    <2>1. PICK p \in Passes : RowInvAt(p) BY DEF RowInv
    <2>2. p = LastPass BY <2>1, WorkersAssumption DEF RowInvAt, InPass
    <2>3. \A r \in 1..Rows : written[p][r] = 1
      BY <2>1, DonePassIsWritten DEF RowInv
    <2> QED BY <2>2, <2>3 DEF RowsFinished
  <1> QED BY <1>1, RowInvariant, PTL

(***************************************************************************)
(* Lanes and tiles (FrameParts).  Dividing a row by the size of a band, or *)
(* a place by the edge of a tile, names the one part that holds it; what   *)
(* is left is linear arithmetic about the bounds of that part.             *)
(***************************************************************************)
LEMMA DivMod ==
  ASSUME NEW a \in Nat, NEW b \in Nat \ {0}
  PROVE  /\ a \div b \in Nat /\ a % b \in Nat /\ a % b < b
         /\ a = b * (a \div b) + (a % b)
OBVIOUS

\* A quotient is known by its interval.
LEMMA DivIs ==
  ASSUME NEW a \in Nat, NEW b \in Nat \ {0}, NEW q \in Nat, b * q <= a, a < b * q + b
  PROVE  a \div b = q
<1> DEFINE d == a \div b
           r == a % b
<1>1. d \in Nat /\ r \in Nat /\ r < b /\ a = b * d + r
  BY DivMod
<1> HIDE DEF d, r
<1>2. CASE d < q
  <2>1. d + 1 <= q
    BY <1>1, <1>2
  <2>2. b * (d + 1) <= b * q
    BY <1>1, <2>1
  <2>3. b * (d + 1) = b * d + b
    BY <1>1
  <2> QED  BY <1>1, <2>2, <2>3
<1>3. CASE q < d
  <2>1. q + 1 <= d
    BY <1>1, <1>3
  <2>2. b * (q + 1) <= b * d
    BY <1>1, <2>1
  <2>3. b * (q + 1) = b * q + b
    BY <1>1
  <2> QED  BY <1>1, <2>2, <2>3
<1>4. d = q
  BY <1>1, <1>2, <1>3
<1> QED  BY <1>4 DEF d


LEMMA CeilDivBounds ==
  ASSUME NEW a \in Nat, NEW b \in Nat \ {0}
  PROVE  /\ CeilDiv(a, b) \in Nat /\ b * CeilDiv(a, b) >= a
         /\ a > 0 => CeilDiv(a, b) > 0
<1> DEFINE q == (a + b - 1) \div b
           r == (a + b - 1) % b
<1>1. q \in Nat /\ r \in Nat /\ r < b /\ a + b - 1 = b * q + r
  <2>1. a + b - 1 \in Nat
    OBVIOUS
  <2> QED  BY <2>1, DivMod
<1> HIDE DEF q, r
<1>2. b * q >= a
  BY <1>1
<1>3. a > 0 => q > 0
  <2>1. CASE q = 0
    <3>1. b * q = 0
      BY <2>1
    <3> QED  BY <1>2, <3>1
  <2> QED  BY <1>1, <2>1
<1> QED  BY <1>1, <1>2, <1>3 DEF CeilDiv, q

\* A place in a row of blocks of size b, as many as CeilDiv says, lies in one.
LEMMA BlockOf ==
  ASSUME NEW a \in Nat \ {0}, NEW b \in Nat \ {0}, NEW y \in 0..(a - 1)
  PROVE  /\ y \div b \in 0..(CeilDiv(a, b) - 1)
         /\ b * (y \div b) <= y /\ y < b * (y \div b) + b
<1> DEFINE d == y \div b
           c == CeilDiv(a, b)
<1>1. d \in Nat /\ b * d <= y /\ y < b * d + b
  <2>1. d \in Nat /\ y % b \in Nat /\ y % b < b /\ y = b * d + (y % b)
    BY DivMod
  <2> HIDE DEF d
  <2> QED  BY <2>1
<1>2. c \in Nat /\ b * c >= a
  BY CeilDivBounds
<1> HIDE DEF d, c
<1>3. d < c
  <2>1. CASE c <= d
    <3>1. b * c <= b * d
      BY <1>1, <1>2, <2>1
    <3> QED  BY <1>1, <1>2, <3>1
  <2> QED  BY <1>1, <1>2, <2>1
<1>4. d \in 0..(c - 1)
  BY <1>1, <1>2, <1>3
<1> QED  BY <1>1, <1>4 DEF c, d

\* A place in a block of b is in the block its quotient names.
LEMMA BlockIs ==
  ASSUME NEW b \in Nat \ {0}, NEW q \in Nat, NEW y \in Nat, b * q <= y, y < b * q + b
  PROVE  y \div b = q
BY DivIs


LEMMA SomeBlocks ==
  \A a, b \in Nat \ {0} : CeilDiv(a, b) \in Nat \ {0}
<1> SUFFICES ASSUME NEW a \in Nat \ {0}, NEW b \in Nat \ {0}
             PROVE  CeilDiv(a, b) \in Nat \ {0}
  OBVIOUS
<1>1. a \in Nat /\ a > 0
  OBVIOUS
<1> QED  BY <1>1, CeilDivBounds

\* The tile over a pixel.
OwnerTile(x, y, width, tile) == CeilDiv(width, tile) * (y \div tile) + (x \div tile)

\* It is in the column and the row of tiles over the pixel.
Over(t, x, y, width, height, tile) ==
  /\ t \in Tiles(width, height, tile)
  /\ t % CeilDiv(width, tile) = x \div tile
  /\ t \div CeilDiv(width, tile) = y \div tile

LEMMA OwnerParts ==
  ASSUME NEW width \in Nat \ {0}, NEW height \in Nat \ {0}, NEW tile \in Nat \ {0},
         NEW x \in 0..(width - 1), NEW y \in 0..(height - 1)
  PROVE  Over(OwnerTile(x, y, width, tile), x, y, width, height, tile)
<1> DEFINE c == CeilDiv(width, tile)
           n == CeilDiv(height, tile)
           p == x \div tile
           q == y \div tile
           t == c * q + p
<1>1. c \in Nat \ {0} /\ n \in Nat \ {0}
  BY SomeBlocks
<1>2. p \in 0..(c - 1) /\ q \in 0..(n - 1)
  BY BlockOf
<1> HIDE DEF c, n, p, q
<1>3. t \in Nat /\ c * q <= t /\ t < c * q + c
  BY <1>1, <1>2
<1>4. t \in 0..(c * n - 1)
  <2>1. q + 1 <= n
    BY <1>1, <1>2
  <2>2. c * (q + 1) <= c * n
    BY <1>1, <1>2, <2>1
  <2>3. c * (q + 1) = c * q + c /\ c * n \in Nat
    BY <1>1, <1>2
  <2>4. t < c * n
    <3> HIDE DEF t
    <3> QED  BY <1>1, <1>2, <1>3, <2>2, <2>3
  <2> HIDE DEF t
  <2> DEFINE m == c * n
  <2>5. m \in Nat /\ t < m
    BY <2>3, <2>4
  <2> HIDE DEF m
  <2>6. t \in 0..(m - 1)
    BY <1>3, <2>5
  <2> QED  BY <2>6 DEF m
<1>5. t \div c = q
  <2> HIDE DEF t
  <2>1. q \in Nat
    BY <1>1, <1>2
  <2> QED  BY <1>1, <1>3, <2>1, DivIs
<1>6. t % c = p
  <2>1. t % c \in Nat /\ t = c * (t \div c) + (t % c)
    <3> HIDE DEF t
    <3> QED  BY <1>1, <1>3, DivMod
  <2>2. c * q + p = c * q + (t % c)
    BY <1>5, <2>1
  <2> HIDE DEF t
  <2> QED  BY <1>1, <1>2, <2>1, <2>2
<1> HIDE DEF t
<1>7. t = OwnerTile(x, y, width, tile)
  BY DEF OwnerTile, t, c, p, q
<1>8. t \in Tiles(width, height, tile)
  BY <1>4 DEF Tiles, c, n
<1>9. Over(t, x, y, width, height, tile)
  BY <1>5, <1>6, <1>8 DEF Over, c, p, q
<1> QED  BY <1>7, <1>9

\* A pixel is in the tile over it, and in no other.
LEMMA OneOwner ==
  ASSUME NEW width \in Nat \ {0}, NEW height \in Nat \ {0}, NEW tile \in Nat \ {0},
         NEW x \in 0..(width - 1), NEW y \in 0..(height - 1)
  PROVE  {t \in Tiles(width, height, tile) :
            TileOwns(Tile(t, width, height, tile), x, y)}
           = {OwnerTile(x, y, width, tile)}
<1> DEFINE c == CeilDiv(width, tile)
           n == CeilDiv(height, tile)
           p == x \div tile
           q == y \div tile
           o == OwnerTile(x, y, width, tile)
<1>1. c \in Nat \ {0} /\ n \in Nat \ {0}
  BY SomeBlocks
<1>2. /\ p \in 0..(c - 1) /\ tile * p <= x /\ x < tile * p + tile
      /\ q \in 0..(n - 1) /\ tile * q <= y /\ y < tile * q + tile
  BY BlockOf
<1>3. o \in Tiles(width, height, tile) /\ o % c = p /\ o \div c = q
  <2>1. Over(OwnerTile(x, y, width, tile), x, y, width, height, tile)
    BY OwnerParts
  <2> QED  BY <2>1 DEF Over
<1>4. o = c * q + p
  BY DEF OwnerTile
<1>5. \A t \in Tiles(width, height, tile) :
        Tile(t, width, height, tile) =
          <<(t % c) * tile, (t \div c) * tile,
            Lesser(tile, width - (t % c) * tile), Lesser(tile, height - (t \div c) * tile)>>
  BY DEF Tile
<1>6. \A t \in Tiles(width, height, tile) : t \in Nat
  <2>1. c * n \in Nat
    BY <1>1
  <2> QED  BY <2>1 DEF Tiles
<1> HIDE DEF c, n, p, q, o
<1>7. TileOwns(Tile(o, width, height, tile), x, y)
  <2>1. Tile(o, width, height, tile) =
          <<p * tile, q * tile, Lesser(tile, width - p * tile),
            Lesser(tile, height - q * tile)>>
    BY <1>3, <1>5
  <2>2. p * tile = tile * p /\ q * tile = tile * q /\ tile * p \in Nat /\ tile * q \in Nat
    BY <1>1, <1>2
  <2>3. x < tile * p + Lesser(tile, width - tile * p)
    BY <1>2, <2>2 DEF Lesser
  <2>4. y < tile * q + Lesser(tile, height - tile * q)
    BY <1>2, <2>2 DEF Lesser
  <2> QED  BY <1>2, <2>1, <2>2, <2>3, <2>4 DEF TileOwns
<1>8. ASSUME NEW t \in Tiles(width, height, tile),
             TileOwns(Tile(t, width, height, tile), x, y)
      PROVE  t = o
  <2> DEFINE u == t % c
             v == t \div c
  <2>1. t \in Nat /\ u \in Nat /\ v \in Nat /\ t = c * v + u
    BY <1>1, <1>6, DivMod
  <2>2. Tile(t, width, height, tile) =
          <<u * tile, v * tile, Lesser(tile, width - u * tile),
            Lesser(tile, height - v * tile)>>
    BY <1>5
  <2> HIDE DEF u, v
  <2>3. u * tile = tile * u /\ v * tile = tile * v /\ tile * u \in Nat /\ tile * v \in Nat
    BY <2>1
  <2>4. /\ tile * u <= x /\ x < tile * u + Lesser(tile, width - tile * u)
        /\ tile * v <= y /\ y < tile * v + Lesser(tile, height - tile * v)
    BY <1>8, <2>2, <2>3 DEF TileOwns
  <2>5. x < tile * u + tile /\ y < tile * v + tile
    BY <2>3, <2>4 DEF Lesser
  <2>6. x \div tile = u /\ y \div tile = v
    BY <2>1, <2>4, <2>5, DivIs
  <2>7. p = u /\ q = v
    BY <2>6 DEF p, q
  <2> QED  BY <1>4, <2>1, <2>7
<1>9. {t \in Tiles(width, height, tile) :
         TileOwns(Tile(t, width, height, tile), x, y)} = {o}
  BY <1>3, <1>7, <1>8
<1> QED  BY <1>9 DEF o


\* Reading the scratch buffer of a tile, halo included, is reading the frame.
LEMMA HaloIsFrame ==
  ASSUME NEW width \in Nat \ {0}, NEW height \in Nat \ {0}, NEW radius \in Nat,
         NEW x \in 0..(width - 1), NEW y \in 0..(height - 1), NEW t,
         t[1] \in Nat, t[2] \in Nat
  PROVE  TileBlurred(t, x - t[1], y - t[2], width, height, radius)
           = Blurred(x, y, width, height, radius)
<1> DEFINE R == (-radius)..radius
<1>1. ASSUME NEW k \in R, NEW m \in R
      PROVE  Scratch(t, x - t[1] + radius + m, y - t[2] + radius + k, width, height, radius)
               = <<Clamp(x + m, width), Clamp(y + k, height)>>
  <2>1. /\ t[1] - radius + (x - t[1] + radius + m) = x + m
        /\ t[2] - radius + (y - t[2] + radius + k) = y + k
    OBVIOUS
  <2> QED  BY <2>1 DEF Scratch
<1>2. TileBlurred(t, x - t[1], y - t[2], width, height, radius) =
        [k \in R |-> [m \in R |->
           Scratch(t, x - t[1] + radius + m, y - t[2] + radius + k, width, height, radius)]]
  BY DEF TileBlurred
<1>3. Blurred(x, y, width, height, radius) =
        [k \in R |-> [m \in R |-> <<Clamp(x + m, width), Clamp(y + k, height)>>]]
  BY DEF Blurred, RowBlur
<1> HIDE DEF R
<1> QED  BY <1>1, <1>2, <1>3

\* The tiles of a frame are disjoint and cover it, and a pixel blurred in its
\* tile is the pixel the row passes blur (bloom_sweep: tile_compute against
\* hblur_row and vblur_row), for every frame, tile and radius.
THEOREM TilesAlwaysMatchRows ==
  \A width, height, tile \in Nat \ {0}, radius \in Nat :
    TilesMatchRows(width, height, tile, radius)
<1> SUFFICES ASSUME NEW width \in Nat \ {0}, NEW height \in Nat \ {0},
                    NEW tile \in Nat \ {0}, NEW radius \in Nat,
                    NEW x \in 0..(width - 1), NEW y \in 0..(height - 1)
             PROVE  LET owners == {t \in Tiles(width, height, tile) :
                                     TileOwns(Tile(t, width, height, tile), x, y)}
                    IN  /\ Cardinality(owners) = 1
                        /\ \A t \in owners :
                             LET b == Tile(t, width, height, tile) IN
                               TileBlurred(b, x - b[1], y - b[2], width, height, radius)
                                 = Blurred(x, y, width, height, radius)
  BY DEF TilesMatchRows
<1> DEFINE owners == {t \in Tiles(width, height, tile) :
                        TileOwns(Tile(t, width, height, tile), x, y)}
           o == OwnerTile(x, y, width, tile)
           b == Tile(o, width, height, tile)
<1>1. owners = {o}
  BY OneOwner
<1>2. Cardinality(owners) = 1
  <2> HIDE DEF owners, o
  <2> QED  BY <1>1, FS_Singleton
<1>3. b[1] \in Nat /\ b[2] \in Nat
  <2>1. o % CeilDiv(width, tile) \in Nat /\ o \div CeilDiv(width, tile) \in Nat
    <3>1. x \div tile \in Nat /\ y \div tile \in Nat
      BY DivMod
    <3>2. Over(o, x, y, width, height, tile)
      BY OwnerParts
    <3> HIDE DEF o
    <3> QED  BY <3>1, <3>2 DEF Over
  <2>2. \A i, j \in Nat : i * tile \in Nat
    OBVIOUS
  <2> HIDE DEF o
  <2> QED  BY <2>1, <2>2 DEF Tile
<1>4. TileBlurred(b, x - b[1], y - b[2], width, height, radius)
        = Blurred(x, y, width, height, radius)
  <2> HIDE DEF b
  <2> QED  BY <1>3, HaloIsFrame
<1>5. \A t \in owners :
        TileBlurred(Tile(t, width, height, tile), x - Tile(t, width, height, tile)[1],
                    y - Tile(t, width, height, tile)[2], width, height, radius)
          = Blurred(x, y, width, height, radius)
  <2> HIDE DEF owners, o
  <2> QED  BY <1>1, <1>4
<1> QED  BY <1>2, <1>5


LEMMA Halves ==
  ASSUME NEW h \in Int
  PROVE  h \div 2 \in Int /\ 2 * (h \div 2) <= h /\ h <= 2 * (h \div 2) + 1
OBVIOUS

\* The rows a command can touch end within its shape, grown, and its clip.
LEMMA CommandEnds ==
  ASSUME NEW clip, clip = <<>> \/ clip \in Int \X Int,
         NEW top \in Int, NEW bottom \in Int, NEW soft \in Nat,
         NEW height \in Nat, NEW y \in CommandRows(clip, top, bottom, soft, height)
  PROVE  /\ y \in Nat
         /\ top - 4 - soft <= 2 * y + 1 /\ bottom + 4 + soft >= 2 * y + 1
         /\ clip # <<>> => clip[1] <= 2 * y + 1 /\ clip[2] >= 2 * y + 1
<1> DEFINE lo == top - 4 - soft
           hi == bottom + 4 + soft
           l == IF clip = <<>> THEN lo ELSE Greater(lo, clip[1])
           h == IF clip = <<>> THEN hi ELSE Lesser(hi, clip[2])
<1>1. clip # <<>> => clip[1] \in Int /\ clip[2] \in Int
  OBVIOUS
<1>2. l \in Int /\ h \in Int
  BY <1>1 DEF Greater, Lesser
<1>3. y \in 0..(height - 1) /\ y >= l \div 2 /\ y < (h + 1) \div 2
  BY DEF CommandRows
<1>4. y \in Nat
  BY <1>3
<1>5. l >= lo /\ h <= hi /\ (clip # <<>> => l >= clip[1] /\ h <= clip[2])
  BY <1>1 DEF Greater, Lesser
<1> HIDE DEF l, h
<1>6. l <= 2 * y + 1 /\ h >= 2 * y + 1
  <2>1. h + 1 \in Int
    BY <1>2
  <2> QED  BY <1>2, <1>3, <1>4, <2>1, Halves
<1> QED  BY <1>1, <1>2, <1>4, <1>5, <1>6

\* Where row y is of the ink of a box: not far from an extent from lo to hi, nor
\* from the clip.
Near(b, y, lo, hi) ==
  /\ y \in Nat /\ lo <= 2 * y + 5 /\ hi >= 2 * y - 3
  /\ ~Unclipped(b) => b.clip[1] <= 2 * y + 5 /\ b.clip[2] >= 2 * y - 3

\* How far the shadow of a box reaches from it.
Bleed(b) == IF b.shadow # <<>> THEN b.shadow[2] + Abs(b.shadow[1]) + 4 ELSE 0

\* What cmds_for draws is near the box, grown for its shadow.
LEMMA ShapesAreNear ==
  ASSUME NEW b, LaneBox(b), NEW height \in Nat, NEW y \in ShapeRows(b, height)
  PROVE  Bleed(b) \in Nat /\ Near(b, y, b.top - Bleed(b), b.bottom + Bleed(b))
<1>1. /\ b.top \in Int /\ b.bottom \in Int /\ (b.clip = <<>> \/ b.clip \in Int \X Int)
      /\ b.shadow # <<>> => b.shadow[1] \in Int /\ b.shadow[2] \in Nat
  BY DEF LaneBox
<1>2. Bleed(b) \in Nat
  BY <1>1 DEF Abs, Bleed
<1>3. CASE y \in CommandRows(b.clip, b.top, b.bottom, 0, height)
  <2>1. /\ y \in Nat /\ b.top - 4 - 0 <= 2 * y + 1 /\ b.bottom + 4 + 0 >= 2 * y + 1
        /\ b.clip # <<>> => b.clip[1] <= 2 * y + 1 /\ b.clip[2] >= 2 * y + 1
    BY <1>1, <1>3, CommandEnds
  <2>2. ~Unclipped(b) => b.clip[1] <= 2 * y + 5 /\ b.clip[2] >= 2 * y - 3
    BY <1>1, <2>1 DEF Unclipped
  <2> QED  BY <1>1, <1>2, <2>1, <2>2 DEF Near
<1>4. CASE /\ b.shadow # <<>>
           /\ y \in CommandRows(b.clip, b.top + b.shadow[1], b.bottom + b.shadow[1],
                                Greater(b.shadow[2], 1), height)
  <2> DEFINE d == b.shadow[1]
             s == Greater(b.shadow[2], 1)
             u == b.top + d
             v == b.bottom + d
  <2>1. d \in Int /\ s \in Nat /\ s <= b.shadow[2] + 1 /\ b.shadow[2] \in Nat
    BY <1>1, <1>4 DEF Greater
  <2>2. Bleed(b) = b.shadow[2] + Abs(d) + 4 /\ Abs(d) \in Nat /\ -d <= Abs(d) /\ d <= Abs(d)
    BY <1>4, <2>1 DEF Abs, Bleed
  <2>3. y \in CommandRows(b.clip, u, v, s, height)
    BY <1>4
  <2>4. u \in Int /\ v \in Int /\ u = b.top + d /\ v = b.bottom + d
    <3> HIDE DEF d
    <3> QED  BY <1>1, <2>1
  <2> HIDE DEF d, s, u, v
  <2>5. /\ y \in Nat /\ u - 4 - s <= 2 * y + 1 /\ v + 4 + s >= 2 * y + 1
        /\ b.clip # <<>> => b.clip[1] <= 2 * y + 1 /\ b.clip[2] >= 2 * y + 1
    BY <1>1, <2>1, <2>3, <2>4, CommandEnds
  <2>6. ~Unclipped(b) => b.clip[1] <= 2 * y + 5 /\ b.clip[2] >= 2 * y - 3
    BY <1>1, <2>5 DEF Unclipped
  <2>7. b.top - Bleed(b) <= 2 * y + 5 /\ b.bottom + Bleed(b) >= 2 * y - 3
    <3>1. b.top \in Int /\ b.bottom \in Int
      BY <1>1
    <3>2. y \in Nat /\ u - 4 - s <= 2 * y + 1 /\ v + 4 + s >= 2 * y + 1
      BY <2>5
    <3> QED  BY <1>2, <2>1, <2>2, <2>4, <3>1, <3>2
  <2> QED  BY <1>2, <2>5, <2>6, <2>7 DEF Near
<1> QED  BY <1>3, <1>4 DEF ShapeRows

\* The lines of a text follow each other from its top.
LEMMA LinesFollow ==
  ASSUME NEW b, LaneBox(b), NEW i \in 0..(b.lines - 1)
  PROVE  /\ LineTop(b, i) \in Int /\ b.top <= LineTop(b, i)
         /\ LineTop(b, i) + b.tall <= b.top + b.lines * b.tall
         /\ b.lines * b.tall \in Nat
<1> DEFINE n == b.lines
           t == b.tall
           d == n - i - 1
<1>1. n \in Nat /\ t \in Nat /\ b.top \in Int
  BY DEF LaneBox
<1>2. i \in Nat /\ d \in Nat /\ n = i + 1 + d
  <2> HIDE DEF n
  <2> QED  BY <1>1 DEF n
<1> HIDE DEF n, t, d
<1>3. i * t \in Nat /\ d * t \in Nat /\ n * t \in Nat
  BY <1>1, <1>2
<1>4. n * t = i * t + t + d * t
  BY <1>1, <1>2
<1>5. LineTop(b, i) = b.top + i * t
  BY DEF LineTop, t
<1> QED  BY <1>1, <1>3, <1>4, <1>5 DEF n, t

\* The glyphs and kept backgrounds of a text are near its lines.
LEMMA WritingsAreNear ==
  ASSUME NEW b, LaneBox(b), b.kind # "box", NEW height \in Nat,
         NEW y \in KeptRows(b, height)
  PROVE  b.lines * b.tall \in Nat /\ Near(b, y, b.top, b.top + b.lines * b.tall)
<1>1. /\ b.top \in Int /\ b.tall \in Nat /\ (b.clip = <<>> \/ b.clip \in Int \X Int)
      /\ b.marked \subseteq 0..(b.lines - 1)
  BY DEF LaneBox
<1>2. PICK i \in 0..(b.lines - 1) :
        \/ y \in GlyphRows(b, i, height)
        \/ ~Spills(b, i) /\ y \in MarkRows(b, i, height)
  <2> DEFINE marks == {i \in b.marked : ~Spills(b, i)}
             glyphs == UNION {GlyphRows(b, i, height) : i \in 0..(b.lines - 1)}
             behind == UNION {MarkRows(b, i, height) : i \in IF b.kind = "rich" THEN marks ELSE {}}
  <2>1. y \in glyphs \/ y \in behind
    <3>1. KeptRows(b, height) = TouchedRows(b, marks, height)
      BY DEF KeptRows
    <3> HIDE DEF marks
    <3>2. y \in TouchedRows(b, marks, height)
      BY <3>1
    <3>3. TouchedRows(b, marks, height) = IF b.kind = "box" THEN ShapeRows(b, height)
                                          ELSE glyphs \cup behind
      BY DEF TouchedRows
    <3> HIDE DEF glyphs, behind
    <3>4. y \in glyphs \cup behind
      BY <3>2, <3>3
    <3> QED  BY <3>4
  <2>2. CASE y \in glyphs
    BY Zenon, <2>2
  <2>3. CASE y \in behind
    <3>1. PICK i \in (IF b.kind = "rich" THEN marks ELSE {}) : y \in MarkRows(b, i, height)
      BY Zenon, <2>3
    <3>2. i \in marks
      BY <3>1
    <3>3. i \in 0..(b.lines - 1) /\ ~Spills(b, i)
      BY <1>1, <3>2
    <3> QED  BY Zenon, <3>1, <3>3
  <2> QED  BY <2>1, <2>2, <2>3
<1>3. /\ LineTop(b, i) \in Int /\ b.top <= LineTop(b, i)
      /\ LineTop(b, i) + b.tall <= b.top + b.lines * b.tall
      /\ b.lines * b.tall \in Nat
  BY LinesFollow
<1> DEFINE t == LineTop(b, i)
           e == b.top + b.lines * b.tall
<1>4. t \in Int /\ e \in Int /\ b.top <= t /\ t + b.tall <= e
  <2> HIDE DEF t
  <2>1. b.lines * b.tall \in Int
    BY <1>3
  <2> QED  BY <1>1, <1>3, <2>1 DEF t
<1>5. CASE y \in GlyphRows(b, i, height)
  <2>1. y \in 0..(height - 1) /\ 2 * y + 2 > t - 2 /\ 2 * y < t + b.tall + 2
        /\ (Unclipped(b) \/ (2 * y + 1 >= b.clip[1] /\ 2 * y + 1 < b.clip[2]))
    BY <1>5 DEF GlyphRows, Overrun
  <2> HIDE DEF t, e
  <2>2. y \in Nat
    BY <2>1
  <2>3. b.top <= 2 * y + 5 /\ e >= 2 * y - 3
    BY <1>1, <1>4, <2>1, <2>2
  <2>4. ~Unclipped(b) => b.clip[1] <= 2 * y + 5 /\ b.clip[2] >= 2 * y - 3
    BY <1>1, <2>1, <2>2 DEF Unclipped
  <2>5. Near(b, y, b.top, e)
    BY <2>2, <2>3, <2>4 DEF Near
  <2> QED  BY <1>3, <2>5 DEF e
<1>6. CASE ~Spills(b, i) /\ y \in MarkRows(b, i, height)
  <2>1. y \in CommandRows(<<>>, t, t + b.tall, 0, height)
    BY <1>6 DEF MarkRows
  <2>2. ~Unclipped(b) => ~(t < b.clip[1]) /\ ~(t + b.tall > b.clip[2])
    BY <1>6 DEF Spills
  <2> HIDE DEF t, e
  <2> DEFINE u == t + b.tall
  <2>3. u \in Int /\ u = t + b.tall
    BY <1>1, <1>4
  <2> HIDE DEF u
  <2>4. y \in Nat /\ t - 4 - 0 <= 2 * y + 1 /\ u + 4 + 0 >= 2 * y + 1
    BY <1>4, <2>1, <2>3, CommandEnds
  <2>5. b.top <= 2 * y + 5 /\ e >= 2 * y - 3
    BY <1>1, <1>4, <2>3, <2>4
  <2>6. ~Unclipped(b) => b.clip[1] <= 2 * y + 5 /\ b.clip[2] >= 2 * y - 3
    <3> SUFFICES ASSUME ~Unclipped(b)
                 PROVE  b.clip[1] <= 2 * y + 5 /\ b.clip[2] >= 2 * y - 3
      OBVIOUS
    <3> DEFINE c == b.clip[1]
               f == b.clip[2]
    <3>1. c \in Int /\ f \in Int
      BY <1>1 DEF Unclipped
    <3>2. ~(t < c) /\ ~(t + b.tall > f)
      BY <2>2
    <3> HIDE DEF c, f
    <3>3. c <= 2 * y + 5 /\ f >= 2 * y - 3
      BY <1>1, <1>4, <2>3, <2>4, <3>1, <3>2
    <3> QED  BY <3>3 DEF c, f
  <2>7. Near(b, y, b.top, e)
    BY <2>4, <2>5, <2>6 DEF Near
  <2> QED  BY <1>3, <2>7 DEF e
<1> QED  BY <1>2, <1>5, <1>6

\* paint_y_extent before it is narrowed, and what it is after.
LEMMA Narrowed ==
  ASSUME NEW b, LaneBox(b), NEW lo \in Int, NEW hi \in Int, NEW y, Near(b, y, lo, hi),
         PaintExtent(b) = IF Unclipped(b) THEN <<lo, hi>>
                          ELSE <<Greater(lo, b.clip[1]), Lesser(hi, b.clip[2])>>
  PROVE  /\ y \in Nat /\ PaintExtent(b)[1] \in Int /\ PaintExtent(b)[2] \in Int
         /\ PaintExtent(b)[1] <= 2 * y + 5 /\ PaintExtent(b)[2] >= 2 * y - 3
<1>1. ~Unclipped(b) => b.clip[1] \in Int /\ b.clip[2] \in Int
  BY DEF LaneBox, Unclipped
<1>2. CASE Unclipped(b)
  BY <1>2 DEF Near
<1>3. CASE ~Unclipped(b)
  BY <1>1, <1>3 DEF Greater, Lesser, Near
<1> QED  BY <1>2, <1>3

\* What paint_one_box can touch, but for backgrounds beyond the clip, is within
\* paint_y_extent, but for five halves of a row: paint_boxes_banded adds
\* BAND_PAD, six.
LEMMA InkInExtent ==
  ASSUME NEW b, LaneBox(b), NEW height \in Nat, NEW y \in KeptRows(b, height)
  PROVE  /\ y \in Nat /\ PaintExtent(b)[1] \in Int /\ PaintExtent(b)[2] \in Int
         /\ PaintExtent(b)[1] <= 2 * y + 5 /\ PaintExtent(b)[2] >= 2 * y - 3
<1>1. b.top \in Int /\ b.bottom \in Int /\ b.lines \in Nat /\ b.tall \in Nat
  BY DEF LaneBox
<1>2. CASE b.kind = "box"
  <2> DEFINE lo == b.top - Bleed(b)
             hi == b.bottom + Bleed(b)
  <2>1. y \in ShapeRows(b, height)
    BY <1>2 DEF KeptRows, TouchedRows
  <2>2. Bleed(b) \in Nat /\ Near(b, y, lo, hi)
    BY <2>1, ShapesAreNear
  <2>3. PaintExtent(b) = IF Unclipped(b) THEN <<lo, hi>>
                         ELSE <<Greater(lo, b.clip[1]), Lesser(hi, b.clip[2])>>
    BY <1>2 DEF PaintExtent, Bleed
  <2>4. lo \in Int /\ hi \in Int
    BY <1>1, <2>2
  <2> HIDE DEF lo, hi
  <2> QED  BY <2>2, <2>3, <2>4, Narrowed
<1>3. CASE b.kind # "box"
  <2> DEFINE lines == IF b.kind = "text" THEN Greater(b.lines, 1) ELSE b.lines
             ends == b.top + b.lines * b.tall
             lo == b.top - 0
             hi == Greater(b.bottom, b.top + lines * b.tall)
  <2>1. b.lines * b.tall \in Nat /\ Near(b, y, b.top, ends)
    BY <1>3, WritingsAreNear
  <2>2. lines * b.tall \in Nat /\ lines * b.tall >= b.lines * b.tall
    <3>1. CASE lines = b.lines
      <4> HIDE DEF lines
      <4> QED  BY <2>1, <3>1
    <3>2. CASE lines # b.lines
      <4>1. lines = 1 /\ b.lines = 0
        BY <1>1, <3>2 DEF Greater
      <4> HIDE DEF lines
      <4>2. lines * b.tall = b.tall /\ b.lines * b.tall = 0
        BY <1>1, <4>1
      <4> QED  BY <1>1, <4>2
    <3> QED  BY <3>1, <3>2
  <2>3. PaintExtent(b) = IF Unclipped(b) THEN <<lo, hi>>
                         ELSE <<Greater(lo, b.clip[1]), Lesser(hi, b.clip[2])>>
    BY <1>3 DEF PaintExtent
  <2> DEFINE p == lines * b.tall
             q == b.lines * b.tall
  <2>4. p \in Nat /\ q \in Nat /\ p >= q
    BY <2>1, <2>2
  <2>5. hi = Greater(b.bottom, b.top + p) /\ ends = b.top + q
    OBVIOUS
  <2>6. Near(b, y, b.top, ends)
    BY <2>1
  <2> HIDE DEF lines, p, q, hi, ends
  <2>7. ends \in Int /\ hi \in Int /\ hi >= ends /\ lo \in Int /\ lo = b.top
    BY <1>1, <2>4, <2>5 DEF Greater
  <2> HIDE DEF lo
  <2>8. Near(b, y, lo, hi)
    BY <1>1, <2>6, <2>7 DEF Near
  <2> QED  BY <2>3, <2>7, <2>8, Narrowed
<1> QED  BY <1>2, <1>3

\* "a lane must rasterize boxes within this margin of its rows to avoid a seam"
\* (BAND_PAD, paint_boxes_banded), for every frame, number of threads, box and
\* text: a row is of one lane, and a lane skips no box whose shape, shadow, glyphs
\* or backgrounds within its clip reach its rows, rounding included.
THEOREM LanesAlwaysPaintTheirRows ==
  \A height, threads \in Nat : \A b :
    LaneBox(b) => LanesPaintTheirRows(height, threads, b)
<1> SUFFICES ASSUME NEW height \in Nat, NEW threads \in Nat, NEW b, LaneBox(b)
             PROVE  LanesPaintTheirRows(height, threads, b)
  OBVIOUS
<1> DEFINE n == LaneCount(height, threads)
           size == CeilDiv(height, n)
<1>1. n \in Nat \ {0}
  BY DEF LaneCount
<1>2. \A k : LaneRows(height, n, k) = {y \in 0..(height - 1) : y \div size = k}
  BY DEF LaneRows
<1>3. ASSUME NEW y \in 0..(height - 1)
      PROVE  /\ height > 0 /\ y \in Nat /\ size \in Nat \ {0}
             /\ y \div size \in 0..(n - 1)
             /\ size * (y \div size) <= y /\ y < size * (y \div size) + size
  <2>1. y \in Nat /\ height \in Nat \ {0}
    OBVIOUS
  <2> HIDE DEF n
  <2>2. size \in Nat \ {0}
    BY <1>1, <2>1, SomeBlocks
  <2>3. n * size >= height /\ size * n = n * size
    <3>1. n * size >= height
      BY <1>1, CeilDivBounds
    <3> HIDE DEF size
    <3> QED  BY <1>1, <2>2, <3>1
  <2> HIDE DEF size
  <2> DEFINE q == y \div size
             r == y % size
  <2>4. q \in Nat /\ r \in Nat /\ r < size /\ y = size * q + r
    BY <2>1, <2>2, DivMod
  <2> HIDE DEF q, r
  <2>5. q < n
    <3>1. CASE n <= q
      <4>1. size * n <= size * q
        BY <1>1, <2>2, <2>4, <3>1
      <4> QED  BY <1>1, <2>2, <2>3, <2>4, <4>1
    <3> QED  BY <1>1, <2>4, <3>1
  <2>6. q \in 0..(n - 1) /\ size * q <= y /\ y < size * q + size
    BY <1>1, <2>2, <2>4, <2>5
  <2> QED  BY <2>1, <2>2, <2>6 DEF q
<1>4. ASSUME NEW y \in 0..(height - 1)
      PROVE  Cardinality({k \in 0..(n - 1) : y \in LaneRows(height, n, k)}) = 1
  <2> DEFINE d == y \div size
             lanes == {k \in 0..(n - 1) : y \in LaneRows(height, n, k)}
  <2>1. d \in 0..(n - 1)
    BY <1>3
  <2>2. \A k : y \in LaneRows(height, n, k) <=> d = k
    BY <1>2
  <2> HIDE DEF d, n
  <2>3. lanes = {d}
    BY <2>1, <2>2
  <2> HIDE DEF lanes
  <2>4. Cardinality(lanes) = 1
    BY <2>3, FS_Singleton
  <2> QED  BY <2>4 DEF lanes
<1>5. ASSUME NEW k \in 0..(n - 1), KeptRows(b, height) \cap LaneRows(height, n, k) # {}
      PROVE  Paints(height, n, k, b)
  <2>1. PICK y \in KeptRows(b, height) : y \in 0..(height - 1) /\ y \div size = k
    BY <1>2, <1>5
  <2>2. size \in Nat \ {0} /\ y \in Nat /\ y < height /\ k \in Nat
        /\ size * k <= y /\ y < size * k + size
    BY <1>3, <2>1
  <2>3. /\ PaintExtent(b)[1] \in Int /\ PaintExtent(b)[2] \in Int
        /\ PaintExtent(b)[1] <= 2 * y + 5 /\ PaintExtent(b)[2] >= 2 * y - 3
    BY InkInExtent
  <2> HIDE DEF size, n
  <2> DEFINE m == size * k
  <2>4. m \in Nat /\ 2 * k * size = 2 * m /\ (k + 1) * size = m + size
    BY <2>2
  <2>5. m <= y /\ y < m + size
    BY <2>2
  <2> HIDE DEF m
  <2>6. PaintExtent(b)[2] >= 2 * m - BandPad
    BY <2>2, <2>3, <2>4, <2>5 DEF BandPad
  <2>7. PaintExtent(b)[1] <= 2 * Lesser(m + size, height) + BandPad
    BY <2>2, <2>3, <2>4, <2>5 DEF BandPad, Lesser
  <2>8. Paints(height, n, k, b) <=>
          (n = 1 \/ (/\ PaintExtent(b)[2] >= 2 * k * size - BandPad
                     /\ PaintExtent(b)[1] <= 2 * Lesser((k + 1) * size, height) + BandPad))
    BY DEF Paints, size
  <2> QED  BY <2>4, <2>6, <2>7, <2>8
<1> HIDE DEF n
<1>6. n = LaneCount(height, threads)
  BY DEF n
<1> QED  BY <1>4, <1>5, <1>6 DEF LanesPaintTheirRows, LanesPaint

\* However a frame is cut, no lane skips a box it has to paint, backgrounds
\* beyond their clip apart, and its tiles filter what the whole would
\* (paint_boxes_banded, bloom_sweep tiled).
THEOREM PartsAlwaysMatch == CutSpec => []PartsMatchWhole
<1> DEFINE Inv == \/ cut = Uncut
                  \/ \E f \in BandedFrames : cut = [kind |-> "lanes", of |-> f]
                  \/ \E f \in TiledFrames : cut = [kind |-> "tiles", of |-> f]
<1>1. CutInit => Inv
  BY DEF CutInit
<1>2. Inv /\ [CutNext]_cut => Inv'
  BY DEF CutNext, PaintBoxesBanded, BloomTiled
<1>3. Inv => PartsMatchWhole
  <2>1. CASE cut = Uncut
    BY <2>1 DEF PartsMatchWhole, Uncut
  <2>2. ASSUME NEW f \in BandedFrames, cut = [kind |-> "lanes", of |-> f]
        PROVE  PartsMatchWhole
    <3>1. cut.kind = "lanes" /\ cut.of = f
      BY <2>2
    <3>2. f.height \in Nat /\ f.lanes \in Nat /\ LaneBox(f.box)
      BY FramesAssumption
    <3>3. LanesPaintTheirRows(f.height, f.lanes, f.box)
      BY <3>2, LanesAlwaysPaintTheirRows
    <3> QED  BY <3>1, <3>3 DEF PartsMatchWhole
  <2>3. ASSUME NEW f \in TiledFrames, cut = [kind |-> "tiles", of |-> f]
        PROVE  PartsMatchWhole
    <3>1. cut.kind = "tiles" /\ cut.of = f
      BY <2>3
    <3>2. f.width \in Nat \ {0} /\ f.height \in Nat \ {0} /\ f.tile \in Nat \ {0}
          /\ f.radius \in Nat
      BY FramesAssumption
    <3>3. TilesMatchRows(f.width, f.height, f.tile, f.radius)
      BY <3>2, TilesAlwaysMatchRows
    <3> QED  BY <3>1, <3>3 DEF PartsMatchWhole
  <2> QED  BY <2>1, <2>2, <2>3
<1> HIDE DEF Inv
<1> QED  BY <1>1, <1>2, <1>3, PTL DEF CutSpec
=============================================================================
