------------------------------- MODULE UiShell -------------------------------
(***************************************************************************)
(* The interaction state of the rendering engine (pmre-orchestrator,       *)
(* UiState and handle_event) and the window that feeds it and caches its   *)
(* frames (math-atoms-native, wndproc, dispatch, paint).                   *)
(*                                                                         *)
(* A pointer position is the widget under it and, over a text, a slider or *)
(* a scrollbar, a place along it: layout decides which positions exist,    *)
(* here those of the widgets the tree contains.  A text is its length, a   *)
(* material slider the material it was set for.  Windows may lose a button *)
(* release, so presses, moves and releases come in any order.              *)
(***************************************************************************)
EXTENDS Integers, Sequences, FiniteSets

CONSTANTS
  MaxText,    (* bound: characters of the intent                           *)
  Materials,  (* MATERIAL_OPTIONS: 0 is none; ten in the code              *)
  Animated    (* those whose distortion follows the phase: Smoke, Heat     *)
              (* haze                                                      *)

ASSUME UiAssumption ==
  MaxText \in Nat /\ Materials \in Nat \ {0, 1} /\ Animated \subseteq 1..(Materials - 1)

VARIABLES
  ui,       (* UiState                                                     *)
  clock,    (* the half second of animation_time, modulo 2                 *)
  cache,    (* frame_cache: none (absent, or of another generation), fresh,*)
            (* or, when its generation matches but its picture does not,   *)
            (* drifted (only the phase of the material differs) or stale   *)
  pending,  (* the WM_CHAR TranslateMessage has posted                     *)
  suppress, (* suppress_ctrl_char                                          *)
  acted     (* how often the last shortcut has reached the focused input   *)

uiVars == <<ui, clock, cache, pending, suppress, acted>>

None    == "none"
NoPlace == -1
Sliders == {"material", "animation"}
OverBar == {"thumb", "track"}
(* What the animation slider stands at: 0, a pixel or two from its end (at *)
(* most 0.01), further on.                                                 *)
Off   == 0
Faint == 1
Lively == 2
Shortcuts == {"A", "C", "V", "X"}
Carets  == {"Left", "Right", "ShiftLeft", "ShiftRight"}
Typed   == {"letter", "Backspace", "Enter"}
Keys    == Shortcuts \cup Carets \cup Typed \cup {"Delete"}

Least(a, b) == IF a < b THEN a ELSE b

\* The widgets of the tree: with_design_customizer adds the panel when the tab
\* is on, the panel its controls, material controls with a material selected.
Visible(u) ==
  {None, "input", "button", "tab"} \cup OverBar
    \cup (IF u.open THEN {"previous", "preset", "animation"} ELSE {})
    \cup (IF u.open /\ u.preset # 0 THEN {"advanced"} ELSE {})
    \cup (IF u.open /\ u.preset # 0 /\ u.advanced THEN {"material", "reset"} ELSE {})

Points(u) == {[target |-> t, place |-> k] : t \in Visible(u), k \in 0..MaxText}

(***************************************************************************)
(* The text under edit.                                                    *)
(***************************************************************************)
\* Variant: positions are taken as they come.
SelectUnclamped(u, anchor, focus) ==
  [u EXCEPT !.caret = focus,
            !.selection = IF anchor = focus THEN <<>> ELSE <<anchor, focus>>]

\* set_input_selection
SetSelection(u, anchor, focus) ==
  LET a == Least(anchor, u.length)  f == Least(focus, u.length)
  IN  [u EXCEPT !.caret = f, !.selection = IF a = f THEN <<>> ELSE <<a, f>>]

\* set_input_caret, without keeping the selection
SetCaret(u, place) ==
  [u EXCEPT !.caret = Least(place, u.length), !.selection = <<>>]

\* input_selection: the ends in order, within the text, <<>> when they meet
Selected(u) ==
  IF u.selection = <<>> THEN <<>>
  ELSE LET a == Least(u.selection[1], u.length)
           b == Least(u.selection[2], u.length)
       IN  IF a < b THEN <<a, b>> ELSE IF b < a THEN <<b, a>> ELSE <<>>

\* delete_input_selection
DeleteSelection(u) ==
  LET s == Selected(u) IN
    IF s = <<>> THEN u
    ELSE [u EXCEPT !.length = @ - (s[2] - s[1]), !.caret = s[1], !.selection = <<>>]

\* insert_input_text
InsertText(u, n) ==
  LET d == DeleteSelection(u) IN [d EXCEPT !.length = @ + n, !.caret = @ + n]

\* backspace_input
BackspaceInput(u) ==
  IF Selected(u) # <<>> THEN DeleteSelection(u)
  ELSE IF u.caret = 0 THEN u
  ELSE [u EXCEPT !.length = @ - 1, !.caret = @ - 1]

\* delete_forward_input
DeleteForward(u) ==
  IF Selected(u) # <<>> THEN DeleteSelection(u)
  ELSE IF u.caret >= u.length THEN u ELSE [u EXCEPT !.length = @ - 1]

\* move_input_caret
MoveCaret(u, right, shift) ==
  LET s    == Selected(u)
      next == IF right THEN Least(u.caret + 1, u.length)
              ELSE IF u.caret = 0 THEN 0 ELSE u.caret - 1
  IN  IF shift
        THEN SetSelection(u, IF u.selection # <<>> THEN u.selection[1] ELSE u.caret, next)
      ELSE IF s # <<>> THEN SetCaret(u, IF right THEN s[2] ELSE s[1])
      ELSE SetCaret(u, next)

\* Keeps the view at the end of the text while typing there.
FollowIntent(u) ==
  IF u.focused /\ u.caret >= u.length THEN [u EXCEPT !.scroll = 2] ELSE u

\* What a key does to the focused input.
Edit(u, key) ==
  CASE key = "A"          -> SetSelection(u, 0, u.length)
    [] key \in {"C", "Enter"} -> u
    [] key = "X"          -> FollowIntent(DeleteSelection(u))
    [] key \in {"V", "letter"} -> FollowIntent(InsertText(u, 1))
    [] key = "Delete"     -> FollowIntent(DeleteForward(u))
    [] key = "Backspace"  -> FollowIntent(BackspaceInput(u))
    [] key = "Left"       -> MoveCaret(u, FALSE, FALSE)
    [] key = "Right"      -> MoveCaret(u, TRUE, FALSE)
    [] key = "ShiftLeft"  -> MoveCaret(u, FALSE, TRUE)
    [] key = "ShiftRight" -> MoveCaret(u, TRUE, TRUE)

(***************************************************************************)
(* The pointer.                                                            *)
(***************************************************************************)
\* update_slider_from_x
Slide(u, slider, place) ==
  IF slider = "material" THEN [u EXCEPT !.override = u.preset]
                         ELSE [u EXCEPT !.animation = Least(place, Lively)]

\* hit_test, as far as a frame shows it
Hovered(t) == IF t = "button" THEN t ELSE None

\* PointerMove
Move(u, p) ==
  IF u.slider # None THEN Slide(u, u.slider, p.place)
  ELSE IF u.drag THEN [u EXCEPT !.scroll = Least(p.place, 1)]
  ELSE IF u.anchor # NoPlace
    THEN [SetSelection(u, u.anchor, p.place) EXCEPT !.hover = Hovered(p.target)]
  ELSE [u EXCEPT !.hover = Hovered(p.target)]

\* PointerDown
Press(u, p) ==
  LET t == p.target
      d == [u EXCEPT !.drag = (t = "thumb"), !.slider = None, !.anchor = NoPlace,
                     !.focused = (t = "input" \/ t \in OverBar)]
      c == IF t = "input" THEN [SetCaret(d, p.place) EXCEPT !.anchor = Least(p.place, u.length)]
           ELSE IF t \in Sliders THEN Slide([d EXCEPT !.slider = t], t, p.place)
           ELSE d
  IN  [c EXCEPT !.pressed = IF t = "thumb" THEN None ELSE t]

\* clear_material_overrides
ClearOverrides(u) == [u EXCEPT !.override = 0]

\* Variant: only the next material starts from its own values.
ClickKeeping(u, t) ==
  CASE t = "tab"      -> [u EXCEPT !.open = ~@]
    [] t = "advanced" -> [u EXCEPT !.advanced = ~@]
    [] t = "previous" -> [u EXCEPT !.preset = (@ + Materials - 1) % Materials]
    [] t = "preset"   -> ClearOverrides([u EXCEPT !.preset = (@ + 1) % Materials])
    [] t = "reset"    -> ClearOverrides(u)
    [] OTHER          -> u

\* PointerUp over the widget that was pressed: toggles, the material buttons
\* and selects.
Click(u, t) ==
  CASE t = "tab"      -> [u EXCEPT !.open = ~@]
    [] t = "advanced" -> [u EXCEPT !.advanced = ~@]
    [] t = "previous" -> ClearOverrides([u EXCEPT !.preset = (@ + Materials - 1) % Materials])
    [] t = "preset"   -> ClearOverrides([u EXCEPT !.preset = (@ + 1) % Materials])
    [] t = "reset"    -> ClearOverrides(u)
    [] OTHER          -> u

\* PointerUp
Release(u, p) ==
  LET r == [u EXCEPT !.anchor = NoPlace] IN
    IF u.drag THEN [r EXCEPT !.drag = FALSE, !.pressed = None]
    ELSE IF u.slider # None THEN [r EXCEPT !.slider = None, !.pressed = None]
    ELSE [(IF p.target = u.pressed THEN Click(r, p.target) ELSE r) EXCEPT !.pressed = None]

\* Wheel, over the intent
Turn(u, up) ==
  LET s == Least(u.scroll, 1) IN [u EXCEPT !.scroll = IF up THEN 0 ELSE Least(s + 1, 1)]

(***************************************************************************)
(* Frames.                                                                 *)
(***************************************************************************)
\* What render_ui shows of the state at half second c, but for the caret and the
\* material: DesignTokens::surface pulses with an animation above 0.01.
Picture(u, c) ==
  <<u.hover, u.pressed, u.drag, u.slider, u.focused, u.length, Least(u.scroll, 1),
    u.open, u.advanced, u.preset, u.override, u.animation,
    IF u.animation = Lively THEN c ELSE 0,
    IF u.focused THEN <<u.caret, Selected(u)>> ELSE <<>> >>

\* How the material moves: from_state sets its phase with any animation above 0.
Phase(u, c) == IF u.preset \in Animated /\ u.animation # Off THEN c ELSE 0

\* invalidate_visual: the next generation
InvalidateVisual == cache' = [s \in 0..1 |-> None]

\* The cached frames of this generation are what they are.
KeepFrames ==
  cache' = [s \in 0..1 |->
              IF cache[s] = None THEN None
              ELSE IF Picture(ui', clock') # Picture(ui, clock) THEN "stale"
              ELSE IF cache[s] = "fresh" /\ Phase(ui', clock') # Phase(ui, clock) THEN "drifted"
              ELSE cache[s]]

\* Variant: a drag over a text is forgotten.
DirtyWithoutText(u, v) ==
  \/ <<u.hover, u.pressed, u.drag, u.slider>> # <<v.hover, v.pressed, v.drag, v.slider>>
  \/ v.drag \/ v.slider # None

\* dispatch of a move: what makes a frame out of date.
DirtyMove(u, v) ==
  \/ <<u.hover, u.pressed, u.drag, u.slider>> # <<v.hover, v.pressed, v.drag, v.slider>>
  \/ v.drag \/ v.slider # None \/ v.anchor # NoPlace

(***************************************************************************)
(* The window.  A posted WM_CHAR is taken before any other input.          *)
(***************************************************************************)
UiInit ==
  /\ ui = [hover |-> None, pressed |-> None, drag |-> FALSE, slider |-> None,
           anchor |-> NoPlace, focused |-> TRUE, length |-> 1, caret |-> 1,
           selection |-> <<>>, scroll |-> 0, open |-> FALSE, advanced |-> FALSE,
           preset |-> 0, override |-> 0, animation |-> 0]
  /\ clock = 0
  /\ cache = [s \in 0..1 |-> None]
  /\ pending = None /\ suppress = None /\ acted = 0

\* WM_MOUSEMOVE, WM_MOUSELEAVE
MouseMove ==
  /\ pending = None
  /\ \E p \in Points(ui) : ui' = Move(ui, p)
  /\ UNCHANGED <<clock, pending, suppress, acted>>
  /\ IF DirtyMove(ui, ui') THEN InvalidateVisual ELSE KeepFrames

\* WM_LBUTTONDOWN, WM_LBUTTONUP, WM_MOUSEWHEEL
MouseButton ==
  /\ pending = None
  /\ \/ \E p \in Points(ui) : ui' = Press(ui, p) \/ ui' = Release(ui, p)
     \/ \E up \in BOOLEAN : ui' = Turn(ui, up)
  /\ InvalidateVisual
  /\ UNCHANGED <<clock, pending, suppress, acted>>

\* A key the focused input takes as it goes down; clipboard_text may find the
\* clipboard of the host open in another process.
Takes(key, clipboard) ==
  key \in Shortcuts \cup Carets \cup {"Delete"} /\ (key = "V" => clipboard)

\* Variant: the character that follows a shortcut is not expected.
KeyDownForgetful ==
  /\ pending = None
  /\ \E key \in Keys, clipboard \in BOOLEAN :
       /\ key \in {"V", "letter"} => ui.length < MaxText
       /\ pending' = IF key \in Shortcuts \cup Typed THEN key ELSE None
       /\ IF ui.focused /\ Takes(key, clipboard)
            THEN ui' = Edit(ui, key) /\ acted' = 1
            ELSE acted' = 0 /\ UNCHANGED ui
  /\ InvalidateVisual
  /\ UNCHANGED <<clock, suppress>>

\* WM_KEYDOWN.  Control and a letter also make a character.
KeyDown ==
  /\ pending = None
  /\ \E key \in Keys, clipboard \in BOOLEAN :
       /\ key \in {"V", "letter"} => ui.length < MaxText   \* MaxText: bound
       /\ pending' = IF key \in Shortcuts \cup Typed THEN key ELSE None
       /\ IF ui.focused /\ Takes(key, clipboard)
            THEN /\ ui' = Edit(ui, key)
                 /\ suppress' = IF key \in Shortcuts THEN key ELSE None
                 /\ acted' = 1
            ELSE acted' = 0 /\ UNCHANGED <<ui, suppress>>
  /\ InvalidateVisual
  /\ UNCHANGED clock

\* WM_CHAR
Char ==
  /\ pending # None
  /\ pending' = None
  /\ UNCHANGED clock
  /\ IF suppress = pending
       THEN suppress' = None /\ UNCHANGED <<ui, acted, cache>>
       ELSE \E clipboard \in BOOLEAN :
              LET event == pending = "V" => clipboard IN
                /\ ui' = IF event /\ ui.focused THEN Edit(ui, pending) ELSE ui
                /\ acted' = IF event /\ ui.focused THEN acted + 1 ELSE acted
                /\ IF event THEN InvalidateVisual ELSE UNCHANGED cache
                /\ UNCHANGED suppress

\* WM_TIMER, advance_animation_clock, as another half second begins: it gives up
\* the frames only with an animation above 0.01.
Tick ==
  /\ pending = None
  /\ clock' = 1 - clock
  /\ UNCHANGED <<ui, pending, suppress, acted>>
  /\ IF ui.animation = Lively THEN InvalidateVisual ELSE KeepFrames

\* WM_SIZE, WM_DPICHANGED, commands, the results of workers.
Refresh ==
  /\ pending = None
  /\ InvalidateVisual
  /\ UNCHANGED <<ui, clock, pending, suppress, acted>>

\* WM_PAINT: the slot of the caret's phase.
Paint ==
  /\ pending = None
  /\ LET slot == IF ui.focused THEN clock ELSE 0 IN
       cache' = [cache EXCEPT ![slot] = IF @ = None THEN "fresh" ELSE @]
  /\ UNCHANGED <<ui, clock, pending, suppress, acted>>

UiNext ==
  MouseMove \/ MouseButton \/ KeyDown \/ Char \/ Tick \/ Refresh \/ Paint

(***************************************************************************)
(* Properties.                                                             *)
(***************************************************************************)
\* Carets and selections are byte offsets in disguise (char_to_byte): the caret
\* is inside the text, a stored selection is within it, is not empty and ends
\* at the caret, whatever drags, edits and shortcuts came in between.
SelectionsAreLive ==
  /\ ui.caret \in 0..ui.length
  /\ ui.selection # <<>> =>
       /\ ui.selection[1] \in 0..ui.length
       /\ ui.selection[1] # ui.selection[2]
       /\ ui.selection[2] = ui.caret

\* clear_material_overrides on every change of material: a slider value never
\* outlives the material it was set for, nor is one being dragged without a
\* material.
OverridesBelongToMaterial ==
  /\ ui.override # 0 => ui.override = ui.preset
  /\ ui.slider = "material" => ui.preset # 0

\* paint shows a cached frame when its generation, size and caret phase match:
\* no cached frame of the current generation shows another state, but that an
\* animated material does not move in it while the animation is faint.
FramesAreFresh ==
  \A s \in 0..1 :
    /\ cache[s] # "stale"
    /\ cache[s] = "drifted" => ui.animation = Faint /\ ui.preset \in Animated

\* "animation follows the Animation control" (TRANSPARENCY_COOKBOOK.md, of Smoke and
\* of Heat haze): a cached frame of the current generation shows the phase the
\* material has at that animation.
MaterialsFollowTheirControl == \A s \in 0..1 : cache[s] # "drifted"

\* WM_KEYDOWN and the WM_CHAR it makes carry the same shortcut: it acts at most
\* once, and the character that is expected is never taken for a later one.
ShortcutsActOnce ==
  /\ acted <= 1
  /\ suppress # None => suppress = pending
==============================================================================
