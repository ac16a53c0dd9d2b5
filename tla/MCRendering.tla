----------------------------- MODULE MCRendering -----------------------------
(***************************************************************************)
(* Small instances of the rendering engine: the window's shell (UiShell),  *)
(* the worker threads of a filter (RowDispatch), or one input of its pure  *)
(* functions - breaking lines (TextFlow), laying out a tree (BoxLayout) -  *)
(* or a frame cut into lanes or tiles (FrameParts).  A behaviour is of the *)
(* one `part` chosen at the start.                                         *)
(***************************************************************************)
EXTENDS RowDispatch, BoxLayout, UiShell

CONSTANTS TextLength, FrameHeight   (* bounds of the inputs *)

MCWorkers == 1..3

VARIABLES part, input

renderVars == <<part, input, rowVars, uiVars, cut>>

(***************************************************************************)
(* Inputs.                                                                 *)
(***************************************************************************)
TextInputs ==
  [text : UNION {[1..n -> {0, 1, 2}] : n \in 0..TextLength}, width : 1..4]

Words1 == TextNode(<<1, 1, 0, 1>>)
Words2 == TextNode(<<1, 0, 1, 0, 1, 1>>)
Words3 == TextNode(<<1, 1>>)
Box(dir, width, height, margin, padding, align, justify, children, role) ==
  [kind |-> "box", dir |-> dir, width |-> width, height |-> height,
   margin |-> margin, padding |-> padding, border |-> 0, gap |-> 60,
   align |-> align, justify |-> justify, children |-> children, role |-> role]
Dims  == {Auto, Px(180), Pct(50), Flex(1)}
Cells == {Box("column", w, Auto, m, 0, "stretch", "start", <<Words2>>, "none") :
            w \in Dims, m \in {0, 60}}
LayoutInputs ==
  [node : {Box(d, w, h, 0, p, a, j, <<c, Words1>>, "none") :
             d \in {"row", "column"}, w \in Dims, h \in {Auto, Px(120)}, p \in {0, 60},
             a \in {"stretch", "center"}, j \in {"start", "between"},
             c \in Cells \cup {Words2}},
   width : {240, 540}]

Clips == {<<>>, <<3, 11>>}
Tops  == -8..(2 * FrameHeight + 8)
Shapes ==
  {[kind |-> "box", top |-> t, bottom |-> t + s, shadow |-> w, clip |-> c,
    lines |-> 0, tall |-> 0, marked |-> {}] :
     t \in Tops, s \in {1, 6}, c \in Clips, w \in {<<>>, <<6, 0>>, <<-5, 6>>, <<4, 14>>}}
Writings ==
  {[kind |-> k, top |-> t, bottom |-> t + s, shadow |-> <<>>, clip |-> c,
    lines |-> l, tall |-> 3, marked |-> IF k = "rich" THEN {0, l - 1} ELSE {}] :
     k \in {"text", "rich"}, t \in Tops, s \in {3, 24}, c \in Clips, l \in {1, 4, 8}}
\* A clipped input, scrolled so that its first line, selected, lies above it.
ScrolledInput ==
  {[height |-> 20, lanes |-> 2,
    box |-> [kind |-> "rich", top |-> 4, bottom |-> 40, shadow |-> <<>>, clip |-> <<28, 36>>,
             lines |-> 12, tall |-> 3, marked |-> {0}]]}
MCBandedFrames ==
  [height : {FrameHeight}, lanes : 1..4, box : Shapes \cup Writings] \cup ScrolledInput
MCTiledFrames == [width : 1..5, height : 1..5, tile : 1..3, radius : 1..2]

NoInput == [kind |-> "none"]
Chosen(kind) == part = kind /\ input # NoInput

(***************************************************************************)
(* The sum.                                                                *)
(***************************************************************************)
RowsAtRest ==
  /\ dispatch = "open" /\ pass = [t \in Workers |-> 1]
  /\ items = <<>> /\ sealed = TRUE /\ woken = TRUE /\ unpushed = <<>>
  /\ cursor = [p \in Passes |-> 0]
  /\ hand = [t \in Workers |-> <<>>] /\ state = [t \in Workers |-> "done"]
  /\ written = [p \in Passes |-> [r \in 1..Rows |-> 1]]

RenderInit ==
  /\ part \in {"ui", "rows", "text", "layout", "frame"}
  /\ input = NoInput
  /\ IF part = "rows" THEN RowInit ELSE RowsAtRest
  /\ UiInit /\ CutInit

Choose(kind, inputs) ==
  /\ part = kind /\ input = NoInput
  /\ \E i \in inputs : input' = [kind |-> kind, of |-> i]
  /\ UNCHANGED <<part, rowVars, uiVars, cut>>

RenderNext ==
  \/ part = "rows" /\ RowNext /\ UNCHANGED <<part, input, uiVars, cut>>
  \/ part = "ui" /\ UiNext /\ UNCHANGED <<part, input, rowVars, cut>>
  \/ part = "frame" /\ CutNext /\ UNCHANGED <<part, input, rowVars, uiVars>>
  \/ Choose("text", TextInputs)
  \/ Choose("layout", LayoutInputs)

RenderSpec == RenderInit /\ [][RenderNext]_renderVars /\ RowFairness

(***************************************************************************)
(* The properties of an input.                                             *)
(***************************************************************************)
\* wrap, wrap_ranges and rich_lines break a text alike and show every
\* character once (BreaksAgree); neither a caret, but for one among leading
\* spaces, nor a selection moves a character (CaretsDoNotMove); a press at a
\* character puts the caret before it (PressesFindTheirCharacter).
LinesAgree ==
  [][\A i \in {input'} : i.kind = "text" =>
       /\ BreaksAgree(i.of.text, i.of.width)
       /\ CaretsDoNotMove(i.of.text, i.of.width)
       /\ PressesFindTheirCharacter(i.of.text, i.of.width)]_input

\* "Overlay spans place zero-width pieces that never re-wrap" (rich_lines): the
\* caret moves no character, wherever it is.
CaretsNeverRewrap ==
  Chosen("text") =>
    LET text == input.of.text  width == input.of.width IN
      text # <<>> =>
        \A c \in 0..Len(text) :
          Drawing(text, FocusedSpans(text, c, <<>>), width)
            = Drawing(text, <<<<0, Len(text)>>>>, width)

\* A scroll region around the input, and a word below it.
Region(i) ==
  Box("column", Px(i.width), Px(180), 0, 0, "stretch", "start", <<i.node, Words3>>, "scroll")

\* measure and layout_node agree: text in a node as wide as its region and of
\* automatic height has room for its lines (TextsHaveRoom), children follow each
\* other (ChildrenFollow), and a scroll region shows no place beyond its content,
\* whatever offset was stored (ScrollsWithinContent).
SolvesAgree(i) ==
  /\ i.node.height = Auto /\ i.node.width.unit \in {"auto", "flex"} =>
       TextsHaveRoom(Solve(Region(i), i.width, 180, 0))
  /\ ChildrenFollow(i.node, <<60, 60, i.width, 300>>)
  /\ \A s \in {0, 60, 900} : ScrollsWithinContent(Region(i), i.width, 180, s)
MeasuresHold == [][\A i \in {input'} : i.kind = "layout" => SolvesAgree(i.of)]_input
==============================================================================
