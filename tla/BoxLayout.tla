------------------------------- MODULE BoxLayout -------------------------------
(***************************************************************************)
(* The layout core (pmre-kit, layout): measure says how much room a node   *)
(* takes, layout_node places it, and both must resolve widths alike.       *)
(*                                                                         *)
(* A node is a text or a box.  Lengths are whole numbers of sixtieths of a *)
(* space, so that halves and shares stay exact; margins, paddings and      *)
(* borders are the same on every side.  Colours, shadows, sizes of type    *)
(* and styled spans are left out: a rich flow breaks like a text           *)
(* (TextFlow).                                                             *)
(***************************************************************************)
EXTENDS TextFlow, Integers

Em       == 60         (* the advance of a space, and the height of a line *)
Unknown  == -1         (* no available width                               *)

AtLeast0(n) == IF n < 0 THEN 0 ELSE n
Larger(a, b)  == IF a > b THEN a ELSE b
Smaller(a, b) == IF a < b THEN a ELSE b
Clamped(n, lo, hi) == Smaller(Larger(n, lo), hi)
Total(s) == SumTo(s, Len(s))
Tallest(s) == IF s = <<>> THEN 0 ELSE Longest({s[i] : i \in DOMAIN s})

\* Dim
Px(n) == [unit |-> "px", n |-> n]
Pct(n) == [unit |-> "pct", n |-> n]
Flex(n) == [unit |-> "flex", n |-> n]
Auto == [unit |-> "auto", n |-> 0]

IsText(node) == node.kind = "text"
TextNode(text) == [kind |-> "text", text |-> text]

\* node_dim, node_margin: a text has neither
DimOf(node, dir) == IF IsText(node) THEN Auto ELSE IF dir = "row" THEN node.width ELSE node.height
MarginOf(node)   == IF IsText(node) THEN 0 ELSE node.margin

LinesOf(node, width) == Len(Wrap(node.text, width \div Em))
Inset(node) == node.padding + node.border

\* The share of each child along the main axis: its base, and its weight in
\* what is left over.
Bases(children, dir, extent, natural) ==
  [i \in DOMAIN children |->
     LET d == DimOf(children[i], dir)  m == 2 * MarginOf(children[i]) IN
       CASE d.unit = "px"   -> d.n + m
         [] d.unit = "pct"  -> (d.n * extent) \div 100 + m
         [] d.unit = "auto" -> natural[i]
         [] d.unit = "flex" -> m]

Weights(children, dir) ==
  [i \in DOMAIN children |->
     IF DimOf(children[i], dir).unit = "flex" THEN DimOf(children[i], dir).n ELSE 0]

Free(bases, gap, extent) == AtLeast0(extent - Total(bases) - gap * (Len(bases) - 1))

Shares(bases, weights, gap, extent) ==
  [i \in DOMAIN bases |->
     IF Total(weights) = 0 THEN bases[i]
     ELSE bases[i] + (Free(bases, gap, extent) * weights[i]) \div Total(weights)]

(***************************************************************************)
(* measure: <<width, height>> with margins.                                *)
(***************************************************************************)
RECURSIVE Measure(_, _)

MeasureText(node, avail) ==
  LET single == Em * Width(node.text, 0, Len(node.text)) IN
    IF avail > 0 /\ single > avail THEN <<avail, Em * LinesOf(node, avail)>>
                                   ELSE <<single, Em>>

\* The width of a box, its margins left out, when it is known.
SelfWidth(node, avail) ==
  IF node.width.unit = "px" THEN node.width.n
  ELSE IF avail = Unknown THEN Unknown
  ELSE IF node.width.unit = "pct" THEN (avail * node.width.n) \div 100
  ELSE AtLeast0(avail - 2 * node.margin)

\* Variant: the children of a row are measured once, before they are shared out.
RowHeightOnce(node, firsts, inner) == Tallest([i \in DOMAIN firsts |-> firsts[i][2]])

\* A row of known width measures each child again at its share.
RowHeight(node, firsts, inner) ==
  LET bases  == Bases(node.children, "row", inner, [i \in DOMAIN firsts |-> firsts[i][1]])
      shares == Shares(bases, Weights(node.children, "row"), node.gap, inner)
  IN  Tallest([i \in DOMAIN firsts |->
        IF DimOf(node.children[i], "row").unit = "auto" THEN firsts[i][2]
        ELSE Measure(node.children[i], shares[i])[2]])

MeasureBox(node, avail) ==
  LET self   == SelfWidth(node, avail)
      pad    == 2 * Inset(node)
      inner  == IF self = Unknown THEN Unknown ELSE AtLeast0(self - pad)
      firsts == [i \in DOMAIN node.children |->
                   Measure(node.children[i], IF node.dir = "column" THEN inner ELSE Unknown)]
      widths  == [i \in DOMAIN firsts |-> firsts[i][1]]
      heights == [i \in DOMAIN firsts |-> firsts[i][2]]
      gaps    == node.gap * AtLeast0(Len(firsts) - 1)
      content == IF node.dir = "column" THEN <<Tallest(widths), Total(heights) + gaps>>
                 ELSE <<Total(widths) + gaps,
                        IF inner = Unknown THEN Tallest(heights)
                                           ELSE RowHeight(node, firsts, inner)>>
  IN  <<2 * node.margin + IF node.width.unit = "px" THEN node.width.n ELSE content[1] + pad,
        2 * node.margin + IF node.height.unit = "px" THEN node.height.n ELSE content[2] + pad>>

Measure(node, avail) ==
  IF IsText(node) THEN MeasureText(node, avail) ELSE MeasureBox(node, avail)

(***************************************************************************)
(* layout_node.  A rectangle is its left, top, right and bottom.           *)
(***************************************************************************)
RectInset(r, n) == <<r[1] + n, r[2] + n, r[3] - n, r[4] - n>>
NoClip == <<>>

\* clip_to
ClipTo(clip, r) ==
  IF clip = NoClip THEN r
  ELSE <<Larger(clip[1], r[1]), Larger(clip[2], r[2]),
         Smaller(clip[3], r[3]), Smaller(clip[4], r[4])>>

Laid(node, rect, clip, length) ==
  [node |-> node, rect |-> rect, clip |-> clip, length |-> length]

\* justify_offsets: before the first child and between two
JustifyOffsets(justify, left, n) ==
  CASE justify = "start"   -> <<0, 0>>
    [] justify = "center"  -> <<left \div 2, 0>>
    [] justify = "end"     -> <<left, 0>>
    [] justify = "between" -> <<0, IF n > 1 THEN left \div (n - 1) ELSE 0>>

\* align_pos
AlignPos(align, start, extent, item) ==
  CASE align \in {"start", "stretch"} -> start
    [] align = "center" -> start + (extent - item) \div 2
    [] align = "end"    -> start + (extent - item)

RECURSIVE LayoutNode(_, _, _, _)

\* scroll_content_height
ScrollContentHeight(node, width) ==
  Total([i \in DOMAIN node.children |-> Measure(node.children[i], width)[2]])
    + node.gap * AtLeast0(Len(node.children) - 1)

Offset(node, rect, length, scroll) ==
  Clamped(scroll, 0, AtLeast0(length - (rect[4] - rect[2])))

LayoutScroll(node, rect, clip, scroll) ==
  LET content == RectInset(rect, Inset(node))
      width   == content[3] - content[1]
      length  == ScrollContentHeight(node, width)
      heights == [i \in DOMAIN node.children |-> Measure(node.children[i], width)[2] + node.gap]
      top(i)  == content[2] - Offset(node, rect, length, scroll) + SumTo(heights, i - 1)
  IN  <<Laid(node, rect, clip, length)>> \o
        FlattenSeq([i \in DOMAIN node.children |->
          LayoutNode(node.children[i],
                     <<content[1], top(i), content[1] + width, top(i) + heights[i] - node.gap>>,
                     ClipTo(clip, rect), scroll)])

\* layout_children: the rectangle of each child.
ChildRects(node, content) ==
  LET row    == node.dir = "row"
      cross  == IF row THEN "column" ELSE "row"
      main0  == IF row THEN content[1] ELSE content[2]
      cross0 == IF row THEN content[2] ELSE content[1]
      extent == IF row THEN content[3] - content[1] ELSE content[4] - content[2]
      across == IF row THEN content[4] - content[2] ELSE content[3] - content[1]
      ch     == node.children
      avail  == IF row THEN Unknown ELSE across
      natural == [i \in DOMAIN ch |-> Measure(ch[i], avail)[IF row THEN 1 ELSE 2]]
      bases  == Bases(ch, node.dir, extent, natural)
      shares == Shares(bases, Weights(ch, node.dir), node.gap, extent)
      left   == IF Total(Weights(ch, node.dir)) > 0 THEN 0 ELSE Free(bases, node.gap, extent)
      offset == JustifyOffsets(node.justify, left, Len(ch))
      start(i) == main0 + offset[1] + SumTo(shares, i - 1) + (i - 1) * (node.gap + offset[2])
      size(i) == LET d == DimOf(ch[i], cross)  m == 2 * MarginOf(ch[i]) IN
                   CASE d.unit = "px"  -> d.n + m
                     [] d.unit = "pct" -> (d.n * across) \div 100 + m
                     [] OTHER -> IF node.align = "stretch" THEN across
                                 ELSE Measure(ch[i], IF row THEN shares[i] ELSE across)
                                        [IF row THEN 2 ELSE 1]
      at(i)  == AlignPos(node.align, cross0, across, size(i))
  IN  [i \in DOMAIN ch |->
         IF row THEN <<start(i), at(i), start(i) + shares[i], at(i) + size(i)>>
                ELSE <<at(i), start(i), at(i) + size(i), start(i) + shares[i]>>]

LayoutNode(node, outer, clip, scroll) ==
  IF IsText(node) THEN <<Laid(node, outer, clip, 0)>>
  ELSE LET rect == RectInset(outer, node.margin)
           rects == ChildRects(node, RectInset(rect, Inset(node)))
       IN  IF node.role = "scroll" THEN LayoutScroll(node, rect, clip, scroll)
           ELSE <<Laid(node, rect, clip, 0)>> \o
                  FlattenSeq([i \in DOMAIN node.children |->
                    LayoutNode(node.children[i], rects[i], clip, scroll)])

\* solve
Solve(root, width, height, scroll) == LayoutNode(root, <<0, 0, width, height>>, NoClip, scroll)

\* contains
InRect(r, x, y) == x >= r[1] /\ x < r[3] /\ y >= r[2] /\ y < r[4]

\* hit_test: the last box, in the order of painting, under a point.
HitTest(boxes, x, y) ==
  LET hits == {i \in DOMAIN boxes :
                 /\ ~IsText(boxes[i].node)
                 /\ InRect(boxes[i].rect, x, y)
                 /\ boxes[i].clip = NoClip \/ InRect(boxes[i].clip, x, y)}
  IN  IF hits = {} THEN 0 ELSE Longest(hits)

(***************************************************************************)
(* Properties of a solved tree, whose root is a scroll region.             *)
(***************************************************************************)
\* The box a laid node is a child of, no two siblings being alike.
ParentOf(boxes, i) ==
  boxes[Longest({k \in 1..(i - 1) : ~IsText(boxes[k].node)
                                    /\ boxes[i].node \in Range(boxes[k].node.children)})]

\* "so a column reserves the right height" and "so measure and layout agree"
\* (measure): a text in a scroll region, whose children are as tall as they measure,
\* has room for its lines at the width it is laid out with, and ends within its box,
\* above the region's last child.
TextsHaveRoom(boxes) ==
  \A i \in DOMAIN boxes :
    LET r == boxes[i].rect  node == boxes[i].node IN
      IsText(node) /\ r[3] - r[1] >= Em =>
        LET box == ParentOf(boxes, i) IN
          /\ r[4] - r[2] >= Em * LinesOf(node, r[3] - r[1])
          /\ box.node.role # "scroll" => r[4] + Inset(box.node) <= box.rect[4]
          /\ i < Len(boxes) => r[4] + boxes[1].node.gap <= boxes[Len(boxes)].rect[2]

\* Children follow each other in the direction of their box with its gap
\* between, and shares that fit end where the content ends.
ChildrenFollow(node, content) ==
  LET rects == ChildRects(node, content)  n == Len(rects)
      lo == IF node.dir = "row" THEN 1 ELSE 2
      hi == lo + 2
  IN  /\ \A i \in 1..(n - 1) : rects[i + 1][lo] >= rects[i][hi] + node.gap
      /\ n > 0 /\ rects[1][lo] >= content[lo] /\ Total(Weights(node.children, node.dir)) > 0
           /\ Free([i \in 1..n |-> rects[i][hi] - rects[i][lo]], node.gap,
                   content[hi] - content[lo]) >= 0
           => rects[n][hi] >= content[hi]

\* "never renders scrolled past its own end": whatever offset is stored, a
\* region without padding shows its first line or its last at its edge, and
\* nothing in it is hit outside (the region is the last child, or the root).
ScrollsWithinContent(root, width, height, scroll) ==
  LET boxes == Solve(root, width, height, scroll) IN
    \A i \in DOMAIN boxes :
      LET b == boxes[i] IN
        ~IsText(b.node) /\ b.node.role = "scroll" /\ b.node.children # <<>> =>
          LET top    == boxes[i + 1].rect[2] - MarginOf(boxes[i + 1].node)
              bottom == top + b.length
              inset  == Inset(b.node)
          IN  /\ top <= b.rect[2] + inset
              /\ b.length > b.rect[4] - b.rect[2] => bottom >= b.rect[4] + inset
              /\ \A x \in {30, width - 30}, y \in {height - 30, height + 30} :
                   HitTest(boxes, x, y) >= i => InRect(b.rect, x, y)
==============================================================================
