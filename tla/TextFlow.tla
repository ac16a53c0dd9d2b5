------------------------------- MODULE TextFlow -------------------------------
(***************************************************************************)
(* Line breaking (pmre-kit: text, layout).  Three functions break text by  *)
(* the same greedy rule: wrap for plain text, wrap_ranges to map a pointer *)
(* position back to the text, rich_lines for styled spans.  A focused      *)
(* input is drawn by the third, with its caret as a span of no width.      *)
(*                                                                         *)
(* A character is its advance, 0 a space (as wide as Space).  Widths are   *)
(* exact here, so WRAP_SLACK, an allowance for rounding, is left out.      *)
(***************************************************************************)
EXTENDS Naturals, Sequences, FiniteSets, SequencesExt

Space == 1   (* the advance of a space *)

IsSpace(c) == c = 0
Advance(c) == IF IsSpace(c) THEN Space ELSE c
Longest(S) == CHOOSE n \in S : \A m \in S : m <= n

\* advance of the characters a + 1 .. b
Width(text, a, b) ==
  LET w[i \in a..b] == IF i = a THEN 0 ELSE w[i - 1] + Advance(text[i]) IN w[b]

\* fit_chars_styled: how many characters from a on fit into a width
FitChars(text, a, b, width) ==
  Longest({n \in 0..(b - a) : n = 0 \/ Width(text, a, a + n) <= width})

AtLeastOne(n) == IF n = 0 THEN 1 ELSE n

\* The maximal runs without a space, <<a, b>> for the characters a + 1 .. b.
Words(text) ==
  SetToSortSeq({r \in (0..Len(text)) \X (0..Len(text)) :
                  /\ r[1] < r[2]
                  /\ \A i \in (r[1] + 1)..r[2] : ~IsSpace(text[i])
                  /\ r[1] = 0 \/ IsSpace(text[r[1]])
                  /\ r[2] = Len(text) \/ IsSpace(text[r[2] + 1])},
               LAMBDA r, s : r[1] < s[1])

\* A word longer than a line, cut to lines.
Cut(text, word, width) ==
  LET pieces[a \in word[1]..word[2]] ==
        IF a = word[2] THEN <<>>
        ELSE LET n == AtLeastOne(FitChars(text, a, word[2], width))
             IN  <<<<a, a + n>>>> \o pieces[a + n]
  IN pieces[word[1]]

Flushed(lines, current) == IF current = <<>> THEN lines ELSE Append(lines, current)

(***************************************************************************)
(* wrap: a line is the runs of characters it shows.                        *)
(***************************************************************************)
Wrap(text, width) ==
  LET Place(st, word) ==
        LET w    == Width(text, word[1], word[2])
            need == IF st.current = <<>> THEN w ELSE st.used + Space + w
            cuts == Cut(text, word, width)
        IN  IF w > width
              THEN [lines   |-> Flushed(st.lines, st.current)
                                  \o [i \in 1..(Len(cuts) - 1) |-> <<cuts[i]>>],
                    current |-> <<Last(cuts)>>,
                    used    |-> Width(text, Last(cuts)[1], word[2])]
            ELSE IF st.current = <<>> \/ need <= width
              THEN [st EXCEPT !.current = Append(@, word), !.used = need]
            ELSE [lines |-> Append(st.lines, st.current), current |-> <<word>>, used |-> w]
      end == FoldLeft(Place, [lines |-> <<>>, current |-> <<>>, used |-> 0], Words(text))
      all == Flushed(end.lines, end.current)
  IN  IF all = <<>> THEN <<<<>>>> ELSE all

(***************************************************************************)
(* wrap_ranges: a line is the range it covers of the text.                 *)
(***************************************************************************)
\* Variant: the width of the line before is kept after a cut word.
WrapRangesDrifting(text, width) ==
  LET Place(st, word) ==
        LET w    == Width(text, word[1], word[2])
            cuts == Cut(text, word, width)
        IN  IF w > width
              THEN [lines   |-> Flushed(st.lines, st.current) \o Front(cuts),
                    current |-> Last(cuts),
                    used    |-> st.used]
            ELSE IF st.current = <<>>
              THEN [st EXCEPT !.current = word, !.used = w]
            ELSE IF st.used + Space + w > width
              THEN [lines |-> Append(st.lines, st.current), current |-> word, used |-> w]
            ELSE [st EXCEPT !.current = <<@[1], word[2]>>, !.used = @ + Space + w]
      end == FoldLeft(Place, [lines |-> <<>>, current |-> <<>>, used |-> 0], Words(text))
      all == Flushed(end.lines, end.current)
  IN  IF all = <<>> THEN <<<<0, 0>>>> ELSE all

WrapRanges(text, width) ==
  LET Place(st, word) ==
        LET w    == Width(text, word[1], word[2])
            cuts == Cut(text, word, width)
        IN  IF w > width
              THEN [lines   |-> Flushed(st.lines, st.current) \o Front(cuts),
                    current |-> Last(cuts),
                    used    |-> Width(text, Last(cuts)[1], word[2])]
            ELSE IF st.current = <<>>
              THEN [st EXCEPT !.current = word, !.used = w]
            ELSE IF st.used + Space + w > width
              THEN [lines |-> Append(st.lines, st.current), current |-> word, used |-> w]
            ELSE [st EXCEPT !.current = <<@[1], word[2]>>, !.used = @ + Space + w]
      end == FoldLeft(Place, [lines |-> <<>>, current |-> <<>>, used |-> 0], Words(text))
      all == Flushed(end.lines, end.current)
  IN  IF all = <<>> THEN <<<<0, 0>>>> ELSE all

(***************************************************************************)
(* rich_lines.  A fragment is a run of one span, or an overlay.            *)
(***************************************************************************)
Overlay == <<>>

\* The spans of focused_input_node: around the selection, or around the caret.
FocusedSpans(text, caret, selection) ==
  LET parts == IF selection # <<>>
                 THEN <<<<0, selection[1]>>, selection, <<selection[2], Len(text)>>>>
                 ELSE <<<<0, caret>>, Overlay, <<caret, Len(text)>>>>
  IN  SelectSeq(parts, LAMBDA p : p = Overlay \/ p[1] < p[2])

Closed(words, open) == IF open.fragments = <<>> THEN words ELSE Append(words, open)
NoWord(space) == [space |-> space, fragments |-> <<>>]

\* rich_words, a run of characters or an overlay at a time.
RichWords(text, spans) ==
  LET Runs(span) ==
        IF span = Overlay THEN <<Overlay>>
        ELSE SetToSortSeq({r \in (span[1]..span[2]) \X (span[1]..span[2]) :
               /\ r[1] < r[2]
               /\ \A i, j \in (r[1] + 1)..r[2] : IsSpace(text[i]) <=> IsSpace(text[j])
               /\ r[1] = span[1] \/ (IsSpace(text[r[1]]) # IsSpace(text[r[1] + 1]))
               /\ r[2] = span[2] \/ (IsSpace(text[r[2]]) # IsSpace(text[r[2] + 1]))},
             LAMBDA r, s : r[1] < s[1])
      runs == FlattenSeq([i \in 1..Len(spans) |-> Runs(spans[i])])
      Take(st, run) ==
        IF run # Overlay /\ IsSpace(text[run[1] + 1])
          THEN [words |-> Closed(st.words, st.open), open |-> NoWord(TRUE)]
          ELSE [st EXCEPT !.open.fragments = Append(@, run)]
      end == FoldLeft(Take, [words |-> <<>>, open |-> NoWord(FALSE)], runs)
  IN  Closed(end.words, end.open)

FragmentWidth(text, f) == IF f = Overlay THEN 0 ELSE Width(text, f[1], f[2])
SumTo(f, n) == LET s[i \in 0..n] == IF i = 0 THEN 0 ELSE s[i - 1] + f[i] IN s[n]

Piece(run, x) == [run |-> run, x |-> x]
EmptyLine == [pieces |-> <<>>, width |-> 0]
HasText(line) == \E i \in DOMAIN line.pieces : line.pieces[i].run # Overlay

\* A fragment of a word longer than a line, a character at a time.
Spill(text, st, fragment) ==
  IF fragment = Overlay
    THEN [st EXCEPT !.line.pieces = Append(@, Piece(Overlay, st.line.width))]
    ELSE FoldLeft(
           LAMBDA s, i :
             LET a == Advance(text[i])
                 full == s.line.width + a > s.width /\ HasText(s.line)
                 line == IF full THEN EmptyLine ELSE s.line
             IN  [s EXCEPT
                    !.lines = IF full THEN Append(@, s.line) ELSE @,
                    !.line = [pieces |-> Append(line.pieces, Piece(<<i - 1, i>>, line.width)),
                              width  |-> line.width + a]],
           st, [k \in 1..(fragment[2] - fragment[1]) |-> fragment[1] + k])

PlaceWord(text, st, word) ==
  LET f     == word.fragments
      w     == [i \in DOMAIN f |-> FragmentWidth(text, f[i])]
      total == SumTo(w, Len(f))
      space == IF word.space /\ st.line.pieces # <<>> THEN Space ELSE 0
      wraps == st.line.pieces # <<>> /\ st.line.width + space + total > st.width
      line  == IF wraps THEN EmptyLine ELSE st.line
      x     == IF line.pieces = <<>> THEN 0 ELSE line.width + space
      flush == HasText(st.line)
  IN  IF \A i \in DOMAIN f : f[i] = Overlay
        THEN [st EXCEPT !.line.pieces =
                @ \o [i \in DOMAIN f |-> Piece(f[i], st.line.width + space)]]
      ELSE IF total > st.width
        THEN FoldLeft(LAMBDA s, g : Spill(text, s, g),
                      [st EXCEPT !.lines = IF flush THEN Append(@, st.line) ELSE @,
                                 !.line = IF flush THEN EmptyLine ELSE @],
                      f)
      ELSE [st EXCEPT
              !.lines = IF wraps THEN Append(@, st.line) ELSE @,
              !.line = [pieces |-> line.pieces
                          \o [i \in DOMAIN f |-> Piece(f[i], x + SumTo(w, i - 1))],
                        width  |-> x + total]]

RichLines(text, spans, width) ==
  LET end == FoldLeft(LAMBDA st, word : PlaceWord(text, st, word),
                      [lines |-> <<>>, line |-> EmptyLine, width |-> width],
                      RichWords(text, spans))
      all == IF end.line.pieces = <<>> THEN end.lines ELSE Append(end.lines, end.line)
  IN  IF all = <<>> THEN <<EmptyLine>> ELSE all

(***************************************************************************)
(* What the three say of a text: the line and place of every character.    *)
(***************************************************************************)
Letters(text) == {i \in 1..Len(text) : ~IsSpace(text[i])}

\* The characters each line of wrap shows.
Shown(line) == UNION {(line[i][1] + 1)..line[i][2] : i \in DOMAIN line}

\* The characters of a rich line, each with its place.
Drawn(text, line) ==
  UNION {LET p == line.pieces[k] IN
           IF p.run = Overlay THEN {}
           ELSE {<<i, p.x + Width(text, p.run[1], i - 1)>> : i \in (p.run[1] + 1)..p.run[2]}
         : k \in DOMAIN line.pieces}

Drawing(text, spans, width) ==
  LET lines == RichLines(text, spans, width)
  IN  [i \in 1..Len(lines) |-> Drawn(text, lines[i])]

\* input_caret_from_pointer: the caret of a point on a line, nearest to x.
CaretFromPointer(text, width, line, x) ==
  LET ranges == WrapRanges(text, width)
      range  == ranges[IF line <= Len(ranges) THEN line ELSE Len(ranges)]
      Off(c) == LET a == Width(text, range[1], c) IN IF a < x THEN x - a ELSE a - x
  IN  CHOOSE c \in range[1]..range[2] :
        \A d \in range[1]..range[2] : Off(c) < Off(d) \/ (Off(c) = Off(d) /\ c <= d)

\* A caret before the last of the spaces the text starts with.
AmongLeadingSpaces(text, caret) ==
  /\ caret < Len(text)
  /\ \A i \in 1..(caret + 1) : IsSpace(text[i])

SingleSpaced(text) ==
  /\ text # <<>> => ~IsSpace(text[1])
  /\ \A i \in 1..(Len(text) - 1) : ~(IsSpace(text[i]) /\ IsSpace(text[i + 1]))

(***************************************************************************)
(* Properties of a text.                                                   *)
(***************************************************************************)
\* "wrap, wrap_ranges, and layout::rich_lines all use it": the three break at
\* the same places and show every character once, in order.
BreaksAgree(text, width) ==
  LET lines == Wrap(text, width)  ranges == WrapRanges(text, width)
      drawn == Drawing(text, <<<<0, Len(text)>>>>, width)
  IN  /\ Len(lines) = Len(ranges)
      /\ \A i \in DOMAIN lines :
           /\ Shown(lines[i]) = {j \in Letters(text) : j > ranges[i][1] /\ j <= ranges[i][2]}
           /\ Cardinality(Shown(lines[i])) > 1 =>
                Width(text, ranges[i][1], ranges[i][2]) <= width \/ ~SingleSpaced(text)
      /\ UNION {Shown(lines[i]) : i \in DOMAIN lines} = Letters(text)
      /\ \A i, j \in DOMAIN lines : i < j =>
           \A a \in Shown(lines[i]), b \in Shown(lines[j]) : a < b
      /\ text # <<>> => [i \in DOMAIN drawn |-> {d[1] : d \in drawn[i]}]
                          = [i \in DOMAIN lines |-> Shown(lines[i])]

\* A selection moves no character, and neither does the caret, but for one
\* among the leading spaces.
CaretsDoNotMove(text, width) ==
  text # <<>> =>
    LET still == Drawing(text, <<<<0, Len(text)>>>>, width) IN
      /\ \A c \in 0..Len(text) :
           ~AmongLeadingSpaces(text, c) =>
             Drawing(text, FocusedSpans(text, c, <<>>), width) = still
      /\ \A s, e \in 0..Len(text) :
           s < e => Drawing(text, FocusedSpans(text, 0, <<s, e>>), width) = still

\* A press at the left edge of a character puts the caret before it, when no
\* two spaces are drawn as one.
PressesFindTheirCharacter(text, width) ==
  SingleSpaced(text) =>
    LET drawn == Drawing(text, <<<<0, Len(text)>>>>, width) IN
      \A i \in DOMAIN drawn : \A d \in drawn[i] :
        CaretFromPointer(text, width, i, d[2]) = d[1] - 1
==============================================================================
