------------------------------ MODULE FrameParts ------------------------------
(***************************************************************************)
(* How a frame is cut into parts that threads fill (pmre-kit: bloom_sweep, *)
(* raster; pmre-orchestrator: paint_boxes_banded).                         *)
(*                                                                         *)
(* A lane paints the boxes that reach its band of rows; a tile of the      *)
(* bloom filter blurs its pixels from scratch buffers that hold the tile   *)
(* and a halo.  Pixels are known by their place: a blurred value is the    *)
(* function from offsets to the pixels it weighs.  Edges of boxes lie on   *)
(* half pixels, so that rounding to rows shows; a shadow is how far down   *)
(* it is moved and how soft it is.  Text is a number of lines of one       *)
(* height, some of which, in rich text, have a background (a selection).   *)
(* Colours and coverage are left out.                                      *)
(***************************************************************************)
EXTENDS Integers, FiniteSets, Sequences

CONSTANTS
  BandedFrames,  (* a height, a number of threads and a box                 *)
  TiledFrames    (* a width, a height, the edge of a tile and a radius      *)

\* Edges, clip, shadow and height of a line of a painted box, in halves of a row,
\* and the lines of its text that have a background.
LaneBox(b) ==
  /\ b.kind \in {"box", "text", "rich"}
  /\ b.top \in Int /\ b.bottom \in Int
  /\ b.lines \in Nat /\ b.tall \in Nat /\ b.marked \subseteq 0..(b.lines - 1)
  /\ b.shadow = <<>> \/ b.shadow \in Int \X Nat
  /\ b.clip = <<>> \/ b.clip \in Int \X Int

ASSUME FramesAssumption ==
  /\ \A f \in BandedFrames : f.height \in Nat /\ f.lanes \in Nat /\ LaneBox(f.box)
  /\ \A f \in TiledFrames :
       /\ f.width \in Nat \ {0} /\ f.height \in Nat \ {0} /\ f.tile \in Nat \ {0}
       /\ f.radius \in Nat

VARIABLE cut   \* the frame in parts

CeilDiv(a, b) == (a + b - 1) \div b
Lesser(a, b)  == IF a < b THEN a ELSE b
Greater(a, b) == IF a > b THEN a ELSE b
Abs(n)        == IF n < 0 THEN -n ELSE n

(***************************************************************************)
(* Bands.  Rows are 0-based, lengths and edges are in halves of a row.     *)
(***************************************************************************)
\* Rows [first, last) of lane k of n
LaneRows(height, n, k) ==
  LET size == CeilDiv(height, n)
  IN  {y \in 0..(height - 1) : y \div size = k}

\* A serial frame, when lanes would be too thin.
LaneCount(height, n) == IF n <= 1 \/ height < 2 * n THEN 1 ELSE n

Unclipped(b) == b.clip = <<>>

\* device_bounds of one command: the shape grown by two rows and its softness,
\* within a clip, rounded outward.
CommandRows(clip, top, bottom, soft, height) ==
  LET lo == top - 4 - soft  hi == bottom + 4 + soft
      l  == IF clip = <<>> THEN lo ELSE Greater(lo, clip[1])
      h  == IF clip = <<>> THEN hi ELSE Lesser(hi, clip[2])
  IN  {y \in 0..(height - 1) : y >= l \div 2 /\ y < (h + 1) \div 2}

\* cmds_for, each command within the clip: the box itself and its shadow, which
\* is moved and softened.
ShapeRows(b, height) ==
  CommandRows(b.clip, b.top, b.bottom, 0, height) \cup
    IF b.shadow = <<>> THEN {}
    ELSE CommandRows(b.clip, b.top + b.shadow[1], b.bottom + b.shadow[1],
                     Greater(b.shadow[2], 1), height)

LineTop(b, i) == b.top + i * b.tall

\* draw_styled of line i: glyphs may stand out of their line by Overrun, and are
\* drawn on rows whose centre is within the clip (clip_box).
Overrun == 2   (* a row *)

GlyphRows(b, i, height) ==
  {y \in 0..(height - 1) :
     /\ 2 * y + 2 > LineTop(b, i) - Overrun
     /\ 2 * y < LineTop(b, i) + b.tall + Overrun
     /\ Unclipped(b) \/ (2 * y + 1 >= b.clip[1] /\ 2 * y + 1 < b.clip[2])}

\* fill_rect behind line i: it is given no clip.
MarkRows(b, i, height) ==
  CommandRows(<<>>, LineTop(b, i), LineTop(b, i) + b.tall, 0, height)

\* The background of line i reaches beyond the clip.
Spills(b, i) ==
  ~Unclipped(b) /\ (LineTop(b, i) < b.clip[1] \/ LineTop(b, i) + b.tall > b.clip[2])

\* The rows paint_one_box can touch for a box and some of its backgrounds.
TouchedRows(b, marks, height) ==
  IF b.kind = "box" THEN ShapeRows(b, height)
  ELSE (UNION {GlyphRows(b, i, height) : i \in 0..(b.lines - 1)}) \cup
       (UNION {MarkRows(b, i, height) : i \in IF b.kind = "rich" THEN marks ELSE {}})

InkRows(b, height)  == TouchedRows(b, b.marked, height)
KeptRows(b, height) == TouchedRows(b, {i \in b.marked : ~Spills(b, i)}, height)

\* Variant: neither the shadow nor the lines below the box count.
ExtentOfRect(b) ==
  IF Unclipped(b) THEN <<b.top, b.bottom>>
  ELSE <<Greater(b.top, b.clip[1]), Lesser(b.bottom, b.clip[2])>>

\* paint_y_extent: the shadow of a box and the last line of a text count.
PaintExtent(b) ==
  LET shaded == b.kind = "box" /\ b.shadow # <<>>
      bleed  == IF shaded THEN b.shadow[2] + Abs(b.shadow[1]) + 4 ELSE 0
      lines  == IF b.kind = "text" THEN Greater(b.lines, 1) ELSE b.lines
      lo     == b.top - bleed
      hi     == IF b.kind = "box" THEN b.bottom + bleed
                ELSE Greater(b.bottom, b.top + lines * b.tall)
  IN  IF Unclipped(b) THEN <<lo, hi>>
      ELSE <<Greater(lo, b.clip[1]), Lesser(hi, b.clip[2])>>

BandPad == 6   (* BAND_PAD, three rows *)

\* paint_boxes_banded: a lane paints the boxes whose extent reaches its band.
Paints(height, n, k, b) ==
  LET size == CeilDiv(height, n)
      lo   == 2 * k * size - BandPad
      hi   == 2 * Lesser((k + 1) * size, height) + BandPad
  IN  n = 1 \/ (PaintExtent(b)[2] >= lo /\ PaintExtent(b)[1] <= hi)

(***************************************************************************)
(* Tiles.                                                                  *)
(***************************************************************************)
Clamp(v, n) == IF v < 0 THEN 0 ELSE IF v >= n THEN n - 1 ELSE v

\* hblur_row, vblur_row over whole buffers
RowBlur(x, y, width, radius) ==
  [i \in (-radius)..radius |-> <<Clamp(x + i, width), y>>]

Blurred(x, y, width, height, radius) ==
  [j \in (-radius)..radius |-> RowBlur(x, Clamp(y + j, height), width, radius)]

\* The tiles, row by row, <<left, top, width, height>>; the last of a row or a
\* column may be smaller.
Tile(t, width, height, tile) ==
  LET columns == CeilDiv(width, tile)
      tx == (t % columns) * tile
      ty == (t \div columns) * tile
  IN  <<tx, ty, Lesser(tile, width - tx), Lesser(tile, height - ty)>>

Tiles(width, height, tile) ==
  0..(CeilDiv(width, tile) * CeilDiv(height, tile) - 1)

TileOwns(t, x, y) ==
  x >= t[1] /\ x < t[1] + t[3] /\ y >= t[2] /\ y < t[2] + t[4]

\* Pixel i, j of the scratch buffer of a tile, halo included
Scratch(t, i, j, width, height, radius) ==
  <<Clamp(t[1] - radius + i, width), Clamp(t[2] - radius + j, height)>>

\* tile_compute, for the pixel i, j of the tile
TileBlurred(t, i, j, width, height, radius) ==
  [k \in (-radius)..radius |->
     [m \in (-radius)..radius |->
        Scratch(t, i + radius + m, j + radius + k, width, height, radius)]]

(***************************************************************************)
(* A frame is cut: into lanes when it is painted, into tiles when its      *)
(* bloom is filtered.                                                      *)
(***************************************************************************)
Uncut == [kind |-> "whole"]

CutInit == cut = Uncut

PaintBoxesBanded ==
  /\ cut = Uncut
  /\ \E f \in BandedFrames : cut' = [kind |-> "lanes", of |-> f]

BloomTiled ==
  /\ cut = Uncut
  /\ \E f \in TiledFrames : cut' = [kind |-> "tiles", of |-> f]

CutNext == PaintBoxesBanded \/ BloomTiled

CutSpec == CutInit /\ [][CutNext]_cut

(***************************************************************************)
(* Properties.                                                             *)
(***************************************************************************)
\* A frame in lanes: every row is of one lane, and that lane paints the box if
\* the box has any of these rows in it.
LanesPaint(height, threads, b, rows) ==
  LET n == LaneCount(height, threads) IN
    /\ \A y \in 0..(height - 1) :
         Cardinality({k \in 0..(n - 1) : y \in LaneRows(height, n, k)}) = 1
    /\ \A k \in 0..(n - 1) :
         rows \cap LaneRows(height, n, k) # {} => Paints(height, n, k, b)

\* "a lane must rasterize boxes within this margin of its rows to avoid a seam"
\* (BAND_PAD): no lane skips a box whose shape, shadow, glyphs or backgrounds
\* within its clip reach the rows of the lane.
LanesPaintTheirRows(height, threads, b) ==
  LanesPaint(height, threads, b, KeptRows(b, height))

\* "tiles are disjoint output blocks; each result pixel written once", and the
\* output matches the filter over whole rows: the halo of a tile, cut at the
\* edges of the frame, holds what the row passes would read.
TilesMatchRows(width, height, tile, radius) ==
  \A x \in 0..(width - 1), y \in 0..(height - 1) :
    LET owners == {t \in Tiles(width, height, tile) :
                     TileOwns(Tile(t, width, height, tile), x, y)}
    IN  /\ Cardinality(owners) = 1
        /\ \A t \in owners :
             LET b == Tile(t, width, height, tile) IN
               TileBlurred(b, x - b[1], y - b[2], width, height, radius)
                 = Blurred(x, y, width, height, radius)

\* No lane of a frame skips a box it has to paint, backgrounds beyond the clip
\* apart; its tiles blur what the row passes would.
PartsMatchWhole ==
  /\ cut.kind = "lanes" => LanesPaintTheirRows(cut.of.height, cut.of.lanes, cut.of.box)
  /\ cut.kind = "tiles" =>
       TilesMatchRows(cut.of.width, cut.of.height, cut.of.tile, cut.of.radius)

\* "Output is bit-identical to the serial render and independent of thread
\* count" (paint_boxes_banded): the lanes put every box on every row the serial
\* render puts it on.  They do not: the extent of rich text ends at its clip, the
\* background of a line scrolled out of the clip is filled without one.
LanesMatchSerial ==
  cut.kind = "lanes" =>
    LanesPaint(cut.of.height, cut.of.lanes, cut.of.box,
               InkRows(cut.of.box, cut.of.height))
==============================================================================
