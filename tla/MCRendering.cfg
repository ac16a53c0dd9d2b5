\* Three workers and four rows; texts of up to five characters; every sequence of
\* window messages over a text of up to two characters.
SPECIFICATION RenderSpec
CONSTANTS
  Workers <- MCWorkers
  Rows = 4
  Chunk = 2
  TextLength = 5
  FrameHeight = 9
  BandedFrames <- MCBandedFrames
  TiledFrames <- MCTiledFrames
  MaxText = 2
  Materials = 2
  Animated = {1}
INVARIANTS
  RowsAreExclusive
  PartsMatchWhole
  SelectionsAreLive
  OverridesBelongToMaterial
  FramesAreFresh
  ShortcutsActOnce
PROPERTIES
  FrameIsFinished
  LinesAgree
  MeasuresHold
CHECK_DEADLOCK FALSE
