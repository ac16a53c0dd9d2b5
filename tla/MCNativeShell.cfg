\* Two runs, one fault, memory of two lessons.
SPECIFICATION Spec
CONSTANTS
  MemoryLimit = 2
  Garbled = Garbled
  Intents = {i1, i2}
  Providers = {p, keyless}
  Ready = {p}
  FastReady = {p}
  NoCall = NoCall
  NoWorker = NoWorker
  MaxRuns = 2
  MaxFaults = 1
INVARIANTS
  WorkersArePolled
  ReportsMatchTheirCall
  MemoryIsReplay
PROPERTIES
  WorkersAreCollected
CHECK_DEADLOCK FALSE
