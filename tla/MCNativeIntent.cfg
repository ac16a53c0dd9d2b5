\* Two runs, no fault: a run pressed while a fast build is under way.
SPECIFICATION Spec
CONSTANTS
  MemoryLimit = 2
  Garbled = Garbled
  Intents = {i1, i2}
  Providers = {p, keyless}
  Ready = {p}
  FastReady = {p}
  NoCall = NoCall
  NoWorker = NoWorker
  MaxRuns = 2
  MaxFaults = 0
INVARIANT LessonsCarryTheirIntent
CHECK_DEADLOCK FALSE
