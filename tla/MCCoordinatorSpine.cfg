\* One build driven to the end by two racing coordinators.
SPECIFICATION Spec
CONSTANTS
  Blueprints = {bp}
  NoBlueprint = NoBlueprint
  Markers = {m}
  Wirings = {w}
  Autonomous = TRUE
  RetryLimit = 1
  Builds = {b1}
  Coordinators = {c1, c2}
  NoOne = NoOne
  NoLedger = NoLedger
  MaxRevision = 8
SYMMETRY Symmetry
INVARIANTS
  ChainLoadable
  CacheIsDurable
  LedgersSound
PROPERTIES
  SpineSpec
CHECK_DEADLOCK FALSE
