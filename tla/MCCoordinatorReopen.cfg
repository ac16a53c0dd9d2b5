\* One process: it dies before the first snapshot of a build and reopens.
SPECIFICATION Spec
CONSTANTS
  Blueprints = {bp}
  NoBlueprint = NoBlueprint
  Markers = {m}
  Wirings = {w}
  Autonomous = TRUE
  RetryLimit = 1
  Builds = {b1}
  Coordinators = {c1}
  NoOne = NoOne
  NoLedger = NoLedger
  MaxRevision = 2
INVARIANTS
  ReopenNeverFails
CHECK_DEADLOCK FALSE
