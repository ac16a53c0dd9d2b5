\* One process; a record whose text has a control character.
SPECIFICATION RuntimeSpec
CONSTANTS
  Runtimes = {r1}
  Builds = {b1}
  Providers = {p1}
  Outputs = {o1}
  NoOutput = NoOutput
  LastStep = 1
  MaxEntries = 1
  MaxTurns = 1
  MaxRevision = 1
  MaxArtifacts = 1
  Blank = "blank"
INVARIANTS
  AppendsLeaveLoadable
CHECK_DEADLOCK FALSE
