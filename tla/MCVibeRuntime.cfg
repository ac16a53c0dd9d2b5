\* Two processes, each changing between two providers; one step to pass, small
\* stores, and one evaluation beyond the first snapshot.
SPECIFICATION RuntimeSpec
CONSTANTS
  Runtimes = {r1, r2}
  Builds = {b1}
  Providers = {p1, p2}
  Outputs = {o1}
  NoOutput = NoOutput
  LastStep = 1
  MaxEntries = 2
  MaxTurns = 2
  MaxRevision = 2
  MaxArtifacts = 1
  Blank = "blank"
SYMMETRY Symmetry
INVARIANTS
  TurnsAreBacked
  StoresStayLoadable
  DecisionsAreDurable
  CallsStayInScope
  RecordsReadBack
  GatesHold
CHECK_DEADLOCK FALSE
