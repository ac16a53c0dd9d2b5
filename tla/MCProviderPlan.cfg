\* Manifests of one or two files, up to three attempts, three calls; every plan
\* the code accepts; small programs, answers and settings.
SPECIFICATION PlanSpec
CONSTANTS
  MaxFiles = 2
  Contents = {c1, c2, c3}
  None = None
  Torn = Torn
  Limit = 3
  MaxCalls = 3
  PlanFiles = 32
  MaxRepair = 3
  MaxErrors = 2
  MaxCapture = 1
  PipeRoom = 1
  MaxPrinted = 3
  MaxDepth = 1
SYMMETRY Symmetry
INVARIANTS
  RoutesReclose
  PlansAreSound
  EvidenceIsEarned
  ResultsDescribeTheirFile
  CallsAreFaithful
PROPERTIES
  AnswersAreFound
CHECK_DEADLOCK FALSE
