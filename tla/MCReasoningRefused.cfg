\* Every input; the calls of a route only begin.
SPECIFICATION PlanSpec
CONSTANTS
  MaxFiles = 1
  Contents = {c1, c2, c3}
  None = None
  Torn = Torn
  Limit = 1
  MaxCalls = 0
  PlanFiles = 1
  MaxRepair = 0
  MaxErrors = 0
  MaxCapture = 1
  PipeRoom = 1
  MaxPrinted = 3
  MaxDepth = 1
INVARIANTS
  ReasonedAnswersAreRead
CHECK_DEADLOCK FALSE
