\* Two configuration requests read the same row before either writes it.
SPECIFICATION Spec
CONSTANTS
  Workflows = {w1}
  Workers = {k1}
  Callers = {}
  Admins = {a1, a2}
  Requests <- AllRequests
  Runs = {r1}
  None = None
  Lease = 2
  Period = 2
  ChangeAt = 0
  SetBack = 0
  Limit = 1
  ReapBatch = 2
  MaxTime = 1
  MaxVersion = 4
  MaxCrashes = 0
PROPERTIES PauseIsRespected
