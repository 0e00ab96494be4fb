\* Two due-scan loops, one workflow, crashes, and a configuration request.
SPECIFICATION Spec
CONSTANTS
  Workflows = {w1}
  Workers = {k1, k2}
  Callers = {}
  Admins = {a1}
  Requests <- AllRequests
  Runs = {r1, r2, r3}
  None = None
  Lease = 2
  Period = 2
  ChangeAt = 0
  SetBack = 0
  Limit = 1
  ReapBatch = 2
  MaxTime = 5
  MaxVersion = 3
  MaxCrashes = 1
SYMMETRY RunsAndWorkersAlike
PROPERTIES PublishOnlyUnderClaim ImplementsFencedLease
