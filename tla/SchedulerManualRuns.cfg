\* One due-scan loop, one manual run after the other, configuration requests.
SPECIFICATION Spec
CONSTANTS
  Workflows = {w1}
  Workers = {k1}
  Callers = {c1, c2}
  Admins = {a1}
  Requests <- SwitchRequests
  Runs = {r1, r2, r3}
  None = None
  Lease = 2
  Period = 3
  ChangeAt = 4
  SetBack = 2
  Limit = 1
  ReapBatch = 2
  MaxTime = 5
  MaxVersion = 3
  MaxCrashes = 1
SYMMETRY RunsAndCallersAlike
INVARIANTS LastResultTrue IndInv 
PROPERTIES ClaimReleaseAccounted NextRunsPlanned
