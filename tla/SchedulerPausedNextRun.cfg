\* A manual run that outlives a pause reschedules the paused workflow.
SPECIFICATION Spec
CONSTANTS
  Workflows = {w1}
  Workers = {k1}
  Callers = {c1}
  Admins = {a1}
  Requests <- PauseRequests
  Runs = {r1, r2}
  None = None
  Lease = 2
  Period = 2
  ChangeAt = 0
  SetBack = 0
  Limit = 1
  ReapBatch = 2
  MaxTime = 2
  MaxVersion = 2
  MaxCrashes = 0
INVARIANTS PausedHasNoNextRun
