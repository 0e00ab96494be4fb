\* Progress of claims and of due work: two workflows, one loop of scans that dies
\* twice, reaps of one claim at a time.
SPECIFICATION FairSpec
CONSTANTS
  Workflows = {w1, w2}
  Workers = {k1}
  Callers = {}
  Admins = {}
  Requests <- NoRequests
  Runs = {r1, r2, r3, r4}
  None = None
  Lease = 1
  Period = 2
  ChangeAt = 0
  SetBack = 0
  Limit = 2
  ReapBatch = 1
  MaxTime = 4
  MaxVersion = 0
  MaxCrashes = 2
PROPERTIES ExpiredClaimsReaped DueWorkflowsServed
