\* Three starts of either kind, stops and two kills; strangers may get the pids of
\* one start, and the identities of another may be unreadable.
SPECIFICATION FairSpec
CONSTANTS
  Starts = {s1, s2, s3}
  None = None
  Torn = Torn
  Reuse = {s1}
  Opaque = {s2}
  MaxKills = 2
CHECK_DEADLOCK FALSE
INVARIANTS OneScanner ScannerIsManageable StopTargetsHolder
PROPERTIES LiveLeaseKept LoneStartAdmitted StopIsHonoured
