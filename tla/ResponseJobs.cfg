\* Three requests of one key with two bodies: retries, a death, other turns, and
\* the end of the lease.
SPECIFICATION FairSpec
CONSTANTS
  Keys = {k1}
  Bodies = {b1, b2}
  Requests = {r1, r2, r3}
  None = None
  Lease = 1
  MaxTime = 1
  MaxEvents = 2
  MaxCrashes = 1
INVARIANTS IndInv ReplyFollowsTurn ReplyIffSucceeded AnswersAgree LocksNeverCross
PROPERTIES ImplementsKeyedCall RequestsAnswered PolledJobsEnd
