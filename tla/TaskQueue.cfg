\* Two tasks, two callers whose keys read the plain label only, and two reviewers
\* of two artifacts.
SPECIFICATION FairSpec
CONSTANTS
  Tasks = {t1, t2}
  Artifacts = {a1, a2}
  Plain = Plain
  Private = Private
  Labels = {Plain, Private}
  Workers = {w1, w2}
  Reads <- PlainOnly
  Reviewers = {r1, r2}
  None = None
  MaxRollbacks = 1
CHECK_DEADLOCK FALSE
INVARIANTS OneResult TrustedIffPromoted
PROPERTIES ImplementsWorkDesk Served
