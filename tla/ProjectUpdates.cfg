\* Two generators and two candidates of one project with two states, and two
\* redactions; what is redacted may be generated again.
SPECIFICATION Spec
CONSTANTS
  States = {s1, s2}
  Memories = {m1, m2}
  Artifacts = {a1, a2}
  Generators = {g1, g2}
  Redactions = 2
  None = None
  Own = Own
SYMMETRY Alike
CHECK_DEADLOCK FALSE
INVARIANTS OutcomesAgree EvidenceProves
PROPERTIES ImplementsReviewBook
