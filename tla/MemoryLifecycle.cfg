\* Up to three memories, written seven times altogether, the requests of every
\* surface, one generator of merge candidates and a staleness sweep: two rows
\* may be updated five times, three rows four times.
SPECIFICATION Spec
CONSTANTS
  Memories = {m1, m2, m3}
  Sweeps = {s1}
  None = None
  MaxWrites = 7
  MarkLimit = 1
SYMMETRY Alike
CHECK_DEADLOCK FALSE
INVARIANTS PointersAgree MergedRowsRetired RefusedStaysOut Acyclic
PROPERTIES ImplementsSuccession
