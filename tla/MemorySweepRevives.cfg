\* A sweep that publishes what it read: retirement is undone.
SPECIFICATION Spec
CONSTANTS
  Memories = {m1, m2}
  Sweeps = {s1}
  None = None
  MaxWrites = 5
  MarkLimit = 1
SYMMETRY Alike
CHECK_DEADLOCK FALSE
PROPERTIES RetirementIsFinal
