SPECIFICATION Spec
CONSTANTS
  Calls = {c1, c2}
SYMMETRY CallSymmetry
INVARIANTS KeptWhileUsed OnlyTheseLeak
CHECK_DEADLOCK FALSE
