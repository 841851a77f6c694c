SPECIFICATION Spec
CONSTANTS
  h1 = h1
  h2 = h2
  h3 = h3
  None = None
  Child = Child
  Handles = {h1, h2, h3}
  Casts <- AllCasts
  MaxNames = 2
  MaxPipe = 2
  MaxChecked = 2
INVARIANTS TypeOK RefsExact NoDangling ExitsReported
CHECK_DEADLOCK FALSE
