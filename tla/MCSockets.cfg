SPECIFICATION Spec
CONSTANTS
  c1 = c1
  c2 = c2
  w1 = w1
  w2 = w2
  sd = sd
  None = None
  Kinds = {"tcp", "pipe", "tty", "udp", "server"}
  Connects = {c1, c2}
  Writes = {w1, w2}
  Shutdown = sd
  MaxViews = 2
  Corners = {}
SYMMETRY RequestSymmetry
INVARIANTS TypeOK RequestsKept AnsweredBeforeClosed NothingForgotten
PROPERTIES CallbackIsSet AnsweredInOrder
CHECK_DEADLOCK FALSE
