SPECIFICATION Spec
CONSTANTS
  Timers = {t1}
  Watchers = {}
  Asyncs = {}
  NoHandle = NoHandle
  MaxUserRefs = 1
  DefaultLoop = FALSE
  Cycles = TRUE
  DueInPass = FALSE
INVARIANT ResurrectedUntilClosed
CHECK_DEADLOCK FALSE
