SPECIFICATION Spec
CONSTANTS
  Timers = {t1}
  Watchers = {}
  Asyncs = {a1}
  NoHandle = NoHandle
  MaxUserRefs = 1
  DefaultLoop = TRUE
  Cycles = TRUE
  DueInPass = TRUE
INVARIANTS NoUseAfterFree LoopRefsExact
CHECK_DEADLOCK FALSE
