SPECIFICATION FairSpec
CONSTANTS
  Timers = {t1}
  Watchers = {w1}
  Asyncs = {}
  NoHandle = NoHandle
  MaxUserRefs = 1
  DefaultLoop = FALSE
  Cycles = FALSE
  DueInPass = FALSE
INVARIANTS TypeOK RefcountExact LoopKnowsHandles CloseCallbackOnce ClosedIsReclaimed StartedIsKept
PROPERTIES FiresOnlyActive CloseIsFinal ClosedOnlyOutOfScope CloseCompletes
CHECK_DEADLOCK FALSE
