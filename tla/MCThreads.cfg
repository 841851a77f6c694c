SPECIFICATION FairSpec
CONSTANTS
  Threads = {t1, t2, t3}
  None = None
  Programs = {"barrier", "mutex", "rwlock", "condition", "semaphore"}
  Permits = 1
  Party = 2
INVARIANTS ToldTruth NobodyForgotten
PROPERTIES InterpreterFree
CHECK_DEADLOCK FALSE
