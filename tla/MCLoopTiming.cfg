SPECIFICATION FairSpec
CONSTANTS
  NoHandle = NoHandle
  t1 = t1
  t2 = t2
  a1 = a1
  a2 = a2
  s1 = s1
  Timers = {t1, t2}
  Idles = {}
  Prepares = {}
  Checks = {}
  Asyncs = {a1, a2}
  Senders = {s1}
  Timeouts = {0, 2}
  MaxTimeout = 2
  Modes = {"default", "once"}
  Casts = {{t1, t2}, {t1, a1}, {a1, a2}}
  Reffed = {}
  Signals = TRUE
INVARIANTS TypeOK TimersExact NoLostSend
PROPERTIES LoopProgress
