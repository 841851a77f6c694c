SPECIFICATION Spec
CONSTANTS
  NoHandle = NoHandle
  i1 = i1
  i2 = i2
  p1 = p1
  c1 = c1
  Timers = {}
  Idles = {i1, i2}
  Prepares = {p1}
  Checks = {c1}
  Asyncs = {}
  Senders = {}
  Timeouts = {0}
  MaxTimeout = 0
  Modes = {"default", "once", "nowait"}
  Casts = {{i1, i2, p1}, {i1, i2, c1}, {p1, c1}}
  Reffed = {c1}
  Signals = FALSE
SYMMETRY WatcherSymmetry
INVARIANTS ListsExact IterationExact
PROPERTIES CalledOncePerIteration
