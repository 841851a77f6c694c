SPECIFICATION Spec
CONSTANTS
  r1 = r1
  r2 = r2
  w1 = w1
  w2 = w2
  loop = loop
  nobody = nobody
  LoopThread = loop
  Nobody = nobody
  Requests <- TwoRequests
  Workers <- TwoWorkers
  CancelInDone = FALSE
SYMMETRY Symmetry
INVARIANTS TypeOK PassedOnSafely CancelMeansNeverRun NobodySleepsOverWork
PROPERTIES ImplementsWorkSpec
