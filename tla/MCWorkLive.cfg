SPECIFICATION FairSpec
CONSTANTS
  r1 = r1
  r2 = r2
  w1 = w1
  w2 = w2
  loop = loop
  nobody = nobody
  LoopThread = loop
  Nobody = nobody
  Requests <- TwoRequests
  Workers <- OneWorker
  CancelInDone = FALSE
PROPERTIES CallsComplete
CHECK_DEADLOCK FALSE
