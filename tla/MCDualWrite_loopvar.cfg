SPECIFICATION Spec
CONSTANTS
  NoFunc = NoFunc
  r1 = r1  w1 = w1
  Req <- MCReq
  Worker <- MCWorker
  NClient = 2
  ChanSize = 2
  MaxWorker = 1
  MaxNeed = 1
INVARIANT EachClientServed
CHECK_DEADLOCK FALSE
