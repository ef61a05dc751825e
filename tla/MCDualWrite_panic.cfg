SPECIFICATION Spec
CONSTANTS
  NoFunc = NoFunc
  r1 = r1  w1 = w1
  Req <- MCReq
  Worker <- MCWorker
  NClient = 1
  ChanSize = 1
  MaxWorker = 1
  MaxNeed = 1
INVARIANT NoCallPanics
CHECK_DEADLOCK FALSE
