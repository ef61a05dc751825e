SPECIFICATION FairSpec
CONSTANTS
  NoFunc = NoFunc
  r1 = r1  w1 = w1
  Req <- MCReq
  Worker <- MCWorker
  NClient = 2
  ChanSize = 1
  MaxWorker = 1
  MaxNeed = 1
INVARIANTS NoOpOnClosingClient NeverEarlierClient LastClientServed
PROPERTIES CallsEnd  ShutDownEnds
CHECK_DEADLOCK FALSE
