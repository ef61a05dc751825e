SPECIFICATION FairSpec
CONSTANTS
  NoFunc = NoFunc
  f1 = f1  f2 = f2  f3 = f3
  w1 = w1  w2 = w2
  Func <- MCFunc
  Worker <- MCWorker
  ChanSize = 2
  MaxWorker = 1
  MaxNeed = 2
INVARIANTS CountersExact NoWorkerAfterClose RunsOnce
PROPERTIES ImplementsTaskPool BacklogServed CancelCloses
CHECK_DEADLOCK FALSE
