SPECIFICATION FairSpec
CONSTANTS
  BufSizes <- MCBufSizes
  ChanSize = 1
  Retries = 1
  MaxMsg = 4
  MaxEvents = 2
INVARIANTS MessagesInOrder RunsOncePerLoss
PROPERTIES MonitorEnds SubscriptionEnds
CHECK_DEADLOCK FALSE
