SPECIFICATION FairSpec
CONSTANTS
  k1 = k1  k2 = k2
  Id <- MCId
  Handler <- MCHandler
  Cancellable <- MCCancellable
INVARIANTS AnswerIsTrue
PROPERTIES AnswerComes RunEnds
CHECK_DEADLOCK FALSE
