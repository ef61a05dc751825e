SPECIFICATION FairSpec
CONSTANTS
  MaxClients = 3
  First <- MCFirst
  Config <- MCConfig
CHECK_DEADLOCK FALSE
INVARIANTS ListedAreOpen   ReloadClosesOnce OnlyFailuresLeak
PROPERTIES ReplacementReuses ReloadEnds
