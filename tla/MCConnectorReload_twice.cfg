SPECIFICATION Spec
CONSTANTS
  MaxClients = 3
  First <- MCFirst
  Config <- MCConfig
CHECK_DEADLOCK FALSE
INVARIANT NoCloseTwice
