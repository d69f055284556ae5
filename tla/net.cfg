SPECIFICATION FairSpec
CONSTANTS
  h = h
  a = a
  b = b
  n = n
  Hub = h
  Leaves = {a, b}
  None = n
  SendQSize = 5
  MaxWire = 3
  MaxBreaks = 2
  MaxRetries = 1
  Race = FALSE
CHECK_DEADLOCK FALSE
INVARIANTS
  OneTree
  TreesAgreeAtRest
  AttemptsWhileApart
PROPERTY
  Reconnects
