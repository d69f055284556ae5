SPECIFICATION FloodSpec
CONSTANTS
  Settings <- MCSettings
  MaxTime = 7
  MaxHeard = 7
CHECK_DEADLOCK FALSE
INVARIANT
  FloodIsBounded
PROPERTY
  OnlyFloodersAreIgnored
