SPECIFICATION Spec
CONSTANTS
  i = i
  j = j
  h = h
  r = r
  Conns = {p, q}
  Addresses <- MCAddresses
  Keys = {h, r}
  Covers <- MCCovers
  TrustLimits = {1}
  Nobody = nobody
  Configured = 3
  MaxKills = 2
  MaxGlines = 2
  MaxPending = 1
  MaxSent = 2
SYMMETRY Symmetry
INVARIANTS
  CountsMatch
  TablesAgreeAtRest
  LevelIsInForce
PROPERTY
  FixedLevelStays
