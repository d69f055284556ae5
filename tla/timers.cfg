SPECIFICATION FairSpec
CONSTANTS
  c1 = c1
  m1 = m1
  m2 = m2
  u1 = u1
  u2 = u2
  Chans = {c1}
  Masks = {m1, m2}
  AutoLimits = {0, 1}
  Users = {u1, u2}
  Host <- Hosts
  ModeLimits = {3}
  MaxOrders = 2
  MaxPending = 1
CHECK_DEADLOCK FALSE
INVARIANTS
  LimitFollowsUsers
  BansAreWatched
PROPERTY
  BansEnd
