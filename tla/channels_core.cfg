CONSTANTS
  Users = {u1, u2, u3}
  Chans = {c1}
  None = none
  Levels <- MCLevels
  FlagSets <- MCFlagSets
  chlev_admin = 10
  Features = {}
SPECIFICATION Spec
SYMMETRY Symmetry
INVARIANTS
  OwnersAgree
  SavedDatabaseLoads
PROPERTIES
  CoOwnersInherit
  FoundersMakeFounders
  OutrankedAreSafe
  TablesFollowCommands
