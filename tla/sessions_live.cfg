CONSTANTS
  Nicks = {k1, k2}
  Names = {n1, n2, n3}
  Null = null
  Freed = freed
  Features = {"protect"}
SPECIFICATION FairSpec
PROPERTIES
  ProtectionTakesEffect
