CONSTANTS
  Nicks = {k1, k2}
  Names = {n1, n2, n3}
  Null = null
  Freed = freed
  Features = {"link", "forceauth", "protect"}
SPECIFICATION Spec
SYMMETRY Symmetry
CHECK_DEADLOCK FALSE
INVARIANTS
  GuestsHoldNames
PROPERTIES
  GuestsEndForAReason
