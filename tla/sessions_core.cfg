CONSTANTS
  Nicks = {k1, k2, k3}
  Names = {n1, n2, n3}
  Null = null
  Freed = freed
  Features = {"suspend", "protect", "caserename"}
SPECIFICATION Spec
SYMMETRY Symmetry
INVARIANTS
  NoDanglingPointer
  SessionsAgree
  SessionsHaveBothEnds
  SvidNamesAccount
PROPERTIES
  SessionsEndForAReason
  SessionsAreExclusive
