CONSTANTS
  Names = {n1, n2, n3}
  NoLink = nolink
  Features = {}
SPECIFICATION Spec
INVARIANTS
  ChainsEnd
