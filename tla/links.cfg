CONSTANTS
  Names = {n1, n2, n3, n4}
  NoLink = nolink
  Features = {"setmaster", "othername"}
SPECIFICATION Spec
INVARIANTS
  KeyedBySlave
  NoMutualLinks
  FoundLinkIsOwn
PROPERTIES
  LinksFollowCommands
