SPECIFICATION Spec
CONSTANTS
  u = u
  v = v
  c = c
  b = b
  h = h
  Names = {u, v}
  Chans = {c}
  Hosts = {h}
  Bots = {b}
  NoSave = NoSave
  MaxFaults = 1
  Faults = {"crash", "query", "fetch", "sigint"}
SYMMETRY Symmetry
INVARIANTS ReferencesResolve IntactSaveIsRestored NoTableIsRefused
PROPERTIES SavesAreAtomic
