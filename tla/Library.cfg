SPECIFICATION PartsSpec
CONSTANTS
  Proc = {p1, p2}
  NoProc = NoProc
  Offer = {o1, o2}
  Service = {s1, s2}
  App = {a, b}
  Seed = {a}
  MaxSuffix = 2
  NoRow = NoRow
SYMMETRY Symmetry
INVARIANTS
  LibraryTypeOK
  SeededOnce
  OneCopyPerAdd
PROPERTIES
  RestartsKeepWidths
