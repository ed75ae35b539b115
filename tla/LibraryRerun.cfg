SPECIFICATION LibrarySpec
CONSTANTS
  Proc = {p1}
  NoProc = NoProc
  Offer = {o1, o2}
  Service = {s1}
  App = {a}
  Seed = {a}
  MaxSuffix = 2
  NoRow = NoRow
PROPERTIES
  RerunIsNoOp
