SPECIFICATION PutSpec
SYMMETRY Symmetry
CONSTANTS
  Tables = {"layout"}
  Item = {a, b}
  Owner = Owner
  Before = Before
  Put = {p, q}
  MinLen = 1
  MaxLen = 2
  MaxDeletes = 2
INVARIANT WholeSetReplaced
