SPECIFICATION PutFairSpec
CONSTANTS
  Tables = {"layout", "collapsed", "allow", "order"}
  Item = {a, b}
  Owner = Owner
  Before = Before
  Put = {p, q}
  MinLen = 1
  MaxLen = 2
  MaxDeletes = 1
INVARIANTS
  PutTypeOK
  NoGhostRows
  LockedSetReplaced
PROPERTIES
  ImplementsAtomicSet
  PutsAreAnswered
