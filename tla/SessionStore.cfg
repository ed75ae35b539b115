SPECIFICATION StoreFairSpec
CONSTANTS
  Token = {t1, t2}
  Adult = {adult}
  Kid = {kid}
  NoRow = NoRow
  TouchInterval = 1
  AdultLifetime = 2
  KidLifetime = 3
  MaxTime = 5
INVARIANTS
  TypeOK
  ExpiryFollowsRole
PROPERTIES
  EndedIsFinal
  ExpiredAreSwept
  SlidesAreThrottled
  ImplementsLifecycle
