SPECIFICATION PollerSpec
CONSTANTS
  Key = {k1}
  Loop = loop
  Refresher = {r1}
  Interval = 2
  Timeout = 1
  Durations = {0, 1, 2}
  Thresholds = {0, 1}
  MaxTime = 5
INVARIANTS
  PollerTypeOK
  StalenessBounded
  VerdictInForce
PROPERTIES
  AsOfSlipsAtMostTimeout
