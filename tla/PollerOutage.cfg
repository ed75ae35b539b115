SPECIFICATION PollerSpec
CONSTANTS
  Key = {k1}
  Loop = loop
  Refresher = {r1}
  Interval = 3
  Timeout = 1
  Durations = {1}
  Thresholds = {1}
  MaxTime = 6
PROPERTY RefusedRefreshKeepsLastGood
