\* Two writes and one without an endpoint, two callers; three mishaps.
SPECIFICATION MobileFairSpec
CONSTANTS
  a = a
  b = b
  n = n
  timer = timer
  online = online
  Writes = {a, b, n}
  NoRoute = {n}
  Callers = {timer, online}
  MaxPushes = 2
  MaxMishaps = 3
INVARIANTS
  MobileTypeOK
  TwiceOnlyWhenLost
PROPERTIES
  Pushed
CHECK_DEADLOCK FALSE
