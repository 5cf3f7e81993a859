SPECIFICATION Spec
CONSTANTS
  Ctx = {c1, c2}
  MaxTime = 4
  MaxExpired = 1
  Delays = {0, 2, 3}
  Early = 1
INVARIANTS WakesInTime ExpiryIsExact
PROPERTY EveryTimerEnds
CHECK_DEADLOCK FALSE
