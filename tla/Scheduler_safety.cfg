SPECIFICATION FairSpec
CONSTANTS
  Task = {t1, t2}
  MaxEventId = 2
  MinTicks = 1
  Delays = {0, 3}
  MaxTime = 4
  Spurious = TRUE
INVARIANTS TypeOK StopsAreHonoured WakesInTime
PROPERTIES ImplementsTimer EventLeavesQueue
CHECK_DEADLOCK FALSE
