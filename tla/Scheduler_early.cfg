SPECIFICATION Spec
CONSTANTS
  Task = {t1, t2}
  MaxEventId = 3
  MinTicks = 1
  Delays = {1}
  MaxTime = 2
  Spurious = FALSE
PROPERTY FiresOnlyWhenDue
SYMMETRY Symmetry
CHECK_DEADLOCK FALSE
