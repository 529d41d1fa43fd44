SPECIFICATION Spec
CONSTANTS
  w1 = w1
  w2 = w2
  t1 = t1
  t2 = t2
  Workers = {w1, w2}
  Tasks = {t1}
  Interval = 1
  Limit = 1
  Cap = 1
  MaxTime = 2
  MaxFaults = 1
CHECK_DEADLOCK FALSE
INVARIANTS
  OkIsTrue
  RunningIsInHand
PROPERTIES
  KeepsTimetable
