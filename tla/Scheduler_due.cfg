SPECIFICATION DueSpec
CONSTANTS
  w1 = w1
  Changing = {t1}
  t1 = t1
  t2 = t2
  t3 = t3
  Workers = {w1}
  Tasks = {t1, t2, t3}
  Interval = 1
  Limit = 2
  Cap = 1
  MaxTime = 2
  MaxFaults = 1
CHECK_DEADLOCK FALSE
INVARIANTS
  NobodyIsOvertakenTwice
PROPERTIES
  DueTasksAreClaimed
