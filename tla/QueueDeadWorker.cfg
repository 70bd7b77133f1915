SPECIFICATION FairSpec
CONSTANTS
  u1 = u1
  NoTask = NoTask
  Tasks = {t1}
  Users = {u1}
  Owner <- MCOwner
  Workers = {w1}
  Limit = 2
  MaxCancels = 0
  MaxRedos = 0
  MaxCrashes = 1
PROPERTY AbandonedLeavesRunning
CHECK_DEADLOCK FALSE
