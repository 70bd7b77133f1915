SPECIFICATION Spec
CONSTANTS
  u1 = u1
  NoTask = NoTask
  Tasks = {t1,t2,t3}
  Users = {u1}
  Owner <- MCOwner
  Workers = {w1}
  Limit = 2
  MaxCancels = 0
  MaxRedos = 0
  MaxCrashes = 0
SYMMETRY Symmetry
INVARIANT AtMostLimitRunning
CHECK_DEADLOCK FALSE
