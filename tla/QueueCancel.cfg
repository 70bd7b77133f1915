SPECIFICATION Spec
CONSTANTS
  u1 = u1
  NoTask = NoTask
  Tasks = {t1}
  Users = {u1}
  Owner <- MCOwner
  Workers = {w1}
  Limit = 2
  MaxCancels = 1
  MaxRedos = 0
  MaxCrashes = 0
PROPERTY CancelledStays
CHECK_DEADLOCK FALSE
