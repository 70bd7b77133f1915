SPECIFICATION FairSpec
CONSTANTS
  u1 = u1
  NoTask = NoTask
  Tasks = {t1}
  Users = {u1}
  Owner <- MCOwner
  Workers = {w1}
  Limit = 2
  MaxCancels = 1
  MaxRedos = 1
  MaxCrashes = 0
PROPERTY RedoIsPickedUp
CHECK_DEADLOCK FALSE
