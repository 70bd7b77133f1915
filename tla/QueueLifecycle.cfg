SPECIFICATION FairSpec
CONSTANTS
  u1 = u1
  NoTask = NoTask
  Tasks = {t1}
  Users = {u1}
  Owner <- MCOwner
  Workers = {w1}
  Limit = 2
  MaxCancels = 1
  MaxRedos = 1
  MaxCrashes = 1
INVARIANT RunningHasRunner
INVARIANT JobTakesUp
PROPERTY RefinesLifecycle
PROPERTY SettledIsStable
PROPERTY AdmittedIsPickedUp
PROPERTY RunSettles
CHECK_DEADLOCK FALSE
