SPECIFICATION Spec
CONSTANTS
  u1 = u1
  NoTask = NoTask
  Tasks = {t1,t2}
  Users = {u1}
  Owner <- MCOwner
  Workers = {w1}
  Limit = 1
  MaxCancels = 0
  MaxRedos = 0
  MaxCrashes = 1
SYMMETRY Symmetry
INVARIANT TypeOK
INVARIANT CounterWithinLimit
INVARIANT CounterExact
INVARIANT LimitUnlessUnpaid
CHECK_DEADLOCK FALSE
