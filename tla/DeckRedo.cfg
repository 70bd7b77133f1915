SPECIFICATION Spec
CONSTANTS
  Workers = {w1}
  Job = job
  Pages = {p1,p2}
  MaxSteps = 2
  MaxRenders = 2
  MaxCancels = 1
  MaxRedos = 1
  MaxCrashes = 0
INVARIANT FinishedRunPackaged
CHECK_DEADLOCK FALSE
