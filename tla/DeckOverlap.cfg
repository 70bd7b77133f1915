SPECIFICATION Spec
CONSTANTS
  Workers = {w1}
  Job = job
  Pages = {p1,p2}
  MaxSteps = 2
  MaxRenders = 2
  MaxCancels = 1
  MaxRedos = 0
  MaxCrashes = 0
PROPERTY ReplacesOnlyAffected
CHECK_DEADLOCK FALSE
