SPECIFICATION Spec
CONSTANTS
  Workers = {w1}
  Job = job
  Pages = {p1,p2}
  MaxSteps = 2
  MaxRenders = 2
  MaxCancels = 1
  MaxRedos = 1
  MaxCrashes = 1
SYMMETRY AnyPage
INVARIANT TypeOK
INVARIANT DeckIsCheckpoint
INVARIANT SuccessHasDeck
INVARIANT PackagedUnlessRedone
PROPERTY CheckpointGrows
PROPERTY FollowsLifecycle
CHECK_DEADLOCK FALSE
