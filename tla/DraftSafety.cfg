SPECIFICATION Spec
CONSTANTS
  Tabs = {t1,t2}
  Slides = {s1,s2}
  InsertAts = {0,1}
  MaxWrites = 3
SYMMETRY AnyTabAnySlide
INVARIANT TypeOK
INVARIANT RevisionCountsWrites
INVARIANT OrdersUnique
INVARIANT HeldLockExpires
PROPERTY NoBlindOverwrite
PROPERTY LossStaysVisible
PROPERTY DeletedIsFinal
CHECK_DEADLOCK FALSE
