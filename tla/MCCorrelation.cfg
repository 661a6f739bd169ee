SPECIFICATION Spec
CONSTANTS
  t1 = t1
  t2 = t2
  t3 = t3
  Tasks = {t1, t2, t3}
  MaxIds = 4
SYMMETRY Symmetry
INVARIANTS
  Correlated
  RecordedOnce
PROPERTY
  LeavesNoTrace
CHECK_DEADLOCK FALSE
