SPECIFICATION Spec
CONSTANTS
  t1 = t1
  t2 = t2
  t3 = t3
  Tasks = {t1, t2, t3}
  MaxIds = 4
SYMMETRY Symmetry
INVARIANT
  EveryCallRecorded
CHECK_DEADLOCK FALSE
