SPECIFICATION FairLockSpec
CONSTANTS
  t1 = t1
  t2 = t2
  t3 = t3
  Free = Free
  Tasks = {t1, t2, t3}
  HalfTTL = 2
  AutoExtend = TRUE
  BlockingTimeout = 2
  MaxDelay = 1
  MaxFaults <- EachOnce
INVARIANTS
  LockHeld
  NothingLeaks
PROPERTIES
  OthersUntouched
  Freed
