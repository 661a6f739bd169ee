SPECIFICATION FairCacheSpec
CONSTANTS
  t1 = t1
  t2 = t2
  Free = Free
  Absent = Absent
  Poisoned = Poisoned
  Tasks = {t1, t2}
  HalfTTL = 1
  AutoExtend = FALSE
  BlockingTimeout = 2
  MaxDelay = 0
  MaxFaults <- OneOfEach
  Protect = TRUE
  MaxWrites = 1
  Unserializable = {1}
  FactoryErrors = {"error", "redis"}
INVARIANTS
  OneFill
  CallerServed
  ServedFresh
PROPERTY
  Answered
