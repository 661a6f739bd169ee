SPECIFICATION FairSpec
CONSTANTS
  c1 = c1
  c2 = c2
  c3 = c3
  Callers = {c1, c2, c3}
  Mode <- OneCall
  Cancellable = {c2, c3}
  FailureThreshold = 2
  RecoveryTimeout = 3
  HalfOpenMaxCalls = 2
INVARIANTS
  Spared
  ProbeInFlight
PROPERTY
  Recovers
