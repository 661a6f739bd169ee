SPECIFICATION FairSpec
CONSTANTS
  c1 = c1
  c2 = c2
  c3 = c3
  Callers = {c1, c2}
  Mode <- OneCall
  Cancellable = {}
  FailureThreshold = 1
  RecoveryTimeout = 1
  HalfOpenMaxCalls = 1
PROPERTY
  ProbeDecides
