SPECIFICATION FairSpec
CONSTANTS
  N = 3
  Hooked = {1, 3}
  HasGrpc = TRUE
  Delay = 2
  MaxSignals = 3
  MaxRequests = 2
INVARIANTS
  GracefulOnce
  NotUnderfoot
  CleanUnwind
PROPERTY
  Ends
