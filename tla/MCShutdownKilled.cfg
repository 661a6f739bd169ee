SPECIFICATION Spec
CONSTANTS
  N = 3
  Hooked = {1, 3}
  HasGrpc = TRUE
  Delay = 2
  MaxSignals = 3
  MaxRequests = 2
INVARIANT UnwindsOnShutdown
