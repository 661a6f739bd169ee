SPECIFICATION FairSpec
CONSTANTS
  r1 = r1
  r2 = r2
  r3 = r3
  a = a
  b = b
  Chunks = {a, b}
  Requests = {r1, r2, r3}
  Keyed = {r1, r2, r3}
  Body <- TwoBodies
  Statuses = {200, 500}
  Sizes = {1, 2}
  MaxResponse = 3
  MaxStoredBytes = 1
  FailOpen = FALSE
  RetryOnTimeout = TRUE
  MaxFaults <- NoFaults
INVARIANTS
  ReplayFaithful
  MarkerHasRequest
  ConflictMeansDifferentBody
PROPERTY
  MarkerResolved
