SPECIFICATION FairStackSpec
CONSTANTS
  r1 = r1
  r2 = r2
  r3 = r3
  a = a
  b = b
  Chunks = {a, b}
  Requests = {r1, r2, r3}
  Keyed = {r1, r3}
  Body <- Bodies
  Statuses = {200}
  Sizes = {1}
  MaxResponse = 0
  MaxStoredBytes = 1
  FailOpen = FALSE
  RetryOnTimeout = TRUE
  MaxFaults <- AnyCancelled
  MaxBodyBytes = 2
  ContentLength <- Declared
INVARIANTS
  AnsweredOnce
  ObservedStatus
  OversizedRefused
PROPERTY
  DeadlineHolds
