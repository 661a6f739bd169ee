SPECIFICATION Spec
CONSTANTS
  k1 = k1
  k2 = k2
  Keys = {k1, k2}
  Rates <- SomeRates
  Strategies = {"fixed", "sliding", "memory"}
  Second = 2
  MaxKeys = 1
PROPERTY RemainingIsTrue
