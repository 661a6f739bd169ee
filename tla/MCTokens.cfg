SPECIFICATION FairSpec
CONSTANTS
  c1 = c1
  c2 = c2
  Callers = {c1, c2}
  Nobody = Nobody
  Life = 3
  Leeway = 1
  MaxDelay = 1
  KeyTTL = 1
  MaxTokens = 3
  MaxRotations = 1
  MaxOutages = 1
PROPERTIES
  ProviderSound
  ValidatorSound
  Served
