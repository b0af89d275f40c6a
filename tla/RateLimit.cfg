SPECIFICATION Spec
CONSTANTS
  Rates = {0, 1}
  TPS = 2
  Tuples = 3
  PerCall = {0, 1, 2}
  InitTokens = {0, 2}
INVARIANT TypeOK
INVARIANT SendRateBound
PROPERTY QueueDrains
