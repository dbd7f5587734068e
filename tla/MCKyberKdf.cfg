SPECIFICATION Spec
CONSTANTS
  Capacity = 2
  KyberK = 2
  Rands <- MCRands
  Message <- MCMessage
  Noise <- MCNoise
  Sample <- MCSample
  Fill <- MCFill
  None = None
  MaxCalls = 4
INVARIANT SecretIsFromMessage
CHECK_DEADLOCK FALSE
