SPECIFICATION Spec
CONSTANTS
  Capacity = 2
  KyberK = 2
  Rands <- MCRands
  Message <- MCMessage
  Noise <- MCNoise
  Sample <- MCSample
  Fill <- MCFill
  None = None
  MaxCalls = 4
INVARIANTS TypeOK SecretsMatch
CHECK_DEADLOCK FALSE
PROPERTY ImplementsReference
