SPECIFICATION Spec
CONSTANTS
  Starts <- MCStarts
  StateBytes = 8
  SHAKE128_RATE = 6
  SHAKE256_RATE = 4
  SHA3_512_RATE = 2
  MaxIn = 9
  MaxOut = 9
  Width = 2
  StateLanes = 4
  RateLanes = 2
  WarpSize = 5
  InLens = {0, 1, 2, 3, 4, 5, 7, 8, 9}
  OutLens = {1, 4, 6, 8}
  Memory = 24
INVARIANTS Permutes WarpHashes
PROPERTY ImplementsXof
CHECK_DEADLOCK FALSE
