SPECIFICATION Spec
CONSTANTS
  Lanes = 2
  K = 2
  N = 8
  OMEGA = 3
  NWarps = 2
  L = 1
  Attempts <- MCAttempts
  WarpThreads = 4
  Rounds = 2
  MatrixSamples = 11
  EtaRounds = 3
  BlockSamples = 3
  FirstBlocks = 4
  MoreBlocks = 1
  Coefficients <- MCEdges
  ProductsS2 <- MCProductsS2
  ProductsT0 <- MCProductsT0
INVARIANTS KernelTransforms KernelRaceFree DecidesAttempt AllOrNone SamplesInOrder CoefficientsRecovered
CHECK_DEADLOCK FALSE
