SPECIFICATION Spec
CONSTANTS
  KernelCount = 2
  Sizes = {2, 4, 8}
  BlockLimit = 8
  GridLimit = 2
  DeviceMax = 8
  Maximum <- MCMaximum
  Default <- MCDefault
  MaxBatch = 5
  Times = {0, 1, 2}
  Warmups = 2
  Samples = 2
INVARIANTS TypeOK LaunchesLegal WholeBatch MeasuresCandidate WindowClosed PublishedTuning
