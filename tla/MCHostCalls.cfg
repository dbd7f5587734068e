SPECIFICATION Spec
CONSTANTS
  Items = {1, 2}
  MayNotStart = {"verify"}
  Unanswered = Unanswered
  MaxCalls = 2
  Idle = Idle
  Devices <- MCDevices
  Maximums <- MCMaximums
  Groupings = {4, 32}
  Totals = {8, 10, 20, 39, 400, 410}
  MAX_WORKLOADS = 64
  Nothing = Nothing
  MessageLengths <- MCLengths
  Granularities = {1, 256, 512, 4096, 16384}
  ItemsAndSlots = {0, 1, 7}
  MaxBatch = 2
  MaxTasks = 4
  ItemDigits = 2
  Writers = {w1, w2}
  Readers = {r1, r2}
  Digits <- MCDigits
  Count <- MCCount
  Settings = 2
  Batches <- MCBatches
  Maximum <- MCMaximum
  Values <- MCVariants
  Profiles <- MCVariantProfiles
  Foreign <- MCForeignVariants
  MayCut = TRUE
  None = None
  Mixed = Mixed
INVARIANTS VerifiesItems KeysArePairs CallsCleanUp WorkloadsFit RecommendsFastest PoolsFit PathsToldApart FilesCarryItems UnsplicedWasRecommended SavedProfileLoads
CHECK_DEADLOCK FALSE
