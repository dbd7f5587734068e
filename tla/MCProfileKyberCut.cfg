SPECIFICATION ProfileSpec
CONSTANTS
  Writers = {w1}
  Readers = {r1, r2}
  Digits <- MCDigits
  Count <- MCCount
  Settings = 2
  Batches <- MCBatches
  Maximum <- MCMaximum
  Values <- MCBlocks
  Profiles <- MCBlockProfiles
  Foreign <- MCForeignBlocks
  MayCut = TRUE
  None = None
  Mixed = Mixed
INVARIANT ExecutedWasRecommended
