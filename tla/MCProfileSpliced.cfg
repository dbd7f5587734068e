SPECIFICATION ProfileSpec
CONSTANTS
  Writers = {w1, w2}
  Readers = {r1, r2}
  Digits <- MCDigits
  Count <- MCCount
  Settings = 2
  Batches <- MCBatches
  Maximum <- MCMaximum
  Values <- MCVariants
  Profiles <- MCVariantProfiles
  Foreign <- MCForeignVariants
  MayCut = TRUE
  None = None
  Mixed = Mixed
INVARIANT ExecutedWasRecommended
