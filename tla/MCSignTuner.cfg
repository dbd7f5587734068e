SPECIFICATION Spec
CONSTANTS
  StageCount = 3
  Order <- MCOrder
  FirstLoop = 3
  VariantCount <- MCVariantCount
  Initially <- MCInitially
  Warmups = 1
  Samples = 3
  Durations = {1, 2}
  MaxRounds = 2
  ProfileLimit = 3
INVARIANTS TypeOK WindowClosed ElapsedIsWhole FastestVariant
