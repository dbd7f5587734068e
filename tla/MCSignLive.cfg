SPECIFICATION FairSpec
CONSTANTS
  Batch = 2
  Slots = 2
  NonceCap = 3
  IdxCap = 2
  MayFail = FALSE
  None = None
  Junk = Junk
PROPERTY CallReturns
