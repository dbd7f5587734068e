SPECIFICATION Spec
CONSTANTS
  Batch = 3
  Slots = 2
  NonceCap = 3
  IdxCap = 4
  MayFail = TRUE
  None = None
  Junk = Junk
INVARIANTS TypeOK ReturnedSignatures NoWriteConflict SignedItemsIntact NoNonceSkipped
PROPERTIES PinnedBuffersStable ImplementsReference
