\* Every message with every overlay, listed with retries; any allocation may fail.
SPECIFICATION Spec
CONSTANTS
  Block <- MCBlock
  Messages <- MCMessages
  Overlays <- MCOverlays
  MaxLists = 4
  MayFail = TRUE
INVARIANTS
  TypeOK
  HeapOwned
  FamilyAsSent
  AcceptedAsListed
