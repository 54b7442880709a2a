\* Every call, with failures at any point.
SPECIFICATION Spec
CONSTANTS
  Addr = {a1, a2, a3, a4, a5, a6}
  NoAddr = NoAddr
  Node <- MCNode
  RootNode = "root"
  Transports <- MCTransports
  Listing <- MCListing
  FirstCap = 1
  MayFail = TRUE
SYMMETRY CellSymmetry
INVARIANTS
  TypeOK
  NoDanglingPointer
  SingleOwner
  NoLeak
  CompleteListing
PROPERTIES
  ViewStable
  ImplementsForest
  CallShrinks
