\* Every mode on every path; anything may fail.
SPECIFICATION Spec
CONSTANTS
  Node <- MCNode
  Root = "root"
  Kids <- MCKids
  NameOf <- MCNameOf
  Operations <- MCOperations
  Invocable <- MCInvocable
  Paths <- MCPaths
  NoName = NoName
  MayFail = TRUE
INVARIANTS
  TypeOK
  RoundTrip
  LazyListing
  ListingExact
  TornDown
CHECK_DEADLOCK FALSE
