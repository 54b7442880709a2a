\* Loading all small files. A load is over when it is over.
SPECIFICATION Spec
CONSTANTS
  GeneratedFiles <- MCGenerated
  CuratedFiles <- MCCurated
  Missing = Missing
  NoText = NoText
  FirstCap = 1
  MayFail = TRUE
CHECK_DEADLOCK FALSE
INVARIANTS
  TypeOK
  WithinAllocation
  DescribedByName
  StringsOwned
