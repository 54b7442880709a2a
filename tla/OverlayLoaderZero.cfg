\* The generated file of macsec alone. A load is over when it is over.
SPECIFICATION Spec
CONSTANTS
  GeneratedFiles <- MCFromZero
  CuratedFiles <- MCMissing
  Missing = Missing
  NoText = NoText
  FirstCap = 1
  MayFail = FALSE
CHECK_DEADLOCK FALSE
INVARIANT GeneratedNamed
