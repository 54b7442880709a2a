\* A change at any moment by the kernel, a listing that may fail and be tried again.
SPECIFICATION FairSpec
CONSTANTS
  Names <- MCNames
  TooLong <- MCTooLong
  Disks <- MCDisks
  Contents <- MCContents
  Cap = 3
  MaxChanges = 1
  MaxAttempts = 2
  MayFail = TRUE
INVARIANTS
  TypeOK
  FreedOnce
  StableListed
  TextIsContent
PROPERTY CallsEnd
CHECK_DEADLOCK FALSE
