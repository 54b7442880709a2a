\* Both sockets; every step that can fail may, none need.
SPECIFICATION FairSpec
CONSTANTS
  PopulateAnswers <- MCPopulateAnswers
  DumpAnswers <- MCDumpAnswers
  DoAnswers <- MCDoAnswers
  MaxSeq <- MCMaxSeq
  MayFail = TRUE
INVARIANTS
  TypeOK
  SyncUntilFailure
  PopulateExact
  InvokeExact
PROPERTY DumpsReturn
