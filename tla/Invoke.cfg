\* Every operation with every list of arguments; dumps of up to two replies.
SPECIFICATION InvokeSpec
CONSTANTS
  Key <- MCKey
  Id <- MCId
  NoId = NoId
  ArgLists <- MCArgLists
  GetCap = 32
  GenericCap = 48
  MaxU32 = 9
  Operations <- MCOperations
  MaxReplies = 2
  Sent <- MCSent
INVARIANTS
  InvokeTypeOK
  WithinRequest
  KernelReads
  TextIsReply
CHECK_DEADLOCK FALSE
