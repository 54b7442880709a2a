\* A call that failed half way is followed by an invoke.
SPECIFICATION Spec
CONSTANTS
  PopulateAnswers <- MCPopulateAnswers
  DumpAnswers <- MCDumpAnswers
  DoAnswers <- MCDoAnswers
  MaxSeq <- MCMaxSeq
  MayFail = TRUE
INVARIANT PrintsTheReply
