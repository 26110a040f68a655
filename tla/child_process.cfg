CONSTANTS
  Kinds = {"adapter", "validation"}
  PipeSize = 1
  PromptSize = 2
  Helpers = TRUE
  MaxOutput = 4
  CaptureLimit = 2
  LogLimit = 2
SPECIFICATION FairSpec
CHECK_DEADLOCK FALSE
INVARIANTS
  TypeOK
  OkOutputIsComplete
  OkLogIsComplete
  ReturnedChildIsReaped
PROPERTIES
  WaitEnds
  KilledRunReturns
