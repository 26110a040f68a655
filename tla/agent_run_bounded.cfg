CONSTANTS
  Kinds = {"adapter"}
  PipeSize = 1
  PromptSize = 2
  Helpers = FALSE
  MaxOutput = 1
  CaptureLimit = 1
  LogLimit = 1
SPECIFICATION FairSpec
CHECK_DEADLOCK FALSE
PROPERTIES
  RunIsBounded
