CONSTANTS
  RoundCaps <- EveryRoundCap
  Files <- EveryFile
  Situations <- EverySituation
  IoMayFail = TRUE
SPECIFICATION FairSpec
CHECK_DEADLOCK FALSE
INVARIANTS
  TypeOK
  RoundsWithinBudget
  PublishedWorkIsVetted
  ReturnedRunIsConcluded
PROPERTIES
  BlockedWorkIsKept
  RunReturns
