CONSTANTS
  RoundCaps <- EveryRoundCap
  Files <- FewFiles
  Situations <- EverySituation
  IoMayFail = FALSE
SPECIFICATION Spec
CHECK_DEADLOCK FALSE
INVARIANTS
  ExhaustedRunIsHandedOver
