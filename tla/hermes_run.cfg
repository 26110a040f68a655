CONSTANTS
  t1 = t1
  t2 = t2
  Tasks = {t1, t2}
  Runs = {r1, r2}
  Lanes = {s1, s2}
  NoLane = NoLane
  NoTask = NoTask
  Priorities = {1}
  Dependencies <- SecondNeedsFirst
  OpenQuestions = {}
  Requests <- ReadyOrBoth
  Limits = {2}
  MaxConcurrency = 1
  Creating = {}
  MaxDashboard = 0
  MaxOperator = 1
  MaxKills = 1
SPECIFICATION Spec
SYMMETRY RunSymmetry
CHECK_DEADLOCK FALSE
INVARIANTS
  TypeOK
  OneLaneAtATime
  DependenciesFirst
  OkRunIsDone
  RunningTaskHasRun
  CompletedCardHasPr
