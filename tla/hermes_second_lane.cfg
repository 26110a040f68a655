CONSTANTS
  t1 = t1
  t2 = t2
  Tasks = {t1}
  Runs = {r1, r2}
  Lanes = {s1, s2}
  NoLane = NoLane
  NoTask = NoTask
  Priorities = {1}
  Dependencies <- Independent
  OpenQuestions = {}
  Requests <- ReadyOrBoth
  Limits = {1}
  MaxConcurrency = 1
  Creating = {}
  MaxDashboard = 1
  MaxOperator = 0
  MaxKills = 0
SPECIFICATION Spec
CHECK_DEADLOCK FALSE
INVARIANTS
  OneLaneAtATime
