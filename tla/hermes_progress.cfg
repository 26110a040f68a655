CONSTANTS
  t1 = t1
  t2 = t2
  Tasks = {t1, t2, t3, t4}
  Runs = {r1}
  Lanes = {s1}
  NoLane = NoLane
  NoTask = NoTask
  Priorities = {1, 2}
  Dependencies <- Independent
  OpenQuestions = {t2}
  Requests <- ReadyOrBoth
  Limits = {3}
  MaxConcurrency = 2
  Creating = {"task create", "ingest-spec"}
  MaxDashboard = 1
  MaxOperator = 1
  MaxKills = 0
SPECIFICATION FairSpec
CHECK_DEADLOCK FALSE
INVARIANTS
  ConcurrencyIsBounded
PROPERTIES
  RunsReturn
