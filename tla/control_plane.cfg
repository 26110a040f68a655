CONSTANTS
  t1 = t1
  t2 = t2
  t3 = t3
  p1 = p1
  p2 = p2
  p3 = p3
  lane1 = lane1
  lane10 = lane10
  issue = issue
  Tasks = {t1, t2, t3}
  Rank <- RankInOrder
  Projects <- ThreeProjects
  ProjectOf <- OneTaskEach
  Dependencies <- SecondNeedsFirst
  Titles <- SomeTitles
  CallerCards <- OneCallerCard
  LockfileProjects = {p2}
  StressRuns = {x1, x2}
  Lanes = {p1, p2, p3}
  NoLane = NoLane
  Priorities = {1}
  LanesLimit = 2
  PaidLimit = 1
  MinProjects = 2
  StartRecords <- ReadyOnly
  MaxCommands = 3
  SessionLanes = {lane1, lane10}
  Messages = {"please", "secret"}
  SecretLike = {"secret"}
  PrefixPairs <- OnePrefix
SPECIFICATION Spec
SYMMETRY StressSymmetry
CHECK_DEADLOCK FALSE
INVARIANTS
  TypeOK
  StressCardsAreTrue
  AtMostOneUnfinished
  DependenciesBeforeLanes
  ReservationsWithinLimits
  TypedIsLogged
  CardsAreClean
PROPERTIES
  ImplementsBoard
