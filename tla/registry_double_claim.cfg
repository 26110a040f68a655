CONSTANTS
  p1 = p1
  p2 = p2
  t1 = t1
  t2 = t2
  l1 = l1
  l2 = l2
  Procs = {p1, p2}
  Tasks = {t1}
  Lanes = {l1, l2}
  NoLane = NoLane
  Priorities = {1}
  Absent = Absent
  Truncated = Truncated
  Garbled = Garbled
  NoEdit = NoEdit
  MaxClaims = 2
  MaxCreates = 1
  MaxCrashes = 0
SPECIFICATION Spec
CHECK_DEADLOCK FALSE
INVARIANTS
  NeverDoubleClaimed
