CONSTANTS
  Lanes = {l1, l2}
  NoLane = NoLane
  Runs = {r1, r2}
  Janitors = {j1}
  MaxFailures = 2
SPECIFICATION Spec
INVARIANTS
  TypeOK
  LiveLaneIsActive
  LeftLaneIsRecoverable
PROPERTIES
  ImplementsLease
  NoWorkDestroyed
