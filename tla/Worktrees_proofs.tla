--------------------------- MODULE Worktrees_proofs ---------------------------
(***************************************************************************)
(* Theorems of Worktrees, for any number of lanes and runs and any number  *)
(* of failures.  All but the first are about one janitor: two that prune   *)
(* at the same time may clean up the lane of a run between them.           *)
(***************************************************************************)
EXTENDS Worktrees, TLAPS

Procs == Runs \cup Janitors

LEMMA NextCases ==
    ASSUME [Next]_vars
    PROVE  \/ UNCHANGED vars
           \/ \E p \in Runs, l \in Lanes : RunStep(p, l)
           \/ \E p \in Janitors : StartPrune(p)
           \/ \E p \in Janitors, l \in Lanes : JanitorStep(p, l)
           \/ \E p \in Procs : Fail(p)
           \/ UserEdits
  BY DEF Next, Procs
-----------------------------------------------------------------------------
LEMMA TypeStep == ASSUME TypeOK, [Next]_vars PROVE TypeOK'
<1> USE DEF TypeOK, Procs, Op, Step, CleanupStatus, Idle, At, GoTo, Return, Done,
            DiskUnchanged, OpenMeta, FillMeta, Readable, Visited
<1>1. CASE UNCHANGED vars
  BY <1>1 DEF vars
<1>2. ASSUME NEW p \in Procs, NEW l \in Lanes, CleanupLane(p, l) PROVE TypeOK'
  <2>1. CASE ReadMetadata(p, l)
    BY <2>1 DEF ReadMetadata
  <2>2. CASE CheckClean(p, l)
    BY <2>2 DEF CheckClean
  <2>3. CASE WriteCleaned(p, l)
    BY <2>3 DEF WriteCleaned
  <2>4. CASE RemoveWorktree(p, l)
    BY <2>4 DEF RemoveWorktree
  <2>5. CASE DeleteBranch(p, l)
    BY <2>5 DEF DeleteBranch
  <2> QED BY <1>2, <2>1, <2>2, <2>3, <2>4, <2>5 DEF CleanupLane
<1>3. ASSUME NEW p \in Runs, NEW l \in Lanes, RunStep(p, l) PROVE TypeOK'
  <2>1. CASE CheckPath(p, l)
    BY <2>1 DEF CheckPath
  <2>2. CASE RequireCleanTree(p, l)
    BY <2>2 DEF RequireCleanTree
  <2>3. CASE AddWorktree(p, l)
    BY <2>3 DEF AddWorktree
  <2>4. CASE WriteMetadata(p, l)
    BY <2>4 DEF WriteMetadata
  <2>5. CASE Work(p, l)
    BY <2>5 DEF Work
  <2>6. CASE LeaveWorktree(p, l)
    BY <2>6 DEF LeaveWorktree
  <2>7. CASE StartCleanup(p, l)
    BY <2>7 DEF StartCleanup
  <2>8. CASE AddBranchOnly(p, l)
    BY <2>8 DEF AddBranchOnly
  <2> QED BY <1>2, <1>3, <2>1, <2>2, <2>3, <2>4, <2>5, <2>6, <2>7, <2>8 DEF RunStep
<1>4. ASSUME NEW p \in Janitors, StartPrune(p) PROVE TypeOK'
  BY <1>4 DEF StartPrune
<1>5. ASSUME NEW p \in Janitors, NEW l \in Lanes, JanitorStep(p, l) PROVE TypeOK'
  <2>1. CASE MarkLaneStale(p, l)
    BY <2>1 DEF MarkLaneStale
  <2>2. CASE PruneNext(p, l)
    BY <2>2 DEF PruneNext
  <2> QED BY <1>2, <1>5, <2>1, <2>2 DEF JanitorStep
<1>6. ASSUME NEW p \in Procs, Fail(p) PROVE TypeOK'
  BY <1>6 DEF Fail
<1>7. CASE UserEdits
  BY <1>7 DEF UserEdits
<1> QED BY <1>1, <1>3, <1>4, <1>5, <1>6, <1>7, NextCases

\* The type invariant.
THEOREM TypeCorrect == Spec => []TypeOK
<1>1. Init => TypeOK
  BY DEF Init, TypeOK, Idle, Op, Step
<1> QED BY <1>1, TypeStep, PTL DEF Spec
-----------------------------------------------------------------------------
OneJanitor == \A p, q \in Janitors : p = q

\* What a lane looks like while a process is at a step of a call on it.
InHand(l, step) ==
    /\ l \in branch
    /\ tree[l] = "absent" <=> step = "delete"
    /\ step \in {"clean", "cleaned", "remove"} => tree[l] = "clean"

\* The metadata as the run that holds the lane has left it.
MetaAt(step) ==
    CASE step \in {"write", "delete"}                      -> "none"
      [] step \in {"fill", "cleaned"}                      -> "torn"
      [] step \in {"working", "read", "check", "clean"}    -> "Active"
      [] step = "remove"                                   -> "Cleaned"

RunSteps     == Step \ {"mark", "marked", "prune"}
JanitorSteps == Step \ {"status", "add", "write", "fill", "working"}
Holding      == RunSteps \ {"idle", "status", "add"}

\* A lane in the hands of a run is in nobody else's, so that its tree and its
\* metadata are what that run has made of them; a janitor is at lanes only that
\* no run holds.
LaneInv ==
    /\ \A l \in Lanes : tree[l] # "absent" => l \in branch
    /\ \A l \in Lanes : meta[l] # "none" => tree[l] # "absent"
    /\ \A r \in Runs : op[r].step \in RunSteps /\ op[r].rest = {}
    /\ \A r \in Runs : op[r].step = "idle" <=> op[r].lane = NoLane
    /\ \A r \in Runs : op[r].step \in Holding =>
          InHand(op[r].lane, op[r].step) /\ meta[op[r].lane] = MetaAt(op[r].step)
    /\ \A r, s \in Runs :
          op[r].step \in Holding /\ op[s].step \in Holding /\ op[r].lane = op[s].lane => r = s
    /\ \A j \in Janitors : op[j].step \in JanitorSteps
    /\ \A j \in Janitors : op[j].step \in {"idle", "prune"} <=> op[j].lane = NoLane
    /\ \A j \in Janitors : op[j].step \notin {"idle", "prune"} =>
          InHand(op[j].lane, op[j].step)
    /\ \A j \in Janitors, r \in Runs :
          op[r].step \in Holding => op[j].lane # op[r].lane

LEMMA LaneStep ==
    ASSUME OneJanitor, TypeOK, LaneInv, [Next]_vars
    PROVE  LaneInv'
<1> USE NoLaneIsNoLane, RunsAreNoJanitors
        DEF TypeOK, LaneInv, OneJanitor, InHand, MetaAt, RunSteps, JanitorSteps, Holding,
            Procs, Op, Step, CleanupStatus, Idle, At, GoTo, Return, Done,
            DiskUnchanged, OpenMeta, FillMeta, Readable, Visited, Holders, Holds
<1>1. CASE UNCHANGED vars
  BY <1>1 DEF vars
<1>2. ASSUME NEW p \in Runs, NEW l \in Lanes, RunStep(p, l) PROVE LaneInv'
  <2>1. CASE CheckPath(p, l)
    BY <2>1 DEF CheckPath
  <2>2. CASE RequireCleanTree(p, l)
    BY <2>2 DEF RequireCleanTree
  <2>3. CASE AddWorktree(p, l)
    BY <2>3 DEF AddWorktree
  <2>4. CASE WriteMetadata(p, l)
    BY <2>4 DEF WriteMetadata
  <2>5. CASE Work(p, l)
    BY <2>5 DEF Work
  <2>6. CASE LeaveWorktree(p, l)
    BY <2>6 DEF LeaveWorktree
  <2>7. CASE StartCleanup(p, l)
    BY <2>7 DEF StartCleanup
  <2>8. CASE ReadMetadata(p, l)
    BY <2>8 DEF ReadMetadata
  <2>9. CASE CheckClean(p, l)
    BY <2>9 DEF CheckClean
  <2>10. CASE WriteCleaned(p, l)
    BY <2>10 DEF WriteCleaned
  <2>11. CASE RemoveWorktree(p, l)
    BY <2>11 DEF RemoveWorktree
  <2>12. CASE DeleteBranch(p, l)
    BY <2>12 DEF DeleteBranch
  <2>13. CASE AddBranchOnly(p, l)
    BY <2>13 DEF AddBranchOnly
  <2> QED BY <1>2, <2>1, <2>2, <2>3, <2>4, <2>5, <2>6, <2>7, <2>8, <2>9, <2>10, <2>11, <2>12, <2>13 DEF RunStep, CleanupLane
<1>3. ASSUME NEW p \in Janitors, StartPrune(p) PROVE LaneInv'
  BY <1>3 DEF StartPrune
<1>4. ASSUME NEW p \in Janitors, NEW l \in Lanes, JanitorStep(p, l) PROVE LaneInv'
  <2>1. CASE MarkLaneStale(p, l)
    BY <2>1 DEF MarkLaneStale
  <2>2. CASE PruneNext(p, l)
    BY <2>2 DEF PruneNext
  <2>3. CASE ReadMetadata(p, l)
    BY <2>3 DEF ReadMetadata
  <2>4. CASE CheckClean(p, l)
    BY <2>4 DEF CheckClean
  <2>5. CASE WriteCleaned(p, l)
    BY <2>5 DEF WriteCleaned
  <2>6. CASE RemoveWorktree(p, l)
    BY <2>6 DEF RemoveWorktree
  <2>7. CASE DeleteBranch(p, l)
    BY <2>7 DEF DeleteBranch
  <2> QED BY <1>4, <2>1, <2>2, <2>3, <2>4, <2>5, <2>6, <2>7 DEF JanitorStep, CleanupLane
<1>5. ASSUME NEW p \in Procs, Fail(p) PROVE LaneInv'
  BY <1>5 DEF Fail
<1>6. CASE UserEdits
  BY <1>6 DEF UserEdits
<1> QED BY <1>1, <1>2, <1>3, <1>4, <1>5, <1>6, NextCases

LEMMA LaneInit == Init => LaneInv
  BY NoLaneIsNoLane
     DEF Init, LaneInv, Idle, RunSteps, JanitorSteps, Holding, Step, InHand, MetaAt

LEMMA LaneInvariant == ASSUME OneJanitor PROVE Spec => []LaneInv
<1>1. TypeOK /\ LaneInv /\ [Next]_vars => LaneInv'
  BY LaneStep
<1> QED BY <1>1, LaneInit, TypeCorrect, PTL DEF Spec

\* A lane whose worker is at work has active metadata: no prune takes it.
THEOREM LiveLaneIsActiveAlways == ASSUME OneJanitor PROVE Spec => []LiveLaneIsActive
<1>1. TypeOK /\ LaneInv => LiveLaneIsActive
  BY DEF TypeOK, LaneInv, LiveLaneIsActive, At, Holding, RunSteps, Step, MetaAt, Op
<1> QED BY <1>1, LaneInvariant, TypeCorrect, PTL
-----------------------------------------------------------------------------
RemovesCleanTrees == \A l \in Lanes : tree[l] = "dirty" => tree'[l] # "absent"

LEMMA RemovalStep ==
    ASSUME TypeOK, LaneInv, [Next]_vars
    PROVE  RemovesCleanTrees
<1> USE DEF TypeOK, RemovesCleanTrees, DiskUnchanged
<1>1. ASSUME NEW p \in Procs, NEW l \in Lanes, CleanupLane(p, l) PROVE RemovesCleanTrees
  <2>1. CASE RemoveWorktree(p, l)
    <3>1. tree[l] # "dirty"
      BY <2>1 DEF RemoveWorktree, At, LaneInv, InHand, Procs, Holding, RunSteps, Step
    <3> QED BY <2>1, <3>1 DEF RemoveWorktree
  <2>2. CASE ReadMetadata(p, l) \/ CheckClean(p, l) \/ WriteCleaned(p, l) \/ DeleteBranch(p, l)
    BY <2>2 DEF ReadMetadata, CheckClean, WriteCleaned, DeleteBranch
  <2> QED BY <1>1, <2>1, <2>2 DEF CleanupLane
<1>2. ASSUME NEW p \in Runs, NEW l \in Lanes, RunStep(p, l) PROVE RemovesCleanTrees
  <2>1. CASE CheckPath(p, l) \/ RequireCleanTree(p, l) \/ LeaveWorktree(p, l) \/ StartCleanup(p, l)
    BY <2>1 DEF CheckPath, RequireCleanTree, LeaveWorktree, StartCleanup
  <2>2. CASE AddWorktree(p, l) \/ AddBranchOnly(p, l) \/ WriteMetadata(p, l) \/ Work(p, l)
    BY <2>2 DEF AddWorktree, AddBranchOnly, WriteMetadata, Work
  <2> QED BY <1>1, <1>2, <2>1, <2>2 DEF RunStep, Procs
<1>3. ASSUME NEW p \in Janitors, NEW l \in Lanes, JanitorStep(p, l) PROVE RemovesCleanTrees
  BY <1>1, <1>3 DEF JanitorStep, MarkLaneStale, PruneNext, Procs
<1>4. CASE \/ UNCHANGED vars \/ UserEdits
           \/ (\E p \in Janitors : StartPrune(p)) \/ (\E p \in Procs : Fail(p))
  BY <1>4 DEF vars, UserEdits, StartPrune, Fail
<1> QED BY <1>2, <1>3, <1>4, NextCases

\* No cleanup and no prune removes a worktree that holds uncommitted work.
THEOREM NoWorkDestroyedAlways == ASSUME OneJanitor PROVE Spec => NoWorkDestroyed
<1>1. TypeOK /\ LaneInv /\ [Next]_vars => [RemovesCleanTrees]_vars
  BY RemovalStep
<1> QED BY <1>1, LaneInvariant, TypeCorrect, PTL DEF Spec, NoWorkDestroyed, RemovesCleanTrees
-----------------------------------------------------------------------------
Recoverable(l) == IF tree[l] = "absent" THEN l \notin branch ELSE meta[l] \in {"Active", "Stale"}

\* The metadata as a janitor that is at a lane has found and left it.
JanitorMeta(step) ==
    CASE step \in {"mark", "read", "check", "clean"} -> {"Active", "Stale"}
      [] step \in {"marked", "cleaned"}              -> {"torn"}
      [] step = "remove"                             -> {"Cleaned"}
      [] step = "delete"                             -> {"none"}

\* While no call has failed, a lane that is in nobody's hands can be used again
\* and a janitor has what it needs to finish with its lane.  A run that is only
\* about to ask for a lane has it not in its hands.
RecoverInv ==
    failures = 0 =>
        /\ \A j \in Janitors : op[j].step \notin {"idle", "prune"} =>
              meta[op[j].lane] \in JanitorMeta(op[j].step)
        /\ \A l \in Lanes :
              (\A r \in Runs : ~Holds(r, l)) /\ (\A j \in Janitors : op[j].lane # l) =>
                  Recoverable(l)

LEMMA RecoverStep ==
    ASSUME OneJanitor, TypeOK, LaneInv, RecoverInv, [Next]_vars
    PROVE  RecoverInv'
<1> USE NoLaneIsNoLane, RunsAreNoJanitors
        DEF TypeOK, LaneInv, RecoverInv, OneJanitor, InHand, MetaAt, JanitorMeta, Recoverable,
            RunSteps, JanitorSteps, Holding, Procs, Op, Step, CleanupStatus, Idle, At, GoTo,
            Return, Done, DiskUnchanged, OpenMeta, FillMeta, Readable, Visited, Holders, Holds
<1>1. CASE UNCHANGED vars
  BY <1>1 DEF vars
<1>2. ASSUME NEW p \in Runs, NEW l \in Lanes, RunStep(p, l) PROVE RecoverInv'
  <2>1. CASE CheckPath(p, l)
    BY <2>1 DEF CheckPath
  <2>2. CASE RequireCleanTree(p, l)
    BY <2>2 DEF RequireCleanTree
  <2>3. CASE AddWorktree(p, l)
    BY <2>3 DEF AddWorktree
  <2>4. CASE WriteMetadata(p, l)
    <3>1. CASE At(p, "write", l)
      BY <2>4, <3>1 DEF WriteMetadata
    <3>2. CASE At(p, "fill", l)
      BY <2>4, <3>2 DEF WriteMetadata
    <3> QED BY <2>4, <3>1, <3>2 DEF WriteMetadata
  <2>5. CASE Work(p, l)
    BY <2>5 DEF Work
  <2>6. CASE LeaveWorktree(p, l)
    BY <2>6 DEF LeaveWorktree
  <2>7. CASE StartCleanup(p, l)
    BY <2>7 DEF StartCleanup
  <2>8. CASE ReadMetadata(p, l)
    BY <2>8 DEF ReadMetadata
  <2>9. CASE CheckClean(p, l)
    BY <2>9 DEF CheckClean
  <2>10. CASE WriteCleaned(p, l)
    BY <2>10 DEF WriteCleaned
  <2>11. CASE RemoveWorktree(p, l)
    <3>1. op[p].lane = l /\ op[p].step = "remove" /\ tree[l] # "absent" /\ Holds(p, l)
      BY <2>11 DEF RemoveWorktree
    <3>2. /\ op' = [op EXCEPT ![p].step = "delete"]
          /\ tree' = [tree EXCEPT ![l] = "absent"] /\ meta' = [meta EXCEPT ![l] = "none"]
          /\ UNCHANGED <<branch, failures>>
      BY <2>11, <3>1 DEF RemoveWorktree
    <3>3. \A r \in Runs, m \in Lanes : Holds(r, m)' <=> Holds(r, m)
      BY <3>1, <3>2
    <3>4. \A j \in Janitors : op'[j] = op[j] /\ op[j].lane # l
      BY <3>1, <3>2
    <3>5. \A m \in Lanes : m # l => (Recoverable(m)' <=> Recoverable(m))
      BY <3>2
    <3> QED BY <3>1, <3>2, <3>3, <3>4, <3>5
  <2>12. CASE DeleteBranch(p, l)
    BY <2>12 DEF DeleteBranch
  <2>13. CASE AddBranchOnly(p, l)
    BY <2>13 DEF AddBranchOnly
  <2> QED BY <1>2, <2>1, <2>2, <2>3, <2>4, <2>5, <2>6, <2>7, <2>8, <2>9, <2>10, <2>11, <2>12, <2>13 DEF RunStep, CleanupLane
<1>3. ASSUME NEW p \in Janitors, StartPrune(p) PROVE RecoverInv'
  BY <1>3 DEF StartPrune
<1>4. ASSUME NEW p \in Janitors, NEW l \in Lanes, JanitorStep(p, l) PROVE RecoverInv'
  <2>1. CASE MarkLaneStale(p, l)
    BY <2>1 DEF MarkLaneStale
  <2>2. CASE PruneNext(p, l)
    BY <2>2 DEF PruneNext
  <2>3. CASE ReadMetadata(p, l)
    BY <2>3 DEF ReadMetadata
  <2>4. CASE CheckClean(p, l)
    BY <2>4 DEF CheckClean
  <2>5. CASE WriteCleaned(p, l)
    BY <2>5 DEF WriteCleaned
  <2>6. CASE RemoveWorktree(p, l)
    BY <2>6 DEF RemoveWorktree
  <2>7. CASE DeleteBranch(p, l)
    BY <2>7 DEF DeleteBranch
  <2> QED BY <1>4, <2>1, <2>2, <2>3, <2>4, <2>5, <2>6, <2>7 DEF JanitorStep, CleanupLane
<1>5. ASSUME NEW p \in Procs, Fail(p) PROVE RecoverInv'
  BY <1>5 DEF Fail
<1>6. CASE UserEdits
  BY <1>6 DEF UserEdits
<1> QED BY <1>1, <1>2, <1>3, <1>4, <1>5, <1>6, NextCases

\* Unless a call has failed, a lane that nobody is at can be allocated again, or
\* has metadata that a cleanup or a prune accepts.
THEOREM LeftLaneIsRecoverableAlways ==
    ASSUME OneJanitor PROVE Spec => []LeftLaneIsRecoverable
<1>1. Init => RecoverInv
  BY DEF Init, RecoverInv, Recoverable, Idle
<1>2. TypeOK /\ LaneInv /\ RecoverInv /\ [Next]_vars => RecoverInv'
  BY RecoverStep
<1>3. RecoverInv => LeftLaneIsRecoverable
  BY DEF RecoverInv, LeftLaneIsRecoverable, Recoverable, Holds
<1> QED BY <1>1, <1>2, <1>3, LaneInvariant, TypeCorrect, PTL DEF Spec
-----------------------------------------------------------------------------
\* Refinement.  A step that moves no run in or out of its lane and no branch is a
\* stutter of LaneLease; every other step is about one run and its lane.
HoldersNow == [l \in Lanes |-> Holders(l)]

LEMMA QuietStep ==
    ASSUME \A r \in Runs, l \in Lanes : Holds(r, l)' <=> Holds(r, l)
    PROVE  HoldersNow' = HoldersNow
<1>1. \A l \in Lanes : Holders(l)' = Holders(l)
  BY DEF Holders
<1> QED BY <1>1 DEF HoldersNow

\* A run that gets hold of a lane or lets go of it.
LEMMA HandStep ==
    ASSUME TypeOK, LaneInv, NEW p \in Runs, NEW l \in Lanes, op[p].lane = l,
           \A q \in Runs \ {p} : op'[q] = op[q],
           \A m \in Lanes : Holds(p, m)' => m = l
    PROVE  /\ Holds(p, l) => HoldersNow[l] = {p}
           /\ ~Holds(p, l)' /\ Holds(p, l) => HoldersNow' = [HoldersNow EXCEPT ![l] = {}]
           /\ Holds(p, l)' /\ HoldersNow[l] = {} => HoldersNow' = [HoldersNow EXCEPT ![l] = {p}]
<1>1. \A q \in Runs \ {p}, m \in Lanes : Holds(q, m)' <=> Holds(q, m)
  BY DEF Holds
<1>2. \A m \in Lanes : m # l => ~Holds(p, m) /\ ~Holds(p, m)'
  BY DEF Holds
<1>3. \A m \in Lanes : m # l => Holders(m)' = Holders(m)
  BY <1>1, <1>2 DEF Holders
<1>4. ASSUME Holds(p, l) PROVE Holders(l) = {p}
  <2>1. \A q \in Runs : Holds(q, l) => q = p
    BY <1>4 DEF LaneInv, Holds, Holding, RunSteps, TypeOK, Op, Step
  <2> QED BY <1>4, <2>1 DEF Holders
<1>5. ASSUME Holds(p, l), ~Holds(p, l)' PROVE Holders(l)' = {}
  BY <1>1, <1>4, <1>5 DEF Holders
<1>6. ASSUME Holders(l) = {}, Holds(p, l)' PROVE Holders(l)' = {p}
  BY <1>1, <1>6 DEF Holders
<1> QED BY <1>3, <1>4, <1>5, <1>6 DEF HoldersNow

LEMMA LeavesLane ==
    ASSUME TypeOK, LaneInv, NEW p \in Procs, op[p].step # "idle",
           op' = [op EXCEPT ![p] = Idle], branch' = branch
    PROVE  Lease!LeaseNext \/ HoldersNow' = HoldersNow
<1>1. CASE p \in Runs /\ \E l \in Lanes : Holds(p, l)
  <2>1. PICK l \in Lanes : Holds(p, l)
    BY <1>1
  <2>2. op[p].lane = l /\ p \in Runs
    BY <1>1, <2>1 DEF Holds
  <2>3. \A q \in Runs \ {p} : op'[q] = op[q]
    BY DEF TypeOK
  <2>4. \A m \in Lanes : ~Holds(p, m)'
    BY NoLaneIsNoLane, <2>2 DEF TypeOK, Holds, Idle
  <2>5. HoldersNow[l] = {p} /\ HoldersNow' = [HoldersNow EXCEPT ![l] = {}]
    BY <2>1, <2>2, <2>3, <2>4, HandStep
  <2>6. Lease!Leave(l)
    BY <2>5 DEF Lease!Leave, HoldersNow
  <2> QED BY <2>6 DEF Lease!LeaseNext
<1>2. CASE ~(p \in Runs /\ \E l \in Lanes : Holds(p, l))
  <2>1. \A r \in Runs, l \in Lanes : Holds(r, l)' <=> Holds(r, l)
    BY <1>2, NoLaneIsNoLane DEF TypeOK, Holds, Idle
  <2> QED BY <2>1, QuietStep
<1> QED BY <1>1, <1>2

LEMMA LeaseStep ==
    ASSUME OneJanitor, TypeOK, LaneInv, [Next]_vars
    PROVE  Lease!LeaseNext \/ (branch' = branch /\ HoldersNow' = HoldersNow)
<1> DEFINE Quiet == branch' = branch /\ HoldersNow' = HoldersNow
<1> DEFINE Same == \A r \in Runs, l \in Lanes : Holds(r, l)' <=> Holds(r, l)
<1>0. ASSUME Same, branch' = branch PROVE Quiet
  BY <1>0, QuietStep
<1> HIDE DEF Quiet
<1>1. CASE UNCHANGED vars \/ UserEdits
  <2>1. Same /\ branch' = branch
    BY <1>1 DEF vars, UserEdits, Holds
  <2> QED BY <1>0, <2>1 DEF Quiet
<1>2. ASSUME NEW p \in Procs, Fail(p) PROVE Lease!LeaseNext \/ Quiet
  <2>1. op[p].step # "idle" /\ op' = [op EXCEPT ![p] = Idle] /\ branch' = branch
    BY <1>2 DEF Fail, Return, DiskUnchanged
  <2> QED BY <2>1, LeavesLane DEF Quiet
<1>3. ASSUME NEW p \in Janitors, branch' = branch, \A q \in Procs \ {p} : op'[q] = op[q]
      PROVE  Quiet
  <2>1. Same
    BY <1>3, RunsAreNoJanitors DEF Holds, Procs
  <2> QED BY <1>0, <1>3, <2>1
<1>4. ASSUME NEW p \in Janitors, StartPrune(p) PROVE Quiet
  BY <1>3, <1>4 DEF StartPrune, DiskUnchanged, TypeOK, Procs
<1>5. ASSUME NEW p \in Procs, NEW l \in Lanes, CleanupLane(p, l)
      PROVE  Lease!LeaseNext \/ Quiet
  <2>1. op[p].lane = l /\ op[p].step \in {"read", "check", "clean", "cleaned", "remove", "delete"}
    BY <1>5 DEF CleanupLane, ReadMetadata, CheckClean, WriteCleaned, RemoveWorktree,
                DeleteBranch, At
  <2>2. \A q \in Procs \ {p} : op'[q] = op[q]
    BY <1>5 DEF CleanupLane, ReadMetadata, CheckClean, WriteCleaned, RemoveWorktree,
                DeleteBranch, GoTo, Return, Done, OpenMeta, TypeOK, Procs
  <2>3. \/ op' = [op EXCEPT ![p] = Idle]
        \/ op'[p].lane = l /\ op'[p].step \notin {"idle", "status", "add"}
        \/ p \in Janitors
    BY <1>5 DEF CleanupLane, ReadMetadata, CheckClean, WriteCleaned, RemoveWorktree,
                DeleteBranch, GoTo, Return, Done, OpenMeta, TypeOK, Procs, At, LaneInv, Op
  <2>4. CASE branch' = branch
    <3>1. CASE op' = [op EXCEPT ![p] = Idle]
      BY <2>1, <2>4, <3>1, LeavesLane DEF Quiet
    <3>2. CASE op'[p].lane = l /\ op'[p].step \notin {"idle", "status", "add"}
      <4>1. Same
        BY <2>1, <2>2, <3>2 DEF Holds, Procs
      <4> QED BY <1>0, <2>4, <4>1
    <3>3. CASE p \in Janitors
      BY <1>3, <2>2, <2>4, <3>3
    <3> QED BY <2>3, <3>1, <3>2, <3>3
  <2>5. CASE branch' # branch
    <3>1. At(p, "delete", l) /\ l \in branch /\ branch' = branch \ {l}
      BY <1>5, <2>5 DEF CleanupLane, ReadMetadata, CheckClean, WriteCleaned,
                        RemoveWorktree, DeleteBranch, DiskUnchanged
    <3>2. CASE p \in Runs
      <4>1. Holds(p, l)
        BY <2>1 DEF Holds
      <4>2. op' = [op EXCEPT ![p] = Idle]
        BY <1>5, <3>1, <3>2 DEF CleanupLane, ReadMetadata, CheckClean, WriteCleaned,
                                RemoveWorktree, DeleteBranch, At, Done, Return, LaneInv
      <4>3. \A m \in Lanes : ~Holds(p, m)'
        BY NoLaneIsNoLane, <4>2 DEF TypeOK, Holds, Idle, Procs
      <4>4. HoldersNow[l] = {p} /\ HoldersNow' = [HoldersNow EXCEPT ![l] = {}]
        BY <2>1, <2>2, <3>2, <4>1, <4>3, HandStep DEF Procs
      <4>5. Lease!GiveBack(l)
        BY <3>1, <4>4 DEF Lease!GiveBack, HoldersNow
      <4> QED BY <4>5 DEF Lease!LeaseNext
    <3>3. CASE p \in Janitors
      <4>1. Holders(l) = {}
        BY <2>1, <3>3 DEF Holders, Holds, LaneInv, TypeOK, Op, Step, Holding, RunSteps
      <4>2. HoldersNow' = HoldersNow
        <5>1. Same
          BY <2>2, <3>3, RunsAreNoJanitors DEF Holds, Procs
        <5> QED BY <5>1, QuietStep
      <4>3. Lease!Reclaim(l)
        BY <3>1, <4>1, <4>2 DEF Lease!Reclaim, HoldersNow
      <4> QED BY <4>3 DEF Lease!LeaseNext
    <3> QED BY <3>2, <3>3 DEF Procs
  <2> QED BY <2>4, <2>5
<1>6. ASSUME NEW p \in Janitors, NEW l \in Lanes, MarkLaneStale(p, l) \/ PruneNext(p, l)
      PROVE  Quiet
  <2>1. branch' = branch /\ \A q \in Procs \ {p} : op'[q] = op[q]
    BY <1>6 DEF MarkLaneStale, PruneNext, DiskUnchanged, GoTo, Return, OpenMeta, TypeOK, Procs
  <2> QED BY <1>3, <2>1
<1>7. ASSUME NEW p \in Runs, NEW l \in Lanes, RunStep(p, l)
      PROVE  Lease!LeaseNext \/ Quiet
  <2>1. CASE CheckPath(p, l) \/ RequireCleanTree(p, l)
    <3>1. Same /\ branch' = branch
      BY <2>1 DEF CheckPath, RequireCleanTree, DiskUnchanged, Holds, TypeOK, GoTo, Return,
                  At, Idle, Op
    <3> QED BY <1>0, <3>1
  <2>2. CASE AddWorktree(p, l)
    <3>1. op[p].lane = l /\ ~Holds(p, l) /\ \A q \in Runs \ {p} : op'[q] = op[q]
      BY <2>2 DEF AddWorktree, At, Holds, GoTo, Return, TypeOK
    <3>2. CASE l \in branch \/ tree[l] # "absent"
      <4>1. Same /\ branch' = branch
        BY <2>2, <3>1, <3>2, NoLaneIsNoLane DEF AddWorktree, At, Holds, Return, TypeOK, Idle
      <4> QED BY <1>0, <4>1
    <3>3. CASE l \notin branch /\ tree[l] = "absent"
      <4>1. branch' = branch \cup {l} /\ op'[p].step = "write" /\ op'[p].lane = l
        BY <2>2, <3>1, <3>3 DEF AddWorktree, GoTo, TypeOK, Op
      <4>2. Holders(l) = {}
        BY <3>3 DEF Holders, Holds, LaneInv, InHand, TypeOK, Op, Step, Holding, RunSteps
      <4>3. HoldersNow' = [HoldersNow EXCEPT ![l] = {p}]
        <5>1. Holds(p, l)' /\ \A m \in Lanes : Holds(p, m)' => m = l
          BY <4>1 DEF Holds
        <5>2. HoldersNow[l] = {}
          BY <4>2 DEF HoldersNow
        <5> QED BY <3>1, <5>1, <5>2, HandStep
      <4>4. Lease!Acquire(p, l)
        BY <3>3, <4>1, <4>3 DEF Lease!Acquire, HoldersNow
      <4> QED BY <4>4 DEF Lease!LeaseNext
    <3> QED BY <3>2, <3>3
  <2>3. CASE WriteMetadata(p, l)
    <3>1. branch' = branch /\ op[p].step # "idle"
      BY <2>3 DEF WriteMetadata, At
    <3>2. CASE op' = [op EXCEPT ![p] = Idle]
      BY <3>1, <3>2, LeavesLane DEF Quiet, Procs
    <3>3. CASE op' # [op EXCEPT ![p] = Idle]
      <4>1. Same
        BY <2>3, <3>3 DEF WriteMetadata, At, OpenMeta, GoTo, Return, Holds, TypeOK, Op
      <4> QED BY <1>0, <3>1, <4>1
    <3> QED BY <3>2, <3>3
  <2>4. CASE Work(p, l) \/ StartCleanup(p, l)
    <3>1. Same /\ branch' = branch
      BY <2>4 DEF Work, StartCleanup, DiskUnchanged, Holds, TypeOK, GoTo, At, Op
    <3> QED BY <1>0, <3>1
  <2>5. CASE LeaveWorktree(p, l)
    <3>1. op[p].step # "idle" /\ op' = [op EXCEPT ![p] = Idle] /\ branch' = branch
      BY <2>5 DEF LeaveWorktree, At, Return, DiskUnchanged
    <3> QED BY <3>1, LeavesLane DEF Quiet, Procs
  <2>6. CASE AddBranchOnly(p, l)
    <3>1. Same
      BY <2>6, NoLaneIsNoLane DEF AddBranchOnly, At, Holds, Return, TypeOK, Idle
    <3>2. HoldersNow' = HoldersNow
      BY <3>1, QuietStep
    <3>3. l \notin branch /\ branch' = branch \cup {l}
      BY <2>6 DEF AddBranchOnly
    <3>4. Lease!Lose(l)
      BY <3>2, <3>3 DEF Lease!Lose, HoldersNow
    <3> QED BY <3>4 DEF Lease!LeaseNext
  <2> QED BY <1>5, <1>7, <2>1, <2>2, <2>3, <2>4, <2>5, <2>6 DEF RunStep, Procs
<1>8. ASSUME NEW p \in Janitors, NEW l \in Lanes, JanitorStep(p, l)
      PROVE  Lease!LeaseNext \/ Quiet
  BY <1>5, <1>6, <1>8 DEF JanitorStep, Procs
<1> QED BY <1>1, <1>2, <1>4, <1>7, <1>8, NextCases DEF Quiet

\* The allocator implements the lane lease: no two runs ever have a lane together,
\* and none takes over a lane another one left.
THEOREM WorktreesImplementLease == ASSUME OneJanitor PROVE Spec => ImplementsLease
<1>1. Init => Lease!LeaseInit
  BY NoLaneIsNoLane DEF Init, Lease!LeaseInit, Holders, Holds, Idle
<1>2. TypeOK /\ LaneInv /\ [Next]_vars => [Lease!LeaseNext]_(<<branch, HoldersNow>>)
  BY LeaseStep
<1> QED BY <1>1, <1>2, LaneInvariant, TypeCorrect, PTL
        DEF Spec, ImplementsLease, Lease!LeaseSpec, Lease!lease, HoldersNow
=============================================================================
