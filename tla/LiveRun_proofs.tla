---------------------------- MODULE LiveRun_proofs ---------------------------
(***************************************************************************)
(* Theorems of LiveRun, for every round budget and with artifact writes    *)
(* that may fail.                                                          *)
(***************************************************************************)
EXTENDS LiveRun, TLAPS

-----------------------------------------------------------------------------
\* The reviews.  Whatever the source of the signals and whoever decides on their
\* findings, an outcome that allows staging is an approval.
IsOutcome(result) ==
    /\ result.allowed \in BOOLEAN
    /\ result.allowed => IsApproval(result)

LEMMA PassingIsApproved ==
    ASSUME NEW signals, Passes(AllOf(signals), signals)
    PROVE  \A i \in DOMAIN signals : Approves(signals, signals[i].adapter)
  BY DEF Passes, AllOf, ApprovedPlaces

LEMMA OutcomesAreOutcomes ==
    ASSUME NEW signals, NEW manager
    PROVE  IsOutcome(OutcomeOf(signals, manager))
<1> DEFINE decisions == {LiveDecision(f) : f \in FindingsOf(signals)}
           records   == IF manager = {} THEN {ArbitrationRecord(d) : d \in decisions}
                        ELSE UNION manager
           blockers  == IF manager = {} THEN OwnBlockers(decisions) ELSE ManagerBlockers(records)
           theOutcome == [signals |-> signals, records |-> records,
                          allowed |-> Passes(AllOf(signals), signals) /\ blockers = {}]
<1>1. OutcomeOf(signals, manager) = theOutcome
  BY DEF OutcomeOf
<1>2. theOutcome.allowed \in BOOLEAN
  OBVIOUS
<1>3. ASSUME theOutcome.allowed
      PROVE  IsApproval(theOutcome)
  <2>1. Passes(AllOf(signals), signals) /\ blockers = {}
    BY <1>3
  <2>2. \A i \in DOMAIN signals : \E j \in DOMAIN signals :
            signals[j].adapter = signals[i].adapter /\ signals[j].status = "Approved"
    BY <2>1, PassingIsApproved DEF Approves
  <2>3. \A r \in records : r.disposition # "ManagerRequired"
    <3>1. CASE manager = {}
      <4>1. \A d \in decisions : d.disposition # "ManagerRequired"
        BY <2>1, <3>1 DEF OwnBlockers
      <4> QED BY <3>1, <4>1 DEF ArbitrationRecord
    <3>2. CASE manager # {}
      BY <2>1, <3>2 DEF ManagerBlockers
    <3> QED BY <3>1, <3>2
  <2> QED BY <2>2, <2>3 DEF IsApproval
<1> HIDE DEF theOutcome
<1> QED BY <1>1, <1>2, <1>3 DEF IsOutcome

LEMMA JudgementsAreOutcomes ==
    ASSUME NEW env, NEW signals, NEW result \in JudgedBy(env, signals)
    PROVE  IsOutcome(result)
<1>1. \E manager : result = OutcomeOf(signals, manager)
  BY DEF JudgedBy
<1> QED BY <1>1, OutcomesAreOutcomes

\* Whatever the source of the signals and whoever decides on the findings, a review
\* outcome that allows staging is an approval by every adapter, with nothing left
\* for a manager to decide (live_review_fanout).
THEOREM ReviewsAreOutcomes ==
    ASSUME NEW env, NEW result \in LiveReview(env)
    PROVE  IsOutcome(result)
<1>1. \E signals : result \in JudgedBy(env, signals)
  BY DEF LiveReview
<1> QED BY <1>1, JudgementsAreOutcomes

LEMMA ResultsAreOutcomes ==
    \A result \in ReviewResults :
        result.allowed \in BOOLEAN /\ (result.allowed => IsApproval(result))
  BY ReviewsAreOutcomes DEF ReviewResults, IsOutcome
-----------------------------------------------------------------------------
\* Type correctness.  The outcome is the verdict, so a run that is being finished
\* must have one.
TypeInv ==
    /\ TypeOK
    /\ pc \in {"conclude", "archive", "cleanup"} => verdict # "none"

LEMMA TypeStep ==
    ASSUME TypeInv, [Next]_vars
    PROVE  TypeInv'
<1> USE DEF TypeInv, TypeOK, PC, LaneState, Propagate, WriteFails, GoTo, TransitionAs, Transition, BlockRun, HandToHuman,
           MayDirty, WorkerChanges, Listed, ManagerStep
<1>1. CASE UNCHANGED vars
  BY <1>1 DEF vars
<1>2. CASE ReadBrief
  BY <1>2 DEF ReadBrief
<1>3. CASE AllocateWorktree
  BY <1>3 DEF AllocateWorktree
<1>4. CASE WriteInitialLane
  BY <1>4 DEF WriteInitialLane
<1>5. CASE StartLane
  BY <1>5 DEF StartLane
<1>6. CASE ConfigureAdapter
  BY <1>6 DEF ConfigureAdapter
<1>7. CASE FirstAttempt
  BY <1>7 DEF FirstAttempt
<1>8. CASE FirstValidation
  BY <1>8 DEF FirstValidation
<1>9. CASE RepairAfterValidation
  BY <1>9 DEF RepairAfterValidation, RepairFails, RepairRuns
<1>10. CASE EnterReview
  BY <1>10 DEF EnterReview
<1>11. CASE ReviewWork
  <2>1. \A result \in ReviewResults : result.allowed \in BOOLEAN
    BY ResultsAreOutcomes
  <2> QED BY <1>11, <2>1 DEF ReviewWork
<1>12. CASE RouteFindingsToRepair
  BY <1>12 DEF RouteFindingsToRepair
<1>13. CASE RepairAfterReview
  BY <1>13 DEF RepairAfterReview, RepairFails, RepairRuns
<1>14. CASE GiveUp
  BY <1>14 DEF GiveUp
<1>15. CASE Approve
  BY <1>15 DEF Approve, DiscardChurn
<1>16. CASE StageFiles
  <2>1. git' \subseteq GitStep
    BY <1>16 DEF StageFiles, GitStep
  <2> QED BY <1>16, <2>1 DEF StageFiles
<1>17. CASE CommitStaged
  <2>1. git' \subseteq GitStep
    BY <1>17 DEF CommitStaged, GitStep
  <2> QED BY <1>17, <2>1 DEF CommitStaged
<1>18. CASE PreparePrRequest
  BY <1>18 DEF PreparePrRequest
<1>19. CASE PushBranch
  <2>1. git' \subseteq GitStep
    BY <1>19 DEF PushBranch, GitStep
  <2> QED BY <1>19, <2>1 DEF PushBranch
<1>20. CASE CreatePr
  <2>1. git' \subseteq GitStep
    BY <1>20 DEF CreatePr, GitStep
  <2> QED BY <1>20, <2>1 DEF CreatePr
<1>21. CASE RecordPr
  BY <1>21 DEF RecordPr
<1>22. CASE Conclude
  BY <1>22 DEF Conclude
<1>23. CASE ArchiveOnExit
  BY <1>23 DEF ArchiveOnExit
<1>24. CASE CleanUpLane
  BY <1>24 DEF CleanUpLane
<1>25. CASE ArtifactFailure
  BY <1>25 DEF ArtifactFailure
<1> QED BY <1>1, <1>2, <1>3, <1>4, <1>5, <1>6, <1>7, <1>8, <1>9, <1>10, <1>11,
        <1>12, <1>13, <1>14, <1>15, <1>16, <1>17, <1>18, <1>19, <1>20, <1>21, <1>22,
        <1>23, <1>24, <1>25 DEF Next, Step

THEOREM TypeCorrect == Spec => []TypeOK
<1>1. Init => TypeInv
  <2>1. Init => approved \in BOOLEAN /\ archived \in BOOLEAN
    BY DEF Init
  <2> QED BY <2>1 DEF Init, TypeInv, TypeOK, PC, LaneState
<1>2. TypeInv => TypeOK
  BY DEF TypeInv
<1> QED BY <1>1, <1>2, TypeStep, PTL DEF Spec
-----------------------------------------------------------------------------
\* Rounds: as long as repairs may follow, one worker was launched per attempt, so
\* that a repair within the budget launches a worker within the budget.
BudgetInv ==
    /\ TypeOK
    /\ RoundsWithinBudget
    /\ pc \in {"intake", "allocate", "prepare", "start", "launch", "configure", "attempt"}
          => launches = 0 /\ attempts = 0
    /\ pc \in {"validate", "repair_validation"} => launches = 1 /\ attempts = 1
    /\ pc \in {"revalidated", "review", "judge", "repair_review"} => launches = attempts

LEMMA CapIsPositive ==
    ASSUME TypeOK
    PROVE  RoundCap \in Nat /\ RoundCap >= 1
  BY RoundCapsArePositive DEF TypeOK, RoundCap

LEMMA AllowedIsWithinCap ==
    ASSUME TypeOK, NEW round \in Nat, RepairAllowed(round)
    PROVE  round <= RoundCap
<1> DEFINE index0 == IF round > 2 THEN round - 1 ELSE 1
           most   == IF RoundCap > 2 THEN RoundCap - 1 ELSE 1
<1>1. RoundCap \in Nat /\ index0 \in Nat /\ most \in Nat
  BY CapIsPositive
<1>2. RepairDecision(most, RoundCap, index0, round) = "allowed"
  BY DEF RepairAllowed
<1> HIDE DEF index0, most
<1>3. ~(round > RoundCap)
  BY <1>1, <1>2 DEF RepairDecision
<1> QED BY <1>1, <1>3

LEMMA CapIsConstant ==
    ASSUME maxRounds' = maxRounds
    PROVE  RoundCap' = RoundCap
  BY DEF RoundCap

LEMMA BudgetStep ==
    ASSUME TypeOK', BudgetInv, [Next]_vars
    PROVE  BudgetInv'
<1> USE CapIsPositive, CapIsConstant DEF BudgetInv, RoundsWithinBudget, Propagate, WriteFails, GoTo, TransitionAs, Transition, BlockRun, HandToHuman,
           MayDirty, WorkerChanges, ManagerStep
<1>1. CASE UNCHANGED vars
  BY <1>1 DEF vars
<1>2. CASE ReadBrief
  BY <1>2 DEF ReadBrief
<1>3. CASE AllocateWorktree
  BY <1>3 DEF AllocateWorktree
<1>4. CASE WriteInitialLane
  BY <1>4 DEF WriteInitialLane
<1>5. CASE StartLane
  BY <1>5 DEF StartLane
<1>6. CASE ConfigureAdapter
  BY <1>6 DEF ConfigureAdapter
<1>7. CASE FirstAttempt
  BY <1>7 DEF FirstAttempt, RoundCap
<1>8. CASE FirstValidation
  BY <1>8 DEF FirstValidation
<1>9. CASE RepairAfterValidation
  <2>1. RepairAllowed(2) => 2 <= RoundCap
    BY AllowedIsWithinCap
  <2> QED BY <1>9, <2>1 DEF RepairAfterValidation, RepairFails, RepairRuns
<1>10. CASE EnterReview
  BY <1>10 DEF EnterReview
<1>11. CASE ReviewWork
  BY <1>11 DEF ReviewWork
<1>12. CASE RouteFindingsToRepair
  BY <1>12 DEF RouteFindingsToRepair
<1>13. CASE RepairAfterReview
  <2>1. attempts + 1 \in Nat
    BY DEF TypeOK
  <2>2. RepairAllowed(attempts + 1) => attempts + 1 <= RoundCap
    BY <2>1, AllowedIsWithinCap
  <2> QED BY <1>13, <2>2 DEF RepairAfterReview, RepairFails, RepairRuns
<1>14. CASE GiveUp
  BY <1>14 DEF GiveUp
<1>15. CASE Approve
  BY <1>15 DEF Approve, DiscardChurn
<1>16. CASE StageFiles
  BY <1>16 DEF StageFiles
<1>17. CASE CommitStaged
  BY <1>17 DEF CommitStaged
<1>18. CASE PreparePrRequest
  BY <1>18 DEF PreparePrRequest
<1>19. CASE PushBranch
  BY <1>19 DEF PushBranch
<1>20. CASE CreatePr
  BY <1>20 DEF CreatePr
<1>21. CASE RecordPr
  BY <1>21 DEF RecordPr
<1>22. CASE Conclude
  BY <1>22 DEF Conclude
<1>23. CASE ArchiveOnExit
  BY <1>23 DEF ArchiveOnExit
<1>24. CASE CleanUpLane
  BY <1>24 DEF CleanUpLane
<1>25. CASE ArtifactFailure
  BY <1>25 DEF ArtifactFailure
<1> QED BY <1>1, <1>2, <1>3, <1>4, <1>5, <1>6, <1>7, <1>8, <1>9, <1>10, <1>11,
        <1>12, <1>13, <1>14, <1>15, <1>16, <1>17, <1>18, <1>19, <1>20, <1>21, <1>22,
        <1>23, <1>24, <1>25 DEF Next, Step

\* No worker is launched beyond the round budget, whatever the mix of repairs.
THEOREM RoundsWithinBudgetAlways == Spec => []RoundsWithinBudget
<1>1. Init => BudgetInv
  <2>1. Init => TypeOK
    <3>1. Init => approved \in BOOLEAN /\ archived \in BOOLEAN
      BY DEF Init
    <3> QED BY <3>1 DEF Init, TypeOK, PC, LaneState
  <2> QED BY <2>1, CapIsPositive DEF Init, BudgetInv, RoundsWithinBudget
<1>2. BudgetInv => RoundsWithinBudget
  BY DEF BudgetInv
<1>3. TypeOK' /\ BudgetInv /\ [Next]_vars => BudgetInv'
  BY BudgetStep
<1> QED BY <1>1, <1>2, <1>3, TypeCorrect, PTL DEF Spec
-----------------------------------------------------------------------------
\* Vetting: git is untouched until an attempt that validated is approved; from
\* there to the end neither the validation nor the review outcome changes.
Vetted ==
    /\ validation = "passed" /\ approved /\ judged = attempts
    /\ reviewed # {} /\ \A result \in reviewed : IsApproval(result)

Unreviewed == {"intake", "allocate", "prepare", "start", "launch", "configure",
               "attempt", "validate", "repair_validation", "revalidated", "review",
               "repair_review", "review_again"}

Publishing == {"stage", "commit", "intent", "push", "create_pr", "pr_created",
               "complete"}

VettedInv ==
    /\ PublishedWorkIsVetted
    /\ pc \in Unreviewed => ~approved
    /\ pc \in {"revalidated", "review"} => validation = "passed"
    /\ pc = "judge" /\ approved => Vetted
    /\ pc \in Publishing => Vetted
    /\ pc \in Unreviewed \cup {"judge", "stage"} => git = {}
    /\ pc = "stage" => Unrequested(listed, situation.goal) = {}
    /\ pc \in {"commit", "intent", "push", "create_pr"} => "staged" \in git
    /\ pc \in {"intent", "push", "create_pr"} => "committed" \in git
    /\ pc = "create_pr" => "pushed" \in git

LEMMA VettedStep ==
    ASSUME TypeOK, VettedInv, [Next]_vars
    PROVE  VettedInv'
<1> USE DEF TypeOK, VettedInv, PublishedWorkIsVetted, Vetted, Unreviewed, Publishing,
            Propagate, WriteFails, GoTo, TransitionAs, Transition, BlockRun, HandToHuman,
            MayDirty, WorkerChanges, ManagerStep
<1>1. CASE UNCHANGED vars
  BY <1>1 DEF vars
<1>2. CASE ReadBrief
  BY <1>2 DEF ReadBrief
<1>3. CASE AllocateWorktree
  BY <1>3 DEF AllocateWorktree
<1>4. CASE WriteInitialLane
  BY <1>4 DEF WriteInitialLane
<1>5. CASE StartLane
  BY <1>5 DEF StartLane
<1>6. CASE ConfigureAdapter
  BY <1>6 DEF ConfigureAdapter
<1>7. CASE FirstAttempt
  BY <1>7 DEF FirstAttempt
<1>8. CASE FirstValidation
  BY <1>8 DEF FirstValidation
<1>9. CASE RepairAfterValidation
  BY <1>9 DEF RepairAfterValidation, RepairFails, RepairRuns
<1>10. CASE EnterReview
  BY <1>10 DEF EnterReview
<1>11. CASE ReviewWork
  BY <1>11, ResultsAreOutcomes DEF ReviewWork
<1>12. CASE RouteFindingsToRepair
  BY <1>12 DEF RouteFindingsToRepair
<1>13. CASE RepairAfterReview
  BY <1>13 DEF RepairAfterReview, RepairFails, RepairRuns
<1>14. CASE GiveUp
  BY <1>14 DEF GiveUp
<1>15. CASE Approve
  BY <1>15 DEF Approve, DiscardChurn
<1>16. CASE StageFiles
  BY <1>16 DEF StageFiles, CanStage
<1>17. CASE CommitStaged
  BY <1>17 DEF CommitStaged
<1>18. CASE PreparePrRequest
  BY <1>18 DEF PreparePrRequest
<1>19. CASE PushBranch
  BY <1>19 DEF PushBranch
<1>20. CASE CreatePr
  BY <1>20 DEF CreatePr
<1>21. CASE RecordPr
  BY <1>21 DEF RecordPr
<1>22. CASE Conclude
  BY <1>22 DEF Conclude
<1>23. CASE ArchiveOnExit
  BY <1>23 DEF ArchiveOnExit
<1>24. CASE CleanUpLane
  BY <1>24 DEF CleanUpLane
<1>25. CASE ArtifactFailure
  BY <1>25 DEF ArtifactFailure
<1> QED BY <1>1, <1>2, <1>3, <1>4, <1>5, <1>6, <1>7, <1>8, <1>9, <1>10, <1>11,
        <1>12, <1>13, <1>14, <1>15, <1>16, <1>17, <1>18, <1>19, <1>20, <1>21, <1>22,
        <1>23, <1>24, <1>25 DEF Next, Step

\* Nothing reaches git that was not validated and approved in its last attempt.
THEOREM PublishedWorkIsVettedAlways == Spec => []PublishedWorkIsVetted
<1>1. Init => VettedInv
  BY DEF Init, VettedInv, PublishedWorkIsVetted, Vetted, Unreviewed, Publishing
<1>2. VettedInv => PublishedWorkIsVetted
  BY DEF VettedInv
<1>3. TypeOK /\ VettedInv /\ [Next]_vars => VettedInv'
  BY VettedStep
<1> QED BY <1>1, <1>2, <1>3, TypeCorrect, PTL DEF Spec
-----------------------------------------------------------------------------
\* Conclusion: what the verdict says is settled before the run is concluded, and
\* each of the last steps adds the part it is named for.
ConcludedInv ==
    /\ ReturnedRunIsConcluded
    /\ pc # "returned" => outcome = "running"
    /\ pc \in {"pr_created", "complete"} => "pr" \in git
    /\ pc \in {"conclude", "archive", "cleanup"} =>
          \/ verdict = "completed" /\ lane = "Completed" /\ "pr" \in git
          \/ verdict = "blocked" /\ lane \in {"Blocked", "ReadyForHuman"}
    /\ pc \in {"archive", "cleanup"} => laneFile = lane /\ report = verdict
    /\ pc = "cleanup" => archived

LEMMA ConcludedStep ==
    ASSUME TypeOK, ConcludedInv, [Next]_vars
    PROVE  ConcludedInv'
<1> USE DEF TypeOK, ConcludedInv, ReturnedRunIsConcluded,
            Propagate, WriteFails, GoTo, TransitionAs, Transition, BlockRun, HandToHuman,
            MayDirty, WorkerChanges, ManagerStep
<1>1. CASE UNCHANGED vars
  BY <1>1 DEF vars
<1>2. CASE ReadBrief
  BY <1>2 DEF ReadBrief
<1>3. CASE AllocateWorktree
  BY <1>3 DEF AllocateWorktree
<1>4. CASE WriteInitialLane
  BY <1>4 DEF WriteInitialLane
<1>5. CASE StartLane
  BY <1>5 DEF StartLane
<1>6. CASE ConfigureAdapter
  BY <1>6 DEF ConfigureAdapter
<1>7. CASE FirstAttempt
  BY <1>7 DEF FirstAttempt
<1>8. CASE FirstValidation
  BY <1>8 DEF FirstValidation
<1>9. CASE RepairAfterValidation
  BY <1>9 DEF RepairAfterValidation, RepairFails, RepairRuns
<1>10. CASE EnterReview
  BY <1>10 DEF EnterReview
<1>11. CASE ReviewWork
  BY <1>11 DEF ReviewWork
<1>12. CASE RouteFindingsToRepair
  BY <1>12 DEF RouteFindingsToRepair
<1>13. CASE RepairAfterReview
  BY <1>13 DEF RepairAfterReview, RepairFails, RepairRuns
<1>14. CASE GiveUp
  BY <1>14 DEF GiveUp
<1>15. CASE Approve
  BY <1>15 DEF Approve, DiscardChurn
<1>16. CASE StageFiles
  BY <1>16 DEF StageFiles
<1>17. CASE CommitStaged
  BY <1>17 DEF CommitStaged
<1>18. CASE PreparePrRequest
  BY <1>18 DEF PreparePrRequest
<1>19. CASE PushBranch
  BY <1>19 DEF PushBranch
<1>20. CASE CreatePr
  BY <1>20 DEF CreatePr
<1>21. CASE RecordPr
  BY <1>21 DEF RecordPr
<1>22. CASE Conclude
  BY <1>22 DEF Conclude
<1>23. CASE ArchiveOnExit
  BY <1>23 DEF ArchiveOnExit
<1>24. CASE CleanUpLane
  BY <1>24 DEF CleanUpLane
<1>25. CASE ArtifactFailure
  BY <1>25 DEF ArtifactFailure
<1> QED BY <1>1, <1>2, <1>3, <1>4, <1>5, <1>6, <1>7, <1>8, <1>9, <1>10, <1>11,
        <1>12, <1>13, <1>14, <1>15, <1>16, <1>17, <1>18, <1>19, <1>20, <1>21, <1>22,
        <1>23, <1>24, <1>25 DEF Next, Step

\* A run that returns a result has concluded its lane.
THEOREM ReturnedRunIsConcludedAlways == Spec => []ReturnedRunIsConcluded
<1>1. Init => ConcludedInv
  BY DEF Init, ConcludedInv, ReturnedRunIsConcluded
<1>2. ConcludedInv => ReturnedRunIsConcluded
  BY DEF ConcludedInv
<1>3. TypeOK /\ ConcludedInv /\ [Next]_vars => ConcludedInv'
  BY ConcludedStep
<1> QED BY <1>1, <1>2, <1>3, TypeCorrect, PTL DEF Spec
-----------------------------------------------------------------------------
\* Kept work: there is no worktree before it is allocated, so that allocation
\* cannot clean a dirty one.
NoEarlyTree == pc \in {"intake", "allocate"} => tree = "none"

KeepsWork ==
    tree = "dirty" /\ tree' # "dirty" =>
        \/ "committed" \in git'
        \/ pc = "judge" /\ approved
        \/ launches' # launches

LEMMA KeepingStep ==
    ASSUME launches \in Nat, NoEarlyTree, [Next]_vars
    PROVE  NoEarlyTree' /\ KeepsWork
<1> USE DEF NoEarlyTree, KeepsWork,
            Propagate, WriteFails, GoTo, TransitionAs, Transition, BlockRun, HandToHuman,
            MayDirty, WorkerChanges, ManagerStep
<1>1. CASE UNCHANGED vars
  BY <1>1 DEF vars
<1>2. CASE ReadBrief
  BY <1>2 DEF ReadBrief
<1>3. CASE AllocateWorktree
  BY <1>3 DEF AllocateWorktree
<1>4. CASE WriteInitialLane
  BY <1>4 DEF WriteInitialLane
<1>5. CASE StartLane
  BY <1>5 DEF StartLane
<1>6. CASE ConfigureAdapter
  BY <1>6 DEF ConfigureAdapter
<1>7. CASE FirstAttempt
  BY <1>7 DEF FirstAttempt
<1>8. CASE FirstValidation
  BY <1>8 DEF FirstValidation
<1>9. CASE RepairAfterValidation
  BY <1>9 DEF RepairAfterValidation, RepairFails, RepairRuns
<1>10. CASE EnterReview
  BY <1>10 DEF EnterReview
<1>11. CASE ReviewWork
  BY <1>11 DEF ReviewWork
<1>12. CASE RouteFindingsToRepair
  BY <1>12 DEF RouteFindingsToRepair
<1>13. CASE RepairAfterReview
  BY <1>13 DEF RepairAfterReview, RepairFails, RepairRuns
<1>14. CASE GiveUp
  BY <1>14 DEF GiveUp
<1>15. CASE Approve
  BY <1>15 DEF Approve, DiscardChurn
<1>16. CASE StageFiles
  BY <1>16 DEF StageFiles
<1>17. CASE CommitStaged
  BY <1>17 DEF CommitStaged
<1>18. CASE PreparePrRequest
  BY <1>18 DEF PreparePrRequest
<1>19. CASE PushBranch
  BY <1>19 DEF PushBranch
<1>20. CASE CreatePr
  BY <1>20 DEF CreatePr
<1>21. CASE RecordPr
  BY <1>21 DEF RecordPr
<1>22. CASE Conclude
  BY <1>22 DEF Conclude
<1>23. CASE ArchiveOnExit
  BY <1>23 DEF ArchiveOnExit
<1>24. CASE CleanUpLane
  BY <1>24 DEF CleanUpLane
<1>25. CASE ArtifactFailure
  BY <1>25 DEF ArtifactFailure
<1> QED BY <1>1, <1>2, <1>3, <1>4, <1>5, <1>6, <1>7, <1>8, <1>9, <1>10, <1>11,
        <1>12, <1>13, <1>14, <1>15, <1>16, <1>17, <1>18, <1>19, <1>20, <1>21, <1>22,
        <1>23, <1>24, <1>25 DEF Next, Step

\* A blocked run never destroys uncommitted work.
THEOREM BlockedWorkIsKeptAlways == Spec => BlockedWorkIsKept
<1>1. Init => NoEarlyTree
  BY DEF Init, NoEarlyTree
<1>2. TypeOK /\ NoEarlyTree /\ [Next]_vars => NoEarlyTree' /\ [KeepsWork]_vars
  BY KeepingStep DEF TypeOK
<1> QED BY <1>1, <1>2, TypeCorrect, PTL DEF Spec, BlockedWorkIsKept, KeepsWork

-----------------------------------------------------------------------------
\* Progress.  How many steps a run has left at most: a place of the pipeline is
\* behind the one before it, and the repair loop has as many turns as rounds.
StepsBehind(place) ==
    CASE place = "intake" -> 35      [] place = "allocate" -> 34  [] place = "prepare" -> 33
      [] place = "start" -> 32       [] place = "launch" -> 31    [] place = "configure" -> 30
      [] place = "attempt" -> 29     [] place = "validate" -> 28
      [] place = "repair_validation" -> 27
      [] place = "revalidated" -> 26 [] place = "review" -> 25
      [] place = "judge" -> 13       [] place = "repair_review" -> 12
      [] place = "review_again" -> 11
      [] place = "stage" -> 11       [] place = "commit" -> 10    [] place = "intent" -> 9
      [] place = "push" -> 8         [] place = "create_pr" -> 7  [] place = "pr_created" -> 6
      [] place = "complete" -> 5     [] place = "conclude" -> 3   [] place = "archive" -> 2
      [] place = "cleanup" -> 1      [] place = "returned" -> 0

StepsLeft ==
    StepsBehind(pc) + IF pc \in {"judge", "repair_review"} THEN 2 * (RoundCap - attempts) ELSE 0

LEMMA LoopIsWithinCap ==
    ASSUME BudgetInv, pc \in {"review", "judge", "repair_review"}
    PROVE  RoundCap - attempts \in 0..3 /\ attempts \in Nat /\ RoundCap \in 1..3
<1>1. RoundCap \in 1..3
  BY CapIsPositive, RoundCapsArePositive DEF BudgetInv, TypeOK, RoundCap
<1> QED BY <1>1 DEF BudgetInv, RoundsWithinBudget, TypeOK

LEMMA StepsLeftAreCounted ==
    ASSUME BudgetInv
    PROVE  StepsLeft \in 0..35
<1>1. pc \in PC
  BY DEF BudgetInv, TypeOK
<1>2. CASE pc \in {"judge", "repair_review"}
  BY <1>2, LoopIsWithinCap DEF StepsLeft, StepsBehind
<1>3. CASE pc \notin {"judge", "repair_review"}
  BY <1>1, <1>3 DEF StepsLeft, StepsBehind, PC
<1> QED BY <1>2, <1>3

LEMMA SomeStepsAreLeft ==
    ASSUME BudgetInv, pc # "returned"
    PROVE  StepsLeft >= 1
<1>1. pc \in PC
  BY DEF BudgetInv, TypeOK
<1>2. CASE pc \in {"judge", "repair_review"}
  BY <1>2, LoopIsWithinCap DEF StepsLeft, StepsBehind
<1>3. CASE pc \notin {"judge", "repair_review"}
  BY <1>1, <1>3 DEF StepsLeft, StepsBehind, PC
<1> QED BY <1>2, <1>3

LEMMA StepsGoOn ==
    ASSUME BudgetInv, BudgetInv', Next
    PROVE  StepsLeft' < StepsLeft
<1>0. RoundCap' = RoundCap /\ attempts \in Nat /\ RoundCap \in Nat
  <2>1. maxRounds' = maxRounds
    BY DEF Next, Step, ReadBrief, AllocateWorktree, WriteInitialLane, StartLane, ConfigureAdapter,
           FirstAttempt, FirstValidation, RepairAfterValidation, EnterReview, ReviewWork,
           RouteFindingsToRepair, RepairAfterReview, GiveUp, Approve, StageFiles, CommitStaged,
           PreparePrRequest, PushBranch, CreatePr, RecordPr, Conclude, ArchiveOnExit, CleanUpLane,
           ArtifactFailure, ManagerStep
  <2> QED BY <2>1, CapIsConstant, CapIsPositive DEF BudgetInv, TypeOK
<1> USE <1>0, LoopIsWithinCap
    DEF StepsLeft, StepsBehind, Propagate, WriteFails, GoTo, TransitionAs, Transition, BlockRun, HandToHuman, ManagerStep
<1>1. CASE ReadBrief
  BY <1>1 DEF ReadBrief
<1>2. CASE AllocateWorktree
  BY <1>2 DEF AllocateWorktree
<1>3. CASE WriteInitialLane
  BY <1>3 DEF WriteInitialLane
<1>4. CASE StartLane
  BY <1>4 DEF StartLane
<1>5. CASE ConfigureAdapter
  BY <1>5 DEF ConfigureAdapter
<1>6. CASE FirstAttempt
  BY <1>6 DEF FirstAttempt
<1>7. CASE FirstValidation
  BY <1>7 DEF FirstValidation
<1>8. CASE RepairAfterValidation
  BY <1>8 DEF RepairAfterValidation
<1>9. CASE EnterReview
  BY <1>9 DEF EnterReview
<1>10. CASE ReviewWork
  BY <1>10 DEF ReviewWork
<1>11. CASE RouteFindingsToRepair
  BY <1>11 DEF RouteFindingsToRepair
<1>12. CASE RepairAfterReview
  BY <1>12 DEF RepairAfterReview, RepairFails, RepairRuns
<1>13. CASE GiveUp
  BY <1>13 DEF GiveUp
<1>14. CASE Approve
  BY <1>14 DEF Approve, DiscardChurn
<1>15. CASE StageFiles
  BY <1>15 DEF StageFiles
<1>16. CASE CommitStaged
  BY <1>16 DEF CommitStaged
<1>17. CASE PreparePrRequest
  BY <1>17 DEF PreparePrRequest
<1>18. CASE PushBranch
  BY <1>18 DEF PushBranch
<1>19. CASE CreatePr
  BY <1>19 DEF CreatePr
<1>20. CASE RecordPr
  BY <1>20 DEF RecordPr
<1>21. CASE Conclude
  BY <1>21 DEF Conclude
<1>22. CASE ArchiveOnExit
  BY <1>22 DEF ArchiveOnExit
<1>23. CASE CleanUpLane
  BY <1>23 DEF CleanUpLane
<1>24. CASE ArtifactFailure
  <2>1. pc' = "returned" /\ pc # "returned" /\ pc \in PC
    BY <1>24 DEF ArtifactFailure, BudgetInv, TypeOK
  <2> QED BY <2>1, SomeStepsAreLeft DEF PC
<1> QED BY <1>1, <1>2, <1>3, <1>4, <1>5, <1>6, <1>7, <1>8, <1>9, <1>10, <1>11, <1>12, <1>13, <1>14, <1>15, <1>16, <1>17, <1>18, <1>19, <1>20, <1>21, <1>22, <1>23, <1>24 DEF Next, Step

\* The pipeline never turns in circles: every step of a run, whatever it is
\* answered, brings it nearer to its end, which is 35 steps away at most
\* (run_live_task, enforce_repair_round_budget).
THEOREM RunGetsOn == Spec => [](StepsLeft \in 0..35) /\ [][StepsLeft' < StepsLeft]_vars
<1>1. Init => TypeInv /\ BudgetInv
  <2>1. Init => approved \in BOOLEAN /\ archived \in BOOLEAN
    BY DEF Init
  <2>2. Init => TypeInv
    BY <2>1 DEF Init, TypeInv, TypeOK, PC, LaneState
  <2> QED BY <2>2, CapIsPositive DEF Init, BudgetInv, RoundsWithinBudget, TypeInv
<1>2. TypeInv /\ BudgetInv /\ [Next]_vars => (TypeInv /\ BudgetInv)'
  BY TypeStep, BudgetStep DEF TypeInv
<1>3. BudgetInv => StepsLeft \in 0..35
  BY StepsLeftAreCounted
<1>4. BudgetInv /\ BudgetInv' /\ [Next]_vars => [StepsLeft' < StepsLeft]_vars
  BY StepsGoOn
<1> QED BY <1>1, <1>2, <1>3, <1>4, PTL DEF Spec
=============================================================================
