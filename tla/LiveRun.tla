------------------------------- MODULE LiveRun -------------------------------
(***************************************************************************)
(* run_live_task: one lane from its worktree to a pull request.            *)
(*                                                                         *)
(* The run is sequential.  What surrounds it is not under its control: the *)
(* worker, the validation commands, the reviewers, git, the forge and the  *)
(* file system answer as they please, and every answer is a choice here.   *)
(* A fallible call ends in one of three ways in the code: it is handled by *)
(* blocking the lane (finish_blocked_live_run), it is handled by sending   *)
(* the lane to a human, or it is propagated by `?`, and then the run       *)
(* returns an error at once and leaves everything as it is.                *)
(*                                                                         *)
(* The reviews and what they decide are those of Review, the files, the    *)
(* commit and the pull request those of Publishing.                        *)
(*                                                                         *)
(* Abstracted: prompts, reports, timing, cost and memory records; what is  *)
(* in the worktree beyond the list HEPA makes of the changed files (it is  *)
(* clean or dirty).                                                        *)
(***************************************************************************)
EXTENDS HepaContracts, Review, Publishing

CONSTANTS
    RoundCaps,   \* the values max_total_rounds may have
    Files,       \* the files a worker may change
    Situations,  \* what else a run is given: its task's words, its environment
    IoMayFail    \* whether artifact writes and copies may fail

ASSUME RoundCapsArePositive == RoundCaps \subseteq Nat \ {0}
ASSUME IoMayFailIsBoolean == IoMayFail \in BOOLEAN

VARIABLES
    pc,          \* the next thing the run does
    maxRounds,   \* task_spec.max_total_rounds
    situation,   \* the run's surroundings; they do not change under it
    lane,        \* lane.state, in memory and in state/current.json
    laneFile,    \* lane_state.json: written at the start and at the end only
    attempts,    \* lane.attempt_count
    launches,    \* history: worker attempts launched
    validation,  \* status of the last validation summary
    approved,    \* review_outcome.staging_allowed
    reviewed,    \* review_outcome, {} before there is one
    judged,      \* history: the attempt the review outcome is about
    tree,        \* the lane worktree
    listed,      \* attempt_outcome.changed_files
    index,       \* the files staged
    git,         \* what the manager has done with the work
    verdict,     \* how the run is being finished
    report,      \* final_report.json
    archived,    \* the run directory has been copied to the archive
    outcome      \* what run_live_task returned

vars == <<pc, maxRounds, situation, lane, laneFile, attempts, launches,
          validation, approved, reviewed, judged, tree, listed, index, git,
          verdict, report, archived, outcome>>

PC == {"intake", "allocate", "prepare", "start", "launch", "configure",
       "attempt", "validate", "repair_validation", "revalidated", "review",
       "judge", "repair_review", "review_again", "stage", "commit", "intent",
       "push", "create_pr", "pr_created", "complete", "conclude", "archive",
       "cleanup", "returned"}

GitStep == {"staged", "committed", "pushed", "pr"}

TypeOK ==
    /\ pc \in PC
    /\ maxRounds \in RoundCaps
    /\ situation \in Situations
    /\ lane \in LaneState
    /\ laneFile \in {"none"} \cup LaneState
    /\ attempts \in Nat /\ launches \in Nat /\ judged \in Nat
    /\ validation \in {"none", "passed", "failed"}
    /\ approved \in BOOLEAN
    /\ tree \in {"none", "clean", "dirty", "removed"}
    /\ \A result \in reviewed : result.allowed \in BOOLEAN
    /\ listed \subseteq Files /\ index \subseteq Files
    /\ git \subseteq GitStep
    /\ verdict \in {"none", "blocked", "completed"}
    /\ report \in {"none", "blocked", "completed"}
    /\ archived \in BOOLEAN
    /\ outcome \in {"running", "completed", "blocked", "error"}

\* max_total_rounds.clamp(1, 3)
RoundCap == IF maxRounds > 3 THEN 3 ELSE maxRounds

\* Mutant of RepairAllowed: the round budget is off by one.
RepairAllowedOnce(round) ==
    LET repairIndex     == IF round > 2 THEN round - 1 ELSE 1
        maxRepairRounds == IF RoundCap > 2 THEN RoundCap - 1 ELSE 1
    IN  repairIndex <= maxRepairRounds /\ round <= RoundCap + 1

\* enforce_repair_round_budget under the policy run_live_repair_round builds
RepairAllowed(round) ==
    LET repairIndex     == IF round > 2 THEN round - 1 ELSE 1
        maxRepairRounds == IF RoundCap > 2 THEN RoundCap - 1 ELSE 1
    IN  RepairDecision(maxRepairRounds, RoundCap, repairIndex, round) = "allowed"

Init ==
    /\ pc = "intake"
    /\ maxRounds \in RoundCaps
    /\ situation \in Situations
    /\ lane = "Allocated"
    /\ laneFile = "none"
    /\ attempts = 0 /\ launches = 0 /\ judged = 0
    /\ validation = "none"
    /\ approved = FALSE /\ reviewed = {}
    /\ tree = "none"
    /\ listed = {} /\ index = {} /\ git = {}
    /\ verdict = "none" /\ report = "none"
    /\ archived = FALSE
    /\ outcome = "running"
-----------------------------------------------------------------------------
\* `?`: return the error, finish nothing.
Propagate == pc' = "returned" /\ outcome' = "error" /\ UNCHANGED <<lane, verdict>>

\* ... for want of disk or permission, where an artifact is written on the way.
WriteFails == IoMayFail /\ Propagate

GoTo(next) == pc' = next /\ UNCHANGED <<lane, verdict, outcome>>

\* transition_and_record(...)?: an illegal transition is an error like any other.
TransitionAs(state, next, finish) ==
    IF CanLaneTransition(lane, state)
    THEN lane' = state /\ pc' = next /\ verdict' = finish /\ UNCHANGED outcome
    ELSE Propagate

Transition(state, next) == TransitionAs(state, next, verdict)

\* transition_and_record followed by finish_blocked_live_run
BlockRun    == TransitionAs("Blocked", "conclude", "blocked")
HandToHuman == TransitionAs("ReadyForHuman", "conclude", "blocked")

\* validate_config, live_run_brief, task_spec.validate, the artifact layout
ReadBrief ==
    /\ pc = "intake"
    /\ GoTo("allocate") \/ Propagate
    /\ UNCHANGED <<maxRounds, situation, laneFile, attempts, launches,
                   validation, approved, reviewed, judged, tree, git, report,
                   archived, listed, index>>

\* allocate_lane_with_metadata: refused for a dirty repository or a path in use
AllocateWorktree ==
    /\ pc = "allocate"
    /\ \/ GoTo("prepare") /\ tree' = "clean"
       \/ Propagate /\ UNCHANGED tree
    /\ UNCHANGED <<maxRounds, situation, laneFile, attempts, launches,
                   validation, approved, reviewed, judged, git, report,
                   archived, listed, index>>

WriteInitialLane ==
    /\ pc = "prepare"
    /\ GoTo("start")
    /\ laneFile' = lane
    /\ UNCHANGED <<maxRounds, situation, attempts, launches, validation,
                   approved, reviewed, judged, tree, git, report, archived,
                   listed, index>>

StartLane ==
    /\ \/ pc = "start"  /\ Transition("Starting", "launch")
       \/ pc = "launch" /\ Transition("Running", "configure")
    /\ UNCHANGED <<maxRounds, situation, laneFile, attempts, launches,
                   validation, approved, reviewed, judged, tree, git, report,
                   archived, listed, index>>

\* HepaConfig::load, the adapter registry and the lookup of the adapter
ConfigureAdapter ==
    /\ pc = "configure"
    /\ GoTo("attempt") \/ Propagate
    /\ UNCHANGED <<maxRounds, situation, laneFile, attempts, launches,
                   validation, approved, reviewed, judged, tree, git, report,
                   archived, listed, index>>

\* What a validation command, or a worker that does not finish, may do to the
\* worktree.
MayDirty == tree' \in {tree, "dirty"}

\* execute_live_worker_attempt: the worker changed files, or undid what an earlier
\* one had done, and the changed files are listed.  Validation comes after.
WorkerChanges ==
    /\ listed' \in SUBSET Listed(Files)
    /\ tree' \in {"clean", "dirty"}
    /\ listed' # {} => tree' = "dirty"

\* execute_live_worker_attempt, round 1
FirstAttempt ==
    /\ pc = "attempt"
    /\ launches' = launches + 1
    /\ attempts' = 1
    /\ \/ WorkerChanges /\ (Transition("Validating", "validate") \/ WriteFails)
       \/ MayDirty /\ UNCHANGED listed /\ (BlockRun \/ WriteFails)
    /\ UNCHANGED <<maxRounds, situation, laneFile, validation, approved,
                   reviewed, judged, git, report, archived, index>>

\* Mutant of FirstValidation: a failed validation goes on to the reviewers.
ValidationIgnored ==
    /\ pc = "validate"
    /\ MayDirty
    /\ validation' \in {"passed", "failed"}
    /\ Transition("Reviewing", "review")
    /\ UNCHANGED <<maxRounds, situation, laneFile, attempts, launches, approved,
                   reviewed, judged, git, report, archived, listed, index>>

\* run_live_validation and the two hard blocks that follow it, the second of them
\* for a secret-like path among the files the worker changed
FirstValidation ==
    /\ pc = "validate"
    /\ MayDirty
    /\ validation' \in {"passed", "failed"}
    /\ \/ WriteFails
       \/ situation.forceGitViolation /\ BlockRun
       \/ ~situation.forceGitViolation /\ LiveSecrets(listed) # {} /\ BlockRun
       \/ /\ ~situation.forceGitViolation /\ LiveSecrets(listed) = {}
          /\ \/ /\ validation' = "failed"
                /\ Transition("Repairing", "repair_validation")
             \/ /\ validation' = "passed"
                /\ Transition("Reviewing", "review")
    /\ UNCHANGED <<maxRounds, situation, laneFile, attempts, launches, approved,
                   reviewed, judged, git, report, archived, listed, index>>

\* rewrite_repair_prompt_from_evidence: a command that failed (validation fails
\* for want of commands, too), a finding the reviewers stand by, a failure that is
\* remembered of the project.  The findings of an earlier review do not count
\* before there is a review.
HasEvidence ==
    \E failing \in IF validation = "failed" THEN {{}, {"command"}} ELSE {{}} :
        BriefPossible(failing, UNION {FindingsToRepair(result.signals) : result \in reviewed},
                      situation.failuresRemembered)

\* run_live_repair_round: over budget or without a usable brief it fails before
\* the worker is launched; the worker may fail; otherwise it yields a validation.
RepairFails(round) ==
    /\ \/ UNCHANGED <<launches, tree>>
       \/ /\ RepairAllowed(round) /\ HasEvidence
          /\ launches' = launches + 1
          /\ MayDirty
    /\ UNCHANGED <<attempts, validation, listed>>

\* Nobody looks for secret-like paths among the files of a repair.
RepairRuns(round) ==
    /\ RepairAllowed(round) /\ HasEvidence
    /\ launches' = launches + 1
    /\ attempts' = round
    /\ WorkerChanges
    /\ validation' \in {"passed", "failed"}

RepairAfterValidation ==
    /\ pc = "repair_validation"
    /\ \/ RepairFails(2) /\ BlockRun
       \/ /\ RepairRuns(2)
          /\ \/ validation' = "passed" /\ Transition("Validating", "revalidated")
             \/ validation' = "failed" /\ BlockRun
             \/ WriteFails
    /\ UNCHANGED <<maxRounds, situation, laneFile, approved, reviewed, judged,
                   git, report, archived, index>>

EnterReview ==
    /\ pc = "revalidated"
    /\ Transition("Reviewing", "review")
    /\ UNCHANGED <<maxRounds, situation, laneFile, attempts, launches,
                   validation, approved, reviewed, judged, tree, git, report,
                   archived, listed, index>>
-----------------------------------------------------------------------------
\* What live_review_fanout makes of the listed files: nothing, or an outcome
ReviewResults == LiveReview([situation.review EXCEPT !.changed = (listed # {})])

\* collect_live_diff (propagated) and live_review_fanout (blocks the lane)
ReviewWork ==
    /\ pc = "review"
    /\ \/ \E result \in ReviewResults :
             /\ GoTo("judge")
             /\ reviewed' = {result}
             /\ approved' = result.allowed
             /\ judged' = attempts
       \/ /\ ReviewResults = {}
          /\ BlockRun /\ UNCHANGED <<approved, reviewed, judged>>
       \/ Propagate /\ UNCHANGED <<approved, reviewed, judged>>
    /\ UNCHANGED <<maxRounds, situation, laneFile, attempts, launches,
                   validation, tree, git, report, archived, listed, index>>

\* The head of the repair loop: staging denied and rounds left.
RouteFindingsToRepair ==
    /\ pc = "judge" /\ ~approved
    /\ attempts < RoundCap
    /\ Transition("Repairing", "repair_review")
    /\ UNCHANGED <<maxRounds, situation, laneFile, attempts, launches,
                   validation, approved, reviewed, judged, tree, git, report,
                   archived, listed, index>>

\* The body of the repair loop.  A repair that does not validate goes back to
\* the head with the review outcome of the earlier attempt.  A repair that does
\* is to be reviewed again, but the lane is Repairing and the table knows no way
\* from there to Reviewing: the second review (the rest of the body) is dead code.
RepairAfterReview ==
    /\ pc = "repair_review"
    /\ \/ RepairFails(attempts + 1) /\ HandToHuman
       \/ /\ RepairRuns(attempts + 1)
          /\ \/ validation' = "passed" /\ Transition("Reviewing", "review_again")
             \/ validation' = "failed" /\ GoTo("judge")
             \/ WriteFails
    /\ UNCHANGED <<maxRounds, situation, laneFile, approved, reviewed, judged,
                   git, report, archived, index>>

\* Mutant of GiveUp: off by one, no exit when the rounds are just used up.
GiveUpLate ==
    /\ pc = "judge" /\ ~approved
    /\ attempts > RoundCap
    /\ HandToHuman
    /\ UNCHANGED <<maxRounds, situation, laneFile, attempts, launches,
                   validation, approved, reviewed, judged, tree, git, report,
                   archived, listed, index>>

\* Behind the loop: staging denied and no rounds left.
GiveUp ==
    /\ pc = "judge" /\ ~approved
    /\ attempts >= RoundCap
    /\ HandToHuman
    /\ UNCHANGED <<maxRounds, situation, laneFile, attempts, launches,
                   validation, approved, reviewed, judged, tree, git, report,
                   archived, listed, index>>

\* Mutant of DiscardChurn: what is listed after the discard is not looked at.
DiscardUnchecked ==
    /\ listed' \in SUBSET Listed(Files)
    /\ tree' \in IF listed' = {} THEN {"clean", tree} ELSE {"dirty"}
    /\ Transition("Staging", "stage")

\* discard_unrequested_package_manager_churn: the files are restored and the list
\* is made anew, with whatever validation has left in the worktree; nobody has
\* reviewed that.  manager_changed_file_policy_blocker looks at the new list.
DiscardChurn ==
    /\ listed' \in SUBSET (Listed(Files) \ {f \in listed : f \in Unrequested(listed, situation.goal)})
    /\ tree' \in IF listed' = {} THEN {"clean", tree} ELSE {"dirty"}
    /\ IF Unrequested(listed', situation.goal) = {}
       THEN Transition("Staging", "stage")
       ELSE BlockRun

\* git checkout refuses a path it does not track, and that is propagated.
Approve ==
    /\ pc = "judge" /\ approved
    /\ \/ /\ Unrequested(listed, situation.goal) = {}
          /\ Transition("Staging", "stage")
          /\ UNCHANGED <<tree, listed>>
       \/ /\ Unrequested(listed, situation.goal) # {}
          /\ DiscardChurn
       \/ /\ Unrequested(listed, situation.goal) # {}
          /\ Propagate
          /\ UNCHANGED <<tree, listed>>
    /\ UNCHANGED <<maxRounds, situation, laneFile, attempts, launches,
                   validation, approved, reviewed, judged, git, report,
                   archived, index>>
-----------------------------------------------------------------------------
\* One step of the manager's git work: done, if it may be, or failed and the lane
\* blocked.
ManagerStep(here, allowed, step, next) ==
    /\ pc = here
    /\ \/ allowed /\ GoTo(next) /\ git' = git \cup {step}
       \/ BlockRun /\ UNCHANGED git
    /\ UNCHANGED <<maxRounds, situation, laneFile, attempts, launches,
                   validation, approved, reviewed, judged, report, archived,
                   listed>>

\* stage_approved_files: git may fail after it has added some of the files.
StageFiles ==
    /\ ManagerStep("stage", CanStage(listed), "staged", "commit")
    /\ \/ "staged" \in git' /\ index' = listed
       \/ "staged" \notin git' /\ index' = index
       \/ "staged" \notin git' /\ CanStage(listed) /\ index' \in SUBSET listed
    /\ UNCHANGED tree

\* commit_staged refuses an empty commit, so the worktree was dirty.  Files
\* touched after the list of changed files was made stay behind, and then the
\* worktree is still dirty.  Cutting the title may panic instead.
CommitStaged ==
    \/ /\ TitleCanBeCut(situation.text)
       /\ ManagerStep("commit",
                      CanCommit("manager", CommitTitle(situation.text),
                                CommitBody(situation.text), index),
                      "committed", "intent")
       /\ \/ "committed" \in git' /\ tree = "dirty" /\ tree' \in {"clean", "dirty"}
          \/ "committed" \notin git' /\ UNCHANGED tree
       /\ UNCHANGED index
    \/ /\ pc = "commit" /\ ~TitleCanBeCut(situation.text)
       /\ Propagate
       /\ UNCHANGED <<maxRounds, situation, laneFile, attempts, launches,
                      validation, approved, reviewed, judged, tree, git, report,
                      archived, listed, index>>

\* What the terminal report the body is made from has recorded by now
PrEvidence ==
    [summary |-> <<"summary">>, validation |-> {validation},
     review_signals |-> UNION {FindingsOf(result.signals) : result \in reviewed},
     arbitration |-> UNION {result.records : result \in reviewed}, timing |-> {"timing"}]

\* live_pr_request
PrRequests ==
    PrRequest(situation.prIntents, situation.review.required, PrEvidence,
              CommitTitle(situation.text), {"main"}, {"hepa/manager/"})

PreparePrRequest ==
    /\ pc = "intent"
    /\ IF PrRequests # {} THEN GoTo("push") ELSE BlockRun
    /\ UNCHANGED <<maxRounds, situation, laneFile, attempts, launches,
                   validation, approved, reviewed, judged, tree, git, report,
                   archived, listed, index>>

\* push_branch
PushBranch ==
    /\ ManagerStep("push", CanPush("manager", {"origin"}, {"hepa/manager/"}), "pushed", "create_pr")
    /\ UNCHANGED <<tree, index>>

\* create_pr: `gh` may have made the pull request and still be reported as a
\* failure, when it prints no URL.
CreatePr ==
    \/ /\ ManagerStep("create_pr",
                      \E request \in PrRequests : CanCreatePr("manager", request, situation.baseAhead),
                      "pr", "pr_created")
       /\ UNCHANGED <<tree, index>>
    \/ /\ pc = "create_pr"
       /\ \E request \in PrRequests : CanCreatePr("manager", request, situation.baseAhead)
       /\ \E success, url \in BOOLEAN : ~HasHandle([success |-> success, url |-> url])
       /\ BlockRun
       /\ git' = git \cup {"pr"}
       /\ UNCHANGED <<maxRounds, situation, laneFile, attempts, launches,
                      validation, approved, reviewed, judged, tree, report,
                      archived, listed, index>>

RecordPr ==
    /\ \/ pc = "pr_created" /\ Transition("PrCreated", "complete")
       \/ pc = "complete"   /\ TransitionAs("Completed", "conclude", "completed")
    /\ UNCHANGED <<maxRounds, situation, laneFile, attempts, launches,
                   validation, approved, reviewed, judged, tree, git, report,
                   archived, listed, index>>
-----------------------------------------------------------------------------
\* Mutant of Conclude: the initial lane file is left as it is.
ConcludeReportOnly ==
    /\ pc = "conclude"
    /\ GoTo("archive")
    /\ report' = verdict
    /\ UNCHANGED <<maxRounds, situation, laneFile, attempts, launches,
                   validation, approved, reviewed, judged, tree, git, archived,
                   listed, index>>

\* Mutant of Conclude: the report names the lane state instead of the verdict.
ConcludeLaneAsReport ==
    /\ pc = "conclude"
    /\ GoTo("archive")
    /\ laneFile' = lane
    /\ report' = lane
    /\ UNCHANGED <<maxRounds, situation, attempts, launches, validation,
                   approved, reviewed, judged, tree, git, archived, listed,
                   index>>

\* The end of the run, blocked or completed: the terminal files, the archive,
\* the worktree.
Conclude ==
    /\ pc = "conclude"
    /\ GoTo("archive")
    /\ laneFile' = lane
    /\ report' = verdict
    /\ UNCHANGED <<maxRounds, situation, attempts, launches, validation,
                   approved, reviewed, judged, tree, git, archived, listed,
                   index>>

ArchiveOnExit ==
    /\ pc = "archive"
    /\ GoTo("cleanup")
    /\ archived' = TRUE
    /\ UNCHANGED <<maxRounds, situation, laneFile, attempts, launches,
                   validation, approved, reviewed, judged, tree, git, report,
                   listed, index>>

\* Mutant of CleanUpLane: the worktree is removed by force.
ForceCleanUp ==
    /\ pc = "cleanup"
    /\ tree' = "removed"
    /\ pc' = "returned"
    /\ outcome' = verdict
    /\ UNCHANGED <<maxRounds, situation, lane, laneFile, attempts, launches,
                   validation, approved, reviewed, judged, git, verdict, report,
                   archived, listed, index>>

\* cleanup_lane: a dirty worktree is preserved; a clean one is removed together
\* with its branch.
CleanUpLane ==
    /\ pc = "cleanup"
    /\ tree' = IF tree = "clean" THEN "removed" ELSE tree
    /\ pc' = "returned"
    /\ outcome' = verdict
    /\ UNCHANGED <<maxRounds, situation, lane, laneFile, attempts, launches,
                   validation, approved, reviewed, judged, git, verdict, report,
                   archived, listed, index>>

\* Any artifact write on the way, or the copy to the archive, fails and is
\* propagated.
ArtifactFailure ==
    /\ IoMayFail
    /\ pc # "returned"
    /\ Propagate
    /\ UNCHANGED <<maxRounds, situation, laneFile, attempts, launches,
                   validation, approved, reviewed, judged, tree, git, report,
                   archived, listed, index>>

Step ==
    \/ ReadBrief \/ AllocateWorktree \/ WriteInitialLane \/ StartLane
    \/ ConfigureAdapter \/ FirstAttempt \/ FirstValidation
    \/ RepairAfterValidation \/ EnterReview \/ ReviewWork
    \/ RouteFindingsToRepair \/ RepairAfterReview \/ GiveUp \/ Approve
    \/ StageFiles \/ CommitStaged \/ PreparePrRequest \/ PushBranch \/ CreatePr
    \/ RecordPr \/ Conclude \/ ArchiveOnExit \/ CleanUpLane

Next == Step \/ ArtifactFailure

Spec == Init /\ [][Next]_vars

\* The calls the run waits for end: validation and a worker that was killed at its
\* timeout do (ChildProcess), and agents are taken not to block on their prompt or
\* leave a helper that holds their pipes for ever.
FairSpec == Spec /\ WF_vars(Step)
-----------------------------------------------------------------------------
\* "HEPA honors that cap during repair" (docs/hermes-kanban.md): whatever mix of
\* validation and review repairs the run goes through, no worker is launched
\* beyond the brief's total rounds (enforce_repair_round_budget, the loop head).
RoundsWithinBudget == launches <= RoundCap

\* Nothing is staged, committed, pushed or proposed that did not pass its last
\* validation and that the reviewers did not approve in its last attempt, every
\* one of them and with no finding left for a manager to decide; whatever was
\* listed anew in between, what is staged passed the screens and has no file of
\* the package manager's the task did not ask for; and the manager's steps are
\* taken in their order (run_live_task).
PublishedWorkIsVetted ==
    /\ git # {} =>
          /\ validation = "passed" /\ approved /\ judged = attempts
          /\ reviewed # {} /\ \A result \in reviewed : IsApproval(result)
    /\ "staged" \in git =>
          /\ index # {} /\ \A file \in index : ~Refused(file)
          /\ Unrequested(index, situation.goal) = {}
    /\ "pr" \in git => "pushed" \in git
    /\ "pushed" \in git => "committed" \in git
    /\ "committed" \in git => "staged" \in git

\* A run that returns a result has concluded its lane: the lane file and the
\* report on disk tell the outcome, the artifacts are archived, completed means
\* a pull request, and no clean worktree is left behind to refuse the next
\* allocation (finish_blocked_live_run and the end of run_live_task).
ReturnedRunIsConcluded ==
    outcome \in {"completed", "blocked"} =>
        /\ laneFile = lane
        /\ report = outcome
        /\ archived
        /\ tree # "clean"
        /\ outcome = "completed" => lane = "Completed" /\ "pr" \in git
        /\ outcome = "blocked"   => lane \in {"Blocked", "ReadyForHuman"}

\* A blocked run never destroys uncommitted work: once a worker has dirtied the
\* worktree, it is clean or gone again only when the work was committed, the manager
\* threw away the part nobody asked for, or another worker undid it (cleanup_lane,
\* PreservedDirty).
BlockedWorkIsKept ==
    [][tree = "dirty" /\ tree' # "dirty" =>
          \/ "committed" \in git'
          \/ pc = "judge" /\ approved
          \/ launches' # launches]_vars

\* The repair loop ends and the run returns, whatever its surroundings answer.
RunReturns == <>(pc = "returned")

\* "a fourth task/work/review attempt is terminalized as `ready_for_human`"
\* (docs/hermes-kanban.md): a run whose reviewers still object when its rounds
\* are used up returns its lane to a human, with the blocked report.
ExhaustedRunIsHandedOver ==
    pc = "returned" /\ judged > 0 /\ ~approved /\ attempts >= RoundCap =>
        /\ lane = "ReadyForHuman"
        /\ outcome = "blocked"
=============================================================================
