------------------------------ MODULE HermesRun ------------------------------
(***************************************************************************)
(* `hepa hermes run-ready`, `run-cards` and `run-dashboard-card`: a run    *)
(* selects tasks, claims them one after the other, launches the claimed    *)
(* ones as threads in batches of max_concurrency and waits for each batch. *)
(* A thread runs one lane (the run of LiveRun, an outcome here), records   *)
(* the result in the fleet registry and rewrites the task's card.  Several *)
(* runs and the operator's task commands share the registry and the cards. *)
(*                                                                         *)
(* A registry operation is one step here; FleetRegistry opens its window.  *)
(* A lane id is lane-hermes-<task>-<second>, and the task is clear from    *)
(* the context, so Lanes is the set of seconds in which a run may start.   *)
(*                                                                         *)
(* Abstracted: what cards say beyond the status and the lane state, task   *)
(* specifications, terminal mirrors; ties of priority are broken by task   *)
(* id in the code and either way here.                                     *)
(***************************************************************************)
EXTENDS TaskRecords, Naturals, Sequences, FiniteSets

CONSTANTS
    Tasks,           \* the tasks of the project
    Runs,            \* invocations of the run commands
    NoTask,          \* the run is at no particular task
    Dependencies,    \* the dependencies `ingest-spec` gives each task
    OpenQuestions,   \* the tasks it blocks for their open questions
    Requests,        \* the card lists of run-cards; {} stands for run-ready
    Limits,          \* the values of --limit
    MaxConcurrency,  \* --max-concurrency
    Creating,        \* the commands the operator writes records afresh with
    MaxDashboard,    \* bound: run-dashboard-card invocations
    MaxOperator,     \* bound: the operator's task commands
    MaxKills         \* bound: runs killed

ASSUME NoTaskIsNoTask == NoTask \notin Tasks
ASSUME DependenciesAreTasks == Dependencies \in [Tasks -> SUBSET Tasks]
ASSUME LimitsArePositive ==
    Limits \subseteq Nat \ {0} /\ MaxConcurrency \in Nat \ {0}
ASSUME RequestsAreTasks == Requests \subseteq SUBSET Tasks
ASSUME CreatingIsKnown == Creating \subseteq {"task create", "ingest-spec"}
ASSUME HermesBoundsAreNats ==
    MaxDashboard \in Nat /\ MaxOperator \in Nat /\ MaxKills \in Nat

VARIABLES
    registry,   \* the task records
    deps,       \* their dependencies
    card,       \* the local Hermes cards: a task status and a lane state
    run,        \* the runs
    worker,     \* the thread of a run for a task
    claimed,    \* history: tasks each run has claimed
    prs,        \* history: runs that made a pull request for a task
    dashboards, \* run-dashboard-card invocations
    commands,   \* the operator's task commands
    kills       \* runs killed

vars == <<registry, deps, card, run, worker, claimed, prs, dashboards, commands, kills>>

Card == [status : TaskStatus, lane : {"none", "Running", "Blocked", "Completed"}]

Stage == {"idle", "create", "select", "check", "claim", "card", "launch", "join",
          "returned", "killed"}

Active   == {"spawned", "live", "succeeded", "failed", "card_completed", "card_blocked"}
Finished == {"done", "gave_up"}

\* The tasks selected and not yet claimed, with their records as they were read.
Todos == UNION {[chosen -> TaskRecord] : chosen \in SUBSET Tasks}

Run == [ stage     : Stage,
         dry       : BOOLEAN,
         requested : SUBSET Tasks,
         limit     : Limits,
         second    : Lanes \cup {NoLane},
         todo      : Todos,
         task      : Tasks \cup {NoTask},
         specs     : Seq(Tasks),
         result    : {"none", "ok", "error"} ]

TypeOK ==
    /\ registry \in [Tasks -> TaskRecord]
    /\ deps \in [Tasks -> SUBSET Tasks]
    /\ card \in [Tasks -> Card]
    /\ run \in [Runs -> Run]
    /\ worker \in [Runs -> [Tasks -> {"none", "lost"} \cup Active \cup Finished]]
    /\ claimed \in [Runs -> SUBSET Tasks]
    /\ prs \in [Tasks -> SUBSET Runs]
    /\ dashboards \in Nat /\ commands \in Nat /\ kills \in Nat

CardWith(status, lane) == [status |-> status, lane |-> lane]
Nothing == <<>>   \* the function with the empty domain

\* The record `ingest-spec` writes: ready, or blocked by open questions.
Ingested(t, priority) ==
    IF t \in OpenQuestions THEN NewRecord("Blocked", "Blocked", priority)
                           ELSE NewRecord("Ready", "Ready", priority)

\* The tasks as `ingest-spec` leaves them.
Init ==
    /\ \E priority \in [Tasks -> Priorities] :
          registry = [t \in Tasks |-> Ingested(t, priority[t])]
    /\ deps = Dependencies
    /\ card = [t \in Tasks |-> CardWith(registry[t].status, "none")]
    /\ \E limit \in Limits :
          run = [r \in Runs |-> [ stage |-> "idle", dry |-> FALSE, requested |-> {},
                                  limit |-> limit, second |-> NoLane,
                                  todo |-> Nothing, task |-> NoTask,
                                  specs |-> <<>>, result |-> "none" ]]
    /\ worker = [r \in Runs |-> [t \in Tasks |-> "none"]]
    /\ claimed = [r \in Runs |-> {}]
    /\ prs = [t \in Tasks |-> {}]
    /\ dashboards = 0 /\ commands = 0 /\ kills = 0
-----------------------------------------------------------------------------
\* What a step of a run's main thread leaves alone.
MainOnly == UNCHANGED <<worker, prs, dashboards, commands, kills>>

Return(r, result) ==
    run' = [run EXCEPT ![r].stage = "returned", ![r].result = result]

\* run-ready (nothing requested) and run-cards
StartRun(r, dry, requested) ==
    /\ run[r].stage = "idle"
    /\ run' = [run EXCEPT ![r].stage = "select", ![r].dry = dry,
                          ![r].requested = requested]
    /\ UNCHANGED <<registry, deps, card, claimed>> /\ MainOnly

\* run-dashboard-card: the record is written afresh, whatever it was; then the
\* task specification and the card, and then the card is run.
RunDashboardCard(r, t, dry, priority) ==
    /\ run[r].stage = "idle"
    /\ dashboards < MaxDashboard
    /\ dashboards' = dashboards + 1
    /\ registry' = [registry EXCEPT ![t] = NewRecord("Ready", "Ready", priority)]
    /\ deps' = [deps EXCEPT ![t] = {}]
    /\ run' = [run EXCEPT ![r].stage = "create", ![r].dry = dry,
                          ![r].requested = {t}]
    /\ UNCHANGED <<card, worker, claimed, prs, commands, kills>>

WriteDashboardCard(r) ==
    /\ run[r].stage = "create"
    /\ \/ /\ card' = [t \in Tasks |-> IF t \in run[r].requested THEN CardWith("Ready", "none")
                                                                ELSE card[t]]
          /\ run' = [run EXCEPT ![r].stage = "select"]
       \/ Return(r, "error") /\ UNCHANGED card
    /\ UNCHANGED <<registry, deps, claimed>> /\ MainOnly

\* A requested card finds the task that names it.  Only `task create` leaves a
\* task NotReady here, and such a task names no card.
Eligible(r) ==
    IF run[r].requested = {}
    THEN {t \in Tasks : registry[t].status = "Ready" /\ registry[t].readiness = "Ready"}
    ELSE {t \in run[r].requested : registry[t].readiness # "NotReady"}

\* sort by priority, truncate
Selections(eligible, limit) ==
    {chosen \in SUBSET eligible :
        /\ Cardinality(chosen) = IF limit < Cardinality(eligible) THEN limit
                                                                  ELSE Cardinality(eligible)
        /\ \A t \in chosen, u \in eligible \ chosen :
              registry[t].priority >= registry[u].priority}

\* list_tasks fails on a record that cannot be read, and ends the run.
Select(r, second) ==
    /\ run[r].stage = "select"
    /\ \/ IF Eligible(r) = {}
          THEN Return(r, "ok")
          ELSE \E chosen \in Selections(Eligible(r), run[r].limit) :
                  run' = [run EXCEPT ![r].stage = "check", ![r].second = second,
                                     ![r].todo = [t \in chosen |-> registry[t]]]
       \/ Return(r, "error")
    /\ UNCHANGED <<registry, deps, card, claimed>> /\ MainOnly

\* The tasks the claim loop may turn to, by the priority they were selected with.
NextUp(r) ==
    LET todo == run[r].todo
    IN  {t \in DOMAIN todo : \A u \in DOMAIN todo : todo[t].priority >= todo[u].priority}

WithoutTask(todo, t) == [u \in DOMAIN todo \ {t} |-> todo[u]]

DependenciesMet(t) == \A d \in deps[t] : registry[d].status = "Completed"

\* Mutant of CheckDependencies: a task waits for nothing.
SkipDependencies(r) ==
    /\ run[r].stage = "check"
    /\ \E t \in NextUp(r) :
          \/ run' = [run EXCEPT ![r].stage = "claim", ![r].task = t]
          \/ Return(r, "error")
    /\ UNCHANGED <<registry, deps, card, claimed>> /\ MainOnly

\* The head of the claim loop.  A record that cannot be read ends the run.
CheckDependencies(r) ==
    /\ run[r].stage = "check"
    /\ \E t \in NextUp(r) :
          \/ /\ DependenciesMet(t)
             /\ run' = [run EXCEPT ![r].stage = "claim", ![r].task = t]
          \/ /\ ~DependenciesMet(t)
             /\ run' = [run EXCEPT ![r].todo = WithoutTask(@, t)]
          \/ Return(r, "error")
    /\ UNCHANGED <<registry, deps, card, claimed>> /\ MainOnly

\* Mutant of ClaimSelected: a refused claim is not noticed.
ClaimIfPossible(r) ==
    /\ run[r].stage = "claim"
    /\ run' = [run EXCEPT ![r].stage = "card"]
    /\ LET t == run[r].task IN
       IF ~run[r].dry /\ CanClaim(registry[t])
       THEN /\ registry' = [registry EXCEPT ![t] = Claimed(@, run[r].second)]
            /\ claimed' = [claimed EXCEPT ![r] = @ \cup {t}]
       ELSE UNCHANGED <<registry, claimed>>
    /\ UNCHANGED <<deps, card>> /\ MainOnly

\* read_hermes_task_spec, then claim_task_into_lane unless the run is dry.  The
\* first failure or refusal ends the run; what it claimed before stays claimed.
ClaimSelected(r) ==
    /\ run[r].stage = "claim"
    /\ LET t == run[r].task IN
       \/ /\ run[r].dry
          /\ run' = [run EXCEPT ![r].stage = "card"]
          /\ UNCHANGED <<registry, claimed>>
       \/ /\ ~run[r].dry /\ CanClaim(registry[t])
          /\ registry' = [registry EXCEPT ![t] = Claimed(@, run[r].second)]
          /\ claimed' = [claimed EXCEPT ![r] = @ \cup {t}]
          /\ run' = [run EXCEPT ![r].stage = "card"]
       \/ /\ Return(r, "error")
          /\ UNCHANGED <<registry, claimed>>
    /\ UNCHANGED <<deps, card>> /\ MainOnly

\* write_local_hermes_card with a running lane, for a dry run too; a failure
\* ends the run.
WriteClaimedCard(r) ==
    /\ run[r].stage = "card"
    /\ LET t == run[r].task IN
       \/ /\ card' = [card EXCEPT ![t] =
                        CardWith(IF run[r].dry THEN run[r].todo[t].status
                                               ELSE "Running", "Running")]
          /\ run' = [run EXCEPT ![r].stage = "check", ![r].task = NoTask,
                                ![r].todo = WithoutTask(@, t),
                                ![r].specs = Append(@, t)]
       \/ Return(r, "error") /\ UNCHANGED card
    /\ UNCHANGED <<registry, deps, claimed>> /\ MainOnly

EndClaims(r) ==
    /\ run[r].stage = "check"
    /\ DOMAIN run[r].todo = {}
    /\ IF run[r].dry THEN Return(r, "ok")
                     ELSE run' = [run EXCEPT ![r].stage = "launch"]
    /\ UNCHANGED <<registry, deps, card, claimed>> /\ MainOnly
-----------------------------------------------------------------------------
\* launch_specs.chunks(max_concurrency)
BatchSize(specs) == IF MaxConcurrency < Len(specs) THEN MaxConcurrency ELSE Len(specs)

\* Mutant of LaunchBatch: the task behind each batch is skipped.
LaunchAndSkip(r) ==
    /\ run[r].stage = "launch"
    /\ run[r].specs # <<>>
    /\ LET specs == run[r].specs
           batch == {specs[i] : i \in 1 .. BatchSize(specs)}
       IN  /\ worker' = [worker EXCEPT ![r] =
                            [t \in Tasks |-> IF t \in batch THEN "spawned" ELSE @[t]]]
           /\ run' = [run EXCEPT ![r].stage = "join",
                                 ![r].specs = SubSeq(specs, BatchSize(specs) + 2, Len(specs))]
    /\ UNCHANGED <<registry, deps, card, claimed, prs, dashboards, commands, kills>>

LaunchBatch(r) ==
    /\ run[r].stage = "launch"
    /\ run[r].specs # <<>>
    /\ LET specs == run[r].specs
           batch == {specs[i] : i \in 1 .. BatchSize(specs)}
       IN  /\ worker' = [worker EXCEPT ![r] =
                            [t \in Tasks |-> IF t \in batch THEN "spawned" ELSE @[t]]]
           /\ run' = [run EXCEPT ![r].stage = "join",
                                 ![r].specs = SubSeq(specs, BatchSize(specs) + 1, Len(specs))]
    /\ UNCHANGED <<registry, deps, card, claimed, prs, dashboards, commands, kills>>

\* The threads of a run end with its process.
LoseThreads(r) ==
    worker' = [worker EXCEPT ![r] =
                  [t \in Tasks |-> IF @[t] \in Active THEN "lost" ELSE @[t]]]

\* Mutant of JoinBatch: the next batch starts at once.
DetachBatch(r) ==
    /\ run[r].stage = "join"
    /\ run' = [run EXCEPT ![r].stage = "launch"]
    /\ UNCHANGED <<registry, deps, card, claimed>> /\ MainOnly

\* Mutant of JoinBatch: it waits for every thread to succeed.
JoinSuccesses(r) ==
    /\ run[r].stage = "join"
    /\ \A t \in Tasks : worker[r][t] \in {"none", "done"}
    /\ run' = [run EXCEPT ![r].stage = "launch"]
    /\ UNCHANGED <<registry, deps, card, claimed>> /\ MainOnly

JoinBatch(r) ==
    /\ run[r].stage = "join"
    /\ \A t \in Tasks : worker[r][t] \notin Active
    /\ run' = [run EXCEPT ![r].stage = "launch"]
    /\ UNCHANGED <<registry, deps, card, claimed>> /\ MainOnly

\* A thread panics.  The run ends with an error when it comes to join that one,
\* and the threads that are still at work end with the process.
ThreadPanics(r) ==
    /\ run[r].stage = "join"
    /\ \E t \in Tasks : worker[r][t] \in Active
    /\ Return(r, "error")
    /\ LoseThreads(r)
    /\ UNCHANGED <<registry, deps, card, claimed, prs, dashboards, commands, kills>>

\* Mutant of EndRun: failed threads are not counted.
EndRunOk(r) ==
    /\ run[r].stage = "launch"
    /\ run[r].specs = <<>>
    /\ Return(r, "ok")
    /\ UNCHANGED <<registry, deps, card, claimed>> /\ MainOnly

\* The summary: Ok when no thread failed.
EndRun(r) ==
    /\ run[r].stage = "launch"
    /\ run[r].specs = <<>>
    /\ Return(r, IF \E t \in Tasks : worker[r][t] = "gave_up" THEN "error" ELSE "ok")
    /\ UNCHANGED <<registry, deps, card, claimed>> /\ MainOnly

WorkerTo(r, t, state) == worker' = [worker EXCEPT ![r][t] = state]

\* The runtime artifacts and the terminal mirror; without them the thread gives
\* up and does not touch the registry.
StartLane(r, t) ==
    /\ worker[r][t] = "spawned"
    /\ WorkerTo(r, t, "live") \/ WorkerTo(r, t, "gave_up")
    /\ UNCHANGED <<registry, deps, card, run, claimed, prs, dashboards, commands, kills>>

\* run_live_task, judged by hermes_live_result_is_success
FinishLane(r, t) ==
    /\ worker[r][t] = "live"
    /\ \/ WorkerTo(r, t, "succeeded") /\ prs' = [prs EXCEPT ![t] = @ \cup {r}]
       \/ WorkerTo(r, t, "failed") /\ UNCHANGED prs
    /\ UNCHANGED <<registry, deps, card, run, claimed, dashboards, commands, kills>>

\* complete_task or block_task.  The registry may refuse; then the thread goes
\* on with a record of its own making.
RecordAs(r, t, status, next) ==
    /\ registry' = IF CanSetStatus(registry[t], status)
                   THEN [registry EXCEPT ![t] = WithStatus(@, status)]
                   ELSE registry
    /\ WorkerTo(r, t, next)
    /\ UNCHANGED <<deps, card, run, claimed, prs, dashboards, commands, kills>>

\* Mutant of RecordResult: the card of a failed lane is completed all the same.
RecordAsCompleted(r, t) ==
    \/ worker[r][t] = "succeeded" /\ RecordAs(r, t, "Completed", "card_completed")
    \/ worker[r][t] = "failed"    /\ RecordAs(r, t, "Blocked", "card_completed")

RecordResult(r, t) ==
    \/ worker[r][t] = "succeeded" /\ RecordAs(r, t, "Completed", "card_completed")
    \/ worker[r][t] = "failed"    /\ RecordAs(r, t, "Blocked", "card_blocked")

\* Mutant of FinalCard: the lane state of the card is taken from the registry.
FinalCardOfRecord(r, t, state, next) ==
    /\ card' = [card EXCEPT ![t] = CardWith(registry[t].status, registry[t].status)]
    /\ WorkerTo(r, t, next)
    /\ UNCHANGED <<registry, deps, run, claimed, prs, dashboards, commands, kills>>

\* `let _ = write_local_hermes_card(...)`: a failure is not noticed.
FinalCard(r, t, state, next) ==
    /\ \/ card' = [card EXCEPT ![t] = CardWith(state, state)]
       \/ UNCHANGED card
    /\ WorkerTo(r, t, next)
    /\ UNCHANGED <<registry, deps, run, claimed, prs, dashboards, commands, kills>>

WriteFinalCard(r, t) ==
    \/ worker[r][t] = "card_completed" /\ FinalCard(r, t, "Completed", "done")
    \/ worker[r][t] = "card_blocked"   /\ FinalCard(r, t, "Blocked", "gave_up")
-----------------------------------------------------------------------------
\* `task block|cancel|resume|complete` and `lane stop`
OperatorSets(t, status) ==
    /\ commands < MaxOperator
    /\ commands' = commands + 1
    /\ CanSetStatus(registry[t], status)
    /\ registry' = [registry EXCEPT ![t] = WithStatus(@, status)]
    /\ UNCHANGED <<deps, card, run, worker, claimed, prs, dashboards, kills>>

\* `task prioritize`
OperatorPrioritizes(t, priority) ==
    /\ commands < MaxOperator
    /\ commands' = commands + 1
    /\ CanPrioritize(registry[t])
    /\ registry' = [registry EXCEPT ![t] = WithPriority(@, priority)]
    /\ UNCHANGED <<deps, card, run, worker, claimed, prs, dashboards, kills>>

\* `task create` and `ingest-spec`, which write the record afresh, whatever it
\* was.  The first names no card and makes none; the card of the second may fail
\* to be written.  A task's priority is any here, though `task create` gives 1.
OperatorCreates(t, command, priority) ==
    /\ commands < MaxOperator
    /\ commands' = commands + 1
    /\ \/ /\ command = "task create"
          /\ registry' = [registry EXCEPT ![t] = NewRecord("Queued", "NotReady", priority)]
          /\ deps' = [deps EXCEPT ![t] = {}]
          /\ UNCHANGED card
       \/ /\ command = "ingest-spec"
          /\ registry' = [registry EXCEPT ![t] = Ingested(t, priority)]
          /\ deps' = [deps EXCEPT ![t] = Dependencies[t]]
          /\ \/ card' = [card EXCEPT ![t] = CardWith(Ingested(t, priority).status, "none")]
             \/ UNCHANGED card
    /\ UNCHANGED <<run, worker, claimed, prs, dashboards, kills>>

\* The process of a run is killed, its threads with it.
KillRun(r) ==
    /\ run[r].stage \notin {"idle", "returned", "killed"}
    /\ kills < MaxKills
    /\ kills' = kills + 1
    /\ run' = [run EXCEPT ![r].stage = "killed"]
    /\ LoseThreads(r)
    /\ UNCHANGED <<registry, deps, card, claimed, prs, dashboards, commands>>

MainStep(r) ==
    \/ WriteDashboardCard(r) \/ \E second \in Lanes : Select(r, second)
    \/ CheckDependencies(r) \/ ClaimSelected(r) \/ WriteClaimedCard(r) \/ EndClaims(r)
    \/ LaunchBatch(r) \/ JoinBatch(r) \/ EndRun(r)

WorkerStep(r, t) ==
    StartLane(r, t) \/ FinishLane(r, t) \/ RecordResult(r, t) \/ WriteFinalCard(r, t)

Command ==
    \/ \E r \in Runs, dry \in BOOLEAN :
          \/ \E requested \in Requests : StartRun(r, dry, requested)
          \/ \E t \in Tasks, priority \in Priorities : RunDashboardCard(r, t, dry, priority)
    \/ \E t \in Tasks :
          \/ \E status \in {"Blocked", "Cancelled", "Queued", "Completed"} :
                OperatorSets(t, status)
          \/ \E priority \in Priorities :
                \/ OperatorPrioritizes(t, priority)
                \/ \E command \in Creating : OperatorCreates(t, command, priority)
    \/ \E r \in Runs : KillRun(r)

Next ==
    \/ \E r \in Runs : MainStep(r) \/ ThreadPanics(r) \/ \E t \in Tasks : WorkerStep(r, t)
    \/ Command

Spec == Init /\ [][Next]_vars

\* A run and its threads go on while they can; run_live_task returns, as
\* its waits end (see LiveRun).  Commands are given or not, threads panic or not.
FairSpec ==
    /\ Spec
    /\ \A r \in Runs : WF_vars(MainStep(r))
    /\ \A r \in Runs, t \in Tasks : WF_vars(WorkerStep(r, t))
-----------------------------------------------------------------------------
\* "Live runs claim each task into exactly one lane before invoking the
\* configured adapter" (docs/hermes-kanban.md): two threads never work on one
\* task, however the runs overlap.
OneLaneAtATime ==
    \A t \in Tasks : \A r, s \in Runs :
        worker[r][t] \in Active /\ worker[s][t] \in Active => r = s

\* A thread works under the claim its own run made and nobody else's: the record
\* names its lane until the thread has ended (run_hermes_selected,
\* claim_task_into_lane).
WorkIsClaimed ==
    \A r \in Runs, t \in Tasks :
        worker[r][t] \in Active =>
            /\ t \in claimed[r]
            /\ registry[t].lane = run[r].second

\* The dependencies of a task were completed before its lane was launched, and
\* still are while it runs (unmet_dependencies before claim_task_into_lane).
DependenciesFirst ==
    \A r \in Runs, t \in Tasks : worker[r][t] \in Active => DependenciesMet(t)

\* A run that reports success has a pull request for every task it claimed, and
\* leaves none of them running (the failed count of run_hermes_selected).
OkRunIsDone ==
    \A r \in Runs :
        run[r].result = "ok" =>
            \A t \in claimed[r] : r \in prs[t] /\ registry[t].status # "Running"

\* A running task is in the hands of a run that has claimed it, or that run has
\* failed or died: no run loses a claim on its way to success.
RunningTaskHasRun ==
    \A t \in Tasks :
        registry[t].status = "Running" =>
            \E r \in Runs :
                /\ t \in claimed[r]
                /\ \/ run[r].result = "error"
                   \/ run[r].stage = "killed"
                   \/ t = run[r].task
                   \/ \E i \in 1 .. Len(run[r].specs) : run[r].specs[i] = t
                   \/ worker[r][t] \in {"spawned", "live", "succeeded", "failed", "gave_up"}

\* A run never has more than --max-concurrency lanes at work: a batch starts only
\* when every thread of the one before has ended (launch_specs.chunks, join).
ConcurrencyIsBounded ==
    \A r \in Runs :
        Cardinality({t \in Tasks : worker[r][t] \in Active}) <= MaxConcurrency

\* A card shows a completed lane only for a task that has a pull request
\* (hermes_live_result_is_success).
CompletedCardHasPr == \A t \in Tasks : card[t].lane = "Completed" => prs[t] # {}

\* Every run that is started comes to an end unless it is killed: the claim loop
\* and the batches make progress, and no thread is waited for in vain.
RunsReturn ==
    \A r \in Runs :
        run[r].stage \in {"create", "select"} ~> run[r].stage \in {"returned", "killed"}
=============================================================================
