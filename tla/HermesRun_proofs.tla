--------------------------- MODULE HermesRun_proofs ---------------------------
(***************************************************************************)
(* Theorems of HermesRun, for any number of tasks, runs, batches, operator *)
(* commands and kills.  What needs a claim to be made only once is proved  *)
(* for as long as nobody writes the record of a claimed task afresh, as    *)
(* run-dashboard-card, `task create` and `ingest-spec` do (the run         *)
(* hermes_second_lane).                                                    *)
(***************************************************************************)
EXTENDS HermesRun, FiniteSetTheorems, SequenceTheorems, TLAPS

-----------------------------------------------------------------------------
\* What is written to the registry.
LEMMA WrittenRecordsAreRecords ==
    ASSUME NEW record \in TaskRecord
    PROVE  /\ \A status \in TaskStatus : WithStatus(record, status) \in TaskRecord
           /\ \A priority \in Priorities : WithPriority(record, priority) \in TaskRecord
           /\ \A lane \in Lanes : Claimed(record, lane) \in TaskRecord
  BY DEF TaskRecord, WithStatus, WithPriority, Claimed, TaskStatus

LEMMA FreshRecordsAreRecords ==
    ASSUME NEW priority \in Priorities
    PROVE  /\ NewRecord("Ready", "Ready", priority) \in TaskRecord
           /\ NewRecord("Blocked", "Blocked", priority) \in TaskRecord
           /\ NewRecord("Queued", "NotReady", priority) \in TaskRecord
           /\ \A t \in Tasks : Ingested(t, priority) \in TaskRecord
  BY DEF Ingested, NewRecord, TaskRecord, TaskStatus, ReadinessState

LEMMA ChosenRecordsAreTodos ==
    ASSUME NEW todo, NEW chosen \in SUBSET Tasks, todo \in [chosen -> TaskRecord]
    PROVE  todo \in Todos
  BY DEF Todos

LEMMA InitTyped == Init => TypeOK
<1> SUFFICES ASSUME Init PROVE TypeOK
  OBVIOUS
<1>1. registry \in [Tasks -> TaskRecord]
  <2>1. PICK priority \in [Tasks -> Priorities] :
            registry = [t \in Tasks |-> Ingested(t, priority[t])]
    BY DEF Init
  <2> QED BY <2>1, FreshRecordsAreRecords
<1>2. deps \in [Tasks -> SUBSET Tasks]
  BY DependenciesAreTasks DEF Init
<1>3. card \in [Tasks -> Card]
  BY <1>1 DEF Init, Card, CardWith, TaskRecord
<1>4. run \in [Runs -> Run]
  <2>1. PICK limit \in Limits :
            run = [r \in Runs |-> [ stage |-> "idle", dry |-> FALSE, requested |-> {},
                                    limit |-> limit, second |-> NoLane,
                                    todo |-> Nothing, task |-> NoTask,
                                    specs |-> <<>>, result |-> "none" ]]
    BY DEF Init
  <2>2. Nothing \in Todos
    <3>1. Nothing \in [{} -> TaskRecord]
      BY DEF Nothing
    <3> QED BY <3>1, ChosenRecordsAreTodos
  <2>3. <<>> \in Seq(Tasks)
    OBVIOUS
  <2> QED BY <2>1, <2>2, <2>3 DEF Run, Stage
<1>5. worker \in [Runs -> [Tasks -> {"none", "lost"} \cup Active \cup Finished]]
  BY DEF Init
<1>6. claimed \in [Runs -> SUBSET Tasks] /\ prs \in [Tasks -> SUBSET Runs]
      /\ dashboards \in Nat /\ commands \in Nat /\ kills \in Nat
  BY DEF Init
<1> QED BY <1>1, <1>2, <1>3, <1>4, <1>5, <1>6 DEF TypeOK

LEMMA TodoIsTyped ==
    ASSUME TypeOK, NEW r \in Runs
    PROVE  /\ DOMAIN run[r].todo \subseteq Tasks
           /\ \A t \in DOMAIN run[r].todo : run[r].todo[t] \in TaskRecord
           /\ \A t : WithoutTask(run[r].todo, t) \in Todos
<1>0. run[r].todo \in Todos
  BY DEF TypeOK, Run
<1>1. PICK chosen \in SUBSET Tasks : run[r].todo \in [chosen -> TaskRecord]
  BY <1>0 DEF Todos
<1>2. ASSUME NEW t
      PROVE  WithoutTask(run[r].todo, t) \in Todos
  <2>1. WithoutTask(run[r].todo, t) \in [chosen \ {t} -> TaskRecord]
    BY <1>1 DEF WithoutTask
  <2> QED BY <2>1, ChosenRecordsAreTodos
<1> QED BY <1>1, <1>2

\* The fields a step writes in the record of a run.
LEMMA RunIsTyped ==
    ASSUME TypeOK, NEW r \in Runs
    PROVE  /\ run[r] \in Run
           /\ \A stage \in Stage : \A result \in {"none", "ok", "error"} :
                 [run EXCEPT ![r].stage = stage, ![r].result = result] \in [Runs -> Run]
           /\ \A stage \in Stage : [run EXCEPT ![r].stage = stage] \in [Runs -> Run]
           /\ \A stage \in Stage : \A specs \in Seq(Tasks) :
                 [run EXCEPT ![r].stage = stage, ![r].specs = specs] \in [Runs -> Run]
           /\ \A stage \in Stage : \A task \in Tasks :
                 [run EXCEPT ![r].stage = stage, ![r].task = task] \in [Runs -> Run]
           /\ \A todo \in Todos : [run EXCEPT ![r].todo = todo] \in [Runs -> Run]
           /\ \A stage \in Stage : \A dry \in BOOLEAN : \A requested \in SUBSET Tasks :
                 [run EXCEPT ![r].stage = stage, ![r].dry = dry,
                             ![r].requested = requested] \in [Runs -> Run]
           /\ \A stage \in Stage : \A second \in Lanes : \A todo \in Todos :
                 [run EXCEPT ![r].stage = stage, ![r].second = second,
                             ![r].todo = todo] \in [Runs -> Run]
           /\ \A stage \in Stage : \A todo \in Todos : \A specs \in Seq(Tasks) :
                 [run EXCEPT ![r].stage = stage, ![r].task = NoTask,
                             ![r].todo = todo, ![r].specs = specs] \in [Runs -> Run]
<1>1. run \in [Runs -> Run] /\ run[r] \in Run
  BY DEF TypeOK
<1>2. ASSUME NEW stage \in Stage, NEW result \in {"none", "ok", "error"}
      PROVE  [run EXCEPT ![r].stage = stage, ![r].result = result] \in [Runs -> Run]
  <2>1. [run[r] EXCEPT !.stage = stage, !.result = result] \in Run
    BY <1>1 DEF Run
  <2> QED BY <1>1, <2>1
<1>3. ASSUME NEW stage \in Stage
      PROVE  [run EXCEPT ![r].stage = stage] \in [Runs -> Run]
  <2>1. [run[r] EXCEPT !.stage = stage] \in Run
    BY <1>1 DEF Run
  <2> QED BY <1>1, <2>1
<1>4. ASSUME NEW stage \in Stage, NEW specs \in Seq(Tasks)
      PROVE  [run EXCEPT ![r].stage = stage, ![r].specs = specs] \in [Runs -> Run]
  <2>1. [run[r] EXCEPT !.stage = stage, !.specs = specs] \in Run
    BY <1>1 DEF Run
  <2> QED BY <1>1, <2>1
<1>5. ASSUME NEW stage \in Stage, NEW task \in Tasks
      PROVE  [run EXCEPT ![r].stage = stage, ![r].task = task] \in [Runs -> Run]
  <2>1. [run[r] EXCEPT !.stage = stage, !.task = task] \in Run
    BY <1>1 DEF Run
  <2> QED BY <1>1, <2>1
<1>6. ASSUME NEW todo \in Todos
      PROVE  [run EXCEPT ![r].todo = todo] \in [Runs -> Run]
  <2>1. [run[r] EXCEPT !.todo = todo] \in Run
    BY <1>1 DEF Run
  <2> QED BY <1>1, <2>1
<1>7. ASSUME NEW stage \in Stage, NEW dry \in BOOLEAN, NEW requested \in SUBSET Tasks
      PROVE  [run EXCEPT ![r].stage = stage, ![r].dry = dry,
                          ![r].requested = requested] \in [Runs -> Run]
  <2>1. [run[r] EXCEPT !.stage = stage, !.dry = dry, !.requested = requested] \in Run
    BY <1>1 DEF Run
  <2> QED BY <1>1, <2>1
<1>8. ASSUME NEW stage \in Stage, NEW second \in Lanes, NEW todo \in Todos
      PROVE  [run EXCEPT ![r].stage = stage, ![r].second = second,
                          ![r].todo = todo] \in [Runs -> Run]
  <2>1. [run[r] EXCEPT !.stage = stage, !.second = second, !.todo = todo] \in Run
    BY <1>1 DEF Run
  <2> QED BY <1>1, <2>1
<1>9. ASSUME NEW stage \in Stage, NEW todo \in Todos, NEW specs \in Seq(Tasks)
      PROVE  [run EXCEPT ![r].stage = stage, ![r].task = NoTask,
                          ![r].todo = todo, ![r].specs = specs] \in [Runs -> Run]
  <2>1. [run[r] EXCEPT !.stage = stage, !.task = NoTask, !.todo = todo, !.specs = specs] \in Run
    BY <1>1 DEF Run
  <2> QED BY <1>1, <2>1
<1> QED BY <1>1, <1>2, <1>3, <1>4, <1>5, <1>6, <1>7, <1>8, <1>9

LEMMA SpecsAreTyped ==
    ASSUME TypeOK, NEW r \in Runs
    PROVE  /\ run[r].specs \in Seq(Tasks)
           /\ \A t \in Tasks : Append(run[r].specs, t) \in Seq(Tasks)
           /\ SubSeq(run[r].specs, BatchSize(run[r].specs) + 1, Len(run[r].specs)) \in Seq(Tasks)
           /\ BatchSize(run[r].specs) \in 0 .. Len(run[r].specs)
           /\ BatchSize(run[r].specs) <= MaxConcurrency
<1>1. run[r].specs \in Seq(Tasks)
  BY RunIsTyped DEF Run
<1>2. /\ BatchSize(run[r].specs) \in 0 .. Len(run[r].specs)
      /\ BatchSize(run[r].specs) <= MaxConcurrency
  BY <1>1, LimitsArePositive DEF BatchSize
<1>3. SubSeq(run[r].specs, BatchSize(run[r].specs) + 1, Len(run[r].specs)) \in Seq(Tasks)
  BY <1>1, <1>2
<1> QED BY <1>1, <1>2, <1>3

\* TypeOK is not inductive alone: the task a run appends to its launch list is a
\* task because the run is at one of those it selected when it claims.
AtTask ==
    \A r \in Runs :
        run[r].stage \in {"claim", "card"} =>
            run[r].task \in Tasks /\ run[r].task \in DOMAIN run[r].todo

LEMMA NextRunTyped ==
    ASSUME TypeOK, AtTask, Next
    PROVE  run' \in [Runs -> Run]
<1>0. run \in [Runs -> Run]
  BY DEF TypeOK
<1>1. ASSUME NEW r \in Runs, NEW dry \in BOOLEAN, NEW requested \in Requests,
             StartRun(r, dry, requested)
      PROVE  run' \in [Runs -> Run]
  <2>1. requested \in SUBSET Tasks /\ "select" \in Stage
    BY RequestsAreTasks DEF Stage
  <2> QED BY <1>1, <2>1, RunIsTyped DEF StartRun
<1>2. ASSUME NEW r \in Runs, NEW t \in Tasks, NEW dry \in BOOLEAN, NEW priority \in Priorities,
             RunDashboardCard(r, t, dry, priority)
      PROVE  run' \in [Runs -> Run]
  <2>1. {t} \in SUBSET Tasks /\ "create" \in Stage
    BY DEF Stage
  <2> QED BY <1>2, <2>1, RunIsTyped DEF RunDashboardCard
<1>3. ASSUME NEW r \in Runs, NEW result \in {"ok", "error"}, Return(r, result)
      PROVE  run' \in [Runs -> Run]
  <2>1. "returned" \in Stage /\ result \in {"none", "ok", "error"}
    BY DEF Stage
  <2> QED BY <1>3, <2>1, RunIsTyped DEF Return
<1>4. ASSUME NEW r \in Runs, NEW second \in Lanes, Select(r, second)
      PROVE  run' \in [Runs -> Run]
  <2>1. CASE Return(r, "ok") \/ Return(r, "error")
    BY <1>3, <2>1
  <2>2. CASE ~(Return(r, "ok") \/ Return(r, "error"))
    <3>1. PICK chosen \in SUBSET Eligible(r) :
              run' = [run EXCEPT ![r].stage = "check", ![r].second = second,
                                 ![r].todo = [t \in chosen |-> registry[t]]]
      BY <1>4, <2>2 DEF Select, Selections
    <3>2. chosen \in SUBSET Tasks
      BY RunIsTyped DEF Eligible, Run
    <3>3. [t \in chosen |-> registry[t]] \in Todos
      <4>1. [t \in chosen |-> registry[t]] \in [chosen -> TaskRecord]
        BY <3>2 DEF TypeOK
      <4> QED BY <3>2, <4>1, ChosenRecordsAreTodos
    <3>4. "check" \in Stage
      BY DEF Stage
    <3> QED BY <3>1, <3>3, <3>4, RunIsTyped
  <2> QED BY <2>1, <2>2
<1>5. ASSUME NEW r \in Runs, CheckDependencies(r)
      PROVE  run' \in [Runs -> Run]
  <2>1. PICK t \in NextUp(r) :
            \/ run' = [run EXCEPT ![r].stage = "claim", ![r].task = t]
            \/ run' = [run EXCEPT ![r].todo = WithoutTask(run[r].todo, t)]
            \/ Return(r, "error")
    BY <1>0, <1>5 DEF CheckDependencies
  <2>2. t \in Tasks /\ "claim" \in Stage
    BY TodoIsTyped DEF NextUp, Stage
  <2>3. CASE run' = [run EXCEPT ![r].stage = "claim", ![r].task = t]
    BY <2>2, <2>3, RunIsTyped
  <2>4. CASE run' = [run EXCEPT ![r].todo = WithoutTask(run[r].todo, t)]
    BY <2>4, TodoIsTyped, RunIsTyped
  <2>5. CASE Return(r, "error")
    BY <1>3, <2>5
  <2> QED BY <2>1, <2>3, <2>4, <2>5
<1>6. ASSUME NEW r \in Runs, ClaimSelected(r)
      PROVE  run' \in [Runs -> Run]
  <2>1. "card" \in Stage
    BY DEF Stage
  <2>2. CASE run' = [run EXCEPT ![r].stage = "card"]
    BY <2>1, <2>2, RunIsTyped
  <2>3. CASE Return(r, "error")
    BY <1>3, <2>3
  <2> QED BY <1>6, <2>2, <2>3 DEF ClaimSelected
<1>7. ASSUME NEW r \in Runs, WriteClaimedCard(r)
      PROVE  run' \in [Runs -> Run]
  <2>1. CASE Return(r, "error")
    BY <1>3, <2>1
  <2>2. CASE run' = [run EXCEPT ![r].stage = "check", ![r].task = NoTask,
                                ![r].todo = WithoutTask(run[r].todo, run[r].task),
                                ![r].specs = Append(run[r].specs, run[r].task)]
    <3>1. run[r].task \in Tasks /\ "check" \in Stage
      BY <1>7 DEF WriteClaimedCard, AtTask, Stage
    <3> QED BY <2>2, <3>1, TodoIsTyped, SpecsAreTyped, RunIsTyped
  <2> QED BY <1>0, <1>7, <2>1, <2>2 DEF WriteClaimedCard
<1>8. ASSUME NEW r \in Runs, EndClaims(r)
      PROVE  run' \in [Runs -> Run]
  <2>1. "launch" \in Stage
    BY DEF Stage
  <2>2. CASE Return(r, "ok")
    BY <1>3, <2>2
  <2>3. CASE run' = [run EXCEPT ![r].stage = "launch"]
    BY <2>1, <2>3, RunIsTyped
  <2> QED BY <1>8, <2>2, <2>3 DEF EndClaims
<1>9. ASSUME NEW r \in Runs, LaunchBatch(r)
      PROVE  run' \in [Runs -> Run]
  <2>1. "join" \in Stage
    BY DEF Stage
  <2> QED BY <1>9, <2>1, SpecsAreTyped, RunIsTyped DEF LaunchBatch
<1>10. ASSUME NEW r \in Runs, JoinBatch(r)
      PROVE  run' \in [Runs -> Run]
  <2>1. "launch" \in Stage
    BY DEF Stage
  <2> QED BY <1>10, <2>1, RunIsTyped DEF JoinBatch
<1>11. ASSUME NEW r \in Runs, EndRun(r)
      PROVE  run' \in [Runs -> Run]
  BY <1>3, <1>11 DEF EndRun
<1>12. ASSUME NEW r \in Runs, KillRun(r)
      PROVE  run' \in [Runs -> Run]
  <2>1. "killed" \in Stage
    BY DEF Stage
  <2> QED BY <1>12, <2>1, RunIsTyped DEF KillRun
<1>13. ASSUME NEW r \in Runs, NEW t \in Tasks, WorkerStep(r, t)
      PROVE  run' = run
  BY <1>13 DEF WorkerStep, StartLane, FinishLane, RecordResult, RecordAs, WriteFinalCard,
               FinalCard
<1>14. ASSUME NEW t \in Tasks,
              \/ \E status \in {"Blocked", "Cancelled", "Queued", "Completed"} :
                    OperatorSets(t, status)
              \/ \E priority \in Priorities :
                    \/ OperatorPrioritizes(t, priority)
                    \/ \E command \in Creating : OperatorCreates(t, command, priority)
      PROVE  run' = run
  BY <1>14 DEF OperatorSets, OperatorPrioritizes, OperatorCreates
<1>15. ASSUME NEW r \in Runs, WriteDashboardCard(r)
      PROVE  run' \in [Runs -> Run]
  <2>1. "select" \in Stage
    BY DEF Stage
  <2>2. CASE Return(r, "error")
    BY <1>3, <2>2
  <2>3. CASE run' = [run EXCEPT ![r].stage = "select"]
    BY <2>1, <2>3, RunIsTyped
  <2> QED BY <1>15, <2>2, <2>3 DEF WriteDashboardCard
<1>16. ASSUME NEW r \in Runs, ThreadPanics(r)
      PROVE  run' \in [Runs -> Run]
  BY <1>3, <1>16 DEF ThreadPanics
<1> QED BY <1>0, <1>1, <1>2, <1>4, <1>5, <1>6, <1>7, <1>8, <1>9, <1>10, <1>11, <1>12, <1>13,
           <1>14, <1>15, <1>16 DEF Next, MainStep, Command

-----------------------------------------------------------------------------
\* What a step leaves of the run it belongs to; the other runs are as they were.
After(r, stage, dry, second, task, specs, result) ==
    /\ run'[r].stage = stage
    /\ run'[r].dry = dry
    /\ run'[r].second = second
    /\ run'[r].task = task
    /\ run'[r].specs = specs
    /\ run'[r].result = result
    /\ stage \in {"claim", "card"} => run'[r].todo = run[r].todo
    /\ \A s \in Runs : s # r => run'[s] = run[s]

\* A step that only moves the run on, or ends it.
MovesTo(r, stage) ==
    After(r, stage, run[r].dry, run[r].second, run[r].task, run[r].specs, run[r].result)

EndsWith(r, result) ==
    After(r, "returned", run[r].dry, run[r].second, run[r].task, run[r].specs, result)

LEMMA StageIsWritten ==
    ASSUME TypeOK, NEW r \in Runs, NEW stage, run' = [run EXCEPT ![r].stage = stage]
    PROVE  MovesTo(r, stage)
<1>1. run \in [Runs -> Run] /\ run[r] \in Run
  BY DEF TypeOK
<1>2. run'[r] = [run[r] EXCEPT !.stage = stage]
  BY <1>1
<1>3. \A s \in Runs : s # r => run'[s] = run[s]
  BY <1>1
<1> QED BY <1>1, <1>2, <1>3 DEF MovesTo, After, Run

LEMMA ReturnIsWritten ==
    ASSUME TypeOK, NEW r \in Runs, NEW result, Return(r, result)
    PROVE  EndsWith(r, result)
<1>1. run \in [Runs -> Run] /\ run[r] \in Run
  BY DEF TypeOK
<1>2. run'[r] = [run[r] EXCEPT !.stage = "returned", !.result = result]
  BY <1>1 DEF Return
<1>3. \A s \in Runs : s # r => run'[s] = run[s]
  BY <1>1 DEF Return
<1> QED BY <1>1, <1>2, <1>3 DEF EndsWith, After, Run

LEMMA StartIsWritten ==
    ASSUME TypeOK, NEW r \in Runs, NEW stage \in {"select", "create"}, NEW dry, NEW requested,
           run' = [run EXCEPT ![r].stage = stage, ![r].dry = dry,
                              ![r].requested = requested]
    PROVE  After(r, stage, dry, run[r].second, run[r].task, run[r].specs, run[r].result)
<1>1. run \in [Runs -> Run] /\ run[r] \in Run
  BY DEF TypeOK
<1>2. run'[r] = [run[r] EXCEPT !.stage = stage, !.dry = dry, !.requested = requested]
  BY <1>1
<1>3. \A s \in Runs : s # r => run'[s] = run[s]
  BY <1>1
<1> QED BY <1>1, <1>2, <1>3 DEF After, Run

LEMMA SelectIsWritten ==
    ASSUME TypeOK, NEW r \in Runs, NEW second \in Lanes, Select(r, second)
    PROVE  \/ EndsWith(r, "ok") \/ EndsWith(r, "error")
           \/ After(r, "check", run[r].dry, second, run[r].task, run[r].specs, run[r].result)
<1>1. run \in [Runs -> Run] /\ run[r] \in Run
  BY DEF TypeOK
<1>2. CASE Return(r, "ok") \/ Return(r, "error")
  BY <1>2, ReturnIsWritten
<1>3. CASE \E todo : run' = [run EXCEPT ![r].stage = "check", ![r].second = second,
                                        ![r].todo = todo]
  <2>1. PICK todo : run' = [run EXCEPT ![r].stage = "check", ![r].second = second,
                                       ![r].todo = todo]
    BY <1>3
  <2>2. run'[r] = [run[r] EXCEPT !.stage = "check", !.second = second, !.todo = todo]
    BY <1>1, <2>1
  <2>3. \A s \in Runs : s # r => run'[s] = run[s]
    BY <1>1, <2>1
  <2> QED BY <1>1, <2>2, <2>3 DEF After, Run
<1> QED BY <1>2, <1>3 DEF Select

LEMMA CheckIsWritten ==
    ASSUME TypeOK, NEW r \in Runs, CheckDependencies(r)
    PROVE  \/ \E t \in Tasks :
                 /\ t \in DOMAIN run[r].todo
                 /\ DependenciesMet(t)
                 /\ After(r, "claim", run[r].dry, run[r].second, t, run[r].specs, run[r].result)
           \/ MovesTo(r, "check")
           \/ EndsWith(r, "error")
<1>1. run \in [Runs -> Run] /\ run[r] \in Run /\ run[r].stage = "check"
  BY DEF TypeOK, CheckDependencies
<1>2. CASE \E t \in NextUp(r) :
              DependenciesMet(t) /\ run' = [run EXCEPT ![r].stage = "claim", ![r].task = t]
  <2>1. PICK t \in NextUp(r) :
              DependenciesMet(t) /\ run' = [run EXCEPT ![r].stage = "claim", ![r].task = t]
    BY <1>2
  <2>2. run'[r] = [run[r] EXCEPT !.stage = "claim", !.task = t]
    BY <1>1, <2>1
  <2>3. \A s \in Runs : s # r => run'[s] = run[s]
    BY <1>1, <2>1
  <2>4. t \in Tasks /\ t \in DOMAIN run[r].todo
    BY TodoIsTyped DEF NextUp
  <2>5. After(r, "claim", run[r].dry, run[r].second, t, run[r].specs, run[r].result)
    BY <1>1, <2>2, <2>3 DEF After, Run
  <2> QED BY <2>1, <2>4, <2>5
<1>3. CASE \E todo : run' = [run EXCEPT ![r].todo = todo]
  <2>1. PICK todo : run' = [run EXCEPT ![r].todo = todo]
    BY <1>3
  <2>2. run'[r] = [run[r] EXCEPT !.todo = todo]
    BY <1>1, <2>1
  <2>3. \A s \in Runs : s # r => run'[s] = run[s]
    BY <1>1, <2>1
  <2> QED BY <1>1, <2>2, <2>3 DEF MovesTo, After, Run
<1>4. CASE Return(r, "error")
  BY <1>4, ReturnIsWritten
<1> QED BY <1>1, <1>2, <1>3, <1>4 DEF CheckDependencies

LEMMA ClaimedCardIsWritten ==
    ASSUME TypeOK, NEW r \in Runs, WriteClaimedCard(r)
    PROVE  \/ EndsWith(r, "error")
           \/ After(r, "check", run[r].dry, run[r].second, NoTask,
                    Append(run[r].specs, run[r].task), run[r].result)
<1>1. run \in [Runs -> Run] /\ run[r] \in Run
  BY DEF TypeOK
<1>2. CASE Return(r, "error")
  BY <1>2, ReturnIsWritten
<1>3. CASE \E todo : run' = [run EXCEPT ![r].stage = "check", ![r].task = NoTask,
                                        ![r].todo = todo,
                                        ![r].specs = Append(run[r].specs, run[r].task)]
  <2>1. PICK todo : run' = [run EXCEPT ![r].stage = "check", ![r].task = NoTask,
                                       ![r].todo = todo,
                                       ![r].specs = Append(run[r].specs, run[r].task)]
    BY <1>3
  <2>2. run'[r] = [run[r] EXCEPT !.stage = "check", !.task = NoTask, !.todo = todo,
                                 !.specs = Append(run[r].specs, run[r].task)]
    BY <1>1, <2>1
  <2>3. \A s \in Runs : s # r => run'[s] = run[s]
    BY <1>1, <2>1
  <2> QED BY <1>1, <2>2, <2>3 DEF After, Run
<1> QED BY <1>1, <1>2, <1>3 DEF WriteClaimedCard

LEMMA LaunchIsWritten ==
    ASSUME TypeOK, NEW r \in Runs, LaunchBatch(r)
    PROVE  After(r, "join", run[r].dry, run[r].second, run[r].task,
                 SubSeq(run[r].specs, BatchSize(run[r].specs) + 1, Len(run[r].specs)),
                 run[r].result)
<1> DEFINE rest == SubSeq(run[r].specs, BatchSize(run[r].specs) + 1, Len(run[r].specs))
<1>1. run \in [Runs -> Run] /\ run[r] \in Run
  BY DEF TypeOK
<1>2. run' = [run EXCEPT ![r].stage = "join", ![r].specs = rest]
  BY DEF LaunchBatch
<1> HIDE DEF rest
<1>3. run'[r] = [run[r] EXCEPT !.stage = "join", !.specs = rest]
  BY <1>1, <1>2
<1>4. \A s \in Runs : s # r => run'[s] = run[s]
  BY <1>1, <1>2
<1>5. After(r, "join", run[r].dry, run[r].second, run[r].task, rest, run[r].result)
  BY <1>1, <1>3, <1>4 DEF After, Run
<1> QED BY <1>5 DEF rest

LEMMA ClaimIsWritten ==
    ASSUME TypeOK, NEW r \in Runs, ClaimSelected(r)
    PROVE  /\ run[r].stage = "claim"
           /\ \/ MovesTo(r, "card") /\ run[r].dry /\ UNCHANGED <<registry, claimed>>
              \/ /\ MovesTo(r, "card") /\ ~run[r].dry /\ CanClaim(registry[run[r].task])
                 /\ registry' = [registry EXCEPT ![run[r].task] = Claimed(@, run[r].second)]
                 /\ claimed' = [claimed EXCEPT ![r] = @ \cup {run[r].task}]
              \/ EndsWith(r, "error") /\ UNCHANGED <<registry, claimed>>
  BY StageIsWritten, ReturnIsWritten DEF ClaimSelected

\* What WriteClaimedCard appends and LaunchBatch takes off.
LEMMA AppendedSpecs ==
    ASSUME TypeOK, NEW r \in Runs, NEW t \in Tasks
    PROVE  LET specs == Append(run[r].specs, t)
           IN  /\ \A i \in 1 .. Len(specs) :
                     \/ specs[i] = t
                     \/ \E j \in 1 .. Len(run[r].specs) : specs[i] = run[r].specs[j]
               /\ \A j \in 1 .. Len(run[r].specs) :
                     \E i \in 1 .. Len(specs) : specs[i] = run[r].specs[j]
               /\ \E i \in 1 .. Len(specs) : specs[i] = t
<1> DEFINE old == run[r].specs
           specs == Append(old, t)
<1>1. old \in Seq(Tasks)
  BY SpecsAreTyped
<1> HIDE DEF old
<1>2. Len(specs) = Len(old) + 1 /\ Len(old) \in Nat
  BY <1>1
<1>3. \A i \in 1 .. Len(old) : specs[i] = old[i]
  BY <1>1
<1>4. specs[Len(old) + 1] = t
  BY <1>1
<1> HIDE DEF specs
<1>5. \A i \in 1 .. Len(specs) : specs[i] = t \/ \E j \in 1 .. Len(old) : specs[i] = old[j]
  BY <1>2, <1>3, <1>4
<1>6. \A j \in 1 .. Len(old) : \E i \in 1 .. Len(specs) : specs[i] = old[j]
  BY <1>2, <1>3
<1>7. \E i \in 1 .. Len(specs) : specs[i] = t
  BY <1>2, <1>4
<1> QED BY <1>5, <1>6, <1>7 DEF old, specs

LEMMA RemainingSpecs ==
    ASSUME TypeOK, NEW r \in Runs
    PROVE  LET specs == SubSeq(run[r].specs, BatchSize(run[r].specs) + 1, Len(run[r].specs))
           IN  /\ \A i \in 1 .. Len(specs) :
                     \E j \in 1 .. Len(run[r].specs) : specs[i] = run[r].specs[j]
               /\ \A j \in 1 .. Len(run[r].specs) :
                     \/ j \in 1 .. BatchSize(run[r].specs)
                     \/ \E i \in 1 .. Len(specs) : specs[i] = run[r].specs[j]
               /\ \A j \in 1 .. BatchSize(run[r].specs) : j \in 1 .. Len(run[r].specs)
<1> DEFINE all == run[r].specs
           n == BatchSize(all)
           specs == SubSeq(all, n + 1, Len(all))
<1>1. all \in Seq(Tasks) /\ n \in 0 .. Len(all) /\ Len(all) \in Nat
  BY SpecsAreTyped
<1> HIDE DEF all, n
<1>2. n + 1 \in Int /\ Len(all) \in Int /\ \A i \in n + 1 .. Len(all) : all[i] \in Tasks
  BY <1>1
<1>3. /\ Len(specs) = IF n + 1 <= Len(all) THEN Len(all) - (n + 1) + 1 ELSE 0
      /\ \A i \in 1 .. Len(all) - (n + 1) + 1 : specs[i] = all[n + 1 + i - 1]
  BY <1>2, SubSeqProperties
<1> HIDE DEF specs
<1>4. Len(specs) = Len(all) - n
  BY <1>1, <1>3
<1>5. ASSUME NEW i \in 1 .. Len(specs)
      PROVE  specs[i] = all[n + i] /\ n + i \in 1 .. Len(all)
  <2>1. i \in 1 .. Len(all) - (n + 1) + 1 /\ n + 1 + i - 1 = n + i /\ n + i \in 1 .. Len(all)
    BY <1>1, <1>4
  <2>2. specs[i] = all[n + 1 + i - 1]
    BY <1>3, <2>1
  <2> QED BY <2>1, <2>2
<1>6. ASSUME NEW j \in 1 .. Len(all), j \notin 1 .. n
      PROVE  \E i \in 1 .. Len(specs) : specs[i] = all[j]
  <2>1. j - n \in 1 .. Len(specs) /\ n + (j - n) = j
    BY <1>1, <1>4, <1>6
  <2>2. specs[j - n] = all[n + (j - n)]
    BY <1>5, <2>1
  <2> QED BY <2>1, <2>2
<1>7. \A j \in 1 .. n : j \in 1 .. Len(all)
  BY <1>1
<1> QED BY <1>5, <1>6, <1>7 DEF all, n, specs

-----------------------------------------------------------------------------
\* What each step does, spelt out for the run and the thread it belongs to.
WorkerMoves(r, u, state) ==
    /\ worker'[r][u] = state
    /\ \A t \in Tasks : t # u => worker'[r][t] = worker[r][t]
    /\ \A s \in Runs : s # r => worker'[s] = worker[s]

LEMMA WorkerIsWritten ==
    ASSUME TypeOK, NEW r \in Runs, NEW u \in Tasks, NEW state, WorkerTo(r, u, state)
    PROVE  WorkerMoves(r, u, state)
<1>1. worker \in [Runs -> [Tasks -> {"none", "lost"} \cup Active \cup Finished]]
  BY DEF TypeOK
<1>2. worker' = [worker EXCEPT ![r][u] = state]
  BY DEF WorkerTo
<1> QED BY <1>1, <1>2 DEF WorkerMoves

LEMMA StartRunDoes ==
    ASSUME TypeOK, NEW r \in Runs, NEW dry \in BOOLEAN, NEW requested \in Requests,
           StartRun(r, dry, requested)
    PROVE  /\ run[r].stage = "idle"
           /\ After(r, "select", dry, run[r].second, run[r].task, run[r].specs, run[r].result)
           /\ UNCHANGED <<registry, deps, card, worker, claimed, prs>>
  BY StartIsWritten DEF StartRun, MainOnly

LEMMA RunDashboardCardDoes ==
    ASSUME TypeOK, NEW r \in Runs, NEW u \in Tasks, NEW dry \in BOOLEAN, NEW priority \in Priorities,
           RunDashboardCard(r, u, dry, priority)
    PROVE  /\ run[r].stage = "idle"
           /\ After(r, "create", dry, run[r].second, run[r].task, run[r].specs, run[r].result)
           /\ UNCHANGED <<card, worker, claimed, prs>>
           /\ dashboards < MaxDashboard
  BY StartIsWritten DEF RunDashboardCard

LEMMA WriteDashboardCardDoes ==
    ASSUME TypeOK, NEW r \in Runs, WriteDashboardCard(r)
    PROVE  /\ run[r].stage = "create"
           /\ MovesTo(r, "select") \/ EndsWith(r, "error")
           /\ UNCHANGED <<registry, deps, worker, claimed, prs>>
           /\ \A u \in Tasks : card'[u] = card[u] \/ card'[u].lane = "none"
  BY StageIsWritten, ReturnIsWritten DEF WriteDashboardCard, MainOnly, CardWith

LEMMA SelectDoes ==
    ASSUME TypeOK, NEW r \in Runs, NEW second \in Lanes, Select(r, second)
    PROVE  /\ run[r].stage = "select"
           /\ \/ EndsWith(r, "ok") \/ EndsWith(r, "error")
              \/ After(r, "check", run[r].dry, second, run[r].task, run[r].specs, run[r].result)
           /\ UNCHANGED <<registry, deps, card, worker, claimed, prs>>
  BY SelectIsWritten DEF Select, MainOnly

LEMMA CheckDependenciesDoes ==
    ASSUME TypeOK, NEW r \in Runs, CheckDependencies(r)
    PROVE  /\ run[r].stage = "check"
           /\ \/ \E t \in Tasks :
                    /\ t \in DOMAIN run[r].todo /\ DependenciesMet(t)
                    /\ After(r, "claim", run[r].dry, run[r].second, t, run[r].specs, run[r].result)
              \/ MovesTo(r, "check")
              \/ EndsWith(r, "error")
           /\ UNCHANGED <<registry, deps, card, worker, claimed, prs>>
  BY CheckIsWritten DEF CheckDependencies, MainOnly

LEMMA ClaimSelectedDoes ==
    ASSUME TypeOK, NEW r \in Runs, ClaimSelected(r)
    PROVE  /\ run[r].stage = "claim"
           /\ \/ MovesTo(r, "card") /\ run[r].dry /\ UNCHANGED <<registry, claimed>>
              \/ /\ MovesTo(r, "card") /\ ~run[r].dry /\ CanClaim(registry[run[r].task])
                 /\ registry' = [registry EXCEPT ![run[r].task] =
                                    Claimed(registry[run[r].task], run[r].second)]
                 /\ claimed'[r] = claimed[r] \cup {run[r].task}
                 /\ \A s \in Runs : s # r => claimed'[s] = claimed[s]
              \/ EndsWith(r, "error") /\ UNCHANGED <<registry, claimed>>
           /\ UNCHANGED <<deps, card, worker, prs>>
  BY ClaimIsWritten DEF ClaimSelected, MainOnly, TypeOK

LEMMA WriteClaimedCardDoes ==
    ASSUME TypeOK, AtTask, NEW r \in Runs, WriteClaimedCard(r)
    PROVE  /\ run[r].stage = "card"
           /\ \/ EndsWith(r, "error")
              \/ /\ run[r].task \in Tasks
                 /\ After(r, "check", run[r].dry, run[r].second, NoTask, run'[r].specs,
                          run[r].result)
                 /\ \A i \in 1 .. Len(run'[r].specs) :
                       \/ run'[r].specs[i] = run[r].task
                       \/ \E j \in 1 .. Len(run[r].specs) : run'[r].specs[i] = run[r].specs[j]
                 /\ \A j \in 1 .. Len(run[r].specs) :
                       \E i \in 1 .. Len(run'[r].specs) : run'[r].specs[i] = run[r].specs[j]
                 /\ \E i \in 1 .. Len(run'[r].specs) : run'[r].specs[i] = run[r].task
           /\ UNCHANGED <<registry, deps, worker, claimed, prs>>
           /\ \A u \in Tasks : card'[u] = card[u] \/ card'[u].lane = "Running"
<1>1. card \in [Tasks -> Card]
  BY DEF TypeOK
<1>2. card' = card \/ \E status : card' = [card EXCEPT ![run[r].task] = CardWith(status, "Running")]
  BY DEF WriteClaimedCard
<1>3. ASSUME NEW status, card' = [card EXCEPT ![run[r].task] = CardWith(status, "Running")],
             NEW u \in Tasks, card'[u] # card[u]
      PROVE  card'[u].lane = "Running"
  <2>1. u = run[r].task /\ card'[u] = CardWith(status, "Running")
    BY <1>1, <1>3
  <2> QED BY <2>1 DEF CardWith
<1>4. run[r].stage = "card" /\ run[r].task \in Tasks
  BY DEF WriteClaimedCard, AtTask
<1> DEFINE specs == Append(run[r].specs, run[r].task)
<1>5. /\ \A i \in 1 .. Len(specs) :
            \/ specs[i] = run[r].task
            \/ \E j \in 1 .. Len(run[r].specs) : specs[i] = run[r].specs[j]
      /\ \A j \in 1 .. Len(run[r].specs) : \E i \in 1 .. Len(specs) : specs[i] = run[r].specs[j]
      /\ \E i \in 1 .. Len(specs) : specs[i] = run[r].task
  BY <1>4, AppendedSpecs
<1>6. \/ EndsWith(r, "error")
      \/ After(r, "check", run[r].dry, run[r].second, NoTask, specs, run[r].result)
  BY ClaimedCardIsWritten
<1> HIDE DEF specs
<1>7. ASSUME After(r, "check", run[r].dry, run[r].second, NoTask, specs, run[r].result)
      PROVE  run'[r].specs = specs
  BY <1>7 DEF After
<1>8. UNCHANGED <<registry, deps, worker, claimed, prs>>
  BY DEF WriteClaimedCard, MainOnly
<1>9. \A u \in Tasks : card'[u] = card[u] \/ card'[u].lane = "Running"
  BY <1>2, <1>3
<1>10. CASE EndsWith(r, "error")
  BY <1>4, <1>8, <1>9, <1>10
<1>11. CASE After(r, "check", run[r].dry, run[r].second, NoTask, specs, run[r].result)
  <2>1. After(r, "check", run[r].dry, run[r].second, NoTask, run'[r].specs, run[r].result)
    BY <1>7, <1>11
  <2>2. run'[r].specs = specs
    BY <1>7, <1>11
  <2>3. \A i \in 1 .. Len(run'[r].specs) :
           \/ run'[r].specs[i] = run[r].task
           \/ \E j \in 1 .. Len(run[r].specs) : run'[r].specs[i] = run[r].specs[j]
    BY <1>5, <2>2
  <2>4. /\ \A j \in 1 .. Len(run[r].specs) :
              \E i \in 1 .. Len(run'[r].specs) : run'[r].specs[i] = run[r].specs[j]
        /\ \E i \in 1 .. Len(run'[r].specs) : run'[r].specs[i] = run[r].task
    BY <1>5, <2>2
  <2> QED BY <1>4, <1>8, <1>9, <2>1, <2>3, <2>4
<1> QED BY <1>6, <1>10, <1>11

LEMMA EndClaimsDoes ==
    ASSUME TypeOK, NEW r \in Runs, EndClaims(r)
    PROVE  /\ run[r].stage = "check"
           /\ \/ run[r].dry /\ EndsWith(r, "ok")
              \/ ~run[r].dry /\ MovesTo(r, "launch")
           /\ UNCHANGED <<registry, deps, card, worker, claimed, prs>>
  BY StageIsWritten, ReturnIsWritten DEF EndClaims, MainOnly

LEMMA LaunchBatchDoes ==
    ASSUME TypeOK, NEW r \in Runs, LaunchBatch(r)
    PROVE  /\ run[r].stage = "launch"
           /\ After(r, "join", run[r].dry, run[r].second, run[r].task, run'[r].specs, run[r].result)
           /\ \A i \in 1 .. Len(run'[r].specs) :
                 \E j \in 1 .. Len(run[r].specs) : run'[r].specs[i] = run[r].specs[j]
           /\ \A j \in 1 .. Len(run[r].specs) :
                 \/ j \in 1 .. BatchSize(run[r].specs)
                 \/ \E i \in 1 .. Len(run'[r].specs) : run'[r].specs[i] = run[r].specs[j]
           /\ \A j \in 1 .. BatchSize(run[r].specs) : j \in 1 .. Len(run[r].specs)
           /\ \A t \in Tasks :
                 worker'[r][t] = IF \E i \in 1 .. BatchSize(run[r].specs) : run[r].specs[i] = t
                                 THEN "spawned" ELSE worker[r][t]
           /\ \A s \in Runs : s # r => worker'[s] = worker[s]
           /\ UNCHANGED <<registry, deps, card, claimed, prs>>
<1> DEFINE specs == SubSeq(run[r].specs, BatchSize(run[r].specs) + 1, Len(run[r].specs))
<1>1. /\ \A i \in 1 .. Len(specs) : \E j \in 1 .. Len(run[r].specs) : specs[i] = run[r].specs[j]
      /\ \A j \in 1 .. Len(run[r].specs) :
            \/ j \in 1 .. BatchSize(run[r].specs)
            \/ \E i \in 1 .. Len(specs) : specs[i] = run[r].specs[j]
      /\ \A j \in 1 .. BatchSize(run[r].specs) : j \in 1 .. Len(run[r].specs)
  BY RemainingSpecs
<1>2. After(r, "join", run[r].dry, run[r].second, run[r].task, specs, run[r].result)
  BY LaunchIsWritten
<1> HIDE DEF specs
<1>3. run'[r].specs = specs
  BY <1>2 DEF After
<1>4. /\ run[r].stage = "launch"
      /\ \A t \in Tasks :
            worker'[r][t] = IF \E i \in 1 .. BatchSize(run[r].specs) : run[r].specs[i] = t
                            THEN "spawned" ELSE worker[r][t]
      /\ \A s \in Runs : s # r => worker'[s] = worker[s]
      /\ UNCHANGED <<registry, deps, card, claimed, prs>>
  BY DEF LaunchBatch, TypeOK
<1> QED BY <1>1, <1>2, <1>3, <1>4

LEMMA JoinBatchDoes ==
    ASSUME TypeOK, NEW r \in Runs, JoinBatch(r)
    PROVE  /\ run[r].stage = "join"
           /\ MovesTo(r, "launch")
           /\ \A t \in Tasks : worker[r][t] \notin Active
           /\ UNCHANGED <<registry, deps, card, worker, claimed, prs>>
  BY StageIsWritten DEF JoinBatch, MainOnly

LEMMA EndRunDoes ==
    ASSUME TypeOK, NEW r \in Runs, EndRun(r)
    PROVE  /\ run[r].stage = "launch" /\ run[r].specs = <<>>
           /\ \/ EndsWith(r, "error")
              \/ EndsWith(r, "ok") /\ \A t \in Tasks : worker[r][t] # "gave_up"
           /\ UNCHANGED <<registry, deps, card, worker, claimed, prs>>
  BY ReturnIsWritten DEF EndRun, MainOnly

LEMMA KillRunDoes ==
    ASSUME TypeOK, NEW r \in Runs, KillRun(r)
    PROVE  /\ run[r].stage \notin {"idle", "returned", "killed"}
           /\ MovesTo(r, "killed")
           /\ \A t \in Tasks :
                 worker'[r][t] = IF worker[r][t] \in Active THEN "lost" ELSE worker[r][t]
           /\ \A s \in Runs : s # r => worker'[s] = worker[s]
           /\ UNCHANGED <<registry, deps, card, claimed, prs>>
  BY StageIsWritten DEF KillRun, LoseThreads, TypeOK

LEMMA ThreadPanicsDoes ==
    ASSUME TypeOK, NEW r \in Runs, ThreadPanics(r)
    PROVE  /\ run[r].stage = "join"
           /\ EndsWith(r, "error")
           /\ \A t \in Tasks :
                 worker'[r][t] = IF worker[r][t] \in Active THEN "lost" ELSE worker[r][t]
           /\ \A s \in Runs : s # r => worker'[s] = worker[s]
           /\ UNCHANGED <<registry, deps, card, claimed, prs>>
  BY ReturnIsWritten DEF ThreadPanics, LoseThreads, TypeOK

LEMMA StartLaneDoes ==
    ASSUME TypeOK, NEW r \in Runs, NEW u \in Tasks, StartLane(r, u)
    PROVE  /\ worker[r][u] = "spawned"
           /\ WorkerMoves(r, u, "live") \/ WorkerMoves(r, u, "gave_up")
           /\ UNCHANGED <<run, registry, deps, card, claimed, prs>>
  BY WorkerIsWritten DEF StartLane

LEMMA FinishLaneDoes ==
    ASSUME TypeOK, NEW r \in Runs, NEW u \in Tasks, FinishLane(r, u)
    PROVE  /\ worker[r][u] = "live"
           /\ \/ WorkerMoves(r, u, "succeeded") /\ r \in prs'[u]
              \/ WorkerMoves(r, u, "failed")
           /\ \A t \in Tasks : prs[t] \subseteq prs'[t]
           /\ UNCHANGED <<run, registry, deps, card, claimed>>
  BY WorkerIsWritten DEF FinishLane, TypeOK

LEMMA RecordResultDoes ==
    ASSUME TypeOK, NEW r \in Runs, NEW u \in Tasks, RecordResult(r, u)
    PROVE  /\ \E status \in {"Completed", "Blocked"} :
                 /\ \/ /\ status = "Completed" /\ worker[r][u] = "succeeded"
                       /\ WorkerMoves(r, u, "card_completed")
                    \/ /\ status = "Blocked" /\ worker[r][u] = "failed"
                       /\ WorkerMoves(r, u, "card_blocked")
                 /\ registry' = IF CanSetStatus(registry[u], status)
                                THEN [registry EXCEPT ![u] = WithStatus(registry[u], status)]
                                ELSE registry
           /\ UNCHANGED <<run, deps, card, claimed, prs>>
  BY WorkerIsWritten DEF RecordResult, RecordAs, TypeOK

LEMMA WriteFinalCardDoes ==
    ASSUME TypeOK, NEW r \in Runs, NEW u \in Tasks, WriteFinalCard(r, u)
    PROVE  /\ \E state \in {"Completed", "Blocked"} :
                 /\ \/ /\ state = "Completed" /\ worker[r][u] = "card_completed"
                       /\ WorkerMoves(r, u, "done")
                    \/ /\ state = "Blocked" /\ worker[r][u] = "card_blocked"
                       /\ WorkerMoves(r, u, "gave_up")
                 /\ card' = [card EXCEPT ![u] = CardWith(state, state)] \/ card' = card
           /\ UNCHANGED <<run, registry, deps, claimed, prs>>
  BY WorkerIsWritten DEF WriteFinalCard, FinalCard

LEMMA OperatorSetsDoes ==
    ASSUME TypeOK, NEW u \in Tasks, NEW status \in {"Blocked", "Cancelled", "Queued", "Completed"},
           OperatorSets(u, status)
    PROVE  /\ CanSetStatus(registry[u], status)
           /\ registry' = [registry EXCEPT ![u] = WithStatus(registry[u], status)]
           /\ UNCHANGED <<run, deps, card, worker, claimed, prs>>
  BY DEF OperatorSets, TypeOK

LEMMA OperatorPrioritizesDoes ==
    ASSUME TypeOK, NEW u \in Tasks, NEW priority \in Priorities, OperatorPrioritizes(u, priority)
    PROVE  /\ registry' = [registry EXCEPT ![u] = WithPriority(registry[u], priority)]
           /\ UNCHANGED <<run, deps, card, worker, claimed, prs>>
  BY DEF OperatorPrioritizes, TypeOK

LEMMA OperatorCreatesDoes ==
    ASSUME TypeOK, NEW u \in Tasks, NEW command \in Creating, NEW priority \in Priorities,
           OperatorCreates(u, command, priority)
    PROVE  /\ UNCHANGED <<run, worker, claimed, prs>>
           /\ \A t \in Tasks : card'[t] = card[t] \/ card'[t].lane = "none"
           /\ Creating # {}
<1>1. card \in [Tasks -> Card]
  BY DEF TypeOK
<1>2. UNCHANGED <<run, worker, claimed, prs>>
  BY DEF OperatorCreates
<1>3. card' = card \/ \E status : card' = [card EXCEPT ![u] = CardWith(status, "none")]
  BY DEF OperatorCreates
<1>4. \A t \in Tasks : card'[t] = card[t] \/ card'[t].lane = "none"
  BY <1>1, <1>3 DEF CardWith
<1> QED BY <1>2, <1>4

LEMMA NextAtTask ==
    ASSUME TypeOK, AtTask, Next
    PROVE  AtTask'
<1>1. ASSUME NEW r \in Runs, NEW dry \in BOOLEAN, NEW requested \in Requests,
             StartRun(r, dry, requested)
      PROVE  AtTask'
  BY <1>1, StartRunDoes DEF After, AtTask
<1>2. ASSUME NEW r \in Runs, NEW u \in Tasks, NEW dry \in BOOLEAN, NEW priority \in Priorities,
             RunDashboardCard(r, u, dry, priority)
      PROVE  AtTask'
  BY <1>2, RunDashboardCardDoes DEF After, AtTask
<1>3. ASSUME NEW r \in Runs, NEW second \in Lanes, Select(r, second)
      PROVE  AtTask'
  BY <1>3, SelectDoes DEF After, EndsWith, AtTask
<1>4. ASSUME NEW r \in Runs, CheckDependencies(r)
      PROVE  AtTask'
  BY <1>4, CheckDependenciesDoes DEF After, MovesTo, EndsWith, AtTask
<1>5. ASSUME NEW r \in Runs, ClaimSelected(r)
      PROVE  AtTask'
  BY <1>5, ClaimSelectedDoes DEF MovesTo, After, EndsWith, AtTask
<1>6. ASSUME AtTask, NEW r \in Runs, WriteClaimedCard(r)
      PROVE  AtTask'
  BY <1>6, WriteClaimedCardDoes DEF After, EndsWith, AtTask
<1>7. ASSUME NEW r \in Runs, EndClaims(r)
      PROVE  AtTask'
  BY <1>7, EndClaimsDoes DEF MovesTo, After, EndsWith, AtTask
<1>8. ASSUME NEW r \in Runs, LaunchBatch(r)
      PROVE  AtTask'
  BY <1>8, LaunchBatchDoes DEF After, AtTask
<1>9. ASSUME NEW r \in Runs, JoinBatch(r)
      PROVE  AtTask'
  BY <1>9, JoinBatchDoes DEF MovesTo, After, AtTask
<1>10. ASSUME NEW r \in Runs, EndRun(r)
      PROVE  AtTask'
  BY <1>10, EndRunDoes DEF EndsWith, After, AtTask
<1>11. ASSUME NEW r \in Runs, KillRun(r)
      PROVE  AtTask'
  BY <1>11, KillRunDoes DEF MovesTo, After, AtTask
<1>12. ASSUME NEW r \in Runs, NEW u \in Tasks, StartLane(r, u)
      PROVE  AtTask'
  BY <1>12, StartLaneDoes DEF WorkerMoves, AtTask
<1>13. ASSUME NEW r \in Runs, NEW u \in Tasks, FinishLane(r, u)
      PROVE  AtTask'
  BY <1>13, FinishLaneDoes DEF WorkerMoves, AtTask
<1>14. ASSUME NEW r \in Runs, NEW u \in Tasks, RecordResult(r, u)
      PROVE  AtTask'
  BY <1>14, RecordResultDoes DEF WorkerMoves, AtTask
<1>15. ASSUME NEW r \in Runs, NEW u \in Tasks, WriteFinalCard(r, u)
      PROVE  AtTask'
  BY <1>15, WriteFinalCardDoes DEF WorkerMoves, AtTask
<1>16. ASSUME NEW u \in Tasks, NEW status \in {"Blocked", "Cancelled", "Queued", "Completed"},
             OperatorSets(u, status)
      PROVE  AtTask'
  BY <1>16, OperatorSetsDoes DEF AtTask
<1>17. ASSUME NEW u \in Tasks, NEW priority \in Priorities, OperatorPrioritizes(u, priority)
      PROVE  AtTask'
  BY <1>17, OperatorPrioritizesDoes DEF AtTask
<1>18. ASSUME NEW u \in Tasks, NEW command \in Creating, NEW priority \in Priorities,
              OperatorCreates(u, command, priority)
      PROVE  AtTask'
  BY <1>18, OperatorCreatesDoes DEF AtTask
<1>19. ASSUME NEW r \in Runs, ThreadPanics(r)
      PROVE  AtTask'
  BY <1>19, ThreadPanicsDoes DEF EndsWith, After, AtTask
<1>20. ASSUME NEW r \in Runs, WriteDashboardCard(r)
      PROVE  AtTask'
  BY <1>20, WriteDashboardCardDoes DEF MovesTo, After, EndsWith, AtTask
<1> QED BY <1>1, <1>2, <1>3, <1>4, <1>5, <1>6, <1>7, <1>8, <1>9, <1>10, <1>11, <1>12, <1>13,
           <1>14, <1>15, <1>16, <1>17, <1>18, <1>19, <1>20
       DEF Next, MainStep, WorkerStep, Command

\* A run has claimed nothing before it selects and nothing at all when it is dry;
\* what it is to launch it has claimed.
RunHoldsClaims(r) ==
    /\ run[r].stage \in {"idle", "create", "select"} => claimed[r] = {} /\ run[r].specs = <<>>
    /\ run[r].result # "none" <=> run[r].stage = "returned"
    /\ run[r].stage \in {"check", "claim", "card", "launch", "join"} => run[r].second \in Lanes
    /\ run[r].dry => claimed[r] = {}
    /\ run[r].stage \in {"launch", "join"} => ~run[r].dry
    /\ run[r].stage = "card" /\ ~run[r].dry => run[r].task \in claimed[r]

RunsHoldClaims == \A r \in Runs : RunHoldsClaims(r)

LEMMA NextRunsHoldClaims ==
    ASSUME TypeOK, AtTask, RunsHoldClaims, Next
    PROVE  RunsHoldClaims'
<1>1. ASSUME NEW r \in Runs, NEW dry \in BOOLEAN, NEW requested \in Requests,
             StartRun(r, dry, requested)
      PROVE  RunsHoldClaims'
  BY <1>1, StartRunDoes DEF After, RunsHoldClaims, RunHoldsClaims
<1>2. ASSUME NEW r \in Runs, NEW u \in Tasks, NEW dry \in BOOLEAN, NEW priority \in Priorities,
             RunDashboardCard(r, u, dry, priority)
      PROVE  RunsHoldClaims'
  BY <1>2, RunDashboardCardDoes DEF After, RunsHoldClaims, RunHoldsClaims
<1>3. ASSUME NEW r \in Runs, NEW second \in Lanes, Select(r, second)
      PROVE  RunsHoldClaims'
  BY <1>3, SelectDoes DEF After, EndsWith, RunsHoldClaims, RunHoldsClaims
<1>4. ASSUME NEW r \in Runs, CheckDependencies(r)
      PROVE  RunsHoldClaims'
  BY <1>4, CheckDependenciesDoes DEF After, MovesTo, EndsWith, RunsHoldClaims, RunHoldsClaims
<1>5. ASSUME NEW r \in Runs, ClaimSelected(r)
      PROVE  RunsHoldClaims'
  BY <1>5, ClaimSelectedDoes DEF MovesTo, After, EndsWith, RunsHoldClaims, RunHoldsClaims
<1>6. ASSUME AtTask, NEW r \in Runs, WriteClaimedCard(r)
      PROVE  RunsHoldClaims'
  BY <1>6, WriteClaimedCardDoes DEF After, EndsWith, RunsHoldClaims, RunHoldsClaims
<1>7. ASSUME NEW r \in Runs, EndClaims(r)
      PROVE  RunsHoldClaims'
  BY <1>7, EndClaimsDoes DEF MovesTo, After, EndsWith, RunsHoldClaims, RunHoldsClaims
<1>8. ASSUME NEW r \in Runs, LaunchBatch(r)
      PROVE  RunsHoldClaims'
  BY <1>8, LaunchBatchDoes DEF After, RunsHoldClaims, RunHoldsClaims
<1>9. ASSUME NEW r \in Runs, JoinBatch(r)
      PROVE  RunsHoldClaims'
  BY <1>9, JoinBatchDoes DEF MovesTo, After, RunsHoldClaims, RunHoldsClaims
<1>10. ASSUME NEW r \in Runs, EndRun(r)
      PROVE  RunsHoldClaims'
  BY <1>10, EndRunDoes DEF EndsWith, After, RunsHoldClaims, RunHoldsClaims
<1>11. ASSUME NEW r \in Runs, KillRun(r)
      PROVE  RunsHoldClaims'
  BY <1>11, KillRunDoes DEF MovesTo, After, RunsHoldClaims, RunHoldsClaims
<1>12. ASSUME NEW r \in Runs, NEW u \in Tasks, StartLane(r, u)
      PROVE  RunsHoldClaims'
  BY <1>12, StartLaneDoes DEF WorkerMoves, RunsHoldClaims, RunHoldsClaims
<1>13. ASSUME NEW r \in Runs, NEW u \in Tasks, FinishLane(r, u)
      PROVE  RunsHoldClaims'
  BY <1>13, FinishLaneDoes DEF WorkerMoves, RunsHoldClaims, RunHoldsClaims
<1>14. ASSUME NEW r \in Runs, NEW u \in Tasks, RecordResult(r, u)
      PROVE  RunsHoldClaims'
  BY <1>14, RecordResultDoes DEF WorkerMoves, RunsHoldClaims, RunHoldsClaims
<1>15. ASSUME NEW r \in Runs, NEW u \in Tasks, WriteFinalCard(r, u)
      PROVE  RunsHoldClaims'
  BY <1>15, WriteFinalCardDoes DEF WorkerMoves, RunsHoldClaims, RunHoldsClaims
<1>16. ASSUME NEW u \in Tasks, NEW status \in {"Blocked", "Cancelled", "Queued", "Completed"},
             OperatorSets(u, status)
      PROVE  RunsHoldClaims'
  BY <1>16, OperatorSetsDoes DEF RunsHoldClaims, RunHoldsClaims
<1>17. ASSUME NEW u \in Tasks, NEW priority \in Priorities, OperatorPrioritizes(u, priority)
      PROVE  RunsHoldClaims'
  BY <1>17, OperatorPrioritizesDoes DEF RunsHoldClaims, RunHoldsClaims
<1>18. ASSUME NEW u \in Tasks, NEW command \in Creating, NEW priority \in Priorities,
              OperatorCreates(u, command, priority)
      PROVE  RunsHoldClaims'
  BY <1>18, OperatorCreatesDoes DEF RunsHoldClaims, RunHoldsClaims
<1>19. ASSUME NEW r \in Runs, ThreadPanics(r)
      PROVE  RunsHoldClaims'
  BY <1>19, ThreadPanicsDoes DEF EndsWith, After, RunsHoldClaims, RunHoldsClaims
<1>20. ASSUME NEW r \in Runs, WriteDashboardCard(r)
      PROVE  RunsHoldClaims'
  BY <1>20, WriteDashboardCardDoes DEF MovesTo, After, EndsWith, RunsHoldClaims, RunHoldsClaims
<1> QED BY <1>1, <1>2, <1>3, <1>4, <1>5, <1>6, <1>7, <1>8, <1>9, <1>10, <1>11, <1>12, <1>13,
           <1>14, <1>15, <1>16, <1>17, <1>18, <1>19, <1>20
       DEF Next, MainStep, WorkerStep, Command

\* What a thread does it does for a task of its run, while the run waits for it.
ThreadsServeRuns ==
    \A r \in Runs : \A t \in Tasks :
        /\ worker[r][t] # "none" => t \in claimed[r]
        /\ worker[r][t] \in Active => run[r].stage = "join"
        /\ worker[r][t] = "lost" => run[r].stage = "killed" \/ run[r].result = "error"
        /\ worker[r][t] \in {"succeeded", "card_completed", "done"} => r \in prs[t]

SpecsAreClaimed ==
    \A r \in Runs : ~run[r].dry =>
        \A i \in 1 .. Len(run[r].specs) : run[r].specs[i] \in claimed[r]

LEMMA NextSpecsAreClaimed ==
    ASSUME TypeOK, AtTask, RunsHoldClaims, SpecsAreClaimed, Next
    PROVE  SpecsAreClaimed'
<1>1. ASSUME NEW r \in Runs, NEW dry \in BOOLEAN, NEW requested \in Requests,
             StartRun(r, dry, requested)
      PROVE  SpecsAreClaimed'
  BY <1>1, StartRunDoes DEF After, RunsHoldClaims, RunHoldsClaims, SpecsAreClaimed
<1>2. ASSUME NEW r \in Runs, NEW u \in Tasks, NEW dry \in BOOLEAN, NEW priority \in Priorities,
             RunDashboardCard(r, u, dry, priority)
      PROVE  SpecsAreClaimed'
  BY <1>2, RunDashboardCardDoes DEF After, RunsHoldClaims, RunHoldsClaims, SpecsAreClaimed
<1>3. ASSUME NEW r \in Runs, NEW second \in Lanes, Select(r, second)
      PROVE  SpecsAreClaimed'
  BY <1>3, SelectDoes DEF After, EndsWith, RunsHoldClaims, RunHoldsClaims, SpecsAreClaimed
<1>4. ASSUME NEW r \in Runs, CheckDependencies(r)
      PROVE  SpecsAreClaimed'
  BY <1>4, CheckDependenciesDoes DEF After, MovesTo, EndsWith, RunsHoldClaims, RunHoldsClaims,
     SpecsAreClaimed
<1>5. ASSUME NEW r \in Runs, ClaimSelected(r)
      PROVE  SpecsAreClaimed'
  BY <1>5, ClaimSelectedDoes DEF MovesTo, After, EndsWith, RunsHoldClaims, RunHoldsClaims,
     SpecsAreClaimed
<1>6. ASSUME AtTask, NEW r \in Runs, WriteClaimedCard(r)
      PROVE  SpecsAreClaimed'
  <2>1. run[r].stage = "card" /\ claimed' = claimed
    BY <1>6, WriteClaimedCardDoes
  <2>2. ~run[r].dry => run[r].task \in claimed[r]
    BY <2>1 DEF RunsHoldClaims, RunHoldsClaims
  <2>3. CASE EndsWith(r, "error")
    BY <2>1, <2>3 DEF EndsWith, After, SpecsAreClaimed
  <2>4. ASSUME After(r, "check", run[r].dry, run[r].second, NoTask, run'[r].specs, run[r].result),
               \A i \in 1 .. Len(run'[r].specs) :
                  \/ run'[r].specs[i] = run[r].task
                  \/ \E j \in 1 .. Len(run[r].specs) : run'[r].specs[i] = run[r].specs[j]
        PROVE  SpecsAreClaimed'
    <3>1. ASSUME ~run[r].dry, NEW i \in 1 .. Len(run'[r].specs)
          PROVE  run'[r].specs[i] \in claimed[r]
      BY <2>2, <2>4, <3>1 DEF SpecsAreClaimed
    <3>2. run'[r].dry = run[r].dry /\ \A s \in Runs : s # r => run'[s] = run[s]
      BY <2>4 DEF After
    <3> QED BY <2>1, <3>1, <3>2 DEF SpecsAreClaimed
  <2> QED BY <1>6, <2>3, <2>4, WriteClaimedCardDoes
<1>7. ASSUME NEW r \in Runs, EndClaims(r)
      PROVE  SpecsAreClaimed'
  BY <1>7, EndClaimsDoes DEF MovesTo, After, EndsWith, RunsHoldClaims, RunHoldsClaims,
     SpecsAreClaimed
<1>8. ASSUME NEW r \in Runs, LaunchBatch(r)
      PROVE  SpecsAreClaimed'
  BY <1>8, LaunchBatchDoes DEF After, RunsHoldClaims, RunHoldsClaims, SpecsAreClaimed
<1>9. ASSUME NEW r \in Runs, JoinBatch(r)
      PROVE  SpecsAreClaimed'
  BY <1>9, JoinBatchDoes DEF MovesTo, After, RunsHoldClaims, RunHoldsClaims, SpecsAreClaimed
<1>10. ASSUME NEW r \in Runs, EndRun(r)
      PROVE  SpecsAreClaimed'
  BY <1>10, EndRunDoes DEF EndsWith, After, RunsHoldClaims, RunHoldsClaims, SpecsAreClaimed
<1>11. ASSUME NEW r \in Runs, KillRun(r)
      PROVE  SpecsAreClaimed'
  BY <1>11, KillRunDoes DEF MovesTo, After, RunsHoldClaims, RunHoldsClaims, SpecsAreClaimed
<1>12. ASSUME NEW r \in Runs, NEW u \in Tasks, StartLane(r, u)
      PROVE  SpecsAreClaimed'
  BY <1>12, StartLaneDoes DEF WorkerMoves, RunsHoldClaims, RunHoldsClaims, SpecsAreClaimed
<1>13. ASSUME NEW r \in Runs, NEW u \in Tasks, FinishLane(r, u)
      PROVE  SpecsAreClaimed'
  BY <1>13, FinishLaneDoes DEF WorkerMoves, RunsHoldClaims, RunHoldsClaims, SpecsAreClaimed
<1>14. ASSUME NEW r \in Runs, NEW u \in Tasks, RecordResult(r, u)
      PROVE  SpecsAreClaimed'
  BY <1>14, RecordResultDoes DEF WorkerMoves, RunsHoldClaims, RunHoldsClaims, SpecsAreClaimed
<1>15. ASSUME NEW r \in Runs, NEW u \in Tasks, WriteFinalCard(r, u)
      PROVE  SpecsAreClaimed'
  BY <1>15, WriteFinalCardDoes DEF WorkerMoves, RunsHoldClaims, RunHoldsClaims, SpecsAreClaimed
<1>16. ASSUME NEW u \in Tasks, NEW status \in {"Blocked", "Cancelled", "Queued", "Completed"},
             OperatorSets(u, status)
      PROVE  SpecsAreClaimed'
  BY <1>16, OperatorSetsDoes DEF RunsHoldClaims, RunHoldsClaims, SpecsAreClaimed
<1>17. ASSUME NEW u \in Tasks, NEW priority \in Priorities, OperatorPrioritizes(u, priority)
      PROVE  SpecsAreClaimed'
  BY <1>17, OperatorPrioritizesDoes DEF RunsHoldClaims, RunHoldsClaims, SpecsAreClaimed
<1>18. ASSUME NEW u \in Tasks, NEW command \in Creating, NEW priority \in Priorities,
              OperatorCreates(u, command, priority)
      PROVE  SpecsAreClaimed'
  BY <1>18, OperatorCreatesDoes DEF RunsHoldClaims, RunHoldsClaims, SpecsAreClaimed
<1>19. ASSUME NEW r \in Runs, ThreadPanics(r)
      PROVE  SpecsAreClaimed'
  BY <1>19, ThreadPanicsDoes DEF EndsWith, After, RunsHoldClaims, RunHoldsClaims, SpecsAreClaimed
<1>20. ASSUME NEW r \in Runs, WriteDashboardCard(r)
      PROVE  SpecsAreClaimed'
  BY <1>20, WriteDashboardCardDoes DEF MovesTo, After, EndsWith, RunsHoldClaims, RunHoldsClaims,
     SpecsAreClaimed
<1> QED BY <1>1, <1>2, <1>3, <1>4, <1>5, <1>6, <1>7, <1>8, <1>9, <1>10, <1>11, <1>12, <1>13,
           <1>14, <1>15, <1>16, <1>17, <1>18, <1>19, <1>20
       DEF Next, MainStep, WorkerStep, Command

LEMMA NextThreadsServeRuns ==
    ASSUME TypeOK, AtTask, RunsHoldClaims, SpecsAreClaimed, ThreadsServeRuns, Next
    PROVE  ThreadsServeRuns'
<1>1. ASSUME NEW r \in Runs, NEW dry \in BOOLEAN, NEW requested \in Requests,
             StartRun(r, dry, requested)
      PROVE  ThreadsServeRuns'
  BY <1>1, StartRunDoes DEF After, Active, RunsHoldClaims, RunHoldsClaims, SpecsAreClaimed,
     ThreadsServeRuns
<1>2. ASSUME NEW r \in Runs, NEW u \in Tasks, NEW dry \in BOOLEAN, NEW priority \in Priorities,
             RunDashboardCard(r, u, dry, priority)
      PROVE  ThreadsServeRuns'
  BY <1>2, RunDashboardCardDoes DEF After, Active, RunsHoldClaims, RunHoldsClaims,
     SpecsAreClaimed, ThreadsServeRuns
<1>3. ASSUME NEW r \in Runs, NEW second \in Lanes, Select(r, second)
      PROVE  ThreadsServeRuns'
  BY <1>3, SelectDoes DEF After, EndsWith, Active, RunsHoldClaims, RunHoldsClaims,
     SpecsAreClaimed, ThreadsServeRuns
<1>4. ASSUME NEW r \in Runs, CheckDependencies(r)
      PROVE  ThreadsServeRuns'
  BY <1>4, CheckDependenciesDoes DEF After, MovesTo, EndsWith, Active, RunsHoldClaims,
     RunHoldsClaims, SpecsAreClaimed, ThreadsServeRuns
<1>5. ASSUME NEW r \in Runs, ClaimSelected(r)
      PROVE  ThreadsServeRuns'
  BY <1>5, ClaimSelectedDoes DEF MovesTo, After, EndsWith, Active, RunsHoldClaims,
     RunHoldsClaims, SpecsAreClaimed, ThreadsServeRuns
<1>6. ASSUME AtTask, NEW r \in Runs, WriteClaimedCard(r)
      PROVE  ThreadsServeRuns'
  BY <1>6, WriteClaimedCardDoes DEF After, EndsWith, Active, RunsHoldClaims, RunHoldsClaims,
     SpecsAreClaimed, ThreadsServeRuns
<1>7. ASSUME NEW r \in Runs, EndClaims(r)
      PROVE  ThreadsServeRuns'
  BY <1>7, EndClaimsDoes DEF MovesTo, After, EndsWith, Active, RunsHoldClaims, RunHoldsClaims,
     SpecsAreClaimed, ThreadsServeRuns
<1>8. ASSUME NEW r \in Runs, LaunchBatch(r)
      PROVE  ThreadsServeRuns'
  BY <1>8, LaunchBatchDoes DEF After, Active, RunsHoldClaims, RunHoldsClaims, SpecsAreClaimed,
     ThreadsServeRuns
<1>9. ASSUME NEW r \in Runs, JoinBatch(r)
      PROVE  ThreadsServeRuns'
  BY <1>9, JoinBatchDoes DEF MovesTo, After, Active, RunsHoldClaims, RunHoldsClaims,
     SpecsAreClaimed, ThreadsServeRuns
<1>10. ASSUME NEW r \in Runs, EndRun(r)
      PROVE  ThreadsServeRuns'
  BY <1>10, EndRunDoes DEF EndsWith, After, Active, RunsHoldClaims, RunHoldsClaims,
     SpecsAreClaimed, ThreadsServeRuns
<1>11. ASSUME NEW r \in Runs, KillRun(r)
      PROVE  ThreadsServeRuns'
  BY <1>11, KillRunDoes DEF MovesTo, After, Active, RunsHoldClaims, RunHoldsClaims,
     SpecsAreClaimed, ThreadsServeRuns
<1>12. ASSUME NEW r \in Runs, NEW u \in Tasks, StartLane(r, u)
      PROVE  ThreadsServeRuns'
  BY <1>12, StartLaneDoes DEF WorkerMoves, Active, RunsHoldClaims, RunHoldsClaims,
     SpecsAreClaimed, ThreadsServeRuns
<1>13. ASSUME NEW r \in Runs, NEW u \in Tasks, FinishLane(r, u)
      PROVE  ThreadsServeRuns'
  BY <1>13, FinishLaneDoes DEF WorkerMoves, Active, RunsHoldClaims, RunHoldsClaims,
     SpecsAreClaimed, ThreadsServeRuns
<1>14. ASSUME NEW r \in Runs, NEW u \in Tasks, RecordResult(r, u)
      PROVE  ThreadsServeRuns'
  BY <1>14, RecordResultDoes DEF WorkerMoves, Active, RunsHoldClaims, RunHoldsClaims,
     SpecsAreClaimed, ThreadsServeRuns
<1>15. ASSUME NEW r \in Runs, NEW u \in Tasks, WriteFinalCard(r, u)
      PROVE  ThreadsServeRuns'
  BY <1>15, WriteFinalCardDoes DEF WorkerMoves, Active, RunsHoldClaims, RunHoldsClaims,
     SpecsAreClaimed, ThreadsServeRuns
<1>16. ASSUME NEW u \in Tasks, NEW status \in {"Blocked", "Cancelled", "Queued", "Completed"},
             OperatorSets(u, status)
      PROVE  ThreadsServeRuns'
  BY <1>16, OperatorSetsDoes DEF Active, RunsHoldClaims, RunHoldsClaims, SpecsAreClaimed,
     ThreadsServeRuns
<1>17. ASSUME NEW u \in Tasks, NEW priority \in Priorities, OperatorPrioritizes(u, priority)
      PROVE  ThreadsServeRuns'
  BY <1>17, OperatorPrioritizesDoes DEF Active, RunsHoldClaims, RunHoldsClaims,
     SpecsAreClaimed, ThreadsServeRuns
<1>18. ASSUME NEW u \in Tasks, NEW command \in Creating, NEW priority \in Priorities,
              OperatorCreates(u, command, priority)
      PROVE  ThreadsServeRuns'
  BY <1>18, OperatorCreatesDoes DEF Active, RunsHoldClaims, RunHoldsClaims,
     SpecsAreClaimed, ThreadsServeRuns
<1>19. ASSUME NEW r \in Runs, ThreadPanics(r)
      PROVE  ThreadsServeRuns'
  BY <1>19, ThreadPanicsDoes DEF EndsWith, After, Active, RunsHoldClaims, RunHoldsClaims,
     SpecsAreClaimed, ThreadsServeRuns
<1>20. ASSUME NEW r \in Runs, WriteDashboardCard(r)
      PROVE  ThreadsServeRuns'
  BY <1>20, WriteDashboardCardDoes DEF MovesTo, After, EndsWith, Active, RunsHoldClaims,
     RunHoldsClaims, SpecsAreClaimed, ThreadsServeRuns
<1> QED BY <1>1, <1>2, <1>3, <1>4, <1>5, <1>6, <1>7, <1>8, <1>9, <1>10, <1>11, <1>12, <1>13,
           <1>14, <1>15, <1>16, <1>17, <1>18, <1>19, <1>20
       DEF Next, MainStep, WorkerStep, Command

\* A claimed task is still to be launched, has a thread, or had one; or the run has
\* failed or was killed.
ClaimsAreAccounted ==
    \A r \in Runs : \A t \in Tasks : t \in claimed[r] =>
        \/ run[r].stage = "killed"
        \/ run[r].result = "error"
        \/ run[r].stage = "card" /\ run[r].task = t
        \/ \E i \in 1 .. Len(run[r].specs) : run[r].specs[i] = t
        \/ worker[r][t] # "none"

LEMMA NextClaimsAreAccounted ==
    ASSUME TypeOK, AtTask, RunsHoldClaims, ClaimsAreAccounted, Next
    PROVE  ClaimsAreAccounted'
<1>1. ASSUME NEW r \in Runs, NEW dry \in BOOLEAN, NEW requested \in Requests,
             StartRun(r, dry, requested)
      PROVE  ClaimsAreAccounted'
  BY <1>1, StartRunDoes DEF After, RunsHoldClaims, RunHoldsClaims, ClaimsAreAccounted
<1>2. ASSUME NEW r \in Runs, NEW u \in Tasks, NEW dry \in BOOLEAN, NEW priority \in Priorities,
             RunDashboardCard(r, u, dry, priority)
      PROVE  ClaimsAreAccounted'
  BY <1>2, RunDashboardCardDoes DEF After, RunsHoldClaims, RunHoldsClaims, ClaimsAreAccounted
<1>3. ASSUME NEW r \in Runs, NEW second \in Lanes, Select(r, second)
      PROVE  ClaimsAreAccounted'
  BY <1>3, SelectDoes DEF After, EndsWith, RunsHoldClaims, RunHoldsClaims, ClaimsAreAccounted
<1>4. ASSUME NEW r \in Runs, CheckDependencies(r)
      PROVE  ClaimsAreAccounted'
  BY <1>4, CheckDependenciesDoes DEF After, MovesTo, EndsWith, RunsHoldClaims, RunHoldsClaims,
     ClaimsAreAccounted
<1>5. ASSUME NEW r \in Runs, ClaimSelected(r)
      PROVE  ClaimsAreAccounted'
  BY <1>5, ClaimSelectedDoes DEF MovesTo, After, EndsWith, RunsHoldClaims, RunHoldsClaims,
     ClaimsAreAccounted
<1>6. ASSUME AtTask, NEW r \in Runs, WriteClaimedCard(r)
      PROVE  ClaimsAreAccounted'
  <2>1. run[r].stage = "card" /\ UNCHANGED <<worker, claimed>>
    BY <1>6, WriteClaimedCardDoes
  <2>2. CASE EndsWith(r, "error")
    BY <2>1, <2>2 DEF EndsWith, After, ClaimsAreAccounted
  <2>3. ASSUME After(r, "check", run[r].dry, run[r].second, NoTask, run'[r].specs, run[r].result),
               \A j \in 1 .. Len(run[r].specs) :
                  \E i \in 1 .. Len(run'[r].specs) : run'[r].specs[i] = run[r].specs[j],
               \E i \in 1 .. Len(run'[r].specs) : run'[r].specs[i] = run[r].task
        PROVE  ClaimsAreAccounted'
    <3>1. ASSUME NEW s \in Runs, NEW t \in Tasks, t \in claimed[s], s # r
          PROVE  \/ run'[s].stage = "killed" \/ run'[s].result = "error"
                 \/ run'[s].stage = "card" /\ run'[s].task = t
                 \/ \E i \in 1 .. Len(run'[s].specs) : run'[s].specs[i] = t
                 \/ worker'[s][t] # "none"
      BY <2>1, <2>3, <3>1 DEF After, ClaimsAreAccounted
    <3>2. ASSUME NEW t \in Tasks, t \in claimed[r]
          PROVE  \/ run'[r].result = "error"
                 \/ \E i \in 1 .. Len(run'[r].specs) : run'[r].specs[i] = t
                 \/ worker'[r][t] # "none"
      <4>1. CASE \E i \in 1 .. Len(run[r].specs) : run[r].specs[i] = t
        BY <2>3, <4>1
      <4>2. CASE run[r].task = t
        BY <2>3, <4>2
      <4>3. CASE run[r].result = "error" \/ worker[r][t] # "none"
        BY <2>1, <2>3, <4>3 DEF After
      <4> QED BY <2>1, <3>2, <4>1, <4>2, <4>3 DEF ClaimsAreAccounted
    <3> QED BY <2>1, <3>1, <3>2 DEF ClaimsAreAccounted
  <2> QED BY <1>6, <2>2, <2>3, WriteClaimedCardDoes
<1>7. ASSUME NEW r \in Runs, EndClaims(r)
      PROVE  ClaimsAreAccounted'
  BY <1>7, EndClaimsDoes DEF MovesTo, After, EndsWith, RunsHoldClaims, RunHoldsClaims,
     ClaimsAreAccounted
<1>8. ASSUME NEW r \in Runs, LaunchBatch(r)
      PROVE  ClaimsAreAccounted'
  <2>1. /\ run[r].stage = "launch"
        /\ run'[r].result = run[r].result
        /\ \A s \in Runs : s # r => run'[s] = run[s] /\ worker'[s] = worker[s]
        /\ \A j \in 1 .. Len(run[r].specs) :
              \/ j \in 1 .. BatchSize(run[r].specs)
              \/ \E i \in 1 .. Len(run'[r].specs) : run'[r].specs[i] = run[r].specs[j]
        /\ \A t \in Tasks :
              worker'[r][t] = IF \E i \in 1 .. BatchSize(run[r].specs) : run[r].specs[i] = t
                              THEN "spawned" ELSE worker[r][t]
        /\ claimed' = claimed
    BY <1>8, LaunchBatchDoes DEF After
  <2>2. ASSUME NEW s \in Runs, NEW t \in Tasks, t \in claimed[s], s # r
        PROVE  \/ run'[s].stage = "killed" \/ run'[s].result = "error"
               \/ run'[s].stage = "card" /\ run'[s].task = t
               \/ \E i \in 1 .. Len(run'[s].specs) : run'[s].specs[i] = t
               \/ worker'[s][t] # "none"
    BY <2>1, <2>2 DEF ClaimsAreAccounted
  <2>3. ASSUME NEW t \in Tasks, t \in claimed[r]
        PROVE  \/ run'[r].result = "error"
               \/ \E i \in 1 .. Len(run'[r].specs) : run'[r].specs[i] = t
               \/ worker'[r][t] # "none"
    <3>1. CASE \E j \in 1 .. Len(run[r].specs) : run[r].specs[j] = t
      <4>1. PICK j \in 1 .. Len(run[r].specs) : run[r].specs[j] = t
        BY <3>1
      <4>2. CASE j \in 1 .. BatchSize(run[r].specs)
        BY <2>1, <4>1, <4>2
      <4>3. CASE \E i \in 1 .. Len(run'[r].specs) : run'[r].specs[i] = run[r].specs[j]
        BY <4>1, <4>3
      <4> QED BY <2>1, <4>1, <4>2, <4>3
    <3>2. CASE run[r].result = "error" \/ worker[r][t] # "none"
      BY <2>1, <3>2
    <3> QED BY <2>1, <2>3, <3>1, <3>2 DEF ClaimsAreAccounted
  <2> QED BY <2>1, <2>2, <2>3 DEF ClaimsAreAccounted
<1>9. ASSUME NEW r \in Runs, JoinBatch(r)
      PROVE  ClaimsAreAccounted'
  BY <1>9, JoinBatchDoes DEF MovesTo, After, RunsHoldClaims, RunHoldsClaims, ClaimsAreAccounted
<1>10. ASSUME NEW r \in Runs, EndRun(r)
      PROVE  ClaimsAreAccounted'
  BY <1>10, EndRunDoes DEF EndsWith, After, RunsHoldClaims, RunHoldsClaims, ClaimsAreAccounted
<1>11. ASSUME NEW r \in Runs, KillRun(r)
      PROVE  ClaimsAreAccounted'
  BY <1>11, KillRunDoes DEF MovesTo, After, RunsHoldClaims, RunHoldsClaims, ClaimsAreAccounted
<1>12. ASSUME NEW r \in Runs, NEW u \in Tasks, StartLane(r, u)
      PROVE  ClaimsAreAccounted'
  BY <1>12, StartLaneDoes DEF WorkerMoves, RunsHoldClaims, RunHoldsClaims, ClaimsAreAccounted
<1>13. ASSUME NEW r \in Runs, NEW u \in Tasks, FinishLane(r, u)
      PROVE  ClaimsAreAccounted'
  BY <1>13, FinishLaneDoes DEF WorkerMoves, RunsHoldClaims, RunHoldsClaims, ClaimsAreAccounted
<1>14. ASSUME NEW r \in Runs, NEW u \in Tasks, RecordResult(r, u)
      PROVE  ClaimsAreAccounted'
  BY <1>14, RecordResultDoes DEF WorkerMoves, RunsHoldClaims, RunHoldsClaims, ClaimsAreAccounted
<1>15. ASSUME NEW r \in Runs, NEW u \in Tasks, WriteFinalCard(r, u)
      PROVE  ClaimsAreAccounted'
  BY <1>15, WriteFinalCardDoes DEF WorkerMoves, RunsHoldClaims, RunHoldsClaims,
     ClaimsAreAccounted
<1>16. ASSUME NEW u \in Tasks, NEW status \in {"Blocked", "Cancelled", "Queued", "Completed"},
             OperatorSets(u, status)
      PROVE  ClaimsAreAccounted'
  BY <1>16, OperatorSetsDoes DEF RunsHoldClaims, RunHoldsClaims, ClaimsAreAccounted
<1>17. ASSUME NEW u \in Tasks, NEW priority \in Priorities, OperatorPrioritizes(u, priority)
      PROVE  ClaimsAreAccounted'
  BY <1>17, OperatorPrioritizesDoes DEF RunsHoldClaims, RunHoldsClaims, ClaimsAreAccounted
<1>18. ASSUME NEW u \in Tasks, NEW command \in Creating, NEW priority \in Priorities,
              OperatorCreates(u, command, priority)
      PROVE  ClaimsAreAccounted'
  BY <1>18, OperatorCreatesDoes DEF RunsHoldClaims, RunHoldsClaims, ClaimsAreAccounted
<1>19. ASSUME NEW r \in Runs, ThreadPanics(r)
      PROVE  ClaimsAreAccounted'
  BY <1>19, ThreadPanicsDoes DEF EndsWith, After, RunsHoldClaims, RunHoldsClaims, ClaimsAreAccounted
<1>20. ASSUME NEW r \in Runs, WriteDashboardCard(r)
      PROVE  ClaimsAreAccounted'
  BY <1>20, WriteDashboardCardDoes DEF MovesTo, After, EndsWith, RunsHoldClaims, RunHoldsClaims,
     ClaimsAreAccounted
<1> QED BY <1>1, <1>2, <1>3, <1>4, <1>5, <1>6, <1>7, <1>8, <1>9, <1>10, <1>11, <1>12, <1>13,
           <1>14, <1>15, <1>16, <1>17, <1>18, <1>19, <1>20
       DEF Next, MainStep, WorkerStep, Command

-----------------------------------------------------------------------------
\* The other variables.
LEMMA NextTyped ==
    ASSUME TypeOK, AtTask, RunsHoldClaims, Next
    PROVE  TypeOK'
<1>1. run' \in [Runs -> Run]
  BY NextRunTyped
<1>2. registry' \in [Tasks -> TaskRecord]
  <2>0. registry \in [Tasks -> TaskRecord] /\ TypeOK /\ AtTask /\ RunsHoldClaims
    BY DEF TypeOK
  <2>1. ASSUME NEW r \in Runs, NEW dry \in BOOLEAN, NEW requested \in Requests,
               StartRun(r, dry, requested)
        PROVE  registry' \in [Tasks -> TaskRecord]
    BY <2>0, <2>1, StartRunDoes
  <2>2. ASSUME NEW r \in Runs, NEW u \in Tasks, NEW dry \in BOOLEAN, NEW priority \in Priorities,
               RunDashboardCard(r, u, dry, priority)
        PROVE  registry' \in [Tasks -> TaskRecord]
    BY <2>0, <2>2, FreshRecordsAreRecords DEF RunDashboardCard
  <2>3. ASSUME NEW r \in Runs, NEW second \in Lanes, Select(r, second)
        PROVE  registry' \in [Tasks -> TaskRecord]
    BY <2>0, <2>3, SelectDoes
  <2>4. ASSUME NEW r \in Runs, CheckDependencies(r)
        PROVE  registry' \in [Tasks -> TaskRecord]
    BY <2>0, <2>4, CheckDependenciesDoes
  <2>5. ASSUME NEW r \in Runs, ClaimSelected(r)
        PROVE  registry' \in [Tasks -> TaskRecord]
    <3>1. run[r].task \in Tasks /\ run[r].stage = "claim"
      BY <2>0, <2>5, ClaimSelectedDoes DEF AtTask
    <3>2. run[r].second \in Lanes => Claimed(registry[run[r].task], run[r].second) \in TaskRecord
      BY <2>0, <3>1, WrittenRecordsAreRecords
    <3>3. run[r].second \in Lanes
      BY <2>0, <3>1 DEF RunsHoldClaims, RunHoldsClaims
    <3> QED BY <2>0, <2>5, <3>1, <3>2, <3>3, ClaimSelectedDoes
  <2>6. ASSUME NEW r \in Runs, WriteClaimedCard(r)
        PROVE  registry' \in [Tasks -> TaskRecord]
    BY <2>0, <2>6, WriteClaimedCardDoes
  <2>7. ASSUME NEW r \in Runs, EndClaims(r)
        PROVE  registry' \in [Tasks -> TaskRecord]
    BY <2>0, <2>7, EndClaimsDoes
  <2>8. ASSUME NEW r \in Runs, LaunchBatch(r)
        PROVE  registry' \in [Tasks -> TaskRecord]
    BY <2>0, <2>8, LaunchBatchDoes
  <2>9. ASSUME NEW r \in Runs, JoinBatch(r)
        PROVE  registry' \in [Tasks -> TaskRecord]
    BY <2>0, <2>9, JoinBatchDoes
  <2>10. ASSUME NEW r \in Runs, EndRun(r)
        PROVE  registry' \in [Tasks -> TaskRecord]
    BY <2>0, <2>10, EndRunDoes
  <2>11. ASSUME NEW r \in Runs, KillRun(r)
        PROVE  registry' \in [Tasks -> TaskRecord]
    BY <2>0, <2>11, KillRunDoes
  <2>12. ASSUME NEW r \in Runs, NEW u \in Tasks, StartLane(r, u)
        PROVE  registry' \in [Tasks -> TaskRecord]
    BY <2>0, <2>12, StartLaneDoes
  <2>13. ASSUME NEW r \in Runs, NEW u \in Tasks, FinishLane(r, u)
        PROVE  registry' \in [Tasks -> TaskRecord]
    BY <2>0, <2>13, FinishLaneDoes
  <2>14. ASSUME NEW r \in Runs, NEW u \in Tasks, RecordResult(r, u)
        PROVE  registry' \in [Tasks -> TaskRecord]
    <3>1. \A status \in {"Completed", "Blocked"} : WithStatus(registry[u], status) \in TaskRecord
      BY <2>0, WrittenRecordsAreRecords DEF TaskStatus
    <3> QED BY <2>0, <2>14, <3>1, RecordResultDoes
  <2>15. ASSUME NEW r \in Runs, NEW u \in Tasks, WriteFinalCard(r, u)
        PROVE  registry' \in [Tasks -> TaskRecord]
    BY <2>0, <2>15, WriteFinalCardDoes
  <2>16. ASSUME NEW u \in Tasks, NEW status \in {"Blocked", "Cancelled", "Queued", "Completed"},
               OperatorSets(u, status)
        PROVE  registry' \in [Tasks -> TaskRecord]
    <3>1. WithStatus(registry[u], status) \in TaskRecord
      BY <2>0, WrittenRecordsAreRecords DEF TaskStatus
    <3> QED BY <2>0, <2>16, <3>1, OperatorSetsDoes
  <2>17. ASSUME NEW u \in Tasks, NEW priority \in Priorities, OperatorPrioritizes(u, priority)
        PROVE  registry' \in [Tasks -> TaskRecord]
    BY <2>0, <2>17, WrittenRecordsAreRecords, OperatorPrioritizesDoes
  <2>18. ASSUME NEW u \in Tasks, NEW command \in Creating, NEW priority \in Priorities,
                OperatorCreates(u, command, priority)
        PROVE  registry' \in [Tasks -> TaskRecord]
    BY <2>0, <2>18, FreshRecordsAreRecords DEF OperatorCreates
  <2>19. ASSUME NEW r \in Runs, ThreadPanics(r)
        PROVE  registry' \in [Tasks -> TaskRecord]
    BY <2>0, <2>19, ThreadPanicsDoes
  <2>20. ASSUME NEW r \in Runs, WriteDashboardCard(r)
        PROVE  registry' \in [Tasks -> TaskRecord]
    BY <2>0, <2>20, WriteDashboardCardDoes
  <2> QED BY <2>1, <2>2, <2>3, <2>4, <2>5, <2>6, <2>7, <2>8, <2>9, <2>10, <2>11, <2>12, <2>13,
             <2>14, <2>15, <2>16, <2>17, <2>18, <2>19, <2>20
         DEF Next, MainStep, WorkerStep, Command
<1>3. worker' \in [Runs -> [Tasks -> {"none", "lost"} \cup Active \cup Finished]]
  <2>0. worker \in [Runs -> [Tasks -> {"none", "lost"} \cup Active \cup Finished]]
    BY DEF TypeOK
  <2>1. ASSUME NEW r \in Runs, NEW dry \in BOOLEAN, NEW requested \in Requests,
               StartRun(r, dry, requested)
        PROVE  worker' \in [Runs -> [Tasks -> {"none", "lost"} \cup Active \cup Finished]]
    BY <2>0, <2>1 DEF StartRun, MainOnly
  <2>2. ASSUME NEW r \in Runs, NEW u \in Tasks, NEW dry \in BOOLEAN, NEW priority \in Priorities,
               RunDashboardCard(r, u, dry, priority)
        PROVE  worker' \in [Runs -> [Tasks -> {"none", "lost"} \cup Active \cup Finished]]
    BY <2>0, <2>2 DEF RunDashboardCard
  <2>3. ASSUME NEW r \in Runs, NEW second \in Lanes, Select(r, second)
        PROVE  worker' \in [Runs -> [Tasks -> {"none", "lost"} \cup Active \cup Finished]]
    BY <2>0, <2>3 DEF Select, MainOnly
  <2>4. ASSUME NEW r \in Runs, CheckDependencies(r)
        PROVE  worker' \in [Runs -> [Tasks -> {"none", "lost"} \cup Active \cup Finished]]
    BY <2>0, <2>4 DEF CheckDependencies, MainOnly
  <2>5. ASSUME NEW r \in Runs, ClaimSelected(r)
        PROVE  worker' \in [Runs -> [Tasks -> {"none", "lost"} \cup Active \cup Finished]]
    BY <2>0, <2>5 DEF ClaimSelected, MainOnly
  <2>6. ASSUME NEW r \in Runs, WriteClaimedCard(r)
        PROVE  worker' \in [Runs -> [Tasks -> {"none", "lost"} \cup Active \cup Finished]]
    BY <2>0, <2>6 DEF WriteClaimedCard, MainOnly
  <2>7. ASSUME NEW r \in Runs, EndClaims(r)
        PROVE  worker' \in [Runs -> [Tasks -> {"none", "lost"} \cup Active \cup Finished]]
    BY <2>0, <2>7 DEF EndClaims, MainOnly
  <2>8. ASSUME NEW r \in Runs, LaunchBatch(r)
        PROVE  worker' \in [Runs -> [Tasks -> {"none", "lost"} \cup Active \cup Finished]]
    BY <2>0, <2>8 DEF LaunchBatch, Active
  <2>9. ASSUME NEW r \in Runs, JoinBatch(r)
        PROVE  worker' \in [Runs -> [Tasks -> {"none", "lost"} \cup Active \cup Finished]]
    BY <2>0, <2>9 DEF JoinBatch, MainOnly
  <2>10. ASSUME NEW r \in Runs, EndRun(r)
        PROVE  worker' \in [Runs -> [Tasks -> {"none", "lost"} \cup Active \cup Finished]]
    BY <2>0, <2>10 DEF EndRun, MainOnly
  <2>11. ASSUME NEW r \in Runs, KillRun(r)
        PROVE  worker' \in [Runs -> [Tasks -> {"none", "lost"} \cup Active \cup Finished]]
    BY <2>0, <2>11 DEF KillRun, LoseThreads
  <2>12. ASSUME NEW r \in Runs, NEW u \in Tasks, StartLane(r, u)
        PROVE  worker' \in [Runs -> [Tasks -> {"none", "lost"} \cup Active \cup Finished]]
    BY <2>0, <2>12 DEF StartLane, WorkerTo, Active, Finished
  <2>13. ASSUME NEW r \in Runs, NEW u \in Tasks, FinishLane(r, u)
        PROVE  worker' \in [Runs -> [Tasks -> {"none", "lost"} \cup Active \cup Finished]]
    BY <2>0, <2>13 DEF FinishLane, WorkerTo, Active
  <2>14. ASSUME NEW r \in Runs, NEW u \in Tasks, RecordResult(r, u)
        PROVE  worker' \in [Runs -> [Tasks -> {"none", "lost"} \cup Active \cup Finished]]
    BY <2>0, <2>14 DEF RecordResult, RecordAs, WorkerTo, Active
  <2>15. ASSUME NEW r \in Runs, NEW u \in Tasks, WriteFinalCard(r, u)
        PROVE  worker' \in [Runs -> [Tasks -> {"none", "lost"} \cup Active \cup Finished]]
    BY <2>0, <2>15 DEF WriteFinalCard, FinalCard, WorkerTo, Finished
  <2>16. ASSUME NEW u \in Tasks, NEW status \in {"Blocked", "Cancelled", "Queued", "Completed"},
               OperatorSets(u, status)
        PROVE  worker' \in [Runs -> [Tasks -> {"none", "lost"} \cup Active \cup Finished]]
    BY <2>0, <2>16 DEF OperatorSets
  <2>17. ASSUME NEW u \in Tasks, NEW priority \in Priorities, OperatorPrioritizes(u, priority)
        PROVE  worker' \in [Runs -> [Tasks -> {"none", "lost"} \cup Active \cup Finished]]
    BY <2>0, <2>17 DEF OperatorPrioritizes
  <2>18. ASSUME NEW u \in Tasks, NEW command \in Creating, NEW priority \in Priorities,
                OperatorCreates(u, command, priority)
        PROVE  worker' \in [Runs -> [Tasks -> {"none", "lost"} \cup Active \cup Finished]]
    BY <2>0, <2>18 DEF OperatorCreates
  <2>19. ASSUME NEW r \in Runs, ThreadPanics(r)
        PROVE  worker' \in [Runs -> [Tasks -> {"none", "lost"} \cup Active \cup Finished]]
    BY <2>0, <2>19 DEF ThreadPanics, LoseThreads
  <2>20. ASSUME NEW r \in Runs, WriteDashboardCard(r)
        PROVE  worker' \in [Runs -> [Tasks -> {"none", "lost"} \cup Active \cup Finished]]
    BY <2>0, <2>20 DEF WriteDashboardCard, MainOnly
  <2> QED BY <2>1, <2>2, <2>3, <2>4, <2>5, <2>6, <2>7, <2>8, <2>9, <2>10, <2>11, <2>12, <2>13,
             <2>14, <2>15, <2>16, <2>17, <2>18, <2>19, <2>20
         DEF Next, MainStep, WorkerStep, Command
<1>4. card' \in [Tasks -> Card]
  <2>0. /\ card \in [Tasks -> Card]
        /\ \A status \in TaskStatus :
              \A lane \in {"none", "Running", "Blocked", "Completed"} : CardWith(status, lane) \in Card
    BY DEF TypeOK, Card, CardWith
  <2>1. ASSUME NEW r \in Runs, NEW dry \in BOOLEAN, NEW requested \in Requests,
               StartRun(r, dry, requested)
        PROVE  card' \in [Tasks -> Card]
    BY <2>0, <2>1 DEF StartRun, MainOnly
  <2>2. ASSUME NEW r \in Runs, NEW u \in Tasks, NEW dry \in BOOLEAN, NEW priority \in Priorities,
               RunDashboardCard(r, u, dry, priority)
        PROVE  card' \in [Tasks -> Card]
    BY <2>0, <2>2 DEF RunDashboardCard, TaskStatus
  <2>3. ASSUME NEW r \in Runs, NEW second \in Lanes, Select(r, second)
        PROVE  card' \in [Tasks -> Card]
    BY <2>0, <2>3 DEF Select, MainOnly
  <2>4. ASSUME NEW r \in Runs, CheckDependencies(r)
        PROVE  card' \in [Tasks -> Card]
    BY <2>0, <2>4 DEF CheckDependencies, MainOnly
  <2>5. ASSUME NEW r \in Runs, ClaimSelected(r)
        PROVE  card' \in [Tasks -> Card]
    BY <2>0, <2>5 DEF ClaimSelected, MainOnly
  <2>6. ASSUME NEW r \in Runs, WriteClaimedCard(r)
        PROVE  card' \in [Tasks -> Card]
    <3>1. run[r].todo[run[r].task].status \in TaskStatus
      BY <2>6, TodoIsTyped DEF AtTask, WriteClaimedCard, TaskRecord
    <3> QED BY <2>0, <2>6, <3>1 DEF WriteClaimedCard, TaskStatus
  <2>7. ASSUME NEW r \in Runs, EndClaims(r)
        PROVE  card' \in [Tasks -> Card]
    BY <2>0, <2>7 DEF EndClaims, MainOnly
  <2>8. ASSUME NEW r \in Runs, LaunchBatch(r)
        PROVE  card' \in [Tasks -> Card]
    BY <2>0, <2>8 DEF LaunchBatch
  <2>9. ASSUME NEW r \in Runs, JoinBatch(r)
        PROVE  card' \in [Tasks -> Card]
    BY <2>0, <2>9 DEF JoinBatch, MainOnly
  <2>10. ASSUME NEW r \in Runs, EndRun(r)
        PROVE  card' \in [Tasks -> Card]
    BY <2>0, <2>10 DEF EndRun, MainOnly
  <2>11. ASSUME NEW r \in Runs, KillRun(r)
        PROVE  card' \in [Tasks -> Card]
    BY <2>0, <2>11 DEF KillRun
  <2>12. ASSUME NEW r \in Runs, NEW u \in Tasks, StartLane(r, u)
        PROVE  card' \in [Tasks -> Card]
    BY <2>0, <2>12 DEF StartLane
  <2>13. ASSUME NEW r \in Runs, NEW u \in Tasks, FinishLane(r, u)
        PROVE  card' \in [Tasks -> Card]
    BY <2>0, <2>13 DEF FinishLane
  <2>14. ASSUME NEW r \in Runs, NEW u \in Tasks, RecordResult(r, u)
        PROVE  card' \in [Tasks -> Card]
    BY <2>0, <2>14 DEF RecordResult, RecordAs
  <2>15. ASSUME NEW r \in Runs, NEW u \in Tasks, WriteFinalCard(r, u)
        PROVE  card' \in [Tasks -> Card]
    BY <2>0, <2>15 DEF WriteFinalCard, FinalCard, TaskStatus
  <2>16. ASSUME NEW u \in Tasks, NEW status \in {"Blocked", "Cancelled", "Queued", "Completed"},
               OperatorSets(u, status)
        PROVE  card' \in [Tasks -> Card]
    BY <2>0, <2>16 DEF OperatorSets
  <2>17. ASSUME NEW u \in Tasks, NEW priority \in Priorities, OperatorPrioritizes(u, priority)
        PROVE  card' \in [Tasks -> Card]
    BY <2>0, <2>17 DEF OperatorPrioritizes
  <2>18. ASSUME NEW u \in Tasks, NEW command \in Creating, NEW priority \in Priorities,
                OperatorCreates(u, command, priority)
        PROVE  card' \in [Tasks -> Card]
    <3>1. Ingested(u, priority).status \in TaskStatus
      BY FreshRecordsAreRecords DEF TaskRecord
    <3> QED BY <2>0, <2>18, <3>1 DEF OperatorCreates
  <2>19. ASSUME NEW r \in Runs, ThreadPanics(r)
        PROVE  card' \in [Tasks -> Card]
    BY <2>0, <2>19 DEF ThreadPanics
  <2>20. ASSUME NEW r \in Runs, WriteDashboardCard(r)
        PROVE  card' \in [Tasks -> Card]
    BY <2>0, <2>20 DEF WriteDashboardCard, MainOnly, TaskStatus
  <2> QED BY <2>1, <2>2, <2>3, <2>4, <2>5, <2>6, <2>7, <2>8, <2>9, <2>10, <2>11, <2>12, <2>13,
             <2>14, <2>15, <2>16, <2>17, <2>18, <2>19, <2>20
         DEF Next, MainStep, WorkerStep, Command
<1>5. deps' \in [Tasks -> SUBSET Tasks]
  <2>0. deps \in [Tasks -> SUBSET Tasks]
    BY DEF TypeOK
  <2>1. ASSUME NEW r \in Runs, NEW dry \in BOOLEAN, NEW requested \in Requests,
               StartRun(r, dry, requested)
        PROVE  deps' \in [Tasks -> SUBSET Tasks]
    BY <2>0, <2>1 DEF StartRun, MainOnly
  <2>2. ASSUME NEW r \in Runs, NEW u \in Tasks, NEW dry \in BOOLEAN, NEW priority \in Priorities,
               RunDashboardCard(r, u, dry, priority)
        PROVE  deps' \in [Tasks -> SUBSET Tasks]
    BY <2>0, <2>2 DEF RunDashboardCard
  <2>3. ASSUME NEW r \in Runs, NEW second \in Lanes, Select(r, second)
        PROVE  deps' \in [Tasks -> SUBSET Tasks]
    BY <2>0, <2>3 DEF Select, MainOnly
  <2>4. ASSUME NEW r \in Runs, CheckDependencies(r)
        PROVE  deps' \in [Tasks -> SUBSET Tasks]
    BY <2>0, <2>4 DEF CheckDependencies, MainOnly
  <2>5. ASSUME NEW r \in Runs, ClaimSelected(r)
        PROVE  deps' \in [Tasks -> SUBSET Tasks]
    BY <2>0, <2>5 DEF ClaimSelected, MainOnly
  <2>6. ASSUME NEW r \in Runs, WriteClaimedCard(r)
        PROVE  deps' \in [Tasks -> SUBSET Tasks]
    BY <2>0, <2>6 DEF WriteClaimedCard, MainOnly
  <2>7. ASSUME NEW r \in Runs, EndClaims(r)
        PROVE  deps' \in [Tasks -> SUBSET Tasks]
    BY <2>0, <2>7 DEF EndClaims, MainOnly
  <2>8. ASSUME NEW r \in Runs, LaunchBatch(r)
        PROVE  deps' \in [Tasks -> SUBSET Tasks]
    BY <2>0, <2>8 DEF LaunchBatch
  <2>9. ASSUME NEW r \in Runs, JoinBatch(r)
        PROVE  deps' \in [Tasks -> SUBSET Tasks]
    BY <2>0, <2>9 DEF JoinBatch, MainOnly
  <2>10. ASSUME NEW r \in Runs, EndRun(r)
        PROVE  deps' \in [Tasks -> SUBSET Tasks]
    BY <2>0, <2>10 DEF EndRun, MainOnly
  <2>11. ASSUME NEW r \in Runs, KillRun(r)
        PROVE  deps' \in [Tasks -> SUBSET Tasks]
    BY <2>0, <2>11 DEF KillRun
  <2>12. ASSUME NEW r \in Runs, NEW u \in Tasks, StartLane(r, u)
        PROVE  deps' \in [Tasks -> SUBSET Tasks]
    BY <2>0, <2>12 DEF StartLane
  <2>13. ASSUME NEW r \in Runs, NEW u \in Tasks, FinishLane(r, u)
        PROVE  deps' \in [Tasks -> SUBSET Tasks]
    BY <2>0, <2>13 DEF FinishLane
  <2>14. ASSUME NEW r \in Runs, NEW u \in Tasks, RecordResult(r, u)
        PROVE  deps' \in [Tasks -> SUBSET Tasks]
    BY <2>0, <2>14 DEF RecordResult, RecordAs
  <2>15. ASSUME NEW r \in Runs, NEW u \in Tasks, WriteFinalCard(r, u)
        PROVE  deps' \in [Tasks -> SUBSET Tasks]
    BY <2>0, <2>15 DEF WriteFinalCard, FinalCard
  <2>16. ASSUME NEW u \in Tasks, NEW status \in {"Blocked", "Cancelled", "Queued", "Completed"},
               OperatorSets(u, status)
        PROVE  deps' \in [Tasks -> SUBSET Tasks]
    BY <2>0, <2>16 DEF OperatorSets
  <2>17. ASSUME NEW u \in Tasks, NEW priority \in Priorities, OperatorPrioritizes(u, priority)
        PROVE  deps' \in [Tasks -> SUBSET Tasks]
    BY <2>0, <2>17 DEF OperatorPrioritizes
  <2>18. ASSUME NEW u \in Tasks, NEW command \in Creating, NEW priority \in Priorities,
                OperatorCreates(u, command, priority)
        PROVE  deps' \in [Tasks -> SUBSET Tasks]
    BY <2>0, <2>18, DependenciesAreTasks DEF OperatorCreates
  <2>19. ASSUME NEW r \in Runs, ThreadPanics(r)
        PROVE  deps' \in [Tasks -> SUBSET Tasks]
    BY <2>0, <2>19 DEF ThreadPanics
  <2>20. ASSUME NEW r \in Runs, WriteDashboardCard(r)
        PROVE  deps' \in [Tasks -> SUBSET Tasks]
    BY <2>0, <2>20 DEF WriteDashboardCard, MainOnly
  <2> QED BY <2>1, <2>2, <2>3, <2>4, <2>5, <2>6, <2>7, <2>8, <2>9, <2>10, <2>11, <2>12, <2>13,
             <2>14, <2>15, <2>16, <2>17, <2>18, <2>19, <2>20
         DEF Next, MainStep, WorkerStep, Command
<1>6. claimed' \in [Runs -> SUBSET Tasks]
  <2>0. claimed \in [Runs -> SUBSET Tasks] /\ AtTask
    BY DEF TypeOK
  <2>1. ASSUME NEW r \in Runs, NEW dry \in BOOLEAN, NEW requested \in Requests,
               StartRun(r, dry, requested)
        PROVE  claimed' \in [Runs -> SUBSET Tasks]
    BY <2>0, <2>1 DEF StartRun, MainOnly
  <2>2. ASSUME NEW r \in Runs, NEW u \in Tasks, NEW dry \in BOOLEAN, NEW priority \in Priorities,
               RunDashboardCard(r, u, dry, priority)
        PROVE  claimed' \in [Runs -> SUBSET Tasks]
    BY <2>0, <2>2 DEF RunDashboardCard
  <2>3. ASSUME NEW r \in Runs, NEW second \in Lanes, Select(r, second)
        PROVE  claimed' \in [Runs -> SUBSET Tasks]
    BY <2>0, <2>3 DEF Select, MainOnly
  <2>4. ASSUME NEW r \in Runs, CheckDependencies(r)
        PROVE  claimed' \in [Runs -> SUBSET Tasks]
    BY <2>0, <2>4 DEF CheckDependencies, MainOnly
  <2>5. ASSUME NEW r \in Runs, ClaimSelected(r)
        PROVE  claimed' \in [Runs -> SUBSET Tasks]
    BY <2>0, <2>5 DEF ClaimSelected, AtTask
  <2>6. ASSUME NEW r \in Runs, WriteClaimedCard(r)
        PROVE  claimed' \in [Runs -> SUBSET Tasks]
    BY <2>0, <2>6 DEF WriteClaimedCard, MainOnly
  <2>7. ASSUME NEW r \in Runs, EndClaims(r)
        PROVE  claimed' \in [Runs -> SUBSET Tasks]
    BY <2>0, <2>7 DEF EndClaims, MainOnly
  <2>8. ASSUME NEW r \in Runs, LaunchBatch(r)
        PROVE  claimed' \in [Runs -> SUBSET Tasks]
    BY <2>0, <2>8 DEF LaunchBatch
  <2>9. ASSUME NEW r \in Runs, JoinBatch(r)
        PROVE  claimed' \in [Runs -> SUBSET Tasks]
    BY <2>0, <2>9 DEF JoinBatch, MainOnly
  <2>10. ASSUME NEW r \in Runs, EndRun(r)
        PROVE  claimed' \in [Runs -> SUBSET Tasks]
    BY <2>0, <2>10 DEF EndRun, MainOnly
  <2>11. ASSUME NEW r \in Runs, KillRun(r)
        PROVE  claimed' \in [Runs -> SUBSET Tasks]
    BY <2>0, <2>11 DEF KillRun
  <2>12. ASSUME NEW r \in Runs, NEW u \in Tasks, StartLane(r, u)
        PROVE  claimed' \in [Runs -> SUBSET Tasks]
    BY <2>0, <2>12 DEF StartLane
  <2>13. ASSUME NEW r \in Runs, NEW u \in Tasks, FinishLane(r, u)
        PROVE  claimed' \in [Runs -> SUBSET Tasks]
    BY <2>0, <2>13 DEF FinishLane
  <2>14. ASSUME NEW r \in Runs, NEW u \in Tasks, RecordResult(r, u)
        PROVE  claimed' \in [Runs -> SUBSET Tasks]
    BY <2>0, <2>14 DEF RecordResult, RecordAs
  <2>15. ASSUME NEW r \in Runs, NEW u \in Tasks, WriteFinalCard(r, u)
        PROVE  claimed' \in [Runs -> SUBSET Tasks]
    BY <2>0, <2>15 DEF WriteFinalCard, FinalCard
  <2>16. ASSUME NEW u \in Tasks, NEW status \in {"Blocked", "Cancelled", "Queued", "Completed"},
               OperatorSets(u, status)
        PROVE  claimed' \in [Runs -> SUBSET Tasks]
    BY <2>0, <2>16 DEF OperatorSets
  <2>17. ASSUME NEW u \in Tasks, NEW priority \in Priorities, OperatorPrioritizes(u, priority)
        PROVE  claimed' \in [Runs -> SUBSET Tasks]
    BY <2>0, <2>17 DEF OperatorPrioritizes
  <2>18. ASSUME NEW u \in Tasks, NEW command \in Creating, NEW priority \in Priorities,
                OperatorCreates(u, command, priority)
        PROVE  claimed' \in [Runs -> SUBSET Tasks]
    BY <2>0, <2>18 DEF OperatorCreates
  <2>19. ASSUME NEW r \in Runs, ThreadPanics(r)
        PROVE  claimed' \in [Runs -> SUBSET Tasks]
    BY <2>0, <2>19 DEF ThreadPanics
  <2>20. ASSUME NEW r \in Runs, WriteDashboardCard(r)
        PROVE  claimed' \in [Runs -> SUBSET Tasks]
    BY <2>0, <2>20 DEF WriteDashboardCard, MainOnly
  <2> QED BY <2>1, <2>2, <2>3, <2>4, <2>5, <2>6, <2>7, <2>8, <2>9, <2>10, <2>11, <2>12, <2>13,
             <2>14, <2>15, <2>16, <2>17, <2>18, <2>19, <2>20
         DEF Next, MainStep, WorkerStep, Command
<1>7. prs' \in [Tasks -> SUBSET Runs]
  <2>0. prs \in [Tasks -> SUBSET Runs]
    BY DEF TypeOK
  <2>1. ASSUME NEW r \in Runs, NEW dry \in BOOLEAN, NEW requested \in Requests,
               StartRun(r, dry, requested)
        PROVE  prs' \in [Tasks -> SUBSET Runs]
    BY <2>0, <2>1 DEF StartRun, MainOnly
  <2>2. ASSUME NEW r \in Runs, NEW u \in Tasks, NEW dry \in BOOLEAN, NEW priority \in Priorities,
               RunDashboardCard(r, u, dry, priority)
        PROVE  prs' \in [Tasks -> SUBSET Runs]
    BY <2>0, <2>2 DEF RunDashboardCard
  <2>3. ASSUME NEW r \in Runs, NEW second \in Lanes, Select(r, second)
        PROVE  prs' \in [Tasks -> SUBSET Runs]
    BY <2>0, <2>3 DEF Select, MainOnly
  <2>4. ASSUME NEW r \in Runs, CheckDependencies(r)
        PROVE  prs' \in [Tasks -> SUBSET Runs]
    BY <2>0, <2>4 DEF CheckDependencies, MainOnly
  <2>5. ASSUME NEW r \in Runs, ClaimSelected(r)
        PROVE  prs' \in [Tasks -> SUBSET Runs]
    BY <2>0, <2>5 DEF ClaimSelected, MainOnly
  <2>6. ASSUME NEW r \in Runs, WriteClaimedCard(r)
        PROVE  prs' \in [Tasks -> SUBSET Runs]
    BY <2>0, <2>6 DEF WriteClaimedCard, MainOnly
  <2>7. ASSUME NEW r \in Runs, EndClaims(r)
        PROVE  prs' \in [Tasks -> SUBSET Runs]
    BY <2>0, <2>7 DEF EndClaims, MainOnly
  <2>8. ASSUME NEW r \in Runs, LaunchBatch(r)
        PROVE  prs' \in [Tasks -> SUBSET Runs]
    BY <2>0, <2>8 DEF LaunchBatch
  <2>9. ASSUME NEW r \in Runs, JoinBatch(r)
        PROVE  prs' \in [Tasks -> SUBSET Runs]
    BY <2>0, <2>9 DEF JoinBatch, MainOnly
  <2>10. ASSUME NEW r \in Runs, EndRun(r)
        PROVE  prs' \in [Tasks -> SUBSET Runs]
    BY <2>0, <2>10 DEF EndRun, MainOnly
  <2>11. ASSUME NEW r \in Runs, KillRun(r)
        PROVE  prs' \in [Tasks -> SUBSET Runs]
    BY <2>0, <2>11 DEF KillRun
  <2>12. ASSUME NEW r \in Runs, NEW u \in Tasks, StartLane(r, u)
        PROVE  prs' \in [Tasks -> SUBSET Runs]
    BY <2>0, <2>12 DEF StartLane
  <2>13. ASSUME NEW r \in Runs, NEW u \in Tasks, FinishLane(r, u)
        PROVE  prs' \in [Tasks -> SUBSET Runs]
    BY <2>0, <2>13 DEF FinishLane
  <2>14. ASSUME NEW r \in Runs, NEW u \in Tasks, RecordResult(r, u)
        PROVE  prs' \in [Tasks -> SUBSET Runs]
    BY <2>0, <2>14 DEF RecordResult, RecordAs
  <2>15. ASSUME NEW r \in Runs, NEW u \in Tasks, WriteFinalCard(r, u)
        PROVE  prs' \in [Tasks -> SUBSET Runs]
    BY <2>0, <2>15 DEF WriteFinalCard, FinalCard
  <2>16. ASSUME NEW u \in Tasks, NEW status \in {"Blocked", "Cancelled", "Queued", "Completed"},
               OperatorSets(u, status)
        PROVE  prs' \in [Tasks -> SUBSET Runs]
    BY <2>0, <2>16 DEF OperatorSets
  <2>17. ASSUME NEW u \in Tasks, NEW priority \in Priorities, OperatorPrioritizes(u, priority)
        PROVE  prs' \in [Tasks -> SUBSET Runs]
    BY <2>0, <2>17 DEF OperatorPrioritizes
  <2>18. ASSUME NEW u \in Tasks, NEW command \in Creating, NEW priority \in Priorities,
                OperatorCreates(u, command, priority)
        PROVE  prs' \in [Tasks -> SUBSET Runs]
    BY <2>0, <2>18 DEF OperatorCreates
  <2>19. ASSUME NEW r \in Runs, ThreadPanics(r)
        PROVE  prs' \in [Tasks -> SUBSET Runs]
    BY <2>0, <2>19 DEF ThreadPanics
  <2>20. ASSUME NEW r \in Runs, WriteDashboardCard(r)
        PROVE  prs' \in [Tasks -> SUBSET Runs]
    BY <2>0, <2>20 DEF WriteDashboardCard, MainOnly
  <2> QED BY <2>1, <2>2, <2>3, <2>4, <2>5, <2>6, <2>7, <2>8, <2>9, <2>10, <2>11, <2>12, <2>13,
             <2>14, <2>15, <2>16, <2>17, <2>18, <2>19, <2>20
         DEF Next, MainStep, WorkerStep, Command
<1>8. dashboards' \in Nat /\ commands' \in Nat /\ kills' \in Nat
  <2>0. dashboards \in Nat /\ commands \in Nat /\ kills \in Nat
    BY DEF TypeOK
  <2>1. ASSUME NEW r \in Runs, NEW dry \in BOOLEAN, NEW requested \in Requests,
               StartRun(r, dry, requested)
        PROVE  dashboards' \in Nat /\ commands' \in Nat /\ kills' \in Nat
    BY <2>0, <2>1 DEF StartRun, MainOnly
  <2>2. ASSUME NEW r \in Runs, NEW u \in Tasks, NEW dry \in BOOLEAN, NEW priority \in Priorities,
               RunDashboardCard(r, u, dry, priority)
        PROVE  dashboards' \in Nat /\ commands' \in Nat /\ kills' \in Nat
    BY <2>0, <2>2 DEF RunDashboardCard
  <2>3. ASSUME NEW r \in Runs, NEW second \in Lanes, Select(r, second)
        PROVE  dashboards' \in Nat /\ commands' \in Nat /\ kills' \in Nat
    BY <2>0, <2>3 DEF Select, MainOnly
  <2>4. ASSUME NEW r \in Runs, CheckDependencies(r)
        PROVE  dashboards' \in Nat /\ commands' \in Nat /\ kills' \in Nat
    BY <2>0, <2>4 DEF CheckDependencies, MainOnly
  <2>5. ASSUME NEW r \in Runs, ClaimSelected(r)
        PROVE  dashboards' \in Nat /\ commands' \in Nat /\ kills' \in Nat
    BY <2>0, <2>5 DEF ClaimSelected, MainOnly
  <2>6. ASSUME NEW r \in Runs, WriteClaimedCard(r)
        PROVE  dashboards' \in Nat /\ commands' \in Nat /\ kills' \in Nat
    BY <2>0, <2>6 DEF WriteClaimedCard, MainOnly
  <2>7. ASSUME NEW r \in Runs, EndClaims(r)
        PROVE  dashboards' \in Nat /\ commands' \in Nat /\ kills' \in Nat
    BY <2>0, <2>7 DEF EndClaims, MainOnly
  <2>8. ASSUME NEW r \in Runs, LaunchBatch(r)
        PROVE  dashboards' \in Nat /\ commands' \in Nat /\ kills' \in Nat
    BY <2>0, <2>8 DEF LaunchBatch
  <2>9. ASSUME NEW r \in Runs, JoinBatch(r)
        PROVE  dashboards' \in Nat /\ commands' \in Nat /\ kills' \in Nat
    BY <2>0, <2>9 DEF JoinBatch, MainOnly
  <2>10. ASSUME NEW r \in Runs, EndRun(r)
        PROVE  dashboards' \in Nat /\ commands' \in Nat /\ kills' \in Nat
    BY <2>0, <2>10 DEF EndRun, MainOnly
  <2>11. ASSUME NEW r \in Runs, KillRun(r)
        PROVE  dashboards' \in Nat /\ commands' \in Nat /\ kills' \in Nat
    BY <2>0, <2>11 DEF KillRun
  <2>12. ASSUME NEW r \in Runs, NEW u \in Tasks, StartLane(r, u)
        PROVE  dashboards' \in Nat /\ commands' \in Nat /\ kills' \in Nat
    BY <2>0, <2>12 DEF StartLane
  <2>13. ASSUME NEW r \in Runs, NEW u \in Tasks, FinishLane(r, u)
        PROVE  dashboards' \in Nat /\ commands' \in Nat /\ kills' \in Nat
    BY <2>0, <2>13 DEF FinishLane
  <2>14. ASSUME NEW r \in Runs, NEW u \in Tasks, RecordResult(r, u)
        PROVE  dashboards' \in Nat /\ commands' \in Nat /\ kills' \in Nat
    BY <2>0, <2>14 DEF RecordResult, RecordAs
  <2>15. ASSUME NEW r \in Runs, NEW u \in Tasks, WriteFinalCard(r, u)
        PROVE  dashboards' \in Nat /\ commands' \in Nat /\ kills' \in Nat
    BY <2>0, <2>15 DEF WriteFinalCard, FinalCard
  <2>16. ASSUME NEW u \in Tasks, NEW status \in {"Blocked", "Cancelled", "Queued", "Completed"},
               OperatorSets(u, status)
        PROVE  dashboards' \in Nat /\ commands' \in Nat /\ kills' \in Nat
    BY <2>0, <2>16 DEF OperatorSets
  <2>17. ASSUME NEW u \in Tasks, NEW priority \in Priorities, OperatorPrioritizes(u, priority)
        PROVE  dashboards' \in Nat /\ commands' \in Nat /\ kills' \in Nat
    BY <2>0, <2>17 DEF OperatorPrioritizes
  <2>18. ASSUME NEW u \in Tasks, NEW command \in Creating, NEW priority \in Priorities,
                OperatorCreates(u, command, priority)
        PROVE  dashboards' \in Nat /\ commands' \in Nat /\ kills' \in Nat
    <3>1. commands' = commands + 1 /\ dashboards' = dashboards /\ kills' = kills
      BY <2>18 DEF OperatorCreates
    <3> QED BY <2>0, <3>1
  <2>19. ASSUME NEW r \in Runs, ThreadPanics(r)
        PROVE  dashboards' \in Nat /\ commands' \in Nat /\ kills' \in Nat
    BY <2>0, <2>19 DEF ThreadPanics
  <2>20. ASSUME NEW r \in Runs, WriteDashboardCard(r)
        PROVE  dashboards' \in Nat /\ commands' \in Nat /\ kills' \in Nat
    BY <2>0, <2>20 DEF WriteDashboardCard, MainOnly
  <2> QED BY <2>1, <2>2, <2>3, <2>4, <2>5, <2>6, <2>7, <2>8, <2>9, <2>10, <2>11, <2>12, <2>13,
             <2>14, <2>15, <2>16, <2>17, <2>18, <2>19, <2>20
         DEF Next, MainStep, WorkerStep, Command
<1> QED BY <1>1, <1>2, <1>3, <1>4, <1>5, <1>6, <1>7, <1>8 DEF TypeOK

-----------------------------------------------------------------------------
\* The invariant that holds however often records are written afresh.
ClaimInv ==
    /\ TypeOK /\ AtTask /\ RunsHoldClaims /\ SpecsAreClaimed /\ ThreadsServeRuns
    /\ ClaimsAreAccounted

LEMMA InitClaimInv == Init => ClaimInv
<1> SUFFICES ASSUME Init PROVE ClaimInv
  OBVIOUS
<1>1. TypeOK
  BY InitTyped
<1>2. \A r \in Runs :
         /\ run[r].stage = "idle" /\ run[r].result = "none" /\ run[r].specs = <<>>
         /\ ~run[r].dry /\ claimed[r] = {}
         /\ \A t \in Tasks : worker[r][t] = "none"
  BY DEF Init
<1>3. AtTask /\ RunsHoldClaims
  BY <1>2 DEF AtTask, RunsHoldClaims, RunHoldsClaims
<1>4. SpecsAreClaimed
  BY <1>2 DEF SpecsAreClaimed
<1>5. ThreadsServeRuns /\ ClaimsAreAccounted
  BY <1>2 DEF ThreadsServeRuns, ClaimsAreAccounted, Active
<1> QED BY <1>1, <1>3, <1>4, <1>5 DEF ClaimInv

LEMMA NextClaimInv == ClaimInv /\ [Next]_vars => ClaimInv'
<1>1. ASSUME ClaimInv, Next
      PROVE  ClaimInv'
  BY <1>1, NextTyped, NextAtTask, NextRunsHoldClaims, NextSpecsAreClaimed, NextThreadsServeRuns,
     NextClaimsAreAccounted DEF ClaimInv
<1>2. ASSUME ClaimInv, UNCHANGED vars
      PROVE  ClaimInv'
  <2>1. TypeOK' /\ AtTask' /\ RunsHoldClaims'
    BY <1>2 DEF ClaimInv, vars, TypeOK, AtTask, RunsHoldClaims, RunHoldsClaims
  <2>2. SpecsAreClaimed' /\ ThreadsServeRuns' /\ ClaimsAreAccounted'
    BY <1>2 DEF ClaimInv, vars, SpecsAreClaimed, ThreadsServeRuns, ClaimsAreAccounted
  <2> QED BY <2>1, <2>2 DEF ClaimInv
<1> QED BY <1>1, <1>2

\* Runs hold their claims from the first step on, whoever writes records afresh.
LEMMA ClaimInvAlways == Spec => []ClaimInv
  BY InitClaimInv, NextClaimInv, PTL DEF Spec

\* The type invariant.
THEOREM TypeCorrect == Spec => []TypeOK
<1>1. ClaimInv => TypeOK
  BY DEF ClaimInv
<1> QED BY <1>1, ClaimInvAlways, PTL
-----------------------------------------------------------------------------
AtWork(r) == {t \in Tasks : worker[r][t] \in Active}

BatchesAreBounded ==
    \A r \in Runs :
        IsFiniteSet(AtWork(r)) /\ Cardinality(AtWork(r)) <= MaxConcurrency

\* Only the launch of a batch puts threads to work, and then there were none.
LEMMA AtWorkGrows ==
    ASSUME ClaimInv, Next, NEW s \in Runs
    PROVE  \/ AtWork(s)' \subseteq AtWork(s)
           \/ AtWork(s)' \subseteq
                 {run[s].specs[i] : i \in 1 .. BatchSize(run[s].specs)}
<1> DEFINE Goal == \/ AtWork(s)' \subseteq AtWork(s)
                   \/ AtWork(s)' \subseteq
                         {run[s].specs[i] : i \in 1 .. BatchSize(run[s].specs)}
<1>0. TypeOK /\ AtTask /\ RunsHoldClaims /\ ThreadsServeRuns
  BY DEF ClaimInv
<1>1. ASSUME NEW r \in Runs, NEW dry \in BOOLEAN, NEW requested \in Requests,
             StartRun(r, dry, requested)
      PROVE  Goal
  BY <1>0, <1>1, StartRunDoes DEF AtWork, Active
<1>2. ASSUME NEW r \in Runs, NEW u \in Tasks, NEW dry \in BOOLEAN, NEW priority \in Priorities,
             RunDashboardCard(r, u, dry, priority)
      PROVE  Goal
  BY <1>0, <1>2, RunDashboardCardDoes DEF AtWork, Active
<1>3. ASSUME NEW r \in Runs, NEW second \in Lanes, Select(r, second)
      PROVE  Goal
  BY <1>0, <1>3, SelectDoes DEF AtWork, Active
<1>4. ASSUME NEW r \in Runs, CheckDependencies(r)
      PROVE  Goal
  BY <1>0, <1>4, CheckDependenciesDoes DEF AtWork, Active
<1>5. ASSUME NEW r \in Runs, ClaimSelected(r)
      PROVE  Goal
  BY <1>0, <1>5, ClaimSelectedDoes DEF AtWork, Active
<1>6. ASSUME NEW r \in Runs, WriteClaimedCard(r)
      PROVE  Goal
  BY <1>0, <1>6, WriteClaimedCardDoes DEF AtWork, Active
<1>7. ASSUME NEW r \in Runs, EndClaims(r)
      PROVE  Goal
  BY <1>0, <1>7, EndClaimsDoes DEF AtWork, Active
<1>8. ASSUME NEW r \in Runs, LaunchBatch(r)
      PROVE  Goal
  <2>1. CASE s = r
    <3>1. run[r].stage = "launch" /\ \A t \in Tasks : worker[r][t] \notin Active
      BY <1>0, <1>8, LaunchBatchDoes DEF ThreadsServeRuns
    <3>2. \A t \in Tasks :
             worker'[r][t] \in Active => \E i \in 1 .. BatchSize(run[r].specs) : run[r].specs[i] = t
      BY <1>0, <1>8, <3>1, LaunchBatchDoes
    <3> QED BY <2>1, <3>2 DEF AtWork
  <2>2. CASE s # r
    BY <1>0, <1>8, <2>2, LaunchBatchDoes DEF AtWork
  <2> QED BY <2>1, <2>2
<1>9. ASSUME NEW r \in Runs, JoinBatch(r)
      PROVE  Goal
  BY <1>0, <1>9, JoinBatchDoes DEF AtWork, Active
<1>10. ASSUME NEW r \in Runs, EndRun(r)
      PROVE  Goal
  BY <1>0, <1>10, EndRunDoes DEF AtWork, Active
<1>11. ASSUME NEW r \in Runs, KillRun(r)
      PROVE  Goal
  BY <1>0, <1>11, KillRunDoes DEF AtWork, Active
<1>12. ASSUME NEW r \in Runs, NEW u \in Tasks, StartLane(r, u)
      PROVE  Goal
  BY <1>0, <1>12, StartLaneDoes DEF WorkerMoves, AtWork, Active
<1>13. ASSUME NEW r \in Runs, NEW u \in Tasks, FinishLane(r, u)
      PROVE  Goal
  BY <1>0, <1>13, FinishLaneDoes DEF WorkerMoves, AtWork, Active
<1>14. ASSUME NEW r \in Runs, NEW u \in Tasks, RecordResult(r, u)
      PROVE  Goal
  BY <1>0, <1>14, RecordResultDoes DEF WorkerMoves, AtWork, Active
<1>15. ASSUME NEW r \in Runs, NEW u \in Tasks, WriteFinalCard(r, u)
      PROVE  Goal
  BY <1>0, <1>15, WriteFinalCardDoes DEF WorkerMoves, AtWork, Active
<1>16. ASSUME NEW u \in Tasks, NEW status \in {"Blocked", "Cancelled", "Queued", "Completed"},
             OperatorSets(u, status)
      PROVE  Goal
  BY <1>0, <1>16, OperatorSetsDoes DEF AtWork, Active
<1>17. ASSUME NEW u \in Tasks, NEW priority \in Priorities, OperatorPrioritizes(u, priority)
      PROVE  Goal
  BY <1>0, <1>17, OperatorPrioritizesDoes DEF AtWork, Active
<1>18. ASSUME NEW u \in Tasks, NEW command \in Creating, NEW priority \in Priorities,
              OperatorCreates(u, command, priority)
      PROVE  Goal
  BY <1>0, <1>18, OperatorCreatesDoes DEF AtWork, Active
<1>19. ASSUME NEW r \in Runs, ThreadPanics(r)
      PROVE  Goal
  BY <1>0, <1>19, ThreadPanicsDoes DEF AtWork, Active
<1>20. ASSUME NEW r \in Runs, WriteDashboardCard(r)
      PROVE  Goal
  BY <1>0, <1>20, WriteDashboardCardDoes DEF AtWork, Active
<1> QED BY <1>1, <1>2, <1>3, <1>4, <1>5, <1>6, <1>7, <1>8, <1>9, <1>10, <1>11, <1>12, <1>13,
           <1>14, <1>15, <1>16, <1>17, <1>18, <1>19, <1>20
       DEF Next, MainStep, WorkerStep, Command

LEMMA BatchIsBounded ==
    ASSUME TypeOK, NEW r \in Runs
    PROVE  LET batch == {run[r].specs[i] : i \in 1 .. BatchSize(run[r].specs)}
           IN  IsFiniteSet(batch) /\ Cardinality(batch) <= MaxConcurrency
<1> DEFINE n     == BatchSize(run[r].specs)
           batch == {run[r].specs[i] : i \in 1 .. n}
           f     == [i \in 1 .. n |-> run[r].specs[i]]
<1>1. n \in Nat /\ n <= MaxConcurrency
  BY SpecsAreTyped
<1> HIDE DEF n
<1>2. IsFiniteSet(1 .. n) /\ Cardinality(1 .. n) = n
  BY <1>1, FS_Interval
<1>3. f \in Surjection(1 .. n, batch)
  BY DEF Surjection
<1> HIDE DEF f, batch
<1>4. IsFiniteSet(batch) /\ Cardinality(batch) <= Cardinality(1 .. n)
  BY <1>2, <1>3, FS_Surjection
<1>5. Cardinality(batch) \in Nat
  BY <1>4, FS_CardinalityType
<1>6. Cardinality(batch) <= MaxConcurrency
  BY <1>1, <1>2, <1>4, <1>5, LimitsArePositive
<1> QED BY <1>4, <1>6 DEF n, batch

LEMMA NextBatchesAreBounded ==
    ASSUME ClaimInv, BatchesAreBounded, Next
    PROVE  BatchesAreBounded'
<1>1. ASSUME NEW r \in Runs, NEW S, IsFiniteSet(S), Cardinality(S) <= MaxConcurrency,
             AtWork(r)' \subseteq S
      PROVE  IsFiniteSet(AtWork(r)') /\ Cardinality(AtWork(r)') <= MaxConcurrency
  <2> DEFINE T == AtWork(r)'
  <2>0. T \in SUBSET S
    BY <1>1
  <2> HIDE DEF T
  <2>1. IsFiniteSet(T) /\ Cardinality(T) <= Cardinality(S)
    BY <1>1, <2>0, FS_Subset
  <2>2. Cardinality(T) \in Nat /\ Cardinality(S) \in Nat
    BY <1>1, <2>1, FS_CardinalityType
  <2>3. Cardinality(T) <= MaxConcurrency
    BY <1>1, <2>1, <2>2, LimitsArePositive
  <2> QED BY <2>1, <2>3 DEF T
<1>2. ASSUME NEW r \in Runs
      PROVE  IsFiniteSet(AtWork(r)') /\ Cardinality(AtWork(r)') <= MaxConcurrency
  <2>1. CASE AtWork(r)' \subseteq AtWork(r)
    BY <1>1, <2>1 DEF BatchesAreBounded
  <2>2. CASE AtWork(r)' \subseteq {run[r].specs[i] : i \in 1 .. BatchSize(run[r].specs)}
    <3>1. TypeOK
      BY DEF ClaimInv
    <3> DEFINE batch == {run[r].specs[i] : i \in 1 .. BatchSize(run[r].specs)}
    <3>2. IsFiniteSet(batch) /\ Cardinality(batch) <= MaxConcurrency
      BY <3>1, BatchIsBounded
    <3>3. AtWork(r)' \subseteq batch
      BY <2>2
    <3> HIDE DEF batch
    <3> QED BY <1>1, <3>2, <3>3
  <2> QED BY <2>1, <2>2, AtWorkGrows
<1> QED BY <1>2 DEF BatchesAreBounded

\* However runs overlap, fail and are killed, a run never has more than
\* --max-concurrency lanes at work.
THEOREM ConcurrencyIsBoundedAlways == Spec => []ConcurrencyIsBounded
<1>1. Init => BatchesAreBounded
  <2> SUFFICES ASSUME Init, NEW r \in Runs
               PROVE  IsFiniteSet(AtWork(r)) /\ Cardinality(AtWork(r)) <= MaxConcurrency
    BY DEF BatchesAreBounded
  <2>1. AtWork(r) = {}
    BY DEF Init, AtWork, Active
  <2> QED BY <2>1, FS_EmptySet, LimitsArePositive
<1>2. ClaimInv /\ BatchesAreBounded /\ [Next]_vars => BatchesAreBounded'
  <2>1. ASSUME ClaimInv, BatchesAreBounded, UNCHANGED vars
        PROVE  BatchesAreBounded'
    BY <2>1 DEF BatchesAreBounded, AtWork, vars
  <2> QED BY <2>1, NextBatchesAreBounded
<1>3. BatchesAreBounded => ConcurrencyIsBounded
  BY DEF BatchesAreBounded, ConcurrencyIsBounded, AtWork
<1> QED BY <1>1, <1>2, <1>3, ClaimInvAlways, PTL DEF Spec
-----------------------------------------------------------------------------
LEMMA NextCompletedCardHasPr ==
    ASSUME ClaimInv, CompletedCardHasPr, Next
    PROVE  CompletedCardHasPr'
<1>0. TypeOK /\ AtTask /\ card \in [Tasks -> Card] /\ ThreadsServeRuns
  BY DEF ClaimInv, TypeOK
<1>1. ASSUME NEW r \in Runs, NEW dry \in BOOLEAN, NEW requested \in Requests,
             StartRun(r, dry, requested)
      PROVE  CompletedCardHasPr'
  BY <1>0, <1>1, StartRunDoes DEF After, CompletedCardHasPr
<1>2. ASSUME NEW r \in Runs, NEW u \in Tasks, NEW dry \in BOOLEAN, NEW priority \in Priorities,
             RunDashboardCard(r, u, dry, priority)
      PROVE  CompletedCardHasPr'
  BY <1>0, <1>2, RunDashboardCardDoes DEF After, CompletedCardHasPr, CardWith
<1>3. ASSUME NEW r \in Runs, NEW second \in Lanes, Select(r, second)
      PROVE  CompletedCardHasPr'
  BY <1>0, <1>3, SelectDoes DEF After, EndsWith, CompletedCardHasPr
<1>4. ASSUME NEW r \in Runs, CheckDependencies(r)
      PROVE  CompletedCardHasPr'
  BY <1>0, <1>4, CheckDependenciesDoes DEF After, MovesTo, EndsWith, CompletedCardHasPr
<1>5. ASSUME NEW r \in Runs, ClaimSelected(r)
      PROVE  CompletedCardHasPr'
  BY <1>0, <1>5, ClaimSelectedDoes DEF MovesTo, After, EndsWith, CompletedCardHasPr
<1>6. ASSUME NEW r \in Runs, WriteClaimedCard(r)
      PROVE  CompletedCardHasPr'
  BY <1>0, <1>6, WriteClaimedCardDoes DEF After, EndsWith, CompletedCardHasPr
<1>7. ASSUME NEW r \in Runs, EndClaims(r)
      PROVE  CompletedCardHasPr'
  BY <1>0, <1>7, EndClaimsDoes DEF MovesTo, After, EndsWith, CompletedCardHasPr
<1>8. ASSUME NEW r \in Runs, LaunchBatch(r)
      PROVE  CompletedCardHasPr'
  BY <1>0, <1>8, LaunchBatchDoes DEF After, CompletedCardHasPr
<1>9. ASSUME NEW r \in Runs, JoinBatch(r)
      PROVE  CompletedCardHasPr'
  BY <1>0, <1>9, JoinBatchDoes DEF MovesTo, After, CompletedCardHasPr
<1>10. ASSUME NEW r \in Runs, EndRun(r)
      PROVE  CompletedCardHasPr'
  BY <1>0, <1>10, EndRunDoes DEF EndsWith, After, CompletedCardHasPr
<1>11. ASSUME NEW r \in Runs, KillRun(r)
      PROVE  CompletedCardHasPr'
  BY <1>0, <1>11, KillRunDoes DEF MovesTo, After, CompletedCardHasPr
<1>12. ASSUME NEW r \in Runs, NEW u \in Tasks, StartLane(r, u)
      PROVE  CompletedCardHasPr'
  BY <1>0, <1>12, StartLaneDoes DEF WorkerMoves, CompletedCardHasPr
<1>13. ASSUME NEW r \in Runs, NEW u \in Tasks, FinishLane(r, u)
      PROVE  CompletedCardHasPr'
  BY <1>0, <1>13, FinishLaneDoes DEF WorkerMoves, CompletedCardHasPr
<1>14. ASSUME NEW r \in Runs, NEW u \in Tasks, RecordResult(r, u)
      PROVE  CompletedCardHasPr'
  BY <1>0, <1>14, RecordResultDoes DEF WorkerMoves, CompletedCardHasPr
<1>15. ASSUME NEW r \in Runs, NEW u \in Tasks, WriteFinalCard(r, u)
      PROVE  CompletedCardHasPr'
  BY <1>0, <1>15, WriteFinalCardDoes DEF WorkerMoves, CompletedCardHasPr, ThreadsServeRuns,
     CardWith
<1>16. ASSUME NEW u \in Tasks, NEW status \in {"Blocked", "Cancelled", "Queued", "Completed"},
             OperatorSets(u, status)
      PROVE  CompletedCardHasPr'
  BY <1>0, <1>16, OperatorSetsDoes DEF CompletedCardHasPr
<1>17. ASSUME NEW u \in Tasks, NEW priority \in Priorities, OperatorPrioritizes(u, priority)
      PROVE  CompletedCardHasPr'
  BY <1>0, <1>17, OperatorPrioritizesDoes DEF CompletedCardHasPr
<1>18. ASSUME NEW u \in Tasks, NEW command \in Creating, NEW priority \in Priorities,
              OperatorCreates(u, command, priority)
      PROVE  CompletedCardHasPr'
  BY <1>0, <1>18, OperatorCreatesDoes DEF CompletedCardHasPr
<1>19. ASSUME NEW r \in Runs, ThreadPanics(r)
      PROVE  CompletedCardHasPr'
  BY <1>0, <1>19, ThreadPanicsDoes DEF EndsWith, After, CompletedCardHasPr
<1>20. ASSUME NEW r \in Runs, WriteDashboardCard(r)
      PROVE  CompletedCardHasPr'
  BY <1>0, <1>20, WriteDashboardCardDoes DEF MovesTo, After, EndsWith, CompletedCardHasPr
<1> QED BY <1>1, <1>2, <1>3, <1>4, <1>5, <1>6, <1>7, <1>8, <1>9, <1>10, <1>11, <1>12, <1>13,
           <1>14, <1>15, <1>16, <1>17, <1>18, <1>19, <1>20
       DEF Next, MainStep, WorkerStep, Command

\* A card never shows a completed lane that has no pull request.
THEOREM CompletedCardHasPrAlways == Spec => []CompletedCardHasPr
<1>1. Init => CompletedCardHasPr
  BY DEF Init, CompletedCardHasPr, CardWith
<1>2. ClaimInv /\ CompletedCardHasPr /\ [Next]_vars => CompletedCardHasPr'
  <2>1. ASSUME CompletedCardHasPr, UNCHANGED vars
        PROVE  CompletedCardHasPr'
    BY <2>1 DEF CompletedCardHasPr, vars
  <2> QED BY <2>1, NextCompletedCardHasPr
<1> QED BY <1>1, <1>2, ClaimInvAlways, PTL DEF Spec
-----------------------------------------------------------------------------
\* What can happen to a record while nobody writes it afresh: it keeps its status
\* and its lane, or takes a status its own may be followed by, or it is ready,
\* without a lane, and is claimed.
RecordMoves(t) ==
    \/ registry'[t].status = registry[t].status /\ registry'[t].lane = registry[t].lane
    \/ /\ registry'[t].lane = registry[t].lane
       /\ registry'[t].status \in {"Blocked", "Cancelled", "Queued", "Completed"}
       /\ CanSetStatus(registry[t], registry'[t].status)
    \/ \E r \in Runs :
          /\ run[r].stage = "claim" /\ run[r].task = t
          /\ CanClaim(registry[t])
          /\ registry'[t].status = "Running" /\ registry'[t].lane = run[r].second
          /\ claimed'[r] = claimed[r] \cup {t}

\* Nobody uses run-dashboard-card, `task create` or `ingest-spec` while runs work.
NobodyWritesAfresh == MaxDashboard = 0 /\ Creating = {}

LEMMA RecordsMove ==
    ASSUME NobodyWritesAfresh, ClaimInv, Next
    PROVE  deps' = deps /\ \A t \in Tasks : RecordMoves(t)
<1>0. /\ TypeOK /\ AtTask /\ registry \in [Tasks -> TaskRecord]
      /\ Creating = {} /\ ~(dashboards < MaxDashboard)
  BY DEF NobodyWritesAfresh, ClaimInv, TypeOK
<1>1. ASSUME NEW r \in Runs, NEW dry \in BOOLEAN, NEW requested \in Requests,
             StartRun(r, dry, requested)
      PROVE  deps' = deps /\ \A t \in Tasks : RecordMoves(t)
  BY <1>0, <1>1, StartRunDoes DEF RecordMoves
<1>2. ASSUME NEW r \in Runs, NEW u \in Tasks, NEW dry \in BOOLEAN, NEW priority \in Priorities,
             RunDashboardCard(r, u, dry, priority)
      PROVE  deps' = deps /\ \A t \in Tasks : RecordMoves(t)
  BY <1>0, <1>2, RunDashboardCardDoes
<1>3. ASSUME NEW r \in Runs, NEW second \in Lanes, Select(r, second)
      PROVE  deps' = deps /\ \A t \in Tasks : RecordMoves(t)
  BY <1>0, <1>3, SelectDoes DEF RecordMoves
<1>4. ASSUME NEW r \in Runs, CheckDependencies(r)
      PROVE  deps' = deps /\ \A t \in Tasks : RecordMoves(t)
  BY <1>0, <1>4, CheckDependenciesDoes DEF RecordMoves
<1>5. ASSUME NEW r \in Runs, ClaimSelected(r)
      PROVE  deps' = deps /\ \A t \in Tasks : RecordMoves(t)
  <2>1. CASE registry' = registry
    BY <1>0, <1>5, <2>1, ClaimSelectedDoes DEF RecordMoves
  <2>2. CASE registry' # registry
    <3>1. /\ run[r].stage = "claim" /\ CanClaim(registry[run[r].task])
          /\ registry' = [registry EXCEPT ![run[r].task] =
                             Claimed(registry[run[r].task], run[r].second)]
          /\ claimed'[r] = claimed[r] \cup {run[r].task}
      BY <1>0, <1>5, <2>2, ClaimSelectedDoes
    <3>2. ASSUME NEW t \in Tasks, t = run[r].task
          PROVE  registry'[t].status = "Running" /\ registry'[t].lane = run[r].second
      BY <1>0, <3>1, <3>2 DEF Claimed, TaskRecord
    <3>3. \A t \in Tasks : t # run[r].task => registry'[t] = registry[t]
      BY <1>0, <3>1
    <3> QED BY <1>0, <1>5, <3>1, <3>2, <3>3, ClaimSelectedDoes DEF RecordMoves
  <2> QED BY <2>1, <2>2
<1>6. ASSUME NEW r \in Runs, WriteClaimedCard(r)
      PROVE  deps' = deps /\ \A t \in Tasks : RecordMoves(t)
  BY <1>0, <1>6, WriteClaimedCardDoes DEF RecordMoves
<1>7. ASSUME NEW r \in Runs, EndClaims(r)
      PROVE  deps' = deps /\ \A t \in Tasks : RecordMoves(t)
  BY <1>0, <1>7, EndClaimsDoes DEF RecordMoves
<1>8. ASSUME NEW r \in Runs, LaunchBatch(r)
      PROVE  deps' = deps /\ \A t \in Tasks : RecordMoves(t)
  BY <1>0, <1>8, LaunchBatchDoes DEF RecordMoves
<1>9. ASSUME NEW r \in Runs, JoinBatch(r)
      PROVE  deps' = deps /\ \A t \in Tasks : RecordMoves(t)
  BY <1>0, <1>9, JoinBatchDoes DEF RecordMoves
<1>10. ASSUME NEW r \in Runs, EndRun(r)
      PROVE  deps' = deps /\ \A t \in Tasks : RecordMoves(t)
  BY <1>0, <1>10, EndRunDoes DEF RecordMoves
<1>11. ASSUME NEW r \in Runs, KillRun(r)
      PROVE  deps' = deps /\ \A t \in Tasks : RecordMoves(t)
  BY <1>0, <1>11, KillRunDoes DEF RecordMoves
<1>12. ASSUME NEW r \in Runs, NEW u \in Tasks, StartLane(r, u)
      PROVE  deps' = deps /\ \A t \in Tasks : RecordMoves(t)
  BY <1>0, <1>12, StartLaneDoes DEF RecordMoves
<1>13. ASSUME NEW r \in Runs, NEW u \in Tasks, FinishLane(r, u)
      PROVE  deps' = deps /\ \A t \in Tasks : RecordMoves(t)
  BY <1>0, <1>13, FinishLaneDoes DEF RecordMoves
<1>14. ASSUME NEW r \in Runs, NEW u \in Tasks, RecordResult(r, u)
      PROVE  deps' = deps /\ \A t \in Tasks : RecordMoves(t)
  <2>1. PICK status \in {"Completed", "Blocked"} :
            registry' = IF CanSetStatus(registry[u], status)
                        THEN [registry EXCEPT ![u] = WithStatus(registry[u], status)]
                        ELSE registry
    BY <1>0, <1>14, RecordResultDoes
  <2>2. \A t \in Tasks :
           \/ registry'[t] = registry[t]
           \/ CanSetStatus(registry[t], status) /\ registry'[t] = WithStatus(registry[t], status)
    BY <1>0, <2>1
  <2>3. \A t \in Tasks : /\ WithStatus(registry[t], status).status = status
                         /\ WithStatus(registry[t], status).lane = registry[t].lane
    BY <1>0 DEF WithStatus, TaskRecord
  <2> QED BY <1>0, <1>14, <2>2, <2>3, RecordResultDoes DEF RecordMoves
<1>15. ASSUME NEW r \in Runs, NEW u \in Tasks, WriteFinalCard(r, u)
      PROVE  deps' = deps /\ \A t \in Tasks : RecordMoves(t)
  BY <1>0, <1>15, WriteFinalCardDoes DEF RecordMoves
<1>16. ASSUME NEW u \in Tasks, NEW status \in {"Blocked", "Cancelled", "Queued", "Completed"},
             OperatorSets(u, status)
      PROVE  deps' = deps /\ \A t \in Tasks : RecordMoves(t)
  <2>2. \A t \in Tasks :
           \/ registry'[t] = registry[t]
           \/ CanSetStatus(registry[t], status) /\ registry'[t] = WithStatus(registry[t], status)
    BY <1>0, <1>16, OperatorSetsDoes
  <2>3. \A t \in Tasks : /\ WithStatus(registry[t], status).status = status
                         /\ WithStatus(registry[t], status).lane = registry[t].lane
    BY <1>0 DEF WithStatus, TaskRecord
  <2> QED BY <1>0, <1>16, <2>2, <2>3, OperatorSetsDoes DEF RecordMoves
<1>17. ASSUME NEW u \in Tasks, NEW priority \in Priorities, OperatorPrioritizes(u, priority)
      PROVE  deps' = deps /\ \A t \in Tasks : RecordMoves(t)
  <2>2. \A t \in Tasks :
           registry'[t] = registry[t] \/ registry'[t] = WithPriority(registry[t], priority)
    BY <1>0, <1>17, OperatorPrioritizesDoes
  <2>3. \A t \in Tasks : /\ WithPriority(registry[t], priority).status = registry[t].status
                         /\ WithPriority(registry[t], priority).lane = registry[t].lane
    BY <1>0 DEF WithPriority, TaskRecord
  <2> QED BY <1>0, <1>17, <2>2, <2>3, OperatorPrioritizesDoes DEF RecordMoves
<1>18. ASSUME NEW u \in Tasks, NEW command \in Creating, NEW priority \in Priorities,
              OperatorCreates(u, command, priority)
      PROVE  deps' = deps /\ \A t \in Tasks : RecordMoves(t)
  BY <1>0, <1>18, OperatorCreatesDoes DEF RecordMoves
<1>19. ASSUME NEW r \in Runs, ThreadPanics(r)
      PROVE  deps' = deps /\ \A t \in Tasks : RecordMoves(t)
  BY <1>0, <1>19, ThreadPanicsDoes DEF RecordMoves
<1>20. ASSUME NEW r \in Runs, WriteDashboardCard(r)
      PROVE  deps' = deps /\ \A t \in Tasks : RecordMoves(t)
  BY <1>0, <1>20, WriteDashboardCardDoes DEF RecordMoves
<1> QED BY <1>1, <1>2, <1>3, <1>4, <1>5, <1>6, <1>7, <1>8, <1>9, <1>10, <1>11, <1>12, <1>13,
           <1>14, <1>15, <1>16, <1>17, <1>18, <1>19, <1>20
       DEF Next, MainStep, WorkerStep, Command

LEMMA CompletedIsFinal ==
    ASSUME NEW record \in TaskRecord, NEW status \in TaskStatus, CanSetStatus(record, status)
    PROVE  record.status # "Completed" /\ (status # "Running" => record.status # status)
  BY DEF CanSetStatus, CanTaskTransition, TaskSuccessors, TaskRecord, TaskStatus

LEMMA RunningCanEnd ==
    ASSUME NEW record \in TaskRecord, record.status = "Running"
    PROVE  CanSetStatus(record, "Completed") /\ CanSetStatus(record, "Blocked")
  BY DEF CanSetStatus, CanTaskTransition, TaskSuccessors, TaskRecord, TaskStatus

\* A claimed task names the lane of the run that claimed it, and no other run has it.
LanesAreGranted ==
    \A r \in Runs : \A t \in Tasks : t \in claimed[r] =>
        /\ registry[t].lane = run[r].second
        /\ registry[t].lane \in Lanes
        /\ \A s \in Runs : t \in claimed[s] => s = r

\* What a run has claimed keeps its dependencies.
DependenciesHold ==
    \A r \in Runs :
        /\ run[r].stage = "claim" => DependenciesMet(run[r].task)
        /\ \A t \in Tasks : t \in claimed[r] => DependenciesMet(t)

\* A running task is claimed, and no longer running when its thread has written its
\* result.
RunningIsHeld ==
    /\ \A t \in Tasks :
          registry[t].status = "Running" => \E r \in Runs : t \in claimed[r]
    /\ \A r \in Runs : \A t \in Tasks :
          worker[r][t] \in {"card_completed", "card_blocked", "done"} =>
              registry[t].status # "Running"

GrantInv == ClaimInv /\ LanesAreGranted /\ DependenciesHold /\ RunningIsHeld /\ OkRunIsDone

\* Who claims a task, and that a claim changes no other run.
LEMMA ClaimsGrow ==
    ASSUME ClaimInv, Next, NEW s \in Runs
    PROVE  /\ claimed[s] \subseteq claimed'[s]
           /\ \A t \in Tasks : t \in claimed'[s] /\ t \notin claimed[s] =>
                 /\ run[s].stage = "claim" /\ run[s].task = t /\ CanClaim(registry[t])
                 /\ registry'[t].lane = run[s].second /\ run[s].second \in Lanes
                 /\ \A r \in Runs : r # s => claimed'[r] = claimed[r]
           /\ claimed[s] # {} => run'[s].second = run[s].second
           /\ claimed'[s] # claimed[s] => run'[s].second = run[s].second
<1> DEFINE Goal ==
             /\ claimed[s] \subseteq claimed'[s]
             /\ \A t \in Tasks : t \in claimed'[s] /\ t \notin claimed[s] =>
                   /\ run[s].stage = "claim" /\ run[s].task = t /\ CanClaim(registry[t])
                   /\ registry'[t].lane = run[s].second /\ run[s].second \in Lanes
                   /\ \A r \in Runs : r # s => claimed'[r] = claimed[r]
             /\ claimed[s] # {} => run'[s].second = run[s].second
             /\ claimed'[s] # claimed[s] => run'[s].second = run[s].second
<1>0. /\ TypeOK /\ AtTask /\ RunsHoldClaims
      /\ registry \in [Tasks -> TaskRecord] /\ claimed \in [Runs -> SUBSET Tasks]
  BY DEF ClaimInv, TypeOK
<1>1. ASSUME NEW r \in Runs, NEW dry \in BOOLEAN, NEW requested \in Requests,
             StartRun(r, dry, requested)
      PROVE  Goal
  BY <1>0, <1>1, StartRunDoes DEF After, RunsHoldClaims, RunHoldsClaims
<1>2. ASSUME NEW r \in Runs, NEW u \in Tasks, NEW dry \in BOOLEAN, NEW priority \in Priorities,
             RunDashboardCard(r, u, dry, priority)
      PROVE  Goal
  BY <1>0, <1>2, RunDashboardCardDoes DEF After, RunsHoldClaims, RunHoldsClaims
<1>3. ASSUME NEW r \in Runs, NEW second \in Lanes, Select(r, second)
      PROVE  Goal
  BY <1>0, <1>3, SelectDoes DEF After, EndsWith, RunsHoldClaims, RunHoldsClaims
<1>4. ASSUME NEW r \in Runs, CheckDependencies(r)
      PROVE  Goal
  BY <1>0, <1>4, CheckDependenciesDoes DEF After, MovesTo, EndsWith, RunsHoldClaims, RunHoldsClaims
<1>5. ASSUME NEW r \in Runs, ClaimSelected(r)
      PROVE  Goal
  <2>1. run[r].stage = "claim" /\ run[r].task \in Tasks /\ run[r].second \in Lanes
    BY <1>0, <1>5, ClaimSelectedDoes DEF AtTask, RunsHoldClaims, RunHoldsClaims
  <2>2. run'[s].second = run[s].second
    BY <1>0, <1>5, ClaimSelectedDoes DEF MovesTo, EndsWith, After
  <2>3. CASE claimed' = claimed
    BY <2>2, <2>3
  <2>4. CASE claimed' # claimed
    <3>1. /\ CanClaim(registry[run[r].task])
          /\ registry' = [registry EXCEPT ![run[r].task] =
                             Claimed(registry[run[r].task], run[r].second)]
          /\ claimed'[r] = claimed[r] \cup {run[r].task}
          /\ \A q \in Runs : q # r => claimed'[q] = claimed[q]
      BY <1>0, <1>5, <2>4, ClaimSelectedDoes
    <3>2. registry'[run[r].task].lane = run[r].second
      BY <1>0, <2>1, <3>1 DEF Claimed, TaskRecord
    <3> QED BY <2>1, <2>2, <3>1, <3>2
  <2> QED BY <2>3, <2>4
<1>6. ASSUME NEW r \in Runs, WriteClaimedCard(r)
      PROVE  Goal
  BY <1>0, <1>6, WriteClaimedCardDoes DEF After, EndsWith, RunsHoldClaims, RunHoldsClaims
<1>7. ASSUME NEW r \in Runs, EndClaims(r)
      PROVE  Goal
  BY <1>0, <1>7, EndClaimsDoes DEF MovesTo, After, EndsWith, RunsHoldClaims, RunHoldsClaims
<1>8. ASSUME NEW r \in Runs, LaunchBatch(r)
      PROVE  Goal
  BY <1>0, <1>8, LaunchBatchDoes DEF After, RunsHoldClaims, RunHoldsClaims
<1>9. ASSUME NEW r \in Runs, JoinBatch(r)
      PROVE  Goal
  BY <1>0, <1>9, JoinBatchDoes DEF MovesTo, After, RunsHoldClaims, RunHoldsClaims
<1>10. ASSUME NEW r \in Runs, EndRun(r)
      PROVE  Goal
  BY <1>0, <1>10, EndRunDoes DEF EndsWith, After, RunsHoldClaims, RunHoldsClaims
<1>11. ASSUME NEW r \in Runs, KillRun(r)
      PROVE  Goal
  BY <1>0, <1>11, KillRunDoes DEF MovesTo, After, RunsHoldClaims, RunHoldsClaims
<1>12. ASSUME NEW r \in Runs, NEW u \in Tasks, StartLane(r, u)
      PROVE  Goal
  BY <1>0, <1>12, StartLaneDoes DEF WorkerMoves, RunsHoldClaims, RunHoldsClaims
<1>13. ASSUME NEW r \in Runs, NEW u \in Tasks, FinishLane(r, u)
      PROVE  Goal
  BY <1>0, <1>13, FinishLaneDoes DEF WorkerMoves, RunsHoldClaims, RunHoldsClaims
<1>14. ASSUME NEW r \in Runs, NEW u \in Tasks, RecordResult(r, u)
      PROVE  Goal
  BY <1>0, <1>14, RecordResultDoes DEF WorkerMoves, RunsHoldClaims, RunHoldsClaims
<1>15. ASSUME NEW r \in Runs, NEW u \in Tasks, WriteFinalCard(r, u)
      PROVE  Goal
  BY <1>0, <1>15, WriteFinalCardDoes DEF WorkerMoves, RunsHoldClaims, RunHoldsClaims
<1>16. ASSUME NEW u \in Tasks, NEW status \in {"Blocked", "Cancelled", "Queued", "Completed"},
             OperatorSets(u, status)
      PROVE  Goal
  BY <1>0, <1>16, OperatorSetsDoes DEF RunsHoldClaims, RunHoldsClaims
<1>17. ASSUME NEW u \in Tasks, NEW priority \in Priorities, OperatorPrioritizes(u, priority)
      PROVE  Goal
  BY <1>0, <1>17, OperatorPrioritizesDoes DEF RunsHoldClaims, RunHoldsClaims
<1>18. ASSUME NEW u \in Tasks, NEW command \in Creating, NEW priority \in Priorities,
              OperatorCreates(u, command, priority)
      PROVE  Goal
  BY <1>0, <1>18, OperatorCreatesDoes DEF RunsHoldClaims, RunHoldsClaims
<1>19. ASSUME NEW r \in Runs, ThreadPanics(r)
      PROVE  Goal
  BY <1>0, <1>19, ThreadPanicsDoes DEF EndsWith, After, RunsHoldClaims, RunHoldsClaims
<1>20. ASSUME NEW r \in Runs, WriteDashboardCard(r)
      PROVE  Goal
  BY <1>0, <1>20, WriteDashboardCardDoes DEF MovesTo, After, EndsWith, RunsHoldClaims,
     RunHoldsClaims
<1> QED BY <1>1, <1>2, <1>3, <1>4, <1>5, <1>6, <1>7, <1>8, <1>9, <1>10, <1>11, <1>12, <1>13,
           <1>14, <1>15, <1>16, <1>17, <1>18, <1>19, <1>20
       DEF Next, MainStep, WorkerStep, Command

\* A run turns to a task only when its dependencies are met.
LEMMA ClaimIsReached ==
    ASSUME ClaimInv, DependenciesHold, NEW s \in Runs, run'[s].stage = "claim", Next
    PROVE  run'[s].task \in Tasks /\ DependenciesMet(run'[s].task)
<1>0. TypeOK /\ AtTask /\ DependenciesHold
  BY DEF ClaimInv
<1>1. ASSUME NEW r \in Runs, NEW dry \in BOOLEAN, NEW requested \in Requests,
             StartRun(r, dry, requested)
      PROVE  run'[s].task \in Tasks /\ DependenciesMet(run'[s].task)
  BY <1>0, <1>1, StartRunDoes DEF After, AtTask, DependenciesHold
<1>2. ASSUME NEW r \in Runs, NEW u \in Tasks, NEW dry \in BOOLEAN, NEW priority \in Priorities,
             RunDashboardCard(r, u, dry, priority)
      PROVE  run'[s].task \in Tasks /\ DependenciesMet(run'[s].task)
  BY <1>0, <1>2, RunDashboardCardDoes DEF After, AtTask, DependenciesHold
<1>3. ASSUME NEW r \in Runs, NEW second \in Lanes, Select(r, second)
      PROVE  run'[s].task \in Tasks /\ DependenciesMet(run'[s].task)
  BY <1>0, <1>3, SelectDoes DEF After, EndsWith, AtTask, DependenciesHold
<1>4. ASSUME NEW r \in Runs, CheckDependencies(r)
      PROVE  run'[s].task \in Tasks /\ DependenciesMet(run'[s].task)
  BY <1>0, <1>4, CheckDependenciesDoes DEF After, MovesTo, EndsWith, AtTask, DependenciesHold
<1>5. ASSUME NEW r \in Runs, ClaimSelected(r)
      PROVE  run'[s].task \in Tasks /\ DependenciesMet(run'[s].task)
  BY <1>0, <1>5, ClaimSelectedDoes DEF MovesTo, After, EndsWith, AtTask, DependenciesHold
<1>6. ASSUME NEW r \in Runs, WriteClaimedCard(r)
      PROVE  run'[s].task \in Tasks /\ DependenciesMet(run'[s].task)
  BY <1>0, <1>6, WriteClaimedCardDoes DEF After, EndsWith, AtTask, DependenciesHold
<1>7. ASSUME NEW r \in Runs, EndClaims(r)
      PROVE  run'[s].task \in Tasks /\ DependenciesMet(run'[s].task)
  BY <1>0, <1>7, EndClaimsDoes DEF MovesTo, After, EndsWith, AtTask, DependenciesHold
<1>8. ASSUME NEW r \in Runs, LaunchBatch(r)
      PROVE  run'[s].task \in Tasks /\ DependenciesMet(run'[s].task)
  BY <1>0, <1>8, LaunchBatchDoes DEF After, AtTask, DependenciesHold
<1>9. ASSUME NEW r \in Runs, JoinBatch(r)
      PROVE  run'[s].task \in Tasks /\ DependenciesMet(run'[s].task)
  BY <1>0, <1>9, JoinBatchDoes DEF MovesTo, After, AtTask, DependenciesHold
<1>10. ASSUME NEW r \in Runs, EndRun(r)
      PROVE  run'[s].task \in Tasks /\ DependenciesMet(run'[s].task)
  BY <1>0, <1>10, EndRunDoes DEF EndsWith, After, AtTask, DependenciesHold
<1>11. ASSUME NEW r \in Runs, KillRun(r)
      PROVE  run'[s].task \in Tasks /\ DependenciesMet(run'[s].task)
  BY <1>0, <1>11, KillRunDoes DEF MovesTo, After, AtTask, DependenciesHold
<1>12. ASSUME NEW r \in Runs, NEW u \in Tasks, StartLane(r, u)
      PROVE  run'[s].task \in Tasks /\ DependenciesMet(run'[s].task)
  BY <1>0, <1>12, StartLaneDoes DEF WorkerMoves, AtTask, DependenciesHold
<1>13. ASSUME NEW r \in Runs, NEW u \in Tasks, FinishLane(r, u)
      PROVE  run'[s].task \in Tasks /\ DependenciesMet(run'[s].task)
  BY <1>0, <1>13, FinishLaneDoes DEF WorkerMoves, AtTask, DependenciesHold
<1>14. ASSUME NEW r \in Runs, NEW u \in Tasks, RecordResult(r, u)
      PROVE  run'[s].task \in Tasks /\ DependenciesMet(run'[s].task)
  BY <1>0, <1>14, RecordResultDoes DEF WorkerMoves, AtTask, DependenciesHold
<1>15. ASSUME NEW r \in Runs, NEW u \in Tasks, WriteFinalCard(r, u)
      PROVE  run'[s].task \in Tasks /\ DependenciesMet(run'[s].task)
  BY <1>0, <1>15, WriteFinalCardDoes DEF WorkerMoves, AtTask, DependenciesHold
<1>16. ASSUME NEW u \in Tasks, NEW status \in {"Blocked", "Cancelled", "Queued", "Completed"},
             OperatorSets(u, status)
      PROVE  run'[s].task \in Tasks /\ DependenciesMet(run'[s].task)
  BY <1>0, <1>16, OperatorSetsDoes DEF AtTask, DependenciesHold
<1>17. ASSUME NEW u \in Tasks, NEW priority \in Priorities, OperatorPrioritizes(u, priority)
      PROVE  run'[s].task \in Tasks /\ DependenciesMet(run'[s].task)
  BY <1>0, <1>17, OperatorPrioritizesDoes DEF AtTask, DependenciesHold
<1>18. ASSUME NEW u \in Tasks, NEW command \in Creating, NEW priority \in Priorities,
              OperatorCreates(u, command, priority)
      PROVE  run'[s].task \in Tasks /\ DependenciesMet(run'[s].task)
  BY <1>0, <1>18, OperatorCreatesDoes DEF AtTask, DependenciesHold
<1>19. ASSUME NEW r \in Runs, ThreadPanics(r)
      PROVE  run'[s].task \in Tasks /\ DependenciesMet(run'[s].task)
  BY <1>0, <1>19, ThreadPanicsDoes DEF EndsWith, After, AtTask, DependenciesHold
<1>20. ASSUME NEW r \in Runs, WriteDashboardCard(r)
      PROVE  run'[s].task \in Tasks /\ DependenciesMet(run'[s].task)
  BY <1>0, <1>20, WriteDashboardCardDoes DEF MovesTo, After, EndsWith, AtTask, DependenciesHold
<1> QED BY <1>1, <1>2, <1>3, <1>4, <1>5, <1>6, <1>7, <1>8, <1>9, <1>10, <1>11, <1>12, <1>13,
           <1>14, <1>15, <1>16, <1>17, <1>18, <1>19, <1>20
       DEF Next, MainStep, WorkerStep, Command

LEMMA NextLanesAreGranted ==
    ASSUME NobodyWritesAfresh, GrantInv, Next
    PROVE  LanesAreGranted'
<1>0. /\ ClaimInv /\ LanesAreGranted /\ NoLane \notin Lanes
      /\ \A t \in Tasks : RecordMoves(t)
  BY RecordsMove, NoLaneIsNoLane DEF GrantInv
<1>1. \A t \in Tasks : (\E r \in Runs : t \in claimed[r]) => ~CanClaim(registry[t])
  BY <1>0 DEF LanesAreGranted, CanClaim
<1>2. ASSUME NEW s \in Runs, NEW t \in Tasks, t \in claimed'[s]
      PROVE  registry'[t].lane = run'[s].second /\ registry'[t].lane \in Lanes
  <2>1. CASE t \in claimed[s]
    <3>1. registry'[t].lane = registry[t].lane
      BY <1>0, <1>1, <2>1 DEF RecordMoves
    <3>2. run'[s].second = run[s].second
      BY <1>0, <2>1, ClaimsGrow
    <3> QED BY <1>0, <2>1, <3>1, <3>2 DEF LanesAreGranted
  <2>2. CASE t \notin claimed[s]
    <3>1. /\ registry'[t].lane = run[s].second /\ run[s].second \in Lanes
          /\ claimed'[s] # claimed[s]
      BY <1>0, <1>2, <2>2, ClaimsGrow
    <3>2. run'[s].second = run[s].second
      BY <1>0, <3>1, ClaimsGrow
    <3> QED BY <3>1, <3>2
  <2> QED BY <2>1, <2>2
<1>3. ASSUME NEW s \in Runs, NEW r \in Runs, NEW t \in Tasks,
             t \in claimed'[s], t \in claimed'[r], r # s
      PROVE  FALSE
  <2>1. CASE t \in claimed[s] /\ t \in claimed[r]
    BY <1>0, <1>3, <2>1 DEF LanesAreGranted
  <2>2. CASE t \notin claimed[s]
    <3>1. CanClaim(registry[t]) /\ claimed'[r] = claimed[r]
      BY <1>0, <1>3, <2>2, ClaimsGrow
    <3> QED BY <1>1, <1>3, <3>1
  <2>3. CASE t \notin claimed[r]
    <3>1. CanClaim(registry[t]) /\ claimed'[s] = claimed[s]
      BY <1>0, <1>3, <2>3, ClaimsGrow
    <3> QED BY <1>1, <1>3, <3>1
  <2> QED BY <2>1, <2>2, <2>3
<1> QED BY <1>2, <1>3 DEF LanesAreGranted

LEMMA MetStaysMet ==
    ASSUME NobodyWritesAfresh, ClaimInv, Next, NEW t \in Tasks, DependenciesMet(t)
    PROVE  DependenciesMet(t)'
<1>1. TypeOK /\ deps' = deps /\ deps[t] \subseteq Tasks /\ registry \in [Tasks -> TaskRecord]
  BY RecordsMove DEF ClaimInv, TypeOK
<1>2. ASSUME NEW d \in Tasks, registry[d].status = "Completed"
      PROVE  registry'[d].status = "Completed"
  <2>1. RecordMoves(d)
    BY RecordsMove
  <2>2. ~CanClaim(registry[d])
    BY <1>2 DEF CanClaim
  <2>3. \A status \in TaskStatus : ~CanSetStatus(registry[d], status)
    BY <1>1, <1>2, CompletedIsFinal
  <2> QED BY <1>2, <2>1, <2>2, <2>3 DEF RecordMoves, TaskStatus
<1> QED BY <1>1, <1>2 DEF DependenciesMet

LEMMA NextDependenciesHold ==
    ASSUME NobodyWritesAfresh, GrantInv, Next
    PROVE  DependenciesHold'
<1>0. ClaimInv /\ DependenciesHold /\ TypeOK /\ AtTask
  BY DEF GrantInv, ClaimInv
<1>1. ASSUME NEW s \in Runs, NEW t \in Tasks, t \in claimed'[s]
      PROVE  DependenciesMet(t)'
  <2>1. DependenciesMet(t)
    BY <1>0, <1>1, ClaimsGrow DEF DependenciesHold
  <2> QED BY <1>0, <2>1, MetStaysMet
<1>2. ASSUME NEW s \in Runs, run'[s].stage = "claim"
      PROVE  DependenciesMet(run[s].task)'
  <2>1. PICK t \in Tasks : t = run'[s].task /\ DependenciesMet(t)
    BY <1>0, <1>2, ClaimIsReached
  <2>2. DependenciesMet(t)'
    BY <1>0, <2>1, MetStaysMet
  <2> QED BY <2>1, <2>2 DEF DependenciesMet
<1> QED BY <1>1, <1>2 DEF DependenciesHold

LEMMA RunningIsClaimed ==
    ASSUME NobodyWritesAfresh, GrantInv, Next, NEW t \in Tasks,
           registry'[t].status = "Running", registry[t].status # "Running"
    PROVE  ~\E r \in Runs : t \in claimed[r]
<1>1. RecordMoves(t) /\ LanesAreGranted /\ NoLane \notin Lanes
  BY RecordsMove, NoLaneIsNoLane DEF GrantInv
<1>2. CanClaim(registry[t])
  BY <1>1 DEF RecordMoves
<1> QED BY <1>1, <1>2 DEF LanesAreGranted, CanClaim

\* A thread comes to a state in which its result is written only by writing it.
LEMMA ResultIsWritten ==
    ASSUME NobodyWritesAfresh, GrantInv, Next, NEW s \in Runs, NEW t \in Tasks,
           worker'[s][t] \in {"card_completed", "card_blocked", "done"}
    PROVE  /\ t \in claimed[s]
           /\ \/ worker[s][t] \in {"card_completed", "card_blocked", "done"}
              \/ registry'[t].status # "Running"
<1> DEFINE Goal ==
             /\ t \in claimed[s]
             /\ \/ worker[s][t] \in {"card_completed", "card_blocked", "done"}
                \/ registry'[t].status # "Running"
<1>0. /\ TypeOK /\ AtTask /\ ThreadsServeRuns /\ registry \in [Tasks -> TaskRecord]
      /\ worker'[s][t] \in {"card_completed", "card_blocked", "done"}
  BY DEF GrantInv, ClaimInv, TypeOK
<1>1. ASSUME NEW r \in Runs, NEW dry \in BOOLEAN, NEW requested \in Requests,
             StartRun(r, dry, requested)
      PROVE  Goal
  BY <1>0, <1>1, StartRunDoes DEF After, ThreadsServeRuns
<1>2. ASSUME NEW r \in Runs, NEW u \in Tasks, NEW dry \in BOOLEAN, NEW priority \in Priorities,
             RunDashboardCard(r, u, dry, priority)
      PROVE  Goal
  BY <1>0, <1>2, RunDashboardCardDoes DEF After, ThreadsServeRuns
<1>3. ASSUME NEW r \in Runs, NEW second \in Lanes, Select(r, second)
      PROVE  Goal
  BY <1>0, <1>3, SelectDoes DEF After, EndsWith, ThreadsServeRuns
<1>4. ASSUME NEW r \in Runs, CheckDependencies(r)
      PROVE  Goal
  BY <1>0, <1>4, CheckDependenciesDoes DEF After, MovesTo, EndsWith, ThreadsServeRuns
<1>5. ASSUME NEW r \in Runs, ClaimSelected(r)
      PROVE  Goal
  BY <1>0, <1>5, ClaimSelectedDoes DEF MovesTo, After, EndsWith, ThreadsServeRuns
<1>6. ASSUME NEW r \in Runs, WriteClaimedCard(r)
      PROVE  Goal
  BY <1>0, <1>6, WriteClaimedCardDoes DEF After, EndsWith, ThreadsServeRuns
<1>7. ASSUME NEW r \in Runs, EndClaims(r)
      PROVE  Goal
  BY <1>0, <1>7, EndClaimsDoes DEF MovesTo, After, EndsWith, ThreadsServeRuns
<1>8. ASSUME NEW r \in Runs, LaunchBatch(r)
      PROVE  Goal
  BY <1>0, <1>8, LaunchBatchDoes DEF After, ThreadsServeRuns
<1>9. ASSUME NEW r \in Runs, JoinBatch(r)
      PROVE  Goal
  BY <1>0, <1>9, JoinBatchDoes DEF MovesTo, After, ThreadsServeRuns
<1>10. ASSUME NEW r \in Runs, EndRun(r)
      PROVE  Goal
  BY <1>0, <1>10, EndRunDoes DEF EndsWith, After, ThreadsServeRuns
<1>11. ASSUME NEW r \in Runs, KillRun(r)
      PROVE  Goal
  BY <1>0, <1>11, KillRunDoes DEF MovesTo, After, ThreadsServeRuns
<1>12. ASSUME NEW r \in Runs, NEW u \in Tasks, StartLane(r, u)
      PROVE  Goal
  BY <1>0, <1>12, StartLaneDoes DEF WorkerMoves, ThreadsServeRuns
<1>13. ASSUME NEW r \in Runs, NEW u \in Tasks, FinishLane(r, u)
      PROVE  Goal
  BY <1>0, <1>13, FinishLaneDoes DEF WorkerMoves, ThreadsServeRuns
<1>14. ASSUME NEW r \in Runs, NEW u \in Tasks, RecordResult(r, u)
      PROVE  Goal
  <2>1. CASE s = r /\ t = u
    <3>1. PICK status \in {"Completed", "Blocked"} :
              registry' = IF CanSetStatus(registry[u], status)
                          THEN [registry EXCEPT ![u] = WithStatus(registry[u], status)]
                          ELSE registry
      BY <1>0, <1>14, RecordResultDoes
    <3>2. worker[r][u] # "none"
      BY <1>0, <1>14, RecordResultDoes
    <3>3. CASE CanSetStatus(registry[u], status)
      BY <1>0, <2>1, <3>1, <3>2, <3>3 DEF WithStatus, TaskRecord, ThreadsServeRuns
    <3>4. CASE ~CanSetStatus(registry[u], status)
      <4>1. registry[u].status # "Running"
        BY <1>0, <3>4, RunningCanEnd
      <4> QED BY <1>0, <2>1, <3>1, <3>2, <3>4, <4>1 DEF ThreadsServeRuns
    <3> QED BY <3>3, <3>4
  <2>2. CASE ~(s = r /\ t = u)
    BY <1>0, <1>14, <2>2, RecordResultDoes DEF WorkerMoves, ThreadsServeRuns
  <2> QED BY <2>1, <2>2
<1>15. ASSUME NEW r \in Runs, NEW u \in Tasks, WriteFinalCard(r, u)
      PROVE  Goal
  BY <1>0, <1>15, WriteFinalCardDoes DEF WorkerMoves, ThreadsServeRuns
<1>16. ASSUME NEW u \in Tasks, NEW status \in {"Blocked", "Cancelled", "Queued", "Completed"},
             OperatorSets(u, status)
      PROVE  Goal
  BY <1>0, <1>16, OperatorSetsDoes DEF ThreadsServeRuns
<1>17. ASSUME NEW u \in Tasks, NEW priority \in Priorities, OperatorPrioritizes(u, priority)
      PROVE  Goal
  BY <1>0, <1>17, OperatorPrioritizesDoes DEF ThreadsServeRuns
<1>18. ASSUME NEW u \in Tasks, NEW command \in Creating, NEW priority \in Priorities,
              OperatorCreates(u, command, priority)
      PROVE  Goal
  BY <1>0, <1>18, OperatorCreatesDoes DEF ThreadsServeRuns
<1>19. ASSUME NEW r \in Runs, ThreadPanics(r)
      PROVE  Goal
  BY <1>0, <1>19, ThreadPanicsDoes DEF EndsWith, After, ThreadsServeRuns
<1>20. ASSUME NEW r \in Runs, WriteDashboardCard(r)
      PROVE  Goal
  BY <1>0, <1>20, WriteDashboardCardDoes DEF MovesTo, After, EndsWith, ThreadsServeRuns
<1> QED BY <1>1, <1>2, <1>3, <1>4, <1>5, <1>6, <1>7, <1>8, <1>9, <1>10, <1>11, <1>12, <1>13,
           <1>14, <1>15, <1>16, <1>17, <1>18, <1>19, <1>20
       DEF Next, MainStep, WorkerStep, Command

LEMMA NextRunningIsHeld ==
    ASSUME NobodyWritesAfresh, GrantInv, Next
    PROVE  RunningIsHeld'
<1>0. ClaimInv /\ RunningIsHeld
  BY DEF GrantInv
<1>1. ASSUME NEW t \in Tasks, registry'[t].status = "Running"
      PROVE  \E r \in Runs : t \in claimed'[r]
  <2>1. CASE registry[t].status = "Running"
    BY <1>0, <2>1, ClaimsGrow DEF RunningIsHeld
  <2>2. CASE registry[t].status # "Running"
    BY <1>0, <1>1, <2>2, RecordsMove DEF RecordMoves
  <2> QED BY <2>1, <2>2
<1>2. ASSUME NEW r \in Runs, NEW t \in Tasks,
             worker'[r][t] \in {"card_completed", "card_blocked", "done"}
      PROVE  registry'[t].status # "Running"
  <2>1. t \in claimed[r]
    BY <1>2, ResultIsWritten
  <2>2. CASE registry[t].status # "Running"
    BY <2>1, <2>2, RunningIsClaimed
  <2>3. CASE registry[t].status = "Running"
    BY <1>0, <1>2, <2>3, ResultIsWritten DEF RunningIsHeld
  <2> QED BY <2>2, <2>3
<1> QED BY <1>1, <1>2 DEF RunningIsHeld

\* How a run comes to return ok.
LEMMA OkIsReached ==
    ASSUME GrantInv, Next, NEW s \in Runs, run'[s].result = "ok"
    PROVE  /\ claimed'[s] = claimed[s]
           /\ \/ run[s].result = "ok"
              \/ claimed[s] = {}
              \/ \A t \in claimed[s] : t \in Tasks /\ worker[s][t] = "done"
<1> DEFINE Goal ==
             /\ claimed'[s] = claimed[s]
             /\ \/ run[s].result = "ok"
                \/ claimed[s] = {}
                \/ \A t \in claimed[s] : t \in Tasks /\ worker[s][t] = "done"
<1>0. /\ TypeOK /\ AtTask /\ RunsHoldClaims /\ ThreadsServeRuns /\ ClaimsAreAccounted
      /\ worker \in [Runs -> [Tasks -> {"none", "lost"} \cup Active \cup Finished]]
      /\ claimed \in [Runs -> SUBSET Tasks] /\ run'[s].result = "ok"
  BY DEF GrantInv, ClaimInv, TypeOK
<1>1. ASSUME NEW r \in Runs, NEW dry \in BOOLEAN, NEW requested \in Requests,
             StartRun(r, dry, requested)
      PROVE  Goal
  BY <1>0, <1>1, StartRunDoes DEF After, RunsHoldClaims, RunHoldsClaims
<1>2. ASSUME NEW r \in Runs, NEW u \in Tasks, NEW dry \in BOOLEAN, NEW priority \in Priorities,
             RunDashboardCard(r, u, dry, priority)
      PROVE  Goal
  BY <1>0, <1>2, RunDashboardCardDoes DEF After, RunsHoldClaims, RunHoldsClaims
<1>3. ASSUME NEW r \in Runs, NEW second \in Lanes, Select(r, second)
      PROVE  Goal
  BY <1>0, <1>3, SelectDoes DEF After, EndsWith, RunsHoldClaims, RunHoldsClaims
<1>4. ASSUME NEW r \in Runs, CheckDependencies(r)
      PROVE  Goal
  BY <1>0, <1>4, CheckDependenciesDoes DEF After, MovesTo, EndsWith, RunsHoldClaims, RunHoldsClaims
<1>5. ASSUME NEW r \in Runs, ClaimSelected(r)
      PROVE  Goal
  BY <1>0, <1>5, ClaimSelectedDoes DEF MovesTo, After, EndsWith, RunsHoldClaims, RunHoldsClaims
<1>6. ASSUME NEW r \in Runs, WriteClaimedCard(r)
      PROVE  Goal
  BY <1>0, <1>6, WriteClaimedCardDoes DEF After, EndsWith, RunsHoldClaims, RunHoldsClaims
<1>7. ASSUME NEW r \in Runs, EndClaims(r)
      PROVE  Goal
  BY <1>0, <1>7, EndClaimsDoes DEF MovesTo, After, EndsWith, RunsHoldClaims, RunHoldsClaims
<1>8. ASSUME NEW r \in Runs, LaunchBatch(r)
      PROVE  Goal
  BY <1>0, <1>8, LaunchBatchDoes DEF After, RunsHoldClaims, RunHoldsClaims
<1>9. ASSUME NEW r \in Runs, JoinBatch(r)
      PROVE  Goal
  BY <1>0, <1>9, JoinBatchDoes DEF MovesTo, After, RunsHoldClaims, RunHoldsClaims
<1>10. ASSUME NEW r \in Runs, EndRun(r)
      PROVE  Goal
  <2>1. CASE s = r
    <3>1. /\ run[r].stage = "launch" /\ run[r].specs = <<>>
          /\ \A t \in Tasks : worker[r][t] # "gave_up"
          /\ claimed' = claimed /\ run[r].result = "none"
      BY <1>0, <1>10, <2>1, EndRunDoes DEF EndsWith, After, RunsHoldClaims, RunHoldsClaims
    <3>2. ASSUME NEW t \in claimed[r]
          PROVE  t \in Tasks /\ worker[r][t] = "done"
      <4>1. t \in Tasks
        BY <1>0
      <4>2. ~\E i \in 1 .. Len(run[r].specs) : run[r].specs[i] = t
        BY <3>1
      <4>3. worker[r][t] # "none"
        BY <1>0, <3>1, <4>1, <4>2 DEF ClaimsAreAccounted
      <4>4. worker[r][t] \in {"none", "lost"} \cup Active \cup Finished
        BY <1>0, <4>1
      <4>5. worker[r][t] \notin Active /\ worker[r][t] # "lost"
        BY <1>0, <3>1, <4>1 DEF ThreadsServeRuns
      <4> QED BY <3>1, <4>1, <4>3, <4>4, <4>5 DEF Finished
    <3> QED BY <2>1, <3>1, <3>2
  <2>2. CASE s # r
    BY <1>0, <1>10, <2>2, EndRunDoes DEF EndsWith, After
  <2> QED BY <2>1, <2>2
<1>11. ASSUME NEW r \in Runs, KillRun(r)
      PROVE  Goal
  BY <1>0, <1>11, KillRunDoes DEF MovesTo, After, RunsHoldClaims, RunHoldsClaims
<1>12. ASSUME NEW r \in Runs, NEW u \in Tasks, StartLane(r, u)
      PROVE  Goal
  BY <1>0, <1>12, StartLaneDoes DEF WorkerMoves, RunsHoldClaims, RunHoldsClaims
<1>13. ASSUME NEW r \in Runs, NEW u \in Tasks, FinishLane(r, u)
      PROVE  Goal
  BY <1>0, <1>13, FinishLaneDoes DEF WorkerMoves, RunsHoldClaims, RunHoldsClaims
<1>14. ASSUME NEW r \in Runs, NEW u \in Tasks, RecordResult(r, u)
      PROVE  Goal
  BY <1>0, <1>14, RecordResultDoes DEF WorkerMoves, RunsHoldClaims, RunHoldsClaims
<1>15. ASSUME NEW r \in Runs, NEW u \in Tasks, WriteFinalCard(r, u)
      PROVE  Goal
  BY <1>0, <1>15, WriteFinalCardDoes DEF WorkerMoves, RunsHoldClaims, RunHoldsClaims
<1>16. ASSUME NEW u \in Tasks, NEW status \in {"Blocked", "Cancelled", "Queued", "Completed"},
             OperatorSets(u, status)
      PROVE  Goal
  BY <1>0, <1>16, OperatorSetsDoes DEF RunsHoldClaims, RunHoldsClaims
<1>17. ASSUME NEW u \in Tasks, NEW priority \in Priorities, OperatorPrioritizes(u, priority)
      PROVE  Goal
  BY <1>0, <1>17, OperatorPrioritizesDoes DEF RunsHoldClaims, RunHoldsClaims
<1>18. ASSUME NEW u \in Tasks, NEW command \in Creating, NEW priority \in Priorities,
              OperatorCreates(u, command, priority)
      PROVE  Goal
  BY <1>0, <1>18, OperatorCreatesDoes DEF RunsHoldClaims, RunHoldsClaims
<1>19. ASSUME NEW r \in Runs, ThreadPanics(r)
      PROVE  Goal
  BY <1>0, <1>19, ThreadPanicsDoes DEF EndsWith, After, RunsHoldClaims, RunHoldsClaims
<1>20. ASSUME NEW r \in Runs, WriteDashboardCard(r)
      PROVE  Goal
  BY <1>0, <1>20, WriteDashboardCardDoes DEF MovesTo, After, EndsWith, RunsHoldClaims,
     RunHoldsClaims
<1> QED BY <1>1, <1>2, <1>3, <1>4, <1>5, <1>6, <1>7, <1>8, <1>9, <1>10, <1>11, <1>12, <1>13,
           <1>14, <1>15, <1>16, <1>17, <1>18, <1>19, <1>20
       DEF Next, MainStep, WorkerStep, Command

LEMMA RequestsStay ==
    ASSUME ClaimInv, NEW t \in Tasks, Next
    PROVE  prs[t] \subseteq prs'[t]
<1>0. TypeOK /\ AtTask
  BY DEF ClaimInv
<1>1. ASSUME NEW r \in Runs, NEW dry \in BOOLEAN, NEW requested \in Requests,
             StartRun(r, dry, requested)
      PROVE  prs[t] \subseteq prs'[t]
  BY <1>0, <1>1, StartRunDoes DEF After
<1>2. ASSUME NEW r \in Runs, NEW u \in Tasks, NEW dry \in BOOLEAN, NEW priority \in Priorities,
             RunDashboardCard(r, u, dry, priority)
      PROVE  prs[t] \subseteq prs'[t]
  BY <1>0, <1>2, RunDashboardCardDoes DEF After
<1>3. ASSUME NEW r \in Runs, NEW second \in Lanes, Select(r, second)
      PROVE  prs[t] \subseteq prs'[t]
  BY <1>0, <1>3, SelectDoes DEF After, EndsWith
<1>4. ASSUME NEW r \in Runs, CheckDependencies(r)
      PROVE  prs[t] \subseteq prs'[t]
  BY <1>0, <1>4, CheckDependenciesDoes DEF After, MovesTo, EndsWith
<1>5. ASSUME NEW r \in Runs, ClaimSelected(r)
      PROVE  prs[t] \subseteq prs'[t]
  BY <1>0, <1>5, ClaimSelectedDoes DEF MovesTo, After, EndsWith
<1>6. ASSUME NEW r \in Runs, WriteClaimedCard(r)
      PROVE  prs[t] \subseteq prs'[t]
  BY <1>0, <1>6, WriteClaimedCardDoes DEF After, EndsWith
<1>7. ASSUME NEW r \in Runs, EndClaims(r)
      PROVE  prs[t] \subseteq prs'[t]
  BY <1>0, <1>7, EndClaimsDoes DEF MovesTo, After, EndsWith
<1>8. ASSUME NEW r \in Runs, LaunchBatch(r)
      PROVE  prs[t] \subseteq prs'[t]
  BY <1>0, <1>8, LaunchBatchDoes DEF After
<1>9. ASSUME NEW r \in Runs, JoinBatch(r)
      PROVE  prs[t] \subseteq prs'[t]
  BY <1>0, <1>9, JoinBatchDoes DEF MovesTo, After
<1>10. ASSUME NEW r \in Runs, EndRun(r)
      PROVE  prs[t] \subseteq prs'[t]
  BY <1>0, <1>10, EndRunDoes DEF EndsWith, After
<1>11. ASSUME NEW r \in Runs, KillRun(r)
      PROVE  prs[t] \subseteq prs'[t]
  BY <1>0, <1>11, KillRunDoes DEF MovesTo, After
<1>12. ASSUME NEW r \in Runs, NEW u \in Tasks, StartLane(r, u)
      PROVE  prs[t] \subseteq prs'[t]
  BY <1>0, <1>12, StartLaneDoes DEF WorkerMoves
<1>13. ASSUME NEW r \in Runs, NEW u \in Tasks, FinishLane(r, u)
      PROVE  prs[t] \subseteq prs'[t]
  BY <1>0, <1>13, FinishLaneDoes DEF WorkerMoves
<1>14. ASSUME NEW r \in Runs, NEW u \in Tasks, RecordResult(r, u)
      PROVE  prs[t] \subseteq prs'[t]
  BY <1>0, <1>14, RecordResultDoes DEF WorkerMoves
<1>15. ASSUME NEW r \in Runs, NEW u \in Tasks, WriteFinalCard(r, u)
      PROVE  prs[t] \subseteq prs'[t]
  BY <1>0, <1>15, WriteFinalCardDoes DEF WorkerMoves
<1>16. ASSUME NEW u \in Tasks, NEW status \in {"Blocked", "Cancelled", "Queued", "Completed"},
             OperatorSets(u, status)
      PROVE  prs[t] \subseteq prs'[t]
  BY <1>0, <1>16, OperatorSetsDoes
<1>17. ASSUME NEW u \in Tasks, NEW priority \in Priorities, OperatorPrioritizes(u, priority)
      PROVE  prs[t] \subseteq prs'[t]
  BY <1>0, <1>17, OperatorPrioritizesDoes
<1>18. ASSUME NEW u \in Tasks, NEW command \in Creating, NEW priority \in Priorities,
              OperatorCreates(u, command, priority)
      PROVE  prs[t] \subseteq prs'[t]
  BY <1>0, <1>18, OperatorCreatesDoes
<1>19. ASSUME NEW r \in Runs, ThreadPanics(r)
      PROVE  prs[t] \subseteq prs'[t]
  BY <1>0, <1>19, ThreadPanicsDoes DEF EndsWith, After
<1>20. ASSUME NEW r \in Runs, WriteDashboardCard(r)
      PROVE  prs[t] \subseteq prs'[t]
  BY <1>0, <1>20, WriteDashboardCardDoes DEF MovesTo, After, EndsWith
<1> QED BY <1>1, <1>2, <1>3, <1>4, <1>5, <1>6, <1>7, <1>8, <1>9, <1>10, <1>11, <1>12, <1>13,
           <1>14, <1>15, <1>16, <1>17, <1>18, <1>19, <1>20
       DEF Next, MainStep, WorkerStep, Command

LEMMA NextOkRunIsDone ==
    ASSUME NobodyWritesAfresh, GrantInv, Next
    PROVE  OkRunIsDone'
<1>0. ClaimInv /\ OkRunIsDone /\ RunningIsHeld /\ ThreadsServeRuns
  BY DEF GrantInv, ClaimInv
<1>1. ASSUME NEW s \in Runs, run'[s].result = "ok", NEW t \in claimed'[s]
      PROVE  s \in prs'[t] /\ registry'[t].status # "Running"
  <2>1. t \in claimed[s] /\ t \in Tasks
    BY <1>0, <1>1, OkIsReached DEF GrantInv, ClaimInv, TypeOK
  <2>2. s \in prs[t] /\ registry[t].status # "Running"
    <3>1. CASE run[s].result = "ok"
      BY <1>0, <2>1, <3>1 DEF OkRunIsDone
    <3>2. CASE worker[s][t] = "done"
      BY <1>0, <2>1, <3>2 DEF ThreadsServeRuns, RunningIsHeld
    <3> QED BY <1>1, <2>1, <3>1, <3>2, OkIsReached
  <2>3. prs[t] \subseteq prs'[t]
    BY <1>0, <2>1, RequestsStay
  <2> QED BY <2>1, <2>2, <2>3, RunningIsClaimed
<1> QED BY <1>1 DEF OkRunIsDone

LEMMA GrantInvAlways == ASSUME NobodyWritesAfresh PROVE Spec => []GrantInv
<1>1. Init => GrantInv
  <2> SUFFICES ASSUME Init PROVE GrantInv
    OBVIOUS
  <2>1. /\ \A r \in Runs : run[r].stage = "idle" /\ run[r].result = "none" /\ claimed[r] = {}
        /\ \A r \in Runs : \A t \in Tasks : worker[r][t] = "none"
    BY DEF Init
  <2>2. \A t \in Tasks : registry[t].status # "Running"
    BY DEF Init, Ingested, NewRecord
  <2>3. LanesAreGranted /\ DependenciesHold /\ OkRunIsDone
    BY <2>1 DEF LanesAreGranted, DependenciesHold, OkRunIsDone
  <2>4. RunningIsHeld
    BY <2>1, <2>2 DEF RunningIsHeld
  <2> QED BY <2>3, <2>4, InitClaimInv DEF GrantInv
<1>2. GrantInv /\ [Next]_vars => GrantInv'
  <2>1. ASSUME GrantInv, Next
        PROVE  GrantInv'
    <3>1. ClaimInv'
      BY <2>1, NextClaimInv DEF GrantInv
    <3> QED BY <2>1, <3>1, NextLanesAreGranted, NextDependenciesHold, NextRunningIsHeld,
               NextOkRunIsDone DEF GrantInv
  <2>2. ASSUME GrantInv, UNCHANGED vars
        PROVE  GrantInv'
    <3>1. ClaimInv'
      BY <2>2, NextClaimInv DEF GrantInv
    <3>2. LanesAreGranted' /\ DependenciesHold'
      BY <2>2 DEF GrantInv, LanesAreGranted, DependenciesHold, DependenciesMet, vars
    <3>3. RunningIsHeld' /\ OkRunIsDone'
      BY <2>2 DEF GrantInv, RunningIsHeld, OkRunIsDone, vars
    <3> QED BY <3>1, <3>2, <3>3 DEF GrantInv
  <2> QED BY <2>1, <2>2
<1> QED BY <1>1, <1>2, PTL DEF Spec
-----------------------------------------------------------------------------
\* Two threads never work on one task, however the runs overlap and whatever the
\* operator does meanwhile, as long as no record is written afresh.
THEOREM OneLaneAtATimeAlways == ASSUME NobodyWritesAfresh PROVE Spec => []OneLaneAtATime
<1>1. GrantInv => OneLaneAtATime
  <2> SUFFICES ASSUME GrantInv, NEW t \in Tasks, NEW r \in Runs, NEW s \in Runs,
                      worker[r][t] \in Active, worker[s][t] \in Active
               PROVE  r = s
    BY DEF OneLaneAtATime
  <2>1. t \in claimed[r] /\ t \in claimed[s]
    BY DEF GrantInv, ClaimInv, ThreadsServeRuns, Active
  <2> QED BY <2>1 DEF GrantInv, LanesAreGranted
<1> QED BY <1>1, GrantInvAlways, PTL

\* As long as no record is written afresh, a thread works in the lane its task's
\* record names, by its own run's claim.
THEOREM WorkIsClaimedAlways == ASSUME NobodyWritesAfresh PROVE Spec => []WorkIsClaimed
<1>1. GrantInv => WorkIsClaimed
  BY DEF GrantInv, ClaimInv, ThreadsServeRuns, LanesAreGranted, WorkIsClaimed, Active
<1> QED BY <1>1, GrantInvAlways, PTL

\* As long as no record is written afresh, the dependencies of a task a thread works
\* on are completed and stay so.
THEOREM DependenciesFirstAlways == ASSUME NobodyWritesAfresh PROVE Spec => []DependenciesFirst
<1>1. GrantInv => DependenciesFirst
  BY DEF GrantInv, ClaimInv, ThreadsServeRuns, DependenciesHold, DependenciesFirst, Active
<1> QED BY <1>1, GrantInvAlways, PTL

\* As long as no record is written afresh, a run that returns ok has a pull request
\* for everything it claimed, and nothing of it is left running.
THEOREM OkRunIsDoneAlways == ASSUME NobodyWritesAfresh PROVE Spec => []OkRunIsDone
<1>1. GrantInv => OkRunIsDone
  BY DEF GrantInv
<1> QED BY <1>1, GrantInvAlways, PTL

\* As long as no record is written afresh, no task is left running by a run that
\* goes on or has succeeded.
THEOREM RunningTaskHasRunAlways == ASSUME NobodyWritesAfresh PROVE Spec => []RunningTaskHasRun
<1>1. ASSUME GrantInv, NEW t \in Tasks, registry[t].status = "Running"
      PROVE  \E r \in Runs :
                /\ t \in claimed[r]
                /\ \/ run[r].result = "error"
                   \/ run[r].stage = "killed"
                   \/ t = run[r].task
                   \/ \E i \in 1 .. Len(run[r].specs) : run[r].specs[i] = t
                   \/ worker[r][t] \in {"spawned", "live", "succeeded", "failed", "gave_up"}
  <2>1. PICK r \in Runs : t \in claimed[r]
    BY <1>1 DEF GrantInv, RunningIsHeld
  <2>2. /\ worker[r][t] \in {"none", "lost"} \cup Active \cup Finished
        /\ worker[r][t] \notin {"card_completed", "card_blocked", "done"}
        /\ worker[r][t] = "lost" => run[r].stage = "killed" \/ run[r].result = "error"
    BY <1>1 DEF GrantInv, ClaimInv, TypeOK, RunningIsHeld, ThreadsServeRuns
  <2>3. \/ run[r].stage = "killed" \/ run[r].result = "error" \/ run[r].task = t
        \/ \E i \in 1 .. Len(run[r].specs) : run[r].specs[i] = t
        \/ worker[r][t] # "none"
    BY <1>1, <2>1 DEF GrantInv, ClaimInv, ClaimsAreAccounted
  <2> QED BY <2>1, <2>2, <2>3 DEF Active, Finished
<1>2. GrantInv => RunningTaskHasRun
  BY <1>1 DEF RunningTaskHasRun
<1> QED BY <1>2, GrantInvAlways, PTL
-----------------------------------------------------------------------------
\* Progress.  How many steps the main thread of a run has left at most: a task it
\* has selected costs up to six, of which the three behind its card are for the
\* batch it is launched in, at worst alone.
StepsBehind(stage, limit, todo, specs) ==
    CASE stage = "idle"   -> 6 * limit + 6
      [] stage = "create" -> 6 * limit + 5
      [] stage = "select" -> 6 * limit + 4
      [] stage = "check"  -> 6 * todo + 3 * specs + 3
      [] stage = "claim"  -> 6 * todo + 3 * specs + 2
      [] stage = "card"   -> 6 * todo + 3 * specs + 1
      [] stage = "join"   -> 3 * specs + 3
      [] stage = "launch" -> 3 * specs + 2
      [] OTHER            -> 0

Selected(r) == Cardinality(DOMAIN run[r].todo)

StepsLeft(r) == StepsBehind(run[r].stage, run[r].limit, Selected(r), Len(run[r].specs))

\* How many steps a thread has left.
ThreadStepsLeft(r, t) ==
    CASE worker[r][t] = "spawned"                             -> 4
      [] worker[r][t] = "live"                                -> 3
      [] worker[r][t] \in {"succeeded", "failed"}             -> 2
      [] worker[r][t] \in {"card_completed", "card_blocked"}  -> 1
      [] OTHER                                                -> 0

LEMMA StepsAreCounted ==
    ASSUME NEW stage \in Stage, NEW limit \in Nat, NEW todo \in Nat, NEW specs \in Nat
    PROVE  /\ StepsBehind(stage, limit, todo, specs) \in Nat
           /\ stage \notin {"returned", "killed"} => StepsBehind(stage, limit, todo, specs) > 0
  BY DEF StepsBehind, Stage

LEMMA RunIsCounted ==
    ASSUME TypeOK, IsFiniteSet(Tasks), NEW r \in Runs
    PROVE  /\ IsFiniteSet(DOMAIN run[r].todo)
           /\ Selected(r) \in Nat /\ Len(run[r].specs) \in Nat /\ run[r].limit \in Nat
           /\ run[r].stage \in Stage
           /\ StepsLeft(r) \in Nat
<1>1. IsFiniteSet(DOMAIN run[r].todo) /\ Selected(r) \in Nat
  BY TodoIsTyped, FS_Subset, FS_CardinalityType DEF Selected
<1>2. Len(run[r].specs) \in Nat
  BY SpecsAreTyped
<1>3. run[r].limit \in Limits /\ run[r].stage \in Stage
  BY RunIsTyped DEF Run
<1>4. run[r].limit \in Nat
  BY <1>3, LimitsArePositive
<1> QED BY <1>1, <1>2, <1>3, <1>4, StepsAreCounted DEF StepsLeft

\* A task taken from the list.
LEMMA OneLessToDo ==
    ASSUME TypeOK, IsFiniteSet(Tasks), NEW r \in Runs, NEW t \in DOMAIN run[r].todo
    PROVE  Cardinality(DOMAIN WithoutTask(run[r].todo, t)) = Selected(r) - 1 /\ Selected(r) >= 1
<1>1. DOMAIN WithoutTask(run[r].todo, t) = DOMAIN run[r].todo \ {t}
  BY DEF WithoutTask
<1> DEFINE all == DOMAIN run[r].todo
<1>0. IsFiniteSet(all) /\ t \in all
  BY RunIsCounted
<1> HIDE DEF all
<1>2. Cardinality(all \ {t}) = Cardinality(all) - 1
  BY <1>0, FS_RemoveElement
<1>3. Cardinality(DOMAIN WithoutTask(run[r].todo, t)) = Selected(r) - 1
  BY <1>1, <1>2 DEF Selected, all
<1>4. Cardinality(DOMAIN WithoutTask(run[r].todo, t)) \in Nat
  BY <1>0, <1>1, FS_RemoveElement, FS_CardinalityType DEF all
<1> QED BY <1>3, <1>4, RunIsCounted

\* A step that changes the stage alone, or ends the run.
LEMMA MovedOn ==
    ASSUME TypeOK, NEW r \in Runs, NEW stage, NEW result,
           \/ run' = [run EXCEPT ![r].stage = stage]
           \/ run' = [run EXCEPT ![r].stage = stage, ![r].result = result]
    PROVE  StepsLeft(r)' = StepsBehind(stage, run[r].limit, Selected(r), Len(run[r].specs))
<1>1. run \in [Runs -> Run] /\ run[r] \in Run
  BY DEF TypeOK
<1>2. \/ run'[r] = [run[r] EXCEPT !.stage = stage]
      \/ run'[r] = [run[r] EXCEPT !.stage = stage, !.result = result]
  BY <1>1
<1>3. /\ run'[r].stage = stage /\ run'[r].limit = run[r].limit
      /\ run'[r].todo = run[r].todo /\ run'[r].specs = run[r].specs
  BY <1>1, <1>2 DEF Run
<1> QED BY <1>3 DEF StepsLeft, Selected

LEMMA StartGoesOn ==
    ASSUME TypeOK, IsFiniteSet(Tasks), NEW r \in Runs, NEW stage \in {"select", "create"},
           NEW dry, NEW requested, run[r].stage = "idle",
           run' = [run EXCEPT ![r].stage = stage, ![r].dry = dry,
                              ![r].requested = requested]
    PROVE  StepsLeft(r)' < StepsLeft(r)
<1>1. run \in [Runs -> Run] /\ run[r] \in Run
  BY DEF TypeOK
<1>2. run'[r] = [run[r] EXCEPT !.stage = stage, !.dry = dry, !.requested = requested]
  BY <1>1
<1>3. run'[r].stage = stage /\ run'[r].limit = run[r].limit
  BY <1>1, <1>2 DEF Run
<1> QED BY <1>3, RunIsCounted DEF StepsLeft, StepsBehind

LEMMA DashboardCardGoesOn ==
    ASSUME TypeOK, IsFiniteSet(Tasks), NEW r \in Runs, WriteDashboardCard(r)
    PROVE  StepsLeft(r)' < StepsLeft(r)
<1>1. run[r].stage = "create"
  BY DEF WriteDashboardCard
<1>2. PICK stage \in {"select", "returned"} :
          StepsLeft(r)' = StepsBehind(stage, run[r].limit, Selected(r), Len(run[r].specs))
  BY MovedOn DEF WriteDashboardCard, Return
<1> QED BY <1>1, <1>2, RunIsCounted DEF StepsLeft, StepsBehind

LEMMA SelectGoesOn ==
    ASSUME TypeOK, RunsHoldClaims, IsFiniteSet(Tasks), NEW r \in Runs, NEW second \in Lanes,
           Select(r, second)
    PROVE  StepsLeft(r)' < StepsLeft(r)
<1>1. run \in [Runs -> Run] /\ run[r] \in Run /\ run[r].stage = "select" /\ run[r].specs = <<>>
  BY DEF TypeOK, Select, RunsHoldClaims, RunHoldsClaims
<1>2. StepsLeft(r) = 6 * run[r].limit + 4 /\ run[r].limit \in Nat
  BY <1>1, RunIsCounted DEF StepsLeft, StepsBehind
<1>3. CASE Return(r, "ok") \/ Return(r, "error")
  <2>1. StepsLeft(r)' = StepsBehind("returned", run[r].limit, Selected(r), Len(run[r].specs))
    BY <1>3, MovedOn DEF Return
  <2> QED BY <1>2, <2>1 DEF StepsBehind
<1>4. ASSUME NEW chosen \in Selections(Eligible(r), run[r].limit),
             run' = [run EXCEPT ![r].stage = "check", ![r].second = second,
                                ![r].todo = [t \in chosen |-> registry[t]]]
      PROVE  StepsLeft(r)' < StepsLeft(r)
  <2>1. Eligible(r) \subseteq Tasks
    BY <1>1 DEF Eligible, Run
  <2>2. Cardinality(Eligible(r)) \in Nat
    BY <2>1, FS_Subset, FS_CardinalityType
  <2>3. Cardinality(chosen) \in Nat /\ Cardinality(chosen) <= run[r].limit
    BY <1>2, <1>4, <2>2 DEF Selections
  <2>4. run'[r] = [run[r] EXCEPT !.stage = "check", !.second = second,
                                 !.todo = [t \in chosen |-> registry[t]]]
    BY <1>1, <1>4
  <2>5. /\ run'[r].stage = "check" /\ run'[r].specs = <<>>
        /\ DOMAIN run'[r].todo = chosen
    BY <1>1, <2>4 DEF Run
  <2>6. StepsLeft(r)' = 6 * Cardinality(chosen) + 3 * 0 + 3
    BY <2>5 DEF StepsLeft, StepsBehind, Selected
  <2> QED BY <1>2, <2>3, <2>6
<1> QED BY <1>3, <1>4 DEF Select

LEMMA CheckGoesOn ==
    ASSUME TypeOK, IsFiniteSet(Tasks), NEW r \in Runs, CheckDependencies(r)
    PROVE  StepsLeft(r)' < StepsLeft(r)
<1>1. run \in [Runs -> Run] /\ run[r] \in Run /\ run[r].stage = "check"
  BY DEF TypeOK, CheckDependencies
<1>2. PICK t \in NextUp(r) :
          \/ run' = [run EXCEPT ![r].stage = "claim", ![r].task = t]
          \/ run' = [run EXCEPT ![r].todo = WithoutTask(run[r].todo, t)]
          \/ Return(r, "error")
  BY <1>1 DEF CheckDependencies
<1>3. CASE run' = [run EXCEPT ![r].stage = "claim", ![r].task = t]
  <2>1. run'[r] = [run[r] EXCEPT !.stage = "claim", !.task = t]
    BY <1>1, <1>3
  <2>2. /\ run'[r].stage = "claim" /\ run'[r].specs = run[r].specs
        /\ run'[r].todo = run[r].todo
    BY <1>1, <2>1 DEF Run
  <2> QED BY <1>1, <2>2, RunIsCounted DEF StepsLeft, StepsBehind, Selected
<1>4. CASE run' = [run EXCEPT ![r].todo = WithoutTask(run[r].todo, t)]
  <2>1. run'[r] = [run[r] EXCEPT !.todo = WithoutTask(run[r].todo, t)]
    BY <1>1, <1>4
  <2>2. /\ run'[r].stage = "check" /\ run'[r].specs = run[r].specs
        /\ run'[r].todo = WithoutTask(run[r].todo, t)
    BY <1>1, <2>1 DEF Run
  <2>3. Selected(r)' = Selected(r) - 1 /\ Selected(r) >= 1
    BY <2>2, OneLessToDo DEF Selected, NextUp
  <2> QED BY <1>1, <2>2, <2>3, RunIsCounted DEF StepsLeft, StepsBehind
<1>5. CASE Return(r, "error")
  <2>1. StepsLeft(r)' = StepsBehind("returned", run[r].limit, Selected(r), Len(run[r].specs))
    BY <1>5, MovedOn DEF Return
  <2> QED BY <1>1, <2>1, RunIsCounted DEF StepsLeft, StepsBehind
<1> QED BY <1>2, <1>3, <1>4, <1>5

LEMMA ClaimGoesOn ==
    ASSUME TypeOK, IsFiniteSet(Tasks), NEW r \in Runs, ClaimSelected(r)
    PROVE  StepsLeft(r)' < StepsLeft(r)
<1>1. run[r].stage = "claim"
  BY DEF ClaimSelected
<1>2. PICK stage \in {"card", "returned"} : 
          StepsLeft(r)' = StepsBehind(stage, run[r].limit, Selected(r), Len(run[r].specs))
  BY MovedOn DEF ClaimSelected, Return
<1> QED BY <1>1, <1>2, RunIsCounted DEF StepsLeft, StepsBehind

LEMMA CardGoesOn ==
    ASSUME TypeOK, AtTask, IsFiniteSet(Tasks), NEW r \in Runs, WriteClaimedCard(r)
    PROVE  StepsLeft(r)' < StepsLeft(r)
<1>1. /\ run \in [Runs -> Run] /\ run[r] \in Run /\ run[r].stage = "card"
      /\ run[r].task \in Tasks /\ run[r].task \in DOMAIN run[r].todo
  BY DEF TypeOK, WriteClaimedCard, AtTask
<1> DEFINE specs == Append(run[r].specs, run[r].task)
<1>2. CASE Return(r, "error")
  <2>1. StepsLeft(r)' = StepsBehind("returned", run[r].limit, Selected(r), Len(run[r].specs))
    BY <1>2, MovedOn DEF Return
  <2> QED BY <1>1, <2>1, RunIsCounted DEF StepsLeft, StepsBehind
<1>3. CASE run' = [run EXCEPT ![r].stage = "check", ![r].task = NoTask,
                              ![r].todo = WithoutTask(run[r].todo, run[r].task),
                              ![r].specs = specs]
  <2>0. Len(specs) = Len(run[r].specs) + 1
    BY <1>1, SpecsAreTyped
  <2> HIDE DEF specs
  <2>1. run'[r] = [run[r] EXCEPT !.stage = "check", !.task = NoTask,
                                 !.todo = WithoutTask(run[r].todo, run[r].task),
                                 !.specs = specs]
    BY <1>1, <1>3
  <2>2. /\ run'[r].stage = "check" /\ run'[r].specs = specs
        /\ run'[r].todo = WithoutTask(run[r].todo, run[r].task)
    BY <1>1, <2>1 DEF Run
  <2>3. Selected(r)' = Selected(r) - 1 /\ Selected(r) >= 1
    BY <1>1, <2>2, OneLessToDo DEF Selected
  <2> QED BY <1>1, <2>0, <2>2, <2>3, RunIsCounted DEF StepsLeft, StepsBehind
<1> QED BY <1>2, <1>3 DEF WriteClaimedCard

LEMMA LaunchGoesOn ==
    ASSUME TypeOK, IsFiniteSet(Tasks), NEW r \in Runs, LaunchBatch(r)
    PROVE  StepsLeft(r)' < StepsLeft(r)
<1> DEFINE n == BatchSize(run[r].specs)
           rest == SubSeq(run[r].specs, n + 1, Len(run[r].specs))
<1>1. run \in [Runs -> Run] /\ run[r] \in Run /\ run[r].stage = "launch" /\ run[r].specs # <<>>
  BY DEF TypeOK, LaunchBatch
<1>2. run[r].specs \in Seq(Tasks) /\ Len(run[r].specs) >= 1
  BY <1>1, SpecsAreTyped
<1>3. n \in 1 .. Len(run[r].specs)
  BY <1>2, LimitsArePositive DEF BatchSize
<1>4. run' = [run EXCEPT ![r].stage = "join", ![r].specs = rest]
  BY DEF LaunchBatch
<1>5. Len(rest) = Len(run[r].specs) - n
  <2> DEFINE all == run[r].specs
  <2>1. all \in Seq(Tasks) /\ n \in 1 .. Len(all) /\ Len(all) \in Nat
    BY <1>2, <1>3
  <2> HIDE DEF all, n
  <2>2. n + 1 \in Int /\ Len(all) \in Int /\ \A i \in n + 1 .. Len(all) : all[i] \in Tasks
    BY <2>1
  <2>3. Len(SubSeq(all, n + 1, Len(all))) = IF n + 1 <= Len(all) THEN Len(all) - (n + 1) + 1 ELSE 0
    BY <2>2, SubSeqProperties
  <2>4. Len(SubSeq(all, n + 1, Len(all))) = Len(all) - n
    BY <2>1, <2>3
  <2> QED BY <2>4 DEF all
<1> HIDE DEF rest, n
<1>6. run'[r] = [run[r] EXCEPT !.stage = "join", !.specs = rest]
  BY <1>1, <1>4
<1>7. run'[r].stage = "join" /\ run'[r].specs = rest
  BY <1>1, <1>6 DEF Run
<1> QED BY <1>1, <1>3, <1>5, <1>7, RunIsCounted DEF StepsLeft, StepsBehind

LEMMA LeavingGoesOn ==
    ASSUME TypeOK, IsFiniteSet(Tasks), NEW r \in Runs,
           EndClaims(r) \/ JoinBatch(r) \/ ThreadPanics(r) \/ EndRun(r) \/ KillRun(r)
    PROVE  StepsLeft(r)' < StepsLeft(r)
<1>1. CASE EndClaims(r)
  <2>1. run[r].stage = "check"
    BY <1>1 DEF EndClaims
  <2>2. PICK stage \in {"launch", "returned"} :
            StepsLeft(r)' = StepsBehind(stage, run[r].limit, Selected(r), Len(run[r].specs))
    BY <1>1, MovedOn DEF EndClaims, Return
  <2> QED BY <2>1, <2>2, RunIsCounted DEF StepsLeft, StepsBehind
<1>2. CASE JoinBatch(r)
  <2>1. run[r].stage = "join"
    BY <1>2 DEF JoinBatch
  <2>2. StepsLeft(r)' = StepsBehind("launch", run[r].limit, Selected(r), Len(run[r].specs))
    BY <1>2, MovedOn DEF JoinBatch
  <2> QED BY <2>1, <2>2, RunIsCounted DEF StepsLeft, StepsBehind
<1>3. CASE EndRun(r)
  <2>1. run[r].stage = "launch"
    BY <1>3 DEF EndRun
  <2>2. StepsLeft(r)' = StepsBehind("returned", run[r].limit, Selected(r), Len(run[r].specs))
    BY <1>3, MovedOn DEF EndRun, Return
  <2> QED BY <2>1, <2>2, RunIsCounted DEF StepsLeft, StepsBehind
<1>4. CASE KillRun(r)
  <2>1. run[r].stage \in Stage \ {"idle", "returned", "killed"}
    BY <1>4, RunIsCounted DEF KillRun
  <2>2. StepsLeft(r)' = StepsBehind("killed", run[r].limit, Selected(r), Len(run[r].specs))
    BY <1>4, MovedOn DEF KillRun
  <2>3. StepsLeft(r)' = 0
    BY <2>2 DEF StepsBehind
  <2>4. StepsLeft(r) > 0
    BY <2>1, RunIsCounted, StepsAreCounted DEF StepsLeft
  <2> QED BY <2>3, <2>4
<1>5. CASE ThreadPanics(r)
  <2>1. run[r].stage = "join"
    BY <1>5 DEF ThreadPanics
  <2>2. StepsLeft(r)' = StepsBehind("returned", run[r].limit, Selected(r), Len(run[r].specs))
    BY <1>5, MovedOn DEF ThreadPanics, Return
  <2> QED BY <2>1, <2>2, RunIsCounted DEF StepsLeft, StepsBehind
<1> QED BY <1>1, <1>2, <1>3, <1>4, <1>5

\* A step of a run's process, or one that gives it its orders or ends it.
StepOf(r) ==
    \/ MainStep(r) \/ ThreadPanics(r) \/ KillRun(r)
    \/ \E dry \in BOOLEAN :
          \/ \E requested \in Requests : StartRun(r, dry, requested)
          \/ \E t \in Tasks, priority \in Priorities : RunDashboardCard(r, t, dry, priority)

LEMMA StepsGoOn ==
    ASSUME ClaimInv, IsFiniteSet(Tasks), NEW r \in Runs, StepOf(r)
    PROVE  StepsLeft(r)' < StepsLeft(r)
<1>1. ASSUME NEW dry \in BOOLEAN, NEW requested \in Requests, StartRun(r, dry, requested)
      PROVE  StepsLeft(r)' < StepsLeft(r)
  BY <1>1, StartGoesOn DEF StartRun, ClaimInv
<1>2. ASSUME NEW dry \in BOOLEAN, NEW t \in Tasks, NEW priority \in Priorities,
             RunDashboardCard(r, t, dry, priority)
      PROVE  StepsLeft(r)' < StepsLeft(r)
  BY <1>2, StartGoesOn DEF RunDashboardCard, ClaimInv
<1> QED BY <1>1, <1>2, DashboardCardGoesOn, SelectGoesOn, CheckGoesOn, ClaimGoesOn, CardGoesOn, LaunchGoesOn,
           LeavingGoesOn DEF StepOf, MainStep, ClaimInv

\* Whose step it was: a run's own steps take one of its steps away, a thread's one
\* of the thread's, and all that others do takes or gives nothing.
Progress ==
    \A r \in Runs :
        /\ StepOf(r) => StepsLeft(r)' < StepsLeft(r)
        /\ ~StepOf(r) => StepsLeft(r)' = StepsLeft(r)
        /\ \A t \in Tasks :
              /\ WorkerStep(r, t) => ThreadStepsLeft(r, t)' < ThreadStepsLeft(r, t)
              /\ ~StepOf(r) => ThreadStepsLeft(r, t)' <= ThreadStepsLeft(r, t)

LEMMA ThreadsGoOn ==
    ASSUME TypeOK, NEW s \in Runs, NEW u \in Tasks, WorkerStep(s, u)
    PROVE  /\ run' = run
           /\ ThreadStepsLeft(s, u)' < ThreadStepsLeft(s, u)
           /\ \A r \in Runs : \A t \in Tasks :
                 r # s \/ t # u => ThreadStepsLeft(r, t)' = ThreadStepsLeft(r, t)
<1>1. PICK state : WorkerMoves(s, u, state) /\ run' = run
                   /\ \/ worker[s][u] = "spawned" /\ state \in {"live", "gave_up"}
                      \/ worker[s][u] = "live" /\ state \in {"succeeded", "failed"}
                      \/ worker[s][u] = "succeeded" /\ state = "card_completed"
                      \/ worker[s][u] = "failed" /\ state = "card_blocked"
                      \/ worker[s][u] = "card_completed" /\ state = "done"
                      \/ worker[s][u] = "card_blocked" /\ state = "gave_up"
  BY StartLaneDoes, FinishLaneDoes, RecordResultDoes, WriteFinalCardDoes DEF WorkerStep
<1>2. worker'[s][u] = state
  BY <1>1 DEF WorkerMoves
<1>3. ThreadStepsLeft(s, u)' < ThreadStepsLeft(s, u)
  BY <1>1, <1>2 DEF ThreadStepsLeft
<1>4. ASSUME NEW r \in Runs, NEW t \in Tasks, r # s \/ t # u
      PROVE  ThreadStepsLeft(r, t)' = ThreadStepsLeft(r, t)
  <2>1. worker'[r][t] = worker[r][t]
    BY <1>1, <1>4 DEF WorkerMoves
  <2> QED BY <2>1 DEF ThreadStepsLeft
<1> QED BY <1>1, <1>3, <1>4

LEMMA OthersStay ==
    ASSUME TypeOK, AtTask, NEW s \in Runs, StepOf(s), NEW r \in Runs, r # s
    PROVE  run'[r] = run[r] /\ \A t \in Tasks : worker'[r][t] = worker[r][t]
<1>1. ASSUME NEW dry \in BOOLEAN, NEW requested \in Requests, StartRun(s, dry, requested)
      PROVE  run'[r] = run[r] /\ worker' = worker
  BY <1>1, StartRunDoes DEF After
<1>2. ASSUME NEW dry \in BOOLEAN, NEW t \in Tasks, NEW priority \in Priorities,
             RunDashboardCard(s, t, dry, priority)
      PROVE  run'[r] = run[r] /\ worker' = worker
  BY <1>2, RunDashboardCardDoes DEF After
<1>3. ASSUME NEW second \in Lanes, Select(s, second)
      PROVE  run'[r] = run[r] /\ worker' = worker
  BY <1>3, SelectDoes DEF After, EndsWith
<1>4. CASE CheckDependencies(s)
  BY <1>4, CheckDependenciesDoes DEF After, MovesTo, EndsWith
<1>5. CASE ClaimSelected(s)
  BY <1>5, ClaimSelectedDoes DEF After, MovesTo, EndsWith
<1>6. CASE WriteClaimedCard(s)
  BY <1>6, WriteClaimedCardDoes DEF After, EndsWith
<1>7. CASE EndClaims(s)
  BY <1>7, EndClaimsDoes DEF After, MovesTo, EndsWith
<1>8. CASE LaunchBatch(s)
  BY <1>8, LaunchBatchDoes DEF After
<1>9. CASE JoinBatch(s)
  BY <1>9, JoinBatchDoes DEF After, MovesTo
<1>10. CASE EndRun(s)
  BY <1>10, EndRunDoes DEF After, EndsWith
<1>11. CASE KillRun(s)
  BY <1>11, KillRunDoes DEF After, MovesTo
<1>12. CASE ThreadPanics(s)
  BY <1>12, ThreadPanicsDoes DEF After, EndsWith
<1>13. CASE WriteDashboardCard(s)
  BY <1>13, WriteDashboardCardDoes DEF After, MovesTo, EndsWith
<1> QED BY <1>1, <1>2, <1>3, <1>4, <1>5, <1>6, <1>7, <1>8, <1>9, <1>10, <1>11, <1>12, <1>13
       DEF StepOf, MainStep

LEMMA NextProgress ==
    ASSUME ClaimInv, IsFiniteSet(Tasks), Next
    PROVE  Progress
<1>1. \/ \E s \in Runs : StepOf(s)
      \/ \E s \in Runs : \E u \in Tasks : WorkerStep(s, u)
      \/ run' = run /\ worker' = worker
  BY DEF Next, StepOf, Command, OperatorSets, OperatorPrioritizes, OperatorCreates
<1>2. \A s \in Runs : StepOf(s) => StepsLeft(s)' < StepsLeft(s) /\ StepsLeft(s) \in Nat
  BY StepsGoOn, RunIsCounted DEF ClaimInv
<1>3. ASSUME NEW s \in Runs, NEW t \in Tasks
      PROVE  ThreadStepsLeft(s, t) \in Nat /\ ThreadStepsLeft(s, t)' \in Nat
  BY DEF ThreadStepsLeft
<1>4. ASSUME NEW r \in Runs, run'[r] = run[r]
      PROVE  StepsLeft(r)' = StepsLeft(r)
  BY <1>4 DEF StepsLeft, Selected
<1>5. ASSUME NEW r \in Runs, NEW t \in Tasks, worker'[r][t] = worker[r][t]
      PROVE  ThreadStepsLeft(r, t)' = ThreadStepsLeft(r, t)
  BY <1>5 DEF ThreadStepsLeft
<1>6. \A s \in Runs : \A u \in Tasks : WorkerStep(s, u) => 
          /\ run' = run
          /\ ThreadStepsLeft(s, u)' < ThreadStepsLeft(s, u)
          /\ \A r \in Runs : \A t \in Tasks :
                r # s \/ t # u => ThreadStepsLeft(r, t)' = ThreadStepsLeft(r, t)
  BY ThreadsGoOn DEF ClaimInv
<1>7. ASSUME NEW r \in Runs, ~StepOf(r)
      PROVE  /\ StepsLeft(r)' = StepsLeft(r)
             /\ \A t \in Tasks : ThreadStepsLeft(r, t)' <= ThreadStepsLeft(r, t)
  <2>1. CASE \E s \in Runs : StepOf(s)
    <3>1. run'[r] = run[r] /\ \A t \in Tasks : worker'[r][t] = worker[r][t]
      BY <1>7, <2>1, OthersStay DEF ClaimInv
    <3> QED BY <1>3, <1>4, <1>5, <3>1
  <2>2. CASE \E s \in Runs : \E u \in Tasks : WorkerStep(s, u)
    <3>1. PICK s \in Runs : \E u \in Tasks : WorkerStep(s, u)
      BY <2>2
    <3>2. PICK u \in Tasks : WorkerStep(s, u)
      BY <3>1
    <3>3. StepsLeft(r)' = StepsLeft(r)
      BY <1>4, <1>6, <3>2
    <3>4. ASSUME NEW t \in Tasks
          PROVE  ThreadStepsLeft(r, t)' <= ThreadStepsLeft(r, t)
      <4>1. CASE r = s /\ t = u
        BY <1>3, <1>6, <3>2, <4>1
      <4>2. CASE r # s \/ t # u
        <5>1. ThreadStepsLeft(r, t)' = ThreadStepsLeft(r, t)
          BY <1>6, <3>2, <4>2
        <5> QED BY <1>3, <5>1
      <4> QED BY <4>1, <4>2
    <3> QED BY <3>3, <3>4
  <2>3. CASE run' = run /\ worker' = worker
    BY <1>3, <1>4, <1>5, <2>3
  <2> QED BY <1>1, <2>1, <2>2, <2>3
<1> QED BY <1>2, <1>6, <1>7 DEF Progress

\* However many runs, operators and threads interleave, each step of a run brings
\* the run nearer to its end and each step of a thread the thread; nothing that
\* another process does sets them back.  A run has 6 * limit + 6 steps at first
\* (run_hermes_selected, launch_hermes_live_lane).
THEOREM RunsGetOn ==
    ASSUME IsFiniteSet(Tasks)
    PROVE  Spec => /\ \A r \in Runs : StepsLeft(r) = 6 * run[r].limit + 6
                   /\ [](\A r \in Runs : StepsLeft(r) \in Nat) /\ [][Progress]_vars
<1>0. Init => \A r \in Runs : StepsLeft(r) = 6 * run[r].limit + 6
  BY DEF Init, StepsLeft, StepsBehind
<1>1. ClaimInv => \A r \in Runs : StepsLeft(r) \in Nat
  BY RunIsCounted DEF ClaimInv
<1>2. ClaimInv /\ [Next]_vars => [Progress]_vars
  BY NextProgress
<1> QED BY <1>0, <1>1, <1>2, ClaimInvAlways, PTL DEF Spec
===============================================================================
