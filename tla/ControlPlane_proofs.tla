------------------------- MODULE ControlPlane_proofs --------------------------
(***************************************************************************)
(* Theorems of ControlPlane, for any number of tasks, projects, stress     *)
(* runs, commands and interactive lanes.                                   *)
(***************************************************************************)
EXTENDS ControlPlane, Induction, FiniteSetTheorems, TLAPS

-----------------------------------------------------------------------------
(* Interactive lanes.                                                      *)

\* What will be typed is logged.
PendingIsLogged ==
    \A keys \in pending :
        /\ [lane |-> keys.lane, message |-> keys.message, dryRun |-> FALSE] \in steering
        /\ keys.message \notin SecretLike

SessionsAreAllocated ==
    /\ launch \in [SessionLanes -> LaunchStage]
    /\ \A lane \in SessionLanes : launch[lane] \in {"allocated", "opened", "launched"} =>
                                      lane \in allocated

InteractiveInv ==
    TypedIsLogged /\ PendingIsLogged /\ SessionsAreAllocated /\ SessionsHaveWorktrees

LEMMA TypingIsLogged ==
    ASSUME TypedIsLogged, PendingIsLogged, InteractiveNext
    PROVE  TypedIsLogged' /\ PendingIsLogged'
<1>1. ASSUME NEW lane \in SessionLanes, NEW request \in SteeringRequests, LogSteering(lane, request)
      PROVE  TypedIsLogged' /\ PendingIsLogged'
  <2>1. /\ typed' = typed /\ steering \subseteq steering'
        /\ request.message \notin SecretLike
        /\ [lane |-> lane, message |-> request.message, dryRun |-> request.dryRun] \in steering'
        /\ \/ pending' = pending
           \/ /\ ~request.dryRun
              /\ pending' = pending \cup {[lane |-> lane, message |-> request.message]}
    BY <1>1 DEF LogSteering, SteeringIsValid
  <2>2. request.dryRun \in BOOLEAN
    BY DEF SteeringRequests
  <2>3. TypedIsLogged'
    BY <2>1 DEF TypedIsLogged
  <2>4. CASE pending' = pending
    BY <2>1, <2>3, <2>4 DEF PendingIsLogged
  <2>5. CASE ~request.dryRun /\ pending' = pending \cup {[lane |-> lane, message |-> request.message]}
    <3> DEFINE key == [lane |-> lane, message |-> request.message]
    <3>1. request.dryRun = FALSE
      BY <2>2, <2>5
    <3>2. key.lane = lane /\ key.message = request.message
      OBVIOUS
    <3>3. [lane |-> key.lane, message |-> key.message, dryRun |-> FALSE] \in steering'
      BY <2>1, <3>1, <3>2
    <3>4. pending' = pending \cup {key}
      BY <2>5
    <3> HIDE DEF key
    <3>5. PendingIsLogged'
      BY <2>1, <3>2, <3>3, <3>4 DEF PendingIsLogged
    <3> QED BY <2>3, <3>5
  <2> QED BY <2>1, <2>4, <2>5
<1>2. ASSUME NEW keys \in pending, TypeMessage(keys)
      PROVE  TypedIsLogged' /\ PendingIsLogged'
  BY <1>2 DEF TypeMessage, TypedIsLogged, PendingIsLogged
<1>3. ASSUME NEW lane \in SessionLanes,
             \/ AllocateInteractiveLane(lane) \/ OpenSession(lane) \/ RecordSession(lane)
             \/ SessionEnds(lane) \/ Teardown(lane)
      PROVE  TypedIsLogged' /\ PendingIsLogged'
  <2>1. UNCHANGED <<steering, pending, typed>>
    BY <1>3 DEF AllocateInteractiveLane, OpenSession, RecordSession, SessionEnds, Teardown,
                LaunchFails
  <2> QED BY <2>1 DEF TypedIsLogged, PendingIsLogged
<1> QED BY <1>1, <1>2, <1>3 DEF InteractiveNext, InteractiveCommand, InteractiveStep

LEMMA LaunchesAreAllocated ==
    ASSUME SessionsAreAllocated, SessionsHaveWorktrees, InteractiveNext
    PROVE  SessionsAreAllocated' /\ SessionsHaveWorktrees'
<1> USE DEF SessionsAreAllocated, SessionsHaveWorktrees, LaunchStage
<1>1. ASSUME NEW lane \in SessionLanes, AllocateInteractiveLane(lane)
      PROVE  SessionsAreAllocated' /\ SessionsHaveWorktrees'
  BY <1>1 DEF AllocateInteractiveLane
<1>2. ASSUME NEW lane \in SessionLanes, OpenSession(lane)
      PROVE  SessionsAreAllocated' /\ SessionsHaveWorktrees'
  BY <1>2 DEF OpenSession, LaunchFails
<1>3. ASSUME NEW lane \in SessionLanes, RecordSession(lane)
      PROVE  SessionsAreAllocated' /\ SessionsHaveWorktrees'
  BY <1>3 DEF RecordSession, LaunchFails
<1>4. ASSUME NEW lane \in SessionLanes, SessionEnds(lane) \/ Teardown(lane)
      PROVE  SessionsAreAllocated' /\ SessionsHaveWorktrees'
  BY <1>4 DEF SessionEnds, Teardown
<1>5. ASSUME \/ \E lane \in SessionLanes, request \in SteeringRequests : LogSteering(lane, request)
             \/ \E keys \in pending : TypeMessage(keys)
      PROVE  SessionsAreAllocated' /\ SessionsHaveWorktrees'
  BY <1>5 DEF LogSteering, TypeMessage
<1> QED BY <1>1, <1>2, <1>3, <1>4, <1>5 DEF InteractiveNext, InteractiveCommand, InteractiveStep

\* What the interactive lanes do does not depend on the rest of the control plane.
LEMMA InteractiveSteps == [Next]_vars => [InteractiveNext]_interactive
<1>1. ASSUME TaskCommand \/ BoardSyncs \/ LaneSyncs
      PROVE  UNCHANGED interactive
  BY <1>1 DEF TaskCommand, BoardSyncs, LaneSyncs
<1> QED BY <1>1 DEF Next, InteractiveWork, InteractiveNext, vars

\* What will be typed is logged already, and a session is opened in a worktree only.
LEMMA InteractiveInvAlways == Spec => []InteractiveInv
<1>1. Init => InteractiveInv
  BY DEF Init, InteractiveInit, InteractiveInv, TypedIsLogged, PendingIsLogged,
         SessionsAreAllocated, SessionsHaveWorktrees, LaunchStage
<1>2. InteractiveInv /\ [Next]_vars => InteractiveInv'
  <2>1. ASSUME InteractiveInv, InteractiveNext
        PROVE  InteractiveInv'
    BY <2>1, TypingIsLogged, LaunchesAreAllocated DEF InteractiveInv
  <2>2. ASSUME InteractiveInv, UNCHANGED interactive
        PROVE  InteractiveInv'
    BY <2>2 DEF InteractiveInv, interactive, TypedIsLogged, PendingIsLogged,
                SessionsAreAllocated, SessionsHaveWorktrees
  <2> QED BY <2>1, <2>2, InteractiveSteps
<1> QED BY <1>1, <1>2, PTL DEF Spec

\* Whatever is typed into a session was logged for the lane it was meant for.
THEOREM TypedIsLoggedAlways == Spec => []TypedIsLogged
<1>1. InteractiveInv => TypedIsLogged
  BY DEF InteractiveInv
<1> QED BY <1>1, InteractiveInvAlways, PTL

\* A session and a session record have a worktree.
THEOREM SessionsHaveWorktreesAlways == Spec => []SessionsHaveWorktrees
<1>1. InteractiveInv => SessionsHaveWorktrees
  BY DEF InteractiveInv
<1> QED BY <1>1, InteractiveInvAlways, PTL
-----------------------------------------------------------------------------
(* Stress runs: what they are made of.                                     *)

Seen == UNION {[existing -> TaskStatus] : existing \in SUBSET Tasks}

Reservations == [ lane     : Lanes,
                  task     : Tasks,
                  adapter  : {"pi-paid-cloud", "pi-local"},
                  cost     : {"Paid", "Local"},
                  areas    : SUBSET Lanes,
                  group    : SUBSET Lanes,
                  lockfile : BOOLEAN ]

StressRun == [stage : Stage, at : Nat, seen : Seen, reserved : SUBSET Reservations]

\* The stages at which a run is with a project, and those at which it holds it.
AtProject == {"mark", "admit", "claim", "allocate", "complete", "card"}
Holding   == {"allocate", "complete", "card"}
OnTree    == {"complete", "card"}

RecordsTyped ==
    /\ DOMAIN records \subseteq Tasks /\ \A t \in DOMAIN records : records[t] \in TaskRecord
    /\ deps \in [Tasks -> SUBSET Tasks] /\ replaced \subseteq DOMAIN records

StressTyped ==
    /\ stress \in [StressRuns -> StressRun]
    /\ \A x \in StressRuns :
          /\ DOMAIN stress[x].seen \subseteq DOMAIN records
          /\ stress[x].at # 0
          /\ stress[x].stage = "idle" => stress[x].at = 1
          /\ stress[x].stage \in AtProject => stress[x].at \in 1 .. Len(Projects)

Typed == RecordsTyped /\ StressTyped

LEMMA ProjectIsLane ==
    ASSUME Typed, NEW x \in StressRuns, stress[x].at \in 1 .. Len(Projects)
    PROVE  ProjectAt(x) \in Lanes /\ ProjectAt(x) # NoLane
  BY ProjectsAreLanes, NoLaneIsNoLane DEF ProjectAt

\* The tasks of the listing of a run exist, and one is the first of its project.
LEMMA TaskIsOne ==
    ASSUME Typed, NEW x \in StressRuns
    PROVE  /\ TaskAt(x) \subseteq DOMAIN records /\ TaskAt(x) \subseteq Tasks
           /\ \A t \in TaskAt(x) : records[t] \in TaskRecord
           /\ \A t, u \in TaskAt(x) : t = u
<1>1. TaskAt(x) \subseteq DOMAIN stress[x].seen
  BY DEF TaskAt
<1>2. TaskAt(x) \subseteq DOMAIN records /\ TaskAt(x) \subseteq Tasks
  BY <1>1 DEF Typed, StressTyped, RecordsTyped
<1>3. \A t, u \in TaskAt(x) : Rank[t] <= Rank[u] /\ Rank[u] <= Rank[t]
  BY DEF TaskAt
<1>4. \A t, u \in TaskAt(x) : Rank[t] \in Nat /\ Rank[u] \in Nat
  BY <1>2, RankOrdersTasks
<1>5. \A t, u \in TaskAt(x) : Rank[t] = Rank[u]
  BY <1>3, <1>4
<1>6. \A t, u \in TaskAt(x) : t = u
  BY <1>2, <1>5, RankOrdersTasks
<1> QED BY <1>2, <1>6 DEF Typed, RecordsTyped
-----------------------------------------------------------------------------
\* What a step leaves of the stress run it belongs to.
After(x, stage, at, reserved) ==
    /\ stress'[x].stage = stage
    /\ stress'[x].at = at
    /\ stress'[x].reserved = reserved
    /\ stress'[x].seen = stress[x].seen
    /\ \A y \in StressRuns : y # x => stress'[y] = stress[y]

LEMMA TurnIsWritten ==
    ASSUME Typed, NEW x \in StressRuns, NEW at \in Nat, NEW stage \in Stage,
           stress' = [stress EXCEPT ![x] = Turn(x, at, stage)]
    PROVE  After(x, stage, at, stress[x].reserved) /\ stress' \in [StressRuns -> StressRun]
<1>1. stress \in [StressRuns -> StressRun] /\ stress[x] \in StressRun
  BY DEF Typed, StressTyped
<1>2. stress'[x] = [stress[x] EXCEPT !.at = at, !.stage = stage]
  BY <1>1 DEF Turn
<1>3. \A y \in StressRuns : y # x => stress'[y] = stress[y]
  BY <1>1
<1>4. Turn(x, at, stage) \in StressRun
  BY <1>1 DEF Turn, StressRun
<1>5. stress' \in [StressRuns -> StressRun]
  BY <1>1, <1>4
<1> QED BY <1>1, <1>2, <1>3, <1>5 DEF After, StressRun

LEMMA GoingOnIsWritten ==
    ASSUME Typed, NEW x \in StressRuns, NEW stage \in Stage, GoesTo(x, stage)
    PROVE  /\ After(x, stage, stress[x].at, stress[x].reserved)
           /\ stress' \in [StressRuns -> StressRun]
<1>1. stress[x].at \in Nat
  BY DEF Typed, StressTyped, StressRun
<1> QED BY <1>1, TurnIsWritten DEF GoesTo

\* Next project: another one, or the end.
LEMMA NextProjectIsWritten ==
    ASSUME Typed, NEW x \in StressRuns, NextProject(x), stress[x].stage \in AtProject
    PROVE  /\ \/ /\ After(x, "mark", stress[x].at + 1, stress[x].reserved)
                 /\ stress[x].at + 1 \in 1 .. Len(Projects)
              \/ After(x, "done", stress[x].at + 1, stress[x].reserved)
           /\ stress' \in [StressRuns -> StressRun]
<1>1. stress[x].at \in 1 .. Len(Projects) /\ Len(Projects) \in Nat
  BY ProjectsAreLanes DEF Typed, StressTyped
<1>2. stress[x].at + 1 \in Nat /\ "mark" \in Stage /\ "done" \in Stage
  BY <1>1 DEF Stage
<1>3. CASE stress[x].at = Len(Projects)
  <2>1. stress' = [stress EXCEPT ![x] = Turn(x, stress[x].at + 1, "done")]
    BY <1>3 DEF NextProject
  <2> QED BY <1>2, <2>1, TurnIsWritten
<1>4. CASE stress[x].at # Len(Projects)
  <2>1. stress' = [stress EXCEPT ![x] = Turn(x, stress[x].at + 1, "mark")]
    BY <1>4 DEF NextProject
  <2>2. stress[x].at + 1 \in 1 .. Len(Projects)
    BY <1>1, <1>4
  <2> QED BY <1>2, <2>1, <2>2, TurnIsWritten
<1> QED BY <1>3, <1>4
-----------------------------------------------------------------------------
\* What can happen to the records: none is lost, and of one that no create
\* command overwrites the lane stays, and completion, and the dependencies.
RecordsMove ==
    /\ RecordsTyped'
    /\ DOMAIN records \subseteq DOMAIN records' /\ replaced \subseteq replaced'
    /\ \A t \in DOMAIN records \ replaced' :
          /\ deps'[t] = deps[t]
          /\ records[t].lane # NoLane => records'[t].lane = records[t].lane
          /\ records[t].status = "Completed" => records'[t].status = "Completed"

\* Only a claim gives a lane to a task that has none.
NoLaneGiven ==
    \A t \in DOMAIN records' : records'[t].lane # NoLane =>
        t \in DOMAIN records /\ records[t].lane = records'[t].lane

LEMMA OneRecordMoves ==
    ASSUME RecordsTyped, NEW t \in DOMAIN records, NEW record \in TaskRecord,
           records[t].lane # NoLane => record.lane = records[t].lane,
           records[t].status = "Completed" => record.status = "Completed",
           records' = [records EXCEPT ![t] = record], UNCHANGED <<deps, replaced>>
    PROVE  /\ RecordsMove
           /\ record.lane = records[t].lane => NoLaneGiven
<1>1. DOMAIN records' = DOMAIN records /\ records'[t] = record
      /\ \A u \in DOMAIN records : u # t => records'[u] = records[u]
  OBVIOUS
<1> QED BY <1>1 DEF RecordsMove, RecordsTyped, NoLaneGiven

LEMMA StatusCanChange ==
    ASSUME NEW record \in TaskRecord, NEW status \in TaskStatus, CanSetStatus(record, status)
    PROVE  /\ record.status # "Completed"
           /\ WithStatus(record, status) \in TaskRecord
           /\ WithStatus(record, status).lane = record.lane
           /\ WithStatus(record, status).status = status
  BY DEF CanSetStatus, CanTaskTransition, TaskSuccessors, TaskRecord, TaskStatus, WithStatus

LEMMA CommandsMoveRecords ==
    ASSUME Typed, TaskCommand
    PROVE  /\ RecordsMove /\ NoLaneGiven
           /\ UNCHANGED <<stress, worktrees, cardFiles>>
<1>0. RecordsTyped
  BY DEF Typed
<1>1. ASSUME NEW t \in Tasks, NEW record \in NewTaskRecords, CreatesTask(t, record)
      PROVE  RecordsMove /\ NoLaneGiven
  <2>1. record \in TaskRecord /\ record.lane = NoLane
    BY DEF NewTaskRecords, NewRecord, TaskRecord, TaskStatus, ReadinessState
  <2>2. /\ DOMAIN records' = DOMAIN records \cup {t}
        /\ records'[t] = record
        /\ \A u \in DOMAIN records : u # t => records'[u] = records[u]
        /\ replaced' = replaced \cup ({t} \cap DOMAIN records)
    BY <1>1 DEF CreatesTask
  <2>3. PICK needed \in Needs(t, record) : deps' = [deps EXCEPT ![t] = needed]
    BY <1>1 DEF CreatesTask
  <2>4. needed \in SUBSET Tasks
    BY <2>3, DependenciesAreTasks DEF Needs
  <2>5. deps' \in [Tasks -> SUBSET Tasks] /\ \A u \in Tasks : u # t => deps'[u] = deps[u]
    BY <1>0, <2>3, <2>4 DEF RecordsTyped
  <2>6. RecordsTyped'
    BY <1>0, <2>1, <2>2, <2>5 DEF RecordsTyped
  <2>7. \A u \in DOMAIN records \ replaced' : u # t /\ u \in Tasks
    BY <1>0, <2>2 DEF RecordsTyped
  <2> QED BY <2>1, <2>2, <2>5, <2>6, <2>7 DEF RecordsMove, NoLaneGiven
<1>2. ASSUME NEW t \in DOMAIN records, NEW status \in {"Blocked", "Cancelled", "Completed", "Queued"},
             SetsStatus(t, status)
      PROVE  RecordsMove /\ NoLaneGiven
  <2>1. records[t] \in TaskRecord /\ status \in TaskStatus
    BY <1>0 DEF RecordsTyped, TaskStatus
  <2>2. /\ CanSetStatus(records[t], status)
        /\ records' = [records EXCEPT ![t] = WithStatus(records[t], status)]
        /\ UNCHANGED <<deps, replaced>>
    BY <1>2 DEF SetsStatus, ChangesRecord
  <2>3. /\ records[t].status # "Completed"
        /\ WithStatus(records[t], status) \in TaskRecord
        /\ WithStatus(records[t], status).lane = records[t].lane
    BY <2>1, <2>2, StatusCanChange
  <2> QED BY <1>0, <2>2, <2>3, OneRecordMoves
<1>3. ASSUME NEW t \in DOMAIN records, NEW priority \in Priorities, Prioritizes(t, priority)
      PROVE  RecordsMove /\ NoLaneGiven
  <2>1. records[t] \in TaskRecord
    BY <1>0 DEF RecordsTyped
  <2>2. /\ WithPriority(records[t], priority) \in TaskRecord
        /\ WithPriority(records[t], priority).lane = records[t].lane
        /\ WithPriority(records[t], priority).status = records[t].status
    BY <2>1 DEF WithPriority, TaskRecord
  <2>3. records' = [records EXCEPT ![t] = WithPriority(records[t], priority)]
        /\ UNCHANGED <<deps, replaced>>
    BY <1>3 DEF Prioritizes, ChangesRecord
  <2> QED BY <1>0, <2>2, <2>3, OneRecordMoves
<1>4. UNCHANGED <<stress, worktrees, cardFiles>>
  BY DEF TaskCommand, CreatesTask, SetsStatus, Prioritizes, ChangesRecord
<1> QED BY <1>1, <1>2, <1>3, <1>4 DEF TaskCommand
-----------------------------------------------------------------------------
\* What each step of a stress run does.
LEMMA StressStartsDoes ==
    ASSUME Typed, NEW x \in StressRuns, StressStarts(x)
    PROVE  /\ stress[x].stage = "idle"
           /\ \/ stress'[x].stage = "mark" /\ 1 \in 1 .. Len(Projects)
              \/ stress'[x].stage = "failed"
           /\ stress'[x].at = 1 /\ stress'[x].reserved = stress[x].reserved
           /\ DOMAIN stress'[x].seen = DOMAIN records
           /\ \A y \in StressRuns : y # x => stress'[y] = stress[y]
           /\ stress' \in [StressRuns -> StressRun]
           /\ UNCHANGED <<records, deps, replaced, worktrees, cardFiles>>
<1> DEFINE seen  == [t \in DOMAIN records |-> records[t].status]
           stage == IF /\ Len(Projects) >= MinProjects
                       /\ Cardinality(DOMAIN records) >= MinProjects
                    THEN "mark" ELSE "failed"
<1>1. /\ stress \in [StressRuns -> StressRun] /\ stress[x] \in StressRun
      /\ stress[x].stage = "idle" /\ stress[x].at = 1
  BY DEF Typed, StressTyped, StressStarts
<1>2. seen \in Seen /\ DOMAIN seen = DOMAIN records
  <2>1. DOMAIN records \in SUBSET Tasks /\ \A t \in DOMAIN records : records[t].status \in TaskStatus
    BY DEF Typed, RecordsTyped, TaskRecord
  <2>2. seen \in [DOMAIN records -> TaskStatus]
    BY <2>1
  <2> QED BY <2>1, <2>2 DEF Seen
<1>3. stage \in {"mark", "failed"} /\ stage \in Stage
  BY DEF Stage
<1>4. stage = "mark" => 1 \in 1 .. Len(Projects)
  BY ProjectsAreLanes, LimitsAreNats
<1>5. stress' = [stress EXCEPT ![x].seen = seen, ![x].stage = stage]
  BY DEF StressStarts
<1> HIDE DEF seen, stage
<1>6. stress'[x] = [stress[x] EXCEPT !.seen = seen, !.stage = stage]
  BY <1>1, <1>5
<1>7. stress'[x] \in StressRun
  BY <1>1, <1>2, <1>3, <1>6 DEF StressRun
<1>8. \A y \in StressRuns : y # x => stress'[y] = stress[y]
  BY <1>1, <1>5
<1>9. stress' \in [StressRuns -> StressRun]
  BY <1>1, <1>5, <1>6, <1>7
<1>10. /\ stress'[x].stage = stage /\ stress'[x].at = 1
       /\ stress'[x].reserved = stress[x].reserved /\ stress'[x].seen = seen
  BY <1>1, <1>6 DEF StressRun
<1>11. UNCHANGED <<records, deps, replaced, worktrees, cardFiles>>
  BY DEF StressStarts
<1> QED BY <1>1, <1>2, <1>3, <1>4, <1>8, <1>9, <1>10, <1>11

Fails(x) ==
    /\ After(x, "failed", stress[x].at, stress[x].reserved)
    /\ stress' \in [StressRuns -> StressRun]

LEMMA FailureIsWritten ==
    ASSUME Typed, NEW x \in StressRuns, GoesTo(x, "failed")
    PROVE  Fails(x)
  BY GoingOnIsWritten DEF Fails, Stage

LEMMA StressMarksDoes ==
    ASSUME Typed, NEW x \in StressRuns, StressMarks(x)
    PROVE  /\ stress[x].stage = "mark"
           /\ RecordsMove /\ NoLaneGiven
           /\ UNCHANGED <<worktrees, cardFiles>>
           /\ \/ NextProject(x)
              \/ /\ After(x, "admit", stress[x].at, stress[x].reserved)
                 /\ stress' \in [StressRuns -> StressRun]
              \/ Fails(x)
<1>0. RecordsTyped
  BY DEF Typed
<1>1. "admit" \in Stage /\ UNCHANGED <<deps, replaced>>
  BY DEF Stage, StressMarks
<1>2. ASSUME UNCHANGED records
      PROVE  RecordsMove /\ NoLaneGiven
  BY <1>0, <1>1, <1>2 DEF RecordsMove, NoLaneGiven, RecordsTyped
<1>3. ASSUME NEW t \in TaskAt(x), CanMarkReady(records[t]),
             records' = [records EXCEPT ![t] = MarkedReady(@)]
      PROVE  RecordsMove /\ NoLaneGiven
  <2>1. t \in DOMAIN records /\ records[t] \in TaskRecord
    BY TaskIsOne
  <2>2. /\ MarkedReady(records[t]) \in TaskRecord
        /\ MarkedReady(records[t]).lane = records[t].lane
        /\ records[t].status # "Completed"
    BY <1>3, <2>1 DEF MarkedReady, CanMarkReady, TaskRecord, TaskStatus, ReadinessState
  <2> QED BY <1>0, <1>1, <1>3, <2>1, <2>2, OneRecordMoves
<1>4. \/ NextProject(x) \/ Fails(x)
      \/ /\ After(x, "admit", stress[x].at, stress[x].reserved)
         /\ stress' \in [StressRuns -> StressRun]
  BY <1>1, GoingOnIsWritten, FailureIsWritten DEF StressMarks
<1>5. RecordsMove /\ NoLaneGiven
  BY <1>2, <1>3 DEF StressMarks
<1> QED BY <1>4, <1>5 DEF StressMarks

NewReservation(x, t) == Reservation(CandidateAt(x, t), ProjectAt(x))

LEMMA ReservationIsTyped ==
    ASSUME Typed, NEW x \in StressRuns, NEW t \in TaskAt(x), ProjectAt(x) \in Lanes
    PROVE  /\ NewReservation(x, t) \in Reservations
           /\ NewReservation(x, t).lane = ProjectAt(x)
           /\ NewReservation(x, t).task = t
           /\ NewReservation(x, t).cost = CandidateAt(x, t).cost
           /\ NewReservation(x, t).areas = {ProjectAt(x)}
           /\ NewReservation(x, t).group = {ProjectAt(x)}
           /\ NewReservation(x, t).lockfile = CandidateAt(x, t).lockfile
<1> DEFINE candidate == CandidateAt(x, t)
<1>1. t \in Tasks
  BY TaskIsOne
<1>2. /\ candidate.task = t /\ candidate.areas = {ProjectAt(x)}
      /\ candidate.group = {ProjectAt(x)}
  BY DEF CandidateAt
<1>3. candidate.lockfile \in BOOLEAN
  BY DEF CandidateAt
<1>4. candidate.adapter \in {"pi-paid-cloud", "pi-local"} /\ candidate.cost \in {"Paid", "Local"}
  <2>1. /\ candidate.adapter = IF stress[x].at = 1 THEN "pi-paid-cloud" ELSE "pi-local"
        /\ candidate.cost = IF stress[x].at = 1 THEN "Paid" ELSE "Local"
    BY DEF CandidateAt
  <2> HIDE DEF candidate
  <2>3. candidate.adapter \in {"pi-paid-cloud", "pi-local"}
    BY <2>1
  <2>4. candidate.cost \in {"Paid", "Local"}
    BY <2>1
  <2> QED BY <2>3, <2>4
<1> HIDE DEF candidate
<1>5. NewReservation(x, t) = Reservation(candidate, ProjectAt(x))
  BY DEF NewReservation, candidate
<1>6. Reservation(candidate, ProjectAt(x)) \in Reservations
  BY <1>1, <1>2, <1>3, <1>4 DEF Reservation, Reservations
<1> QED BY <1>2, <1>5, <1>6 DEF Reservation, candidate

\* What there is to wait for: the dependencies, the governor, the planner.
LEMMA AdmissionMeans ==
    ASSUME NEW x \in StressRuns, NEW t \in TaskAt(x), AdmissionWaitsAt(x, t) = {}
    PROVE  /\ UnmetDependencies(records, deps, t) = {}
           /\ Governor(Limits, stress[x].reserved, CandidateAt(x, t)) = {}
           /\ Planner(stress[x].reserved, CandidateAt(x, t)) = {}
<1>1. CandidateAt(x, t).task = t
  BY DEF CandidateAt
<1> QED BY <1>1 DEF AdmissionWaitsAt, AdmissionWaits

LEMMA StressAdmitsDoes ==
    ASSUME Typed, NEW x \in StressRuns, StressAdmits(x)
    PROVE  /\ stress[x].stage = "admit"
           /\ UNCHANGED <<records, deps, replaced, worktrees, cardFiles>>
           /\ \/ Fails(x)
              \/ /\ After(x, "claim", stress[x].at, stress[x].reserved)
                 /\ stress' \in [StressRuns -> StressRun]
                 /\ \A t \in TaskAt(x) : AdmissionWaitsAt(x, t) = {}
<1>1. "claim" \in Stage
  BY DEF Stage
<1>2. PICK t \in TaskAt(x) : GoesTo(x, IF AdmissionWaitsAt(x, t) = {} THEN "claim" ELSE "failed")
  BY DEF StressAdmits
<1>3. \A u \in TaskAt(x) : u = t
  BY TaskIsOne
<1>4. CASE AdmissionWaitsAt(x, t) = {}
  <2>1. GoesTo(x, "claim") /\ \A u \in TaskAt(x) : AdmissionWaitsAt(x, u) = {}
    BY <1>2, <1>3, <1>4
  <2> QED BY <1>1, <2>1, GoingOnIsWritten DEF StressAdmits
<1>5. CASE AdmissionWaitsAt(x, t) # {}
  <2>1. GoesTo(x, "failed")
    BY <1>2, <1>5
  <2> QED BY <2>1, FailureIsWritten DEF StressAdmits
<1> QED BY <1>4, <1>5

LEMMA StressClaimsDoes ==
    ASSUME Typed, NEW x \in StressRuns, StressClaims(x)
    PROVE  /\ stress[x].stage = "claim"
           /\ UNCHANGED <<deps, replaced, worktrees, cardFiles>>
           /\ \/ Fails(x) /\ UNCHANGED records
              \/ \E t \in TaskAt(x) :
                    /\ CanClaim(records[t])
                    /\ records' = [records EXCEPT ![t] = Claimed(records[t], ProjectAt(x))]
                    /\ After(x, "allocate", stress[x].at,
                             stress[x].reserved \cup {NewReservation(x, t)})
                    /\ stress' \in [StressRuns -> StressRun]
<1>1. /\ stress \in [StressRuns -> StressRun] /\ stress[x] \in StressRun
      /\ stress[x].stage = "claim" /\ stress[x].at \in 1 .. Len(Projects)
      /\ UNCHANGED <<deps, replaced, worktrees, cardFiles>>
  BY DEF Typed, StressTyped, StressClaims, AtProject
<1>2. ASSUME NEW t \in TaskAt(x), CanClaim(records[t]),
             records' = [records EXCEPT ![t] = Claimed(@, LaneOf(ProjectAt(x)))],
             stress' = [stress EXCEPT
                   ![x].stage = "allocate",
                   ![x].reserved = @ \cup {Reservation(CandidateAt(x, t), LaneOf(ProjectAt(x)))}]
      PROVE  /\ records' = [records EXCEPT ![t] = Claimed(records[t], ProjectAt(x))]
             /\ After(x, "allocate", stress[x].at,
                      stress[x].reserved \cup {NewReservation(x, t)})
             /\ stress' \in [StressRuns -> StressRun]
  <2> DEFINE reserved == stress[x].reserved \cup {NewReservation(x, t)}
  <2>1. stress' = [stress EXCEPT ![x].stage = "allocate", ![x].reserved = reserved]
    BY <1>1, <1>2 DEF NewReservation, LaneOf
  <2>2. reserved \in SUBSET Reservations
    BY <1>1, ProjectIsLane, ReservationIsTyped DEF StressRun
  <2> HIDE DEF reserved
  <2>3. stress'[x] = [stress[x] EXCEPT !.stage = "allocate", !.reserved = reserved]
    BY <1>1, <2>1
  <2>4. stress'[x] \in StressRun
    BY <1>1, <2>2, <2>3 DEF StressRun, Stage
  <2>5. stress' \in [StressRuns -> StressRun]
    BY <1>1, <2>1, <2>3, <2>4
  <2>6. \A y \in StressRuns : y # x => stress'[y] = stress[y]
    BY <1>1, <2>1
  <2>7. After(x, "allocate", stress[x].at, reserved)
    BY <1>1, <2>3, <2>6 DEF After, StressRun
  <2>8. records' = [records EXCEPT ![t] = Claimed(records[t], ProjectAt(x))]
    BY <1>2, TaskIsOne DEF LaneOf
  <2> QED BY <2>5, <2>7, <2>8 DEF reserved
<1> QED BY <1>1, <1>2, FailureIsWritten DEF StressClaims

LEMMA StressAllocatesDoes ==
    ASSUME Typed, NEW x \in StressRuns, StressAllocates(x)
    PROVE  /\ stress[x].stage = "allocate"
           /\ UNCHANGED <<records, deps, replaced, cardFiles>>
           /\ \/ Fails(x) /\ UNCHANGED worktrees
              \/ /\ ProjectAt(x) \notin worktrees
                 /\ worktrees' = worktrees \cup {ProjectAt(x)}
                 /\ After(x, "complete", stress[x].at, stress[x].reserved)
                 /\ stress' \in [StressRuns -> StressRun]
<1>1. "complete" \in Stage
  BY DEF Stage
<1> QED BY <1>1, GoingOnIsWritten, FailureIsWritten DEF StressAllocates, LaneOf

LEMMA StressCompletesDoes ==
    ASSUME Typed, NEW x \in StressRuns, StressCompletes(x)
    PROVE  /\ stress[x].stage = "complete"
           /\ UNCHANGED <<worktrees, cardFiles>>
           /\ RecordsMove /\ NoLaneGiven
           /\ \/ Fails(x)
              \/ /\ After(x, "card", stress[x].at, stress[x].reserved)
                 /\ stress' \in [StressRuns -> StressRun]
                 /\ \A t \in TaskAt(x) : records'[t].status = "Completed"
<1>0. RecordsTyped /\ "card" \in Stage /\ UNCHANGED <<deps, replaced>>
  BY DEF Typed, Stage, StressCompletes
<1>1. PICK t \in TaskAt(x) :
          \/ /\ CanSetStatus(records[t], "Completed")
             /\ records' = [records EXCEPT ![t] = WithStatus(@, "Completed")]
             /\ GoesTo(x, "card")
          \/ /\ ~CanSetStatus(records[t], "Completed")
             /\ GoesTo(x, "failed") /\ UNCHANGED records
  BY DEF StressCompletes
<1>2. t \in DOMAIN records /\ records[t] \in TaskRecord /\ \A u \in TaskAt(x) : u = t
  BY TaskIsOne
<1>3. CASE /\ CanSetStatus(records[t], "Completed")
           /\ records' = [records EXCEPT ![t] = WithStatus(@, "Completed")]
           /\ GoesTo(x, "card")
  <2>1. /\ records[t].status # "Completed"
        /\ WithStatus(records[t], "Completed") \in TaskRecord
        /\ WithStatus(records[t], "Completed").lane = records[t].lane
        /\ WithStatus(records[t], "Completed").status = "Completed"
    BY <1>2, <1>3, StatusCanChange DEF TaskStatus
  <2>2. RecordsMove /\ NoLaneGiven
    BY <1>0, <1>2, <1>3, <2>1, OneRecordMoves
  <2>3. records'[t].status = "Completed"
    BY <1>2, <1>3, <2>1
  <2> QED BY <1>0, <1>2, <1>3, <2>2, <2>3, GoingOnIsWritten DEF StressCompletes
<1>4. CASE GoesTo(x, "failed") /\ UNCHANGED records
  BY <1>0, <1>4, FailureIsWritten DEF StressCompletes, RecordsMove, NoLaneGiven, RecordsTyped
<1> QED BY <1>1, <1>3, <1>4

LEMMA StressWritesCardDoes ==
    ASSUME Typed, NEW x \in StressRuns, StressWritesCard(x)
    PROVE  /\ stress[x].stage = "card"
           /\ UNCHANGED <<records, deps, replaced, worktrees>>
           /\ \/ Fails(x) /\ UNCHANGED cardFiles
              \/ \E t \in TaskAt(x) :
                    /\ cardFiles' = {file \in cardFiles : file.lane # ProjectAt(x)}
                                    \cup {[lane |-> ProjectAt(x), task |-> t]}
                    /\ NextProject(x)
  BY FailureIsWritten DEF StressWritesCard, LaneOf

LEMMA StressDiesDoes ==
    ASSUME Typed, NEW x \in StressRuns, StressDies(x)
    PROVE  /\ stress[x].stage \notin {"idle", "done", "failed"}
           /\ Fails(x)
           /\ UNCHANGED <<records, deps, replaced, worktrees, cardFiles>>
  BY FailureIsWritten DEF StressDies

LEMMA BoardIsApart ==
    ASSUME BoardSyncs \/ LaneSyncs \/ InteractiveWork
    PROVE  UNCHANGED <<records, deps, replaced, stress, worktrees, cardFiles>>
  BY DEF BoardSyncs, LaneSyncs, InteractiveWork, fleet
-----------------------------------------------------------------------------
(* Every step, as far as the stress runs are concerned.                    *)

Quiet == RecordsMove /\ NoLaneGiven /\ UNCHANGED <<stress, worktrees, cardFiles>>

LEMMA StepCases ==
    ASSUME Typed, [Next]_vars
    PROVE  \/ Quiet
           \/ \E x \in StressRuns :
                 \/ StressStarts(x) \/ StressMarks(x) \/ StressAdmits(x) \/ StressClaims(x)
                 \/ StressAllocates(x) \/ StressCompletes(x) \/ StressWritesCard(x) \/ StressDies(x)
<1>1. ASSUME UNCHANGED <<records, deps, replaced, stress, worktrees, cardFiles>>
      PROVE  Quiet
  BY <1>1 DEF Quiet, RecordsMove, NoLaneGiven, Typed, RecordsTyped
<1>2. CASE UNCHANGED vars
  BY <1>1, <1>2 DEF vars, fleet
<1>3. CASE TaskCommand
  BY <1>3, CommandsMoveRecords DEF Quiet
<1>4. CASE BoardSyncs \/ LaneSyncs \/ InteractiveWork
  BY <1>1, <1>4, BoardIsApart
<1> QED BY <1>2, <1>3, <1>4 DEF Next, StressStep

LEMMA ClaimMovesRecords ==
    ASSUME Typed, NEW x \in StressRuns, NEW t \in TaskAt(x), CanClaim(records[t]),
           ProjectAt(x) \in Lanes,
           records' = [records EXCEPT ![t] = Claimed(records[t], ProjectAt(x))],
           UNCHANGED <<deps, replaced>>
    PROVE  /\ RecordsMove
           /\ records'[t].lane = ProjectAt(x)
           /\ DOMAIN records' = DOMAIN records
           /\ \A u \in DOMAIN records : u # t => records'[u] = records[u]
<1>1. t \in DOMAIN records /\ records[t] \in TaskRecord /\ RecordsTyped
  BY TaskIsOne DEF Typed
<1>2. /\ Claimed(records[t], ProjectAt(x)) \in TaskRecord
      /\ records[t].lane = NoLane /\ records[t].status # "Completed"
      /\ Claimed(records[t], ProjectAt(x)).lane = ProjectAt(x)
  BY <1>1 DEF Claimed, CanClaim, TaskRecord, TaskStatus
<1>3. RecordsMove
  BY <1>1, <1>2, OneRecordMoves
<1> QED BY <1>1, <1>2, <1>3

\* Typed is inductive, and records only move on.
LEMMA StepMovesRecords ==
    ASSUME Typed, [Next]_vars
    PROVE  Typed' /\ RecordsMove
<1>0. RecordsTyped /\ StressTyped
  BY DEF Typed
<1>1. ASSUME UNCHANGED <<records, deps, replaced>>
      PROVE  RecordsMove
  BY <1>0, <1>1 DEF RecordsMove, RecordsTyped
<1>2. ASSUME NEW x \in StressRuns, RecordsMove, stress' \in [StressRuns -> StressRun],
             DOMAIN stress'[x].seen \subseteq DOMAIN records,
             stress'[x].stage # "idle", stress'[x].at # 0,
             stress'[x].stage \in AtProject => stress'[x].at \in 1 .. Len(Projects),
             \A y \in StressRuns : y # x => stress'[y] = stress[y]
      PROVE  Typed'
  BY <1>0, <1>2 DEF Typed, StressTyped, RecordsMove
<1>3. ASSUME NEW x \in StressRuns, NEW stage \in Stage, NEW at, NEW reserved, RecordsMove,
             stress' \in [StressRuns -> StressRun], After(x, stage, at, reserved),
             stage # "idle", at # 0, stage \in AtProject => at \in 1 .. Len(Projects)
      PROVE  Typed'
  BY <1>0, <1>2, <1>3 DEF After, StressTyped
<1>4. ASSUME NEW x \in StressRuns, Fails(x), RecordsMove
      PROVE  Typed'
  <2>1. "failed" \in Stage /\ "failed" \notin AtProject /\ stress[x].at # 0
    BY <1>0 DEF StressTyped, Stage, AtProject
  <2> QED BY <1>3, <1>4, <2>1 DEF Fails
<1>5. ASSUME NEW x \in StressRuns, NextProject(x), stress[x].stage \in AtProject, RecordsMove
      PROVE  Typed'
  <2>1. stress[x].at \in 1 .. Len(Projects)
    BY <1>0, <1>5 DEF StressTyped
  <2>2. stress[x].at + 1 # 0
    BY <2>1
  <2>3. "mark" \in Stage /\ "done" \in Stage /\ "done" \notin AtProject
    BY DEF Stage, AtProject
  <2> QED BY <1>3, <1>5, <2>2, <2>3, NextProjectIsWritten
<1>6. ASSUME NEW x \in StressRuns, NEW stage \in AtProject \ {"mark"},
             NEW reserved, RecordsMove, stress[x].stage \in AtProject,
             stress' \in [StressRuns -> StressRun], After(x, stage, stress[x].at, reserved)
      PROVE  Typed'
  <2>1. stress[x].at \in 1 .. Len(Projects) /\ stress[x].at # 0
    BY <1>0, <1>6 DEF StressTyped
  <2>2. stage \in Stage /\ stage # "idle"
    BY DEF Stage, AtProject
  <2> QED BY <1>3, <1>6, <2>1, <2>2
<1>7. CASE Quiet
  BY <1>0, <1>7 DEF Quiet, RecordsMove, Typed, StressTyped
<1>8. ASSUME NEW x \in StressRuns, StressStarts(x)
      PROVE  Typed' /\ RecordsMove
  BY <1>1, <1>2, <1>8, StressStartsDoes DEF AtProject
<1>9. ASSUME NEW x \in StressRuns, StressMarks(x)
      PROVE  Typed' /\ RecordsMove
  BY <1>4, <1>5, <1>6, <1>9, StressMarksDoes DEF AtProject
<1>10. ASSUME NEW x \in StressRuns, StressClaims(x)
       PROVE  Typed' /\ RecordsMove
  <2>1. ProjectAt(x) \in Lanes
    BY <1>0, <1>10, StressClaimsDoes, ProjectIsLane DEF StressTyped, AtProject
  <2>2. stress[x].stage \in AtProject
    BY <1>10, StressClaimsDoes DEF AtProject
  <2>3. ASSUME NEW t \in TaskAt(x), CanClaim(records[t]),
               records' = [records EXCEPT ![t] = Claimed(records[t], ProjectAt(x))]
        PROVE  RecordsMove
    BY <1>10, <2>1, <2>3, ClaimMovesRecords, StressClaimsDoes
  <2>4. "allocate" \in AtProject \ {"mark"}
    BY DEF AtProject
  <2> QED BY <1>1, <1>4, <1>6, <1>10, <2>2, <2>3, <2>4, StressClaimsDoes
<1>11. ASSUME NEW x \in StressRuns, StressAllocates(x)
       PROVE  Typed' /\ RecordsMove
  BY <1>1, <1>4, <1>6, <1>11, StressAllocatesDoes DEF AtProject
<1>12. ASSUME NEW x \in StressRuns, StressCompletes(x)
       PROVE  Typed' /\ RecordsMove
  BY <1>4, <1>6, <1>12, StressCompletesDoes DEF AtProject
<1>13. ASSUME NEW x \in StressRuns, StressWritesCard(x)
       PROVE  Typed' /\ RecordsMove
  BY <1>1, <1>4, <1>5, <1>13, StressWritesCardDoes DEF AtProject
<1>14. ASSUME NEW x \in StressRuns, StressDies(x)
       PROVE  Typed' /\ RecordsMove
  BY <1>1, <1>4, <1>14, StressDiesDoes
<1>15. ASSUME NEW x \in StressRuns, StressAdmits(x)
       PROVE  Typed' /\ RecordsMove
  BY <1>1, <1>4, <1>6, <1>15, StressAdmitsDoes DEF AtProject
<1>16. Quiet => RecordsMove
  BY DEF Quiet
<1> QED BY <1>7, <1>8, <1>9, <1>10, <1>11, <1>12, <1>13, <1>14, <1>15, <1>16, StepCases
-----------------------------------------------------------------------------
\* Between the look at the dependencies and the claim nothing comes undone.
DependenciesAreMet ==
    /\ DependenciesBeforeLanes
    /\ \A x \in StressRuns : stress[x].stage = "claim" =>
          \A t \in TaskAt(x) : t \notin replaced => Met(t)

\* The project and the task a run is with depend on nothing but its place.
LEMMA PlaceIsKept ==
    ASSUME NEW x \in StressRuns, stress'[x].at = stress[x].at, stress'[x].seen = stress[x].seen
    PROVE  ProjectAt(x)' = ProjectAt(x) /\ TaskAt(x)' = TaskAt(x)
  BY DEF ProjectAt, TaskAt

LEMMA OthersAreKept ==
    ASSUME NEW x \in StressRuns, stress'[x] = stress[x]
    PROVE  ProjectAt(x)' = ProjectAt(x) /\ TaskAt(x)' = TaskAt(x)
  BY PlaceIsKept

\* What is met stays met, of a record that is not overwritten.
LEMMA MetStays ==
    ASSUME RecordsMove, NEW t \in DOMAIN records, t \notin replaced', Met(t)
    PROVE  Met(t)'
<1>1. deps'[t] = deps[t]
  BY DEF RecordsMove
<1>2. ASSUME NEW d \in deps[t], d \notin replaced'
      PROVE  d \in DOMAIN records' /\ records'[d].status = "Completed"
  <2>1. d \notin replaced
    BY <1>2 DEF RecordsMove
  <2>2. d \in DOMAIN records /\ records[d].status = "Completed"
    BY <2>1 DEF Met
  <2> QED BY <1>2, <2>2 DEF RecordsMove
<1> QED BY <1>1, <1>2 DEF Met

\* A step that gives no lane, but to a task whose dependencies are met.
LEMMA LanesAfterDependencies ==
    ASSUME RecordsMove, DependenciesBeforeLanes,
           \A t \in DOMAIN records' : records'[t].lane # NoLane =>
               /\ t \in DOMAIN records
               /\ records[t].lane = records'[t].lane \/ (t \notin replaced' => Met(t))
    PROVE  DependenciesBeforeLanes'
<1>1. ASSUME NEW t \in DOMAIN records', t \notin replaced', records'[t].lane # NoLane
      PROVE  Met(t)'
  <2>1. t \in DOMAIN records /\ t \notin replaced
    BY <1>1 DEF RecordsMove
  <2>2. Met(t)
    BY <1>1, <2>1 DEF DependenciesBeforeLanes
  <2> QED BY <1>1, <2>1, <2>2, MetStays
<1> QED BY <1>1 DEF DependenciesBeforeLanes

\* A step after which no other run than before is about to claim.
LEMMA ClaimersStayMet ==
    ASSUME Typed, RecordsMove, DependenciesAreMet,
           \A x \in StressRuns : stress'[x] = stress[x] \/ stress'[x].stage # "claim"
    PROVE  \A x \in StressRuns : stress'[x].stage = "claim" =>
               \A t \in TaskAt(x)' : t \notin replaced' => Met(t)'
<1> SUFFICES ASSUME NEW x \in StressRuns, stress'[x].stage = "claim",
                    NEW t \in TaskAt(x)', t \notin replaced'
             PROVE  Met(t)'
  OBVIOUS
<1>1. stress'[x] = stress[x]
  OBVIOUS
<1>2. t \in TaskAt(x) /\ t \in DOMAIN records
  BY <1>1, OthersAreKept, TaskIsOne
<1>3. Met(t)
  BY <1>1, <1>2 DEF DependenciesAreMet, RecordsMove
<1> QED BY <1>2, <1>3, MetStays

LEMMA DependenciesStay ==
    ASSUME Typed, DependenciesAreMet, [Next]_vars
    PROVE  DependenciesAreMet'
<1>1. RecordsMove /\ DependenciesBeforeLanes
  BY StepMovesRecords DEF DependenciesAreMet
<1>2. ASSUME NoLaneGiven \/ UNCHANGED records
      PROVE  DependenciesBeforeLanes'
  BY <1>1, <1>2, LanesAfterDependencies DEF NoLaneGiven
<1>3. ASSUME \A x \in StressRuns : stress'[x] = stress[x] \/ stress'[x].stage # "claim",
             DependenciesBeforeLanes'
      PROVE  DependenciesAreMet'
  BY <1>1, <1>3, ClaimersStayMet DEF DependenciesAreMet
<1>4. CASE Quiet
  BY <1>2, <1>3, <1>4 DEF Quiet
<1>5. ASSUME NEW x \in StressRuns, NEW stage, NEW at, NEW reserved,
             After(x, stage, at, reserved), stage # "claim", NoLaneGiven \/ UNCHANGED records
      PROVE  DependenciesAreMet'
  BY <1>2, <1>3, <1>5 DEF After
<1>6. ASSUME NEW x \in StressRuns, Fails(x), NoLaneGiven \/ UNCHANGED records
      PROVE  DependenciesAreMet'
  BY <1>5, <1>6 DEF Fails
<1>7. ASSUME NEW x \in StressRuns, NextProject(x), stress[x].stage \in AtProject,
             NoLaneGiven \/ UNCHANGED records
      PROVE  DependenciesAreMet'
  BY <1>5, <1>7, NextProjectIsWritten
<1>8. ASSUME NEW x \in StressRuns, StressStarts(x)
      PROVE  DependenciesAreMet'
  <2>1. \A y \in StressRuns : stress'[y] = stress[y] \/ stress'[y].stage # "claim"
    BY <1>8, StressStartsDoes
  <2> QED BY <1>2, <1>3, <1>8, <2>1, StressStartsDoes
<1>9. ASSUME NEW x \in StressRuns, StressMarks(x)
      PROVE  DependenciesAreMet'
  BY <1>5, <1>6, <1>7, <1>9, StressMarksDoes DEF AtProject
<1>10. ASSUME NEW x \in StressRuns, StressAdmits(x)
       PROVE  DependenciesAreMet'
  <2>1. UNCHANGED <<records, deps, replaced>>
    BY <1>10, StressAdmitsDoes
  <2>2. ASSUME After(x, "claim", stress[x].at, stress[x].reserved),
               \A t \in TaskAt(x) : AdmissionWaitsAt(x, t) = {}
        PROVE  DependenciesAreMet'
    <3>1. \A t \in TaskAt(x) : Met(t)
      BY <2>2, AdmissionMeans DEF UnmetDependencies, Met
    <3>2. TaskAt(x)' = TaskAt(x) /\ \A y \in StressRuns : y # x => stress'[y] = stress[y]
      BY <2>2, PlaceIsKept DEF After
    <3>3. \A y \in StressRuns : y # x => TaskAt(y)' = TaskAt(y)
      BY <3>2, OthersAreKept
    <3>4. \A t : Met(t)' = Met(t)
      BY <2>1 DEF Met
    <3>5. DependenciesBeforeLanes'
      BY <1>2, <2>1
    <3>6. ASSUME NEW y \in StressRuns, stress'[y].stage = "claim",
                 NEW t \in TaskAt(y)', t \notin replaced'
          PROVE  Met(t)
      BY <2>1, <3>1, <3>2, <3>3, <3>6 DEF DependenciesAreMet
    <3> QED BY <3>4, <3>5, <3>6 DEF DependenciesAreMet
  <2> QED BY <1>6, <1>10, <2>1, <2>2, StressAdmitsDoes
<1>11. ASSUME NEW x \in StressRuns, StressClaims(x)
       PROVE  DependenciesAreMet'
  <2>1. /\ ProjectAt(x) \in Lanes /\ stress[x].stage = "claim"
        /\ UNCHANGED <<deps, replaced>>
    BY <1>11, StressClaimsDoes, ProjectIsLane DEF Typed, StressTyped, AtProject
  <2>2. ASSUME NEW t \in TaskAt(x), CanClaim(records[t]),
               records' = [records EXCEPT ![t] = Claimed(records[t], ProjectAt(x))],
               NEW reserved, After(x, "allocate", stress[x].at, reserved)
        PROVE  DependenciesAreMet'
    <3>1. /\ DOMAIN records' = DOMAIN records
          /\ \A u \in DOMAIN records : u # t => records'[u] = records[u]
      BY <2>1, <2>2, ClaimMovesRecords
    <3>2. t \notin replaced => Met(t)
      BY <2>1 DEF DependenciesAreMet
    <3>3. DependenciesBeforeLanes'
      BY <1>1, <2>1, <3>1, <3>2, LanesAfterDependencies
    <3> QED BY <1>3, <2>2, <3>3 DEF After
  <2> QED BY <1>6, <1>11, <2>2, StressClaimsDoes
<1>12. ASSUME NEW x \in StressRuns, StressAllocates(x)
       PROVE  DependenciesAreMet'
  BY <1>5, <1>6, <1>12, StressAllocatesDoes
<1>13. ASSUME NEW x \in StressRuns, StressCompletes(x)
       PROVE  DependenciesAreMet'
  BY <1>5, <1>6, <1>13, StressCompletesDoes
<1>14. ASSUME NEW x \in StressRuns, StressWritesCard(x)
       PROVE  DependenciesAreMet'
  BY <1>6, <1>7, <1>14, StressWritesCardDoes DEF AtProject
<1>15. ASSUME NEW x \in StressRuns, StressDies(x)
       PROVE  DependenciesAreMet'
  BY <1>6, <1>15, StressDiesDoes
<1> QED BY <1>4, <1>8, <1>9, <1>10, <1>11, <1>12, <1>13, <1>14, <1>15, StepCases

LEMMA InitIsTyped ==
    ASSUME Init
    PROVE  Typed /\ DependenciesAreMet
<1>1. PICK existing \in SUBSET Tasks : records \in [existing -> StartRecords]
  BY DEF Init
<1>2. /\ DOMAIN records = existing
      /\ \A t \in DOMAIN records : records[t] \in NewTaskRecords
  BY <1>1, StartRecordsAreNew
<1>3. \A record \in NewTaskRecords : record \in TaskRecord /\ record.lane = NoLane
  BY DEF NewTaskRecords, NewRecord, TaskRecord, TaskStatus, ReadinessState
<1>4. RecordsTyped /\ DependenciesBeforeLanes
  <2>1. deps \in [Tasks -> SUBSET Tasks] /\ replaced = {}
    BY DependenciesAreTasks DEF Init
  <2> QED BY <1>2, <1>3, <2>1 DEF RecordsTyped, DependenciesBeforeLanes
<1>5. stress = [x \in StressRuns |-> [stage |-> "idle", at |-> 1, seen |-> <<>>, reserved |-> {}]]
  BY DEF Init
<1>6. <<>> \in Seen /\ DOMAIN <<>> = {}
  <2>1. {} \in SUBSET Tasks /\ <<>> \in [{} -> TaskStatus]
    OBVIOUS
  <2> QED BY <2>1 DEF Seen
<1>7. \A x \in StressRuns : /\ stress[x].stage = "idle" /\ stress[x].at = 1
                            /\ stress[x].seen = <<>> /\ stress[x].reserved = {}
  BY <1>5
<1>8. stress \in [StressRuns -> StressRun]
  BY <1>5, <1>6 DEF StressRun, Stage
<1>9. StressTyped
  BY <1>6, <1>7, <1>8 DEF StressTyped, AtProject
<1> QED BY <1>4, <1>7, <1>9 DEF Typed, DependenciesAreMet

\* claim_one: no lane is given to a task before everything its record depends on
\* is completed, whatever is done between the look at the dependencies and the
\* claim, and what is completed stays so; but for records that are overwritten.
THEOREM DependenciesBeforeLanesAlways == Spec => []DependenciesBeforeLanes
<1>1. Init => Typed /\ DependenciesAreMet
  BY InitIsTyped
<1>2. (Typed /\ DependenciesAreMet) /\ [Next]_vars => (Typed /\ DependenciesAreMet)'
  BY StepMovesRecords, DependenciesStay
<1>3. DependenciesAreMet => DependenciesBeforeLanes
  BY DEF DependenciesAreMet
<1> QED BY <1>1, <1>2, <1>3, PTL DEF Spec
-----------------------------------------------------------------------------
(* What a run has in hand between its claim and its card: the lane in the  *)
(* record, the worktree, the completed task - and no card of the lane yet.  *)
(* A record that a create command has overwritten is out of its hands.      *)

LanesAreHeld ==
    \A x \in StressRuns :
        /\ stress[x].stage \in Holding =>
              \A t \in TaskAt(x) \ replaced : records[t].lane = ProjectAt(x)
        /\ stress[x].stage = "card" =>
              \A t \in TaskAt(x) \ replaced : records[t].status = "Completed"

TreesAreOwned ==
    /\ \A x \in StressRuns : stress[x].stage \in OnTree =>
          /\ ProjectAt(x) \in worktrees
          /\ \A file \in cardFiles : file.lane # ProjectAt(x)
          /\ \A y \in StressRuns \ {x} : stress[y].stage \in OnTree => ProjectAt(y) # ProjectAt(x)
    /\ \A file \in cardFiles : file.lane \in worktrees /\ file.lane \in Lanes

CardsName ==
    \A file \in cardFiles :
        /\ file.task \in DOMAIN records
        /\ file.task \notin replaced => /\ records[file.task].status = "Completed"
                                       /\ records[file.task].lane = file.lane

\* A step with which x comes to hold nothing, or nothing more.
LEMMA HoldingIsKept ==
    ASSUME Typed, LanesAreHeld, RecordsMove, NEW x \in StressRuns,
           \A y \in StressRuns : y # x => stress'[y] = stress[y],
           stress'[x].stage \notin Holding
    PROVE  LanesAreHeld'
<1>1. ASSUME NEW y \in StressRuns, stress'[y].stage \in Holding
      PROVE  /\ \A t \in TaskAt(y)' \ replaced' : records'[t].lane = ProjectAt(y)'
             /\ stress'[y].stage = "card" => \A t \in TaskAt(y)' \ replaced' : records'[t].status = "Completed"
  <2>1. y # x /\ stress'[y] = stress[y]
    BY <1>1
  <2>2. ProjectAt(y)' = ProjectAt(y) /\ TaskAt(y)' = TaskAt(y)
    BY <2>1, OthersAreKept
  <2>3. stress[y].at \in 1 .. Len(Projects)
    BY <1>1, <2>1 DEF Typed, StressTyped, Holding, AtProject
  <2>4. ProjectAt(y) # NoLane /\ TaskAt(y) \subseteq DOMAIN records
    BY <2>3, ProjectIsLane, TaskIsOne
  <2>5. \A t \in TaskAt(y) \ replaced : records[t].lane = ProjectAt(y)
    BY <1>1, <2>1 DEF LanesAreHeld
  <2>6. stress[y].stage = "card" => \A t \in TaskAt(y) \ replaced : records[t].status = "Completed"
    BY DEF LanesAreHeld
  <2> QED BY <2>1, <2>2, <2>4, <2>5, <2>6 DEF RecordsMove
<1>2. "card" \in Holding
  BY DEF Holding
<1> QED BY <1>1, <1>2 DEF LanesAreHeld

\* A step with which x goes on holding its lane.
LEMMA HoldingGoesOn ==
    ASSUME Typed, LanesAreHeld, RecordsMove, NEW x \in StressRuns, NEW stage, NEW reserved,
           After(x, stage, stress[x].at, reserved), stress[x].stage \in AtProject,
           \A t \in TaskAt(x) \ replaced' : records'[t].lane = ProjectAt(x),
           stage = "card" => \A t \in TaskAt(x) \ replaced' : records'[t].status = "Completed"
    PROVE  LanesAreHeld'
<1>1. ASSUME NEW y \in StressRuns, stress'[y].stage \in Holding
      PROVE  /\ \A t \in TaskAt(y)' \ replaced' : records'[t].lane = ProjectAt(y)'
             /\ stress'[y].stage = "card" => \A t \in TaskAt(y)' \ replaced' : records'[t].status = "Completed"
  <2>1. CASE y = x
    <3>1. ProjectAt(x)' = ProjectAt(x) /\ TaskAt(x)' = TaskAt(x) /\ stress'[x].stage = stage
      BY PlaceIsKept DEF After
    <3> QED BY <2>1, <3>1
  <2>2. CASE y # x
    <3>1. stress'[y] = stress[y]
      BY <2>2 DEF After
    <3>2. ProjectAt(y)' = ProjectAt(y) /\ TaskAt(y)' = TaskAt(y)
      BY <3>1, OthersAreKept
    <3>3. stress[y].at \in 1 .. Len(Projects)
      BY <1>1, <3>1 DEF Typed, StressTyped, Holding, AtProject
    <3>4. ProjectAt(y) # NoLane /\ TaskAt(y) \subseteq DOMAIN records
      BY <3>3, ProjectIsLane, TaskIsOne
    <3>5. \A t \in TaskAt(y) \ replaced : records[t].lane = ProjectAt(y)
      BY <1>1, <3>1 DEF LanesAreHeld
    <3>6. stress[y].stage = "card" => \A t \in TaskAt(y) \ replaced : records[t].status = "Completed"
      BY DEF LanesAreHeld
    <3> QED BY <3>1, <3>2, <3>4, <3>5, <3>6 DEF RecordsMove
  <2> QED BY <2>1, <2>2
<1>2. "card" \in Holding
  BY DEF Holding
<1> QED BY <1>1, <1>2 DEF LanesAreHeld

LEMMA LanesStayHeld ==
    ASSUME Typed, LanesAreHeld, [Next]_vars
    PROVE  LanesAreHeld'
<1>0. RecordsMove
  BY StepMovesRecords
<1>1. CASE Quiet
  <2>1. \A y \in StressRuns : stress'[y] = stress[y]
    BY <1>1 DEF Quiet
  <2>2. CASE \E x \in StressRuns : stress[x].stage \notin Holding
    BY <1>0, <2>1, <2>2, HoldingIsKept
  <2>3. CASE \A x \in StressRuns : stress[x].stage \in Holding
    <3>1. ASSUME NEW y \in StressRuns
          PROVE  /\ ProjectAt(y)' = ProjectAt(y) /\ TaskAt(y)' = TaskAt(y)
                 /\ ProjectAt(y) # NoLane /\ TaskAt(y) \subseteq DOMAIN records
      <4>1. stress[y].at \in 1 .. Len(Projects)
        BY <2>3 DEF Typed, StressTyped, Holding, AtProject
      <4> QED BY <2>1, <4>1, OthersAreKept, ProjectIsLane, TaskIsOne
    <3>2. \A y \in StressRuns : \A t \in TaskAt(y) \ replaced : records[t].lane = ProjectAt(y)
      BY <2>3 DEF LanesAreHeld
    <3>3. \A y \in StressRuns : stress[y].stage = "card" =>
              \A t \in TaskAt(y) \ replaced : records[t].status = "Completed"
      BY DEF LanesAreHeld
    <3>4. \A y \in StressRuns : \A t \in TaskAt(y) \ replaced' : records'[t].lane = ProjectAt(y)
      BY <1>0, <3>1, <3>2 DEF RecordsMove
    <3>5. \A y \in StressRuns : stress'[y].stage = "card" =>
              \A t \in TaskAt(y) \ replaced' : records'[t].status = "Completed"
      BY <1>0, <2>1, <3>1, <3>3 DEF RecordsMove
    <3> QED BY <3>1, <3>4, <3>5 DEF LanesAreHeld
  <2> QED BY <2>2, <2>3
<1>2. ASSUME NEW x \in StressRuns, Fails(x)
      PROVE  LanesAreHeld'
  BY <1>0, <1>2, HoldingIsKept DEF Fails, After, Holding
<1>3. ASSUME NEW x \in StressRuns, NextProject(x), stress[x].stage \in AtProject
      PROVE  LanesAreHeld'
  BY <1>0, <1>3, NextProjectIsWritten, HoldingIsKept DEF After, Holding
<1>4. ASSUME NEW x \in StressRuns, StressStarts(x)
      PROVE  LanesAreHeld'
  BY <1>0, <1>4, StressStartsDoes, HoldingIsKept DEF Holding
<1>5. ASSUME NEW x \in StressRuns, StressMarks(x)
      PROVE  LanesAreHeld'
  <2>1. After(x, "admit", stress[x].at, stress[x].reserved) => LanesAreHeld'
    BY <1>0, HoldingIsKept DEF After, Holding
  <2> QED BY <1>2, <1>3, <1>5, <2>1, StressMarksDoes DEF AtProject
<1>6. ASSUME NEW x \in StressRuns, StressClaims(x)
      PROVE  LanesAreHeld'
  <2>1. /\ stress[x].stage \in AtProject /\ ProjectAt(x) \in Lanes
        /\ UNCHANGED <<deps, replaced>>
    BY <1>6, StressClaimsDoes, ProjectIsLane DEF Typed, StressTyped, AtProject
  <2>2. ASSUME NEW t \in TaskAt(x), CanClaim(records[t]),
               records' = [records EXCEPT ![t] = Claimed(records[t], ProjectAt(x))],
               NEW reserved, After(x, "allocate", stress[x].at, reserved)
        PROVE  LanesAreHeld'
    <3>1. records'[t].lane = ProjectAt(x)
      BY <2>1, <2>2, ClaimMovesRecords
    <3>2. \A u \in TaskAt(x) : records'[u].lane = ProjectAt(x)
      BY <3>1, TaskIsOne
    <3> QED BY <1>0, <2>1, <2>2, <3>2, HoldingGoesOn
  <2> QED BY <1>2, <1>6, <2>2, StressClaimsDoes
<1>7. ASSUME NEW x \in StressRuns, StressAllocates(x)
      PROVE  LanesAreHeld'
  <2>1. stress[x].stage \in AtProject /\ records' = records /\ replaced' = replaced
        /\ \A t \in TaskAt(x) \ replaced : records[t].lane = ProjectAt(x)
    BY <1>7, StressAllocatesDoes DEF AtProject, Holding, LanesAreHeld
  <2>2. After(x, "complete", stress[x].at, stress[x].reserved) => LanesAreHeld'
    BY <1>0, <2>1, HoldingGoesOn
  <2> QED BY <1>2, <1>7, <2>2, StressAllocatesDoes
<1>8. ASSUME NEW x \in StressRuns, StressCompletes(x)
      PROVE  LanesAreHeld'
  <2>1. /\ stress[x].stage \in AtProject
        /\ \A t \in TaskAt(x) \ replaced : records[t].lane = ProjectAt(x)
        /\ ProjectAt(x) # NoLane /\ TaskAt(x) \subseteq DOMAIN records
    BY <1>8, StressCompletesDoes, ProjectIsLane, TaskIsOne
       DEF Typed, StressTyped, AtProject, Holding, LanesAreHeld
  <2>2. \A t \in TaskAt(x) \ replaced' : records'[t].lane = ProjectAt(x)
    BY <1>0, <2>1 DEF RecordsMove
  <2> QED BY <1>0, <1>2, <1>8, <2>1, <2>2, StressCompletesDoes, HoldingGoesOn
<1>9. ASSUME NEW x \in StressRuns, StressWritesCard(x)
      PROVE  LanesAreHeld'
  BY <1>2, <1>3, <1>9, StressWritesCardDoes DEF AtProject
<1>10. ASSUME NEW x \in StressRuns, StressDies(x)
       PROVE  LanesAreHeld'
  BY <1>2, <1>10, StressDiesDoes
<1>11. ASSUME NEW x \in StressRuns, StressAdmits(x)
       PROVE  LanesAreHeld'
  BY <1>0, <1>2, <1>11, StressAdmitsDoes, HoldingIsKept DEF After, Holding
<1> QED BY <1>1, <1>4, <1>5, <1>6, <1>7, <1>8, <1>9, <1>10, <1>11, StepCases
-----------------------------------------------------------------------------
\* What a step does to the trees and cards when x comes off its tree, if it
\* was on one, and writes no card.
LEMMA TreesAreKept ==
    ASSUME TreesAreOwned, NEW x \in StressRuns, UNCHANGED <<worktrees, cardFiles>>,
           \A y \in StressRuns : y # x => stress'[y] = stress[y],
           stress'[x].stage \notin OnTree
    PROVE  TreesAreOwned'
<1>1. \A y \in StressRuns : stress'[y].stage \in OnTree =>
          y # x /\ stress[y].stage \in OnTree /\ ProjectAt(y)' = ProjectAt(y)
  BY OthersAreKept
<1> QED BY <1>1 DEF TreesAreOwned

LEMMA TreesStayOwned ==
    ASSUME Typed, TreesAreOwned, [Next]_vars
    PROVE  TreesAreOwned'
<1>1. CASE Quiet
  <2>1. \A y \in StressRuns : stress'[y] = stress[y] /\ ProjectAt(y)' = ProjectAt(y)
    BY <1>1, OthersAreKept DEF Quiet
  <2> QED BY <1>1, <2>1 DEF Quiet, TreesAreOwned
<1>2. ASSUME NEW x \in StressRuns, Fails(x), UNCHANGED <<worktrees, cardFiles>>
      PROVE  TreesAreOwned'
  BY <1>2, TreesAreKept DEF Fails, After, OnTree
<1>3. ASSUME NEW x \in StressRuns, StressStarts(x)
      PROVE  TreesAreOwned'
  BY <1>3, StressStartsDoes, TreesAreKept DEF OnTree
<1>4. ASSUME NEW x \in StressRuns, StressMarks(x)
      PROVE  TreesAreOwned'
  <2>1. stress[x].stage \in AtProject /\ UNCHANGED <<worktrees, cardFiles>>
    BY <1>4, StressMarksDoes DEF AtProject
  <2>2. NextProject(x) => TreesAreOwned'
    BY <2>1, NextProjectIsWritten, TreesAreKept DEF After, OnTree
  <2>3. After(x, "admit", stress[x].at, stress[x].reserved) => TreesAreOwned'
    BY <2>1, TreesAreKept DEF After, OnTree
  <2> QED BY <1>2, <1>4, <2>1, <2>2, <2>3, StressMarksDoes
<1>5. ASSUME NEW x \in StressRuns, StressClaims(x)
      PROVE  TreesAreOwned'
  <2>1. UNCHANGED <<worktrees, cardFiles>>
    BY <1>5, StressClaimsDoes
  <2>2. ASSUME NEW reserved, After(x, "allocate", stress[x].at, reserved)
        PROVE  TreesAreOwned'
    BY <2>1, <2>2, TreesAreKept DEF After, OnTree
  <2> QED BY <1>2, <1>5, <2>1, <2>2, StressClaimsDoes
<1>6. ASSUME NEW x \in StressRuns, StressAllocates(x)
      PROVE  TreesAreOwned'
  <2>1. CASE Fails(x) /\ UNCHANGED worktrees
    BY <1>2, <1>6, <2>1, StressAllocatesDoes
  <2>2. CASE /\ ProjectAt(x) \notin worktrees
             /\ worktrees' = worktrees \cup {ProjectAt(x)}
             /\ After(x, "complete", stress[x].at, stress[x].reserved)
    <3>1. cardFiles' = cardFiles
      BY <1>6, StressAllocatesDoes
    <3>2. \A y \in StressRuns : ProjectAt(y)' = ProjectAt(y) /\ (y # x => stress'[y] = stress[y])
      BY <2>2, OthersAreKept, PlaceIsKept DEF After
    <3>3. \A y \in StressRuns \ {x} : stress'[y].stage \in OnTree =>
              ProjectAt(y) \in worktrees /\ ProjectAt(y) # ProjectAt(x)
      BY <2>2, <3>2 DEF TreesAreOwned
    <3> QED BY <2>2, <3>1, <3>2, <3>3 DEF TreesAreOwned
  <2> QED BY <1>6, <2>1, <2>2, StressAllocatesDoes
<1>7. ASSUME NEW x \in StressRuns, StressCompletes(x)
      PROVE  TreesAreOwned'
  <2>1. UNCHANGED <<worktrees, cardFiles>> /\ stress[x].stage \in OnTree
    BY <1>7, StressCompletesDoes DEF OnTree
  <2>2. CASE After(x, "card", stress[x].at, stress[x].reserved)
    <3>1. \A y \in StressRuns : /\ ProjectAt(y)' = ProjectAt(y)
                                /\ stress'[y].stage \in OnTree => stress[y].stage \in OnTree
      BY <2>1, <2>2, OthersAreKept, PlaceIsKept DEF After
    <3> QED BY <2>1, <3>1 DEF TreesAreOwned
  <2> QED BY <1>2, <1>7, <2>1, <2>2, StressCompletesDoes
<1>8. ASSUME NEW x \in StressRuns, StressWritesCard(x)
      PROVE  TreesAreOwned'
  <2>1. /\ worktrees' = worktrees /\ stress[x].stage \in AtProject
        /\ stress[x].stage \in OnTree /\ ProjectAt(x) \in Lanes
    BY <1>8, StressWritesCardDoes, ProjectIsLane DEF Typed, StressTyped, AtProject, OnTree
  <2>2. ASSUME NEW t \in TaskAt(x), NextProject(x),
               cardFiles' = {file \in cardFiles : file.lane # ProjectAt(x)}
                            \cup {[lane |-> ProjectAt(x), task |-> t]}
        PROVE  TreesAreOwned'
    <3>1. stress'[x].stage \notin OnTree /\ \A y \in StressRuns : y # x => stress'[y] = stress[y]
      BY <2>1, <2>2, NextProjectIsWritten DEF After, OnTree
    <3>2. ASSUME NEW y \in StressRuns, stress'[y].stage \in OnTree
          PROVE  /\ y # x /\ stress[y].stage \in OnTree
                 /\ ProjectAt(y)' = ProjectAt(y) /\ ProjectAt(y) # ProjectAt(x)
      BY <2>1, <3>1, <3>2, OthersAreKept DEF TreesAreOwned
    <3>3. \A file \in cardFiles' : file \in cardFiles \/ file.lane = ProjectAt(x)
      BY <2>2
    <3>4. ProjectAt(x) \in worktrees
      BY <2>1 DEF TreesAreOwned
    <3> QED BY <2>1, <3>2, <3>3, <3>4 DEF TreesAreOwned
  <2> QED BY <1>2, <1>8, <2>1, <2>2, StressWritesCardDoes
<1>9. ASSUME NEW x \in StressRuns, StressDies(x)
      PROVE  TreesAreOwned'
  BY <1>2, <1>9, StressDiesDoes
<1>10. ASSUME NEW x \in StressRuns, StressAdmits(x)
       PROVE  TreesAreOwned'
  BY <1>2, <1>10, StressAdmitsDoes, TreesAreKept DEF After, OnTree
<1> QED BY <1>1, <1>3, <1>4, <1>5, <1>6, <1>7, <1>8, <1>9, <1>10, StepCases

LEMMA CardsGoOnNaming ==
    ASSUME Typed, LanesAreHeld, TreesAreOwned, CardsName, [Next]_vars
    PROVE  CardsName'
<1>0. RecordsMove
  BY StepMovesRecords
<1>1. ASSUME UNCHANGED cardFiles
      PROVE  CardsName'
  <2>1. \A file \in cardFiles : file.lane # NoLane
    BY NoLaneIsNoLane DEF TreesAreOwned
  <2>2. ASSUME NEW file \in cardFiles, file.task \notin replaced'
        PROVE  records'[file.task].status = "Completed" /\ records'[file.task].lane = file.lane
    <3>1. file.task \in DOMAIN records \ replaced' /\ file.task \notin replaced
      BY <1>0, <2>2 DEF CardsName, RecordsMove
    <3> QED BY <1>0, <2>1, <3>1 DEF CardsName, RecordsMove
  <2> QED BY <1>0, <1>1, <2>2 DEF CardsName, RecordsMove
<1>2. ASSUME NEW x \in StressRuns, StressWritesCard(x)
      PROVE  CardsName'
  <2>1. ASSUME NEW t \in TaskAt(x),
               cardFiles' = {file \in cardFiles : file.lane # ProjectAt(x)}
                            \cup {[lane |-> ProjectAt(x), task |-> t]}
        PROVE  CardsName'
    <3>1. /\ records' = records /\ replaced' = replaced
          /\ stress[x].stage = "card" /\ t \in DOMAIN records
      BY <1>2, StressWritesCardDoes, TaskIsOne
    <3>2. t \notin replaced => records[t].lane = ProjectAt(x) /\ records[t].status = "Completed"
      BY <3>1 DEF LanesAreHeld, Holding
    <3>3. \A file \in cardFiles' : file \in cardFiles \/ file = [lane |-> ProjectAt(x), task |-> t]
      BY <2>1
    <3> QED BY <3>1, <3>2, <3>3 DEF CardsName
  <2> QED BY <1>1, <1>2, <2>1, StressWritesCardDoes
<1> QED BY <1>1, <1>2, StepCases, StressStartsDoes, StressMarksDoes, StressAdmitsDoes, StressClaimsDoes,
           StressAllocatesDoes, StressCompletesDoes, StressDiesDoes DEF Quiet

CardInv == Typed /\ LanesAreHeld /\ TreesAreOwned /\ CardsName

LEMMA NothingIsHeldAtFirst ==
    ASSUME Init
    PROVE  LanesAreHeld /\ TreesAreOwned /\ CardsName
<1>1. cardFiles = {} /\ \A x \in StressRuns : stress[x].stage = "idle"
  BY DEF Init
<1> QED BY <1>1 DEF LanesAreHeld, TreesAreOwned, CardsName, Holding, OnTree

\* fleet_stress_run: a card that says a lane is done is true, whatever status
\* commands the operator gives and whatever another run does between the steps of
\* the run that wrote it, as long as no create command overwrites the record.
THEOREM StressCardsAreTrueAlways == Spec => []StressCardsAreTrue
<1>1. Init => CardInv
  BY InitIsTyped, NothingIsHeldAtFirst DEF CardInv
<1>2. CardInv /\ [Next]_vars => CardInv'
  BY StepMovesRecords, LanesStayHeld, TreesStayOwned, CardsGoOnNaming DEF CardInv
<1>3. CardInv => StressCardsAreTrue
  BY DEF CardInv, CardsName, TreesAreOwned, StressCardsAreTrue
<1> QED BY <1>1, <1>2, <1>3, PTL DEF Spec
-----------------------------------------------------------------------------
(* The reservations of a run.                                              *)

HasCard(r, files) == \E file \in files : file.lane = r.lane /\ file.task = r.task

\* A run that is past its claim has reserved for the project it is with.
Current(x) == stress[x].stage \notin {"idle", "mark", "admit", "claim", "done"}

\* Each reservation is of a project the run is done with, and has a card, or of
\* the one it is with.
EarlierOrCurrent(x, r) ==
    \/ /\ \E i \in 1 .. stress[x].at - 1 : i \in DOMAIN Projects /\ r.lane = Projects[i]
       /\ HasCard(r, cardFiles)
    \/ /\ Current(x) /\ stress[x].at \in DOMAIN Projects /\ r.lane = ProjectAt(x)
       /\ stress[x].stage \in Holding => r.task \in TaskAt(x)

ReservationsAreInOrder ==
    \A x \in StressRuns : \A r \in stress[x].reserved : EarlierOrCurrent(x, r)

ReservationsAreAdmitted ==
    \A x \in StressRuns :
        /\ IsFiniteSet(stress[x].reserved)
        /\ LimitsHold(Limits, stress[x].reserved) /\ NoConflict(stress[x].reserved)
        /\ \A r \in stress[x].reserved : r.areas = {r.lane} /\ r.group = {r.lane}
        /\ stress[x].stage = "claim" =>
              \A t \in TaskAt(x) :
                  /\ Governor(Limits, stress[x].reserved, CandidateAt(x, t)) = {}
                  /\ Planner(stress[x].reserved, CandidateAt(x, t)) = {}

LEMMA OneMore ==
    ASSUME NEW S, NEW e, IsFiniteSet(S)
    PROVE  /\ IsFiniteSet(S \cup {e}) /\ Cardinality(S \cup {e}) \in Nat
           /\ Cardinality(S \cup {e}) <= Cardinality(S) + 1
<1>1. Cardinality(S) \in Nat
  BY FS_CardinalityType
<1>2. /\ IsFiniteSet(S \cup {e})
      /\ Cardinality(S \cup {e}) = IF e \in S THEN Cardinality(S) ELSE Cardinality(S) + 1
  BY FS_AddElement
<1> QED BY <1>1, <1>2

\* The governor's and the planner's yes keep what they are for.
LEMMA AdmittedOneMore ==
    ASSUME NEW x \in StressRuns, NEW t \in TaskAt(x), NEW reserved \in SUBSET Reservations,
           NEW r, r.lane = ProjectAt(x), r.areas = {ProjectAt(x)}, r.group = {ProjectAt(x)},
           r.cost = CandidateAt(x, t).cost, r.lockfile = CandidateAt(x, t).lockfile,
           IsFiniteSet(reserved), LimitsHold(Limits, reserved), NoConflict(reserved),
           Governor(Limits, reserved, CandidateAt(x, t)) = {},
           Planner(reserved, CandidateAt(x, t)) = {},
           \A s \in reserved : s.areas = {s.lane} /\ s.group = {s.lane}
    PROVE  /\ IsFiniteSet(reserved \cup {r})
           /\ LimitsHold(Limits, reserved \cup {r}) /\ NoConflict(reserved \cup {r})
<1> DEFINE candidate == CandidateAt(x, t)
           more      == reserved \cup {r}
           paid      == {s \in reserved : s.cost = "Paid"}
           morePaid  == {s \in more : s.cost = "Paid"}
<1>1. LanesLimit \in Nat /\ PaidLimit \in Nat
  BY LimitsAreNats
<1>2. Limits.lanes = LanesLimit /\ Limits.paid = PaidLimit
  BY DEF Limits
<1>3. candidate.areas = {ProjectAt(x)}
  BY DEF CandidateAt
<1> HIDE DEF candidate
<1>4. ~(Cardinality(reserved) >= LanesLimit)
  BY <1>2 DEF Governor, candidate
<1>5. candidate.cost = "Paid" => ~(Cardinality(paid) >= PaidLimit)
  BY <1>2 DEF Governor, candidate
<1>6. \A s \in reserved : s.lane # ProjectAt(x)
  BY <1>3 DEF Planner, candidate
<1>7. \A s \in reserved : ~(candidate.lockfile /\ s.lockfile)
  BY DEF Planner, candidate
<1>8. Cardinality(reserved) \in Nat /\ IsFiniteSet(paid) /\ Cardinality(paid) \in Nat
  BY FS_CardinalityType, FS_Subset
<1>9. IsFiniteSet(more) /\ Cardinality(more) <= Cardinality(reserved) + 1
  BY OneMore
<1>10. Cardinality(morePaid) <= PaidLimit
  <2>1. CASE r.cost = "Paid"
    <3>1. morePaid = paid \cup {r}
      BY <2>1
    <3>2. Cardinality(morePaid) <= Cardinality(paid) + 1 /\ Cardinality(morePaid) \in Nat
      BY <1>8, <3>1, OneMore
    <3>3. candidate.cost = "Paid"
      BY <2>1 DEF candidate
    <3> QED BY <1>1, <1>5, <1>8, <3>2, <3>3
  <2>2. CASE r.cost # "Paid"
    <3>1. morePaid = paid
      BY <2>2
    <3> QED BY <1>2, <3>1 DEF LimitsHold
  <2> QED BY <2>1, <2>2
<1>11. Cardinality(more) <= LanesLimit
  BY <1>1, <1>4, <1>8, <1>9, FS_CardinalityType
<1>12. LimitsHold(Limits, more)
  BY <1>2, <1>10, <1>11 DEF LimitsHold
<1>13. \A s \in reserved : /\ s.areas \cap r.areas = {} /\ r.areas \cap s.areas = {}
                           /\ s.group \cap r.group = {} /\ r.group \cap s.group = {}
                           /\ ~(s.lockfile /\ r.lockfile)
  BY <1>6, <1>7 DEF candidate
<1>14. NoConflict(more)
  BY <1>13 DEF NoConflict
<1> QED BY <1>9, <1>12, <1>14

\* A step with which no run reserves anything or is admitted.
LEMMA AdmittedStay ==
    ASSUME ReservationsAreAdmitted,
           \A y \in StressRuns :
               \/ stress'[y] = stress[y]
               \/ stress'[y].reserved = stress[y].reserved /\ stress'[y].stage # "claim"
    PROVE  ReservationsAreAdmitted'
<1>1. ASSUME NEW y \in StressRuns, stress'[y] = stress[y]
      PROVE  /\ ProjectAt(y)' = ProjectAt(y) /\ TaskAt(y)' = TaskAt(y)
             /\ \A t : CandidateAt(y, t)' = CandidateAt(y, t)
  <2>1. ProjectAt(y)' = ProjectAt(y) /\ TaskAt(y)' = TaskAt(y)
    BY <1>1, OthersAreKept
  <2> QED BY <1>1, <2>1 DEF CandidateAt
<1>2. ASSUME NEW y \in StressRuns, stress'[y].stage = "claim", NEW t \in TaskAt(y)'
      PROVE  /\ Governor(Limits, stress'[y].reserved, CandidateAt(y, t)') = {}
             /\ Planner(stress'[y].reserved, CandidateAt(y, t)') = {}
  <2>1. stress'[y] = stress[y]
    BY <1>2
  <2> QED BY <1>1, <1>2, <2>1 DEF ReservationsAreAdmitted
<1>3. \A y \in StressRuns : stress'[y].reserved = stress[y].reserved
  OBVIOUS
<1> QED BY <1>2, <1>3 DEF ReservationsAreAdmitted, Limits

LEMMA ReservationsStayAdmitted ==
    ASSUME Typed, ReservationsAreAdmitted, [Next]_vars
    PROVE  ReservationsAreAdmitted'
<1>1. ASSUME NEW x \in StressRuns, NEW stage, NEW at, stage # "claim",
             After(x, stage, at, stress[x].reserved)
      PROVE  ReservationsAreAdmitted'
  BY <1>1, AdmittedStay DEF After
<1>2. ASSUME NEW x \in StressRuns, Fails(x)
      PROVE  ReservationsAreAdmitted'
  BY <1>1, <1>2 DEF Fails
<1>3. ASSUME NEW x \in StressRuns, NextProject(x), stress[x].stage \in AtProject
      PROVE  ReservationsAreAdmitted'
  BY <1>1, <1>3, NextProjectIsWritten
<1>4. ASSUME NEW x \in StressRuns, StressAdmits(x)
      PROVE  ReservationsAreAdmitted'
  <2>1. ASSUME After(x, "claim", stress[x].at, stress[x].reserved),
               \A t \in TaskAt(x) : AdmissionWaitsAt(x, t) = {}
        PROVE  ReservationsAreAdmitted'
    <3>1. /\ stress'[x].reserved = stress[x].reserved /\ stress'[x].at = stress[x].at
          /\ \A y \in StressRuns : y # x => stress'[y] = stress[y]
      BY <2>1 DEF After
    <3>2. \A y \in StressRuns : ProjectAt(y)' = ProjectAt(y) /\ TaskAt(y)' = TaskAt(y)
      BY <2>1, <3>1, OthersAreKept, PlaceIsKept DEF After
    <3>3. \A y \in StressRuns : \A t : CandidateAt(y, t)' = CandidateAt(y, t)
      BY <3>1, <3>2 DEF CandidateAt
    <3>4. \A y \in StressRuns : stress'[y].reserved = stress[y].reserved
      BY <3>1
    <3>5. ASSUME NEW y \in StressRuns, stress'[y].stage = "claim", NEW t \in TaskAt(y)
          PROVE  /\ Governor(Limits, stress[y].reserved, CandidateAt(y, t)) = {}
                 /\ Planner(stress[y].reserved, CandidateAt(y, t)) = {}
      BY <2>1, <3>1, <3>5, AdmissionMeans DEF ReservationsAreAdmitted
    <3> QED BY <3>2, <3>3, <3>4, <3>5 DEF ReservationsAreAdmitted, Limits
  <2> QED BY <1>2, <1>4, <2>1, StressAdmitsDoes
<1>5. ASSUME NEW x \in StressRuns, StressClaims(x)
      PROVE  ReservationsAreAdmitted'
  <2>1. /\ ProjectAt(x) \in Lanes /\ stress[x].reserved \in SUBSET Reservations
        /\ stress[x].stage = "claim"
    BY <1>5, StressClaimsDoes, ProjectIsLane DEF Typed, StressTyped, StressRun, AtProject
  <2>2. ASSUME NEW t \in TaskAt(x),
               After(x, "allocate", stress[x].at, stress[x].reserved \cup {NewReservation(x, t)})
        PROVE  ReservationsAreAdmitted'
    <3> DEFINE r == NewReservation(x, t)
    <3>1. /\ r.lane = ProjectAt(x) /\ r.areas = {ProjectAt(x)} /\ r.group = {ProjectAt(x)}
          /\ r.cost = CandidateAt(x, t).cost /\ r.lockfile = CandidateAt(x, t).lockfile
      BY <2>1, ReservationIsTyped
    <3>2. /\ Governor(Limits, stress[x].reserved, CandidateAt(x, t)) = {}
          /\ Planner(stress[x].reserved, CandidateAt(x, t)) = {}
      BY <2>1 DEF ReservationsAreAdmitted
    <3>3. stress'[x].reserved = stress[x].reserved \cup {r} /\ stress'[x].stage = "allocate"
      BY <2>2 DEF After
    <3> HIDE DEF r
    <3>4. /\ IsFiniteSet(stress'[x].reserved)
          /\ LimitsHold(Limits, stress'[x].reserved) /\ NoConflict(stress'[x].reserved)
      BY <2>1, <3>1, <3>2, <3>3, AdmittedOneMore DEF ReservationsAreAdmitted
    <3>5. \A s \in stress'[x].reserved : s.areas = {s.lane} /\ s.group = {s.lane}
      BY <3>1, <3>3 DEF ReservationsAreAdmitted
    <3>6. \A y \in StressRuns : y # x => stress'[y] = stress[y]
      BY <2>2 DEF After
    <3>7. ASSUME NEW y \in StressRuns, y # x
          PROVE  /\ stress'[y] = stress[y] /\ TaskAt(y)' = TaskAt(y)
                 /\ \A u : CandidateAt(y, u)' = CandidateAt(y, u)
      <4>1. stress'[y] = stress[y] /\ ProjectAt(y)' = ProjectAt(y) /\ TaskAt(y)' = TaskAt(y)
        BY <3>6, <3>7, OthersAreKept
      <4> QED BY <4>1 DEF CandidateAt
    <3>8. ASSUME NEW y \in StressRuns, stress'[y].stage = "claim", NEW u \in TaskAt(y)'
          PROVE  /\ Governor(Limits, stress'[y].reserved, CandidateAt(y, u)') = {}
                 /\ Planner(stress'[y].reserved, CandidateAt(y, u)') = {}
      <4>1. y # x
        BY <3>3, <3>8
      <4> QED BY <3>7, <3>8, <4>1 DEF ReservationsAreAdmitted
    <3>9. ASSUME NEW y \in StressRuns, y # x
          PROVE  /\ IsFiniteSet(stress'[y].reserved)
                 /\ LimitsHold(Limits, stress'[y].reserved) /\ NoConflict(stress'[y].reserved)
                 /\ \A s \in stress'[y].reserved : s.areas = {s.lane} /\ s.group = {s.lane}
      BY <3>7, <3>9 DEF ReservationsAreAdmitted
    <3> QED BY <3>4, <3>5, <3>8, <3>9 DEF ReservationsAreAdmitted, Limits
  <2> QED BY <1>2, <1>5, <2>2, StressClaimsDoes
<1>6. ASSUME NEW x \in StressRuns, StressStarts(x)
      PROVE  ReservationsAreAdmitted'
  BY <1>6, StressStartsDoes, AdmittedStay
<1>7. ASSUME NEW x \in StressRuns, StressMarks(x) \/ StressWritesCard(x)
      PROVE  ReservationsAreAdmitted'
  BY <1>1, <1>2, <1>3, <1>7, StressMarksDoes, StressWritesCardDoes DEF AtProject
<1>8. ASSUME NEW x \in StressRuns, StressAllocates(x) \/ StressCompletes(x) \/ StressDies(x)
      PROVE  ReservationsAreAdmitted'
  BY <1>1, <1>2, <1>8, StressAllocatesDoes, StressCompletesDoes, StressDiesDoes
<1>9. Quiet => ReservationsAreAdmitted'
  BY AdmittedStay DEF Quiet
<1> QED BY <1>4, <1>5, <1>6, <1>7, <1>8, <1>9, StepCases

LEMMA NothingIsReservedAtFirst ==
    ASSUME Init
    PROVE  ReservationsAreAdmitted /\ ReservationsAreInOrder
<1>1. \A x \in StressRuns : stress[x].reserved = {} /\ stress[x].stage = "idle"
  BY DEF Init
<1>2. IsFiniteSet({}) /\ Cardinality({}) = 0
  BY FS_EmptySet
<1>3. {s \in {} : s.cost = "Paid"} = {}
  OBVIOUS
<1>4. LimitsHold(Limits, {}) /\ NoConflict({})
  BY <1>2, <1>3, LimitsAreNats DEF LimitsHold, Limits, NoConflict
<1> QED BY <1>1, <1>2, <1>4 DEF ReservationsAreAdmitted, ReservationsAreInOrder

\* Governor and planner: a run's claims stay within its limits and are about
\* disjoint work, for any limits and any number of projects.
THEOREM ReservationsWithinLimitsAlways == Spec => []ReservationsWithinLimits
<1>1. Init => Typed /\ ReservationsAreAdmitted
  BY InitIsTyped, NothingIsReservedAtFirst
<1>2. (Typed /\ ReservationsAreAdmitted) /\ [Next]_vars => (Typed /\ ReservationsAreAdmitted)'
  BY StepMovesRecords, ReservationsStayAdmitted
<1>3. ReservationsAreAdmitted => ReservationsWithinLimits
  BY DEF ReservationsAreAdmitted, ReservationsWithinLimits
<1> QED BY <1>1, <1>2, <1>3, PTL DEF Spec
-----------------------------------------------------------------------------
(* What a stress run leaves unfinished.                                    *)

\* The cards of other lanes and tasks stay when x writes its own.
LEMMA CardsAreKept ==
    ASSUME TreesAreOwned, NEW x \in StressRuns, stress[x].stage = "card", NEW t,
           cardFiles' = {file \in cardFiles : file.lane # ProjectAt(x)}
                        \cup {[lane |-> ProjectAt(x), task |-> t]}
    PROVE  /\ cardFiles \subseteq cardFiles'
           /\ [lane |-> ProjectAt(x), task |-> t] \in cardFiles'
<1>1. \A file \in cardFiles : file.lane # ProjectAt(x)
  BY DEF TreesAreOwned, OnTree
<1> QED BY <1>1

\* x stays with its project, or fails with it.
LEMMA OrderIsKept ==
    ASSUME Typed, ReservationsAreInOrder, cardFiles \subseteq cardFiles',
           NEW x \in StressRuns, NEW stage,
           After(x, stage, stress[x].at, stress[x].reserved),
           Current(x) => stage \notin {"idle", "mark", "admit", "claim", "done"},
           stage \in Holding => stress[x].stage \in Holding
    PROVE  ReservationsAreInOrder'
<1>1. ASSUME NEW y \in StressRuns, NEW r \in stress'[y].reserved
      PROVE  EarlierOrCurrent(y, r)'
  <2>1. /\ stress'[y].reserved = stress[y].reserved /\ stress'[y].at = stress[y].at
        /\ stress'[y].seen = stress[y].seen
        /\ Current(y) => Current(y)'
        /\ stress'[y].stage \in Holding => stress[y].stage \in Holding
    BY DEF After, Current
  <2>2. ProjectAt(y)' = ProjectAt(y) /\ TaskAt(y)' = TaskAt(y)
    BY <2>1, PlaceIsKept
  <2>3. HasCard(r, cardFiles) => HasCard(r, cardFiles')
    BY DEF HasCard
  <2>4. EarlierOrCurrent(y, r)
    BY <1>1, <2>1 DEF ReservationsAreInOrder
  <2> QED BY <2>1, <2>2, <2>3, <2>4 DEF EarlierOrCurrent
<1> QED BY <1>1 DEF ReservationsAreInOrder

\* x goes on to the next project, with a card for what it reserved for this one.
LEMMA OrderGoesOn ==
    ASSUME Typed, ReservationsAreInOrder, cardFiles \subseteq cardFiles',
           NEW x \in StressRuns, NextProject(x), stress[x].stage \in AtProject,
           Current(x) => \A r \in stress[x].reserved :
                             r.lane = ProjectAt(x) /\ r.task \in TaskAt(x) => HasCard(r, cardFiles'),
           Current(x) => stress[x].stage \in Holding
    PROVE  ReservationsAreInOrder'
<1>1. /\ stress'[x].at = stress[x].at + 1 /\ stress'[x].reserved = stress[x].reserved
      /\ \A y \in StressRuns : y # x => stress'[y] = stress[y]
  BY NextProjectIsWritten DEF After
<1>2. stress[x].at \in 1 .. Len(Projects) /\ DOMAIN Projects = 1 .. Len(Projects)
      /\ Len(Projects) \in Nat
  BY ProjectsAreLanes DEF Typed, StressTyped
<1>3. ASSUME NEW r \in stress[x].reserved
      PROVE  EarlierOrCurrent(x, r)'
  <2>1. EarlierOrCurrent(x, r)
    BY DEF ReservationsAreInOrder
  <2>2. CASE /\ \E i \in 1 .. stress[x].at - 1 : i \in DOMAIN Projects /\ r.lane = Projects[i]
             /\ HasCard(r, cardFiles)
    <3>1. HasCard(r, cardFiles')
      BY <2>2 DEF HasCard
    <3>2. \E i \in 1 .. stress'[x].at - 1 : i \in DOMAIN Projects /\ r.lane = Projects[i]
      BY <1>1, <1>2, <2>2
    <3> QED BY <3>1, <3>2 DEF EarlierOrCurrent
  <2>3. CASE Current(x) /\ r.lane = ProjectAt(x) /\ (stress[x].stage \in Holding => r.task \in TaskAt(x))
    <3>1. HasCard(r, cardFiles')
      BY <2>3
    <3>2. stress[x].at \in 1 .. stress'[x].at - 1 /\ stress[x].at \in DOMAIN Projects
          /\ r.lane = Projects[stress[x].at]
      BY <1>1, <1>2, <2>3 DEF ProjectAt
    <3> QED BY <3>1, <3>2 DEF EarlierOrCurrent
  <2> QED BY <2>1, <2>2, <2>3 DEF EarlierOrCurrent
<1>4. ASSUME NEW y \in StressRuns, y # x, NEW r \in stress[y].reserved
      PROVE  EarlierOrCurrent(y, r)'
  <2>1. stress'[y] = stress[y] /\ ProjectAt(y)' = ProjectAt(y) /\ TaskAt(y)' = TaskAt(y)
    BY <1>1, <1>4, OthersAreKept
  <2>2. EarlierOrCurrent(y, r) /\ (HasCard(r, cardFiles) => HasCard(r, cardFiles'))
    BY DEF ReservationsAreInOrder, HasCard
  <2> QED BY <2>1, <2>2 DEF EarlierOrCurrent, Current
<1> QED BY <1>1, <1>3, <1>4 DEF ReservationsAreInOrder

LEMMA ReservationsStayInOrder ==
    ASSUME Typed, TreesAreOwned, ReservationsAreInOrder, [Next]_vars
    PROVE  ReservationsAreInOrder'
<1>1. CASE Quiet
  <2>1. ASSUME NEW y \in StressRuns, NEW r \in stress[y].reserved
        PROVE  EarlierOrCurrent(y, r)'
    <3>1. stress'[y] = stress[y] /\ ProjectAt(y)' = ProjectAt(y) /\ TaskAt(y)' = TaskAt(y)
      BY <1>1, OthersAreKept DEF Quiet
    <3>2. EarlierOrCurrent(y, r)
      BY DEF ReservationsAreInOrder
    <3> QED BY <1>1, <3>1, <3>2 DEF EarlierOrCurrent, Current, Quiet
  <2> QED BY <1>1, <2>1 DEF ReservationsAreInOrder, Quiet
<1>2. ASSUME NEW x \in StressRuns, Fails(x), UNCHANGED cardFiles
      PROVE  ReservationsAreInOrder'
  BY <1>2, OrderIsKept DEF Fails, Holding
<1>3. ASSUME NEW x \in StressRuns, StressStarts(x)
      PROVE  ReservationsAreInOrder'
  <2>1. ASSUME NEW r \in stress[x].reserved
        PROVE  FALSE
    <3>1. stress[x].at = 1 /\ ~Current(x) /\ EarlierOrCurrent(x, r)
      BY <1>3, StressStartsDoes DEF ReservationsAreInOrder, Current, Typed, StressTyped
    <3> QED BY <3>1 DEF EarlierOrCurrent
  <2>2. /\ stress'[x].reserved = stress[x].reserved /\ UNCHANGED cardFiles
        /\ \A y \in StressRuns : y # x => stress'[y] = stress[y]
    BY <1>3, StressStartsDoes
  <2>3. ASSUME NEW y \in StressRuns, y # x, NEW r \in stress[y].reserved
        PROVE  EarlierOrCurrent(y, r)'
    <3>1. stress'[y] = stress[y] /\ ProjectAt(y)' = ProjectAt(y) /\ TaskAt(y)' = TaskAt(y)
      BY <2>2, <2>3, OthersAreKept
    <3>2. EarlierOrCurrent(y, r)
      BY DEF ReservationsAreInOrder
    <3> QED BY <2>2, <3>1, <3>2 DEF EarlierOrCurrent, Current
  <2> QED BY <2>1, <2>2, <2>3 DEF ReservationsAreInOrder
<1>4. ASSUME NEW x \in StressRuns, StressMarks(x)
      PROVE  ReservationsAreInOrder'
  <2>1. UNCHANGED cardFiles /\ ~Current(x) /\ stress[x].stage \in AtProject
    BY <1>4, StressMarksDoes DEF Current, AtProject
  <2>2. NextProject(x) => ReservationsAreInOrder'
    BY <2>1, OrderGoesOn
  <2>3. After(x, "admit", stress[x].at, stress[x].reserved) => ReservationsAreInOrder'
    BY <2>1, OrderIsKept DEF Holding
  <2> QED BY <1>2, <1>4, <2>1, <2>2, <2>3, StressMarksDoes
<1>5. ASSUME NEW x \in StressRuns, StressClaims(x)
      PROVE  ReservationsAreInOrder'
  <2>1. /\ UNCHANGED cardFiles /\ ~Current(x) /\ ProjectAt(x) \in Lanes
        /\ stress[x].at \in DOMAIN Projects
    BY <1>5, StressClaimsDoes, ProjectIsLane, ProjectsAreLanes
       DEF Typed, StressTyped, AtProject, Current
  <2>2. ASSUME NEW t \in TaskAt(x),
               After(x, "allocate", stress[x].at, stress[x].reserved \cup {NewReservation(x, t)})
        PROVE  ReservationsAreInOrder'
    <3>0. PICK new : new = NewReservation(x, t)
      OBVIOUS
    <3>1. new.lane = ProjectAt(x) /\ new.task = t
      BY <2>1, <3>0, ReservationIsTyped
    <3>2. /\ stress'[x].reserved = stress[x].reserved \cup {new}
          /\ stress'[x].stage = "allocate" /\ stress'[x].at = stress[x].at
          /\ stress'[x].seen = stress[x].seen
          /\ \A y \in StressRuns : y # x => stress'[y] = stress[y]
      BY <2>2, <3>0 DEF After
    <3>3. ProjectAt(x)' = ProjectAt(x) /\ TaskAt(x)' = TaskAt(x)
      BY <3>2, PlaceIsKept
    <3>4. EarlierOrCurrent(x, new)'
      BY <2>1, <3>1, <3>2, <3>3 DEF EarlierOrCurrent, Current
    <3>5. ASSUME NEW r \in stress[x].reserved
          PROVE  EarlierOrCurrent(x, r)'
      <4>1. EarlierOrCurrent(x, r)
        BY DEF ReservationsAreInOrder
      <4> QED BY <2>1, <3>2, <4>1 DEF EarlierOrCurrent
    <3>6. ASSUME NEW y \in StressRuns, y # x, NEW r \in stress[y].reserved
          PROVE  EarlierOrCurrent(y, r)'
      <4>1. stress'[y] = stress[y] /\ ProjectAt(y)' = ProjectAt(y) /\ TaskAt(y)' = TaskAt(y)
        BY <3>2, <3>6, OthersAreKept
      <4>2. EarlierOrCurrent(y, r)
        BY DEF ReservationsAreInOrder
      <4> QED BY <2>1, <4>1, <4>2 DEF EarlierOrCurrent, Current
    <3> QED BY <3>2, <3>4, <3>5, <3>6 DEF ReservationsAreInOrder
  <2> QED BY <1>2, <1>5, <2>1, <2>2, StressClaimsDoes
<1>6. ASSUME NEW x \in StressRuns, StressAllocates(x)
      PROVE  ReservationsAreInOrder'
  <2>1. After(x, "complete", stress[x].at, stress[x].reserved) /\ UNCHANGED cardFiles
            => ReservationsAreInOrder'
    BY <1>6, StressAllocatesDoes, OrderIsKept DEF Holding
  <2> QED BY <1>2, <1>6, <2>1, StressAllocatesDoes
<1>7. ASSUME NEW x \in StressRuns, StressCompletes(x)
      PROVE  ReservationsAreInOrder'
  <2>1. After(x, "card", stress[x].at, stress[x].reserved) /\ UNCHANGED cardFiles
            => ReservationsAreInOrder'
    BY <1>7, StressCompletesDoes, OrderIsKept DEF Holding
  <2> QED BY <1>2, <1>7, <2>1, StressCompletesDoes
<1>8. ASSUME NEW x \in StressRuns, StressWritesCard(x)
      PROVE  ReservationsAreInOrder'
  <2>1. stress[x].stage = "card" /\ stress[x].stage \in AtProject /\ stress[x].stage \in Holding
    BY <1>8, StressWritesCardDoes DEF AtProject, Holding
  <2>2. ASSUME NEW t \in TaskAt(x), NextProject(x),
               cardFiles' = {file \in cardFiles : file.lane # ProjectAt(x)}
                            \cup {[lane |-> ProjectAt(x), task |-> t]}
        PROVE  ReservationsAreInOrder'
    <3>1. cardFiles \subseteq cardFiles' /\ [lane |-> ProjectAt(x), task |-> t] \in cardFiles'
      BY <2>1, <2>2, CardsAreKept
    <3>2. ASSUME NEW r \in stress[x].reserved, r.lane = ProjectAt(x), r.task \in TaskAt(x)
          PROVE  HasCard(r, cardFiles')
      <4>1. r.task = t
        BY <3>2, TaskIsOne
      <4> QED BY <3>1, <3>2, <4>1 DEF HasCard
    <3> QED BY <2>1, <2>2, <3>1, <3>2, OrderGoesOn
  <2> QED BY <1>2, <1>8, <2>2, StressWritesCardDoes
<1>9. ASSUME NEW x \in StressRuns, StressDies(x)
      PROVE  ReservationsAreInOrder'
  BY <1>2, <1>9, StressDiesDoes
<1>10. ASSUME NEW x \in StressRuns, StressAdmits(x)
       PROVE  ReservationsAreInOrder'
  <2>1. UNCHANGED cardFiles /\ ~Current(x)
    BY <1>10, StressAdmitsDoes DEF Current
  <2>2. After(x, "claim", stress[x].at, stress[x].reserved) => ReservationsAreInOrder'
    BY <2>1, OrderIsKept DEF Holding
  <2> QED BY <1>2, <1>10, <2>1, <2>2, StressAdmitsDoes
<1> QED BY <1>1, <1>3, <1>4, <1>5, <1>6, <1>7, <1>8, <1>9, <1>10, StepCases

ReservedInv == CardInv /\ ReservationsAreAdmitted /\ ReservationsAreInOrder

\* A stress run that stops half way leaves at most one of the tasks it claimed
\* without a card, wherever it stops and whatever else goes on.
THEOREM AtMostOneUnfinishedAlways == Spec => []AtMostOneUnfinished
<1>1. Init => ReservedInv
  BY InitIsTyped, NothingIsHeldAtFirst, NothingIsReservedAtFirst DEF ReservedInv, CardInv
<1>2. ReservedInv /\ [Next]_vars => ReservedInv'
  BY StepMovesRecords, LanesStayHeld, TreesStayOwned, CardsGoOnNaming, ReservationsStayAdmitted,
     ReservationsStayInOrder DEF ReservedInv, CardInv
<1>3. ReservedInv => AtMostOneUnfinished
  <2> SUFFICES ASSUME ReservedInv, NEW x \in StressRuns
               PROVE  Cardinality({r \in stress[x].reserved :
                          ~\E file \in cardFiles : file.lane = r.lane /\ file.task = r.task}) <= 1
    BY DEF AtMostOneUnfinished
  <2> DEFINE unfinished == {r \in stress[x].reserved :
                          ~\E file \in cardFiles : file.lane = r.lane /\ file.task = r.task}
  <2>1. \A r \in unfinished : r.lane = ProjectAt(x)
    BY DEF ReservedInv, ReservationsAreInOrder, EarlierOrCurrent, HasCard
  <2>2. \A r \in unfinished : r.areas = {ProjectAt(x)}
    BY <2>1 DEF ReservedInv, ReservationsAreAdmitted
  <2>3. \A r, s \in unfinished : r = s
    BY <2>2 DEF ReservedInv, ReservationsAreAdmitted, NoConflict
  <2> HIDE DEF unfinished
  <2>4. unfinished = {} \/ \E r : unfinished = {r}
    BY <2>3
  <2>5. Cardinality(unfinished) <= 1
    BY <2>4, FS_EmptySet, FS_Singleton
  <2> QED BY <2>5 DEF unfinished
<1> QED BY <1>1, <1>2, <1>3, PTL DEF Spec
-----------------------------------------------------------------------------
(* The board: what a sync does to the store.                               *)

\* The sync has a result after each of its tasks.
SyncRun(f, n, start, tasks) ==
    f = [i \in 0..n |-> IF i = 0 THEN [ok |-> TRUE, store |-> start, summary |-> EmptySummary]
                        ELSE SyncOne(f[i - 1], tasks[i])]

LEMMA SyncHasRun ==
    ASSUME NEW start, NEW tasks, NEW N \in Nat
    PROVE  \E f : SyncRun(f, N, start, tasks)
<1> DEFINE S == {n \in Nat : \E f : SyncRun(f, n, start, tasks)}
           first == [ok |-> TRUE, store |-> start, summary |-> EmptySummary]
<1>1. 0 \in S
  <2> DEFINE g == [i \in 0..0 |-> first]
  <2>1. SyncRun(g, 0, start, tasks)
    BY DEF SyncRun
  <2> HIDE DEF g
  <2> QED BY <2>1
<1>2. ASSUME NEW n \in Nat, n \in S
      PROVE  n + 1 \in S
  <2>1. PICK f : SyncRun(f, n, start, tasks)
    BY <1>2
  <2> DEFINE g == [i \in 0..(n + 1) |-> IF i = n + 1 THEN SyncOne(f[n], tasks[n + 1]) ELSE f[i]]
             h == [i \in 0..(n + 1) |-> IF i = 0 THEN first ELSE SyncOne(g[i - 1], tasks[i])]
  <2>2. ASSUME NEW i \in 0..(n + 1)
        PROVE  g[i] = h[i]
    <3>1. CASE i = n + 1
      <4>1. i - 1 = n /\ i # 0 /\ n \in 0..(n + 1) /\ n # n + 1
        BY <3>1
      <4>2. g[n] = f[n]
        BY <4>1
      <4> QED BY <3>1, <4>1, <4>2
    <3>2. CASE i # n + 1
      <4>1. i \in 0..n /\ g[i] = f[i]
        BY <3>2
      <4>2. f[i] = IF i = 0 THEN first ELSE SyncOne(f[i - 1], tasks[i])
        BY <2>1, <4>1 DEF SyncRun
      <4>3. i # 0 => i - 1 \in 0..(n + 1) /\ i - 1 # n + 1 /\ g[i - 1] = f[i - 1]
        BY <4>1
      <4> QED BY <4>1, <4>2, <4>3
    <3> QED BY <3>1, <3>2
  <2>3. g = h
    BY <2>2
  <2>4. SyncRun(g, n + 1, start, tasks)
    BY <2>3 DEF SyncRun
  <2> HIDE DEF g
  <2> QED BY <2>4
<1> HIDE DEF S
<1>3. N \in S
  BY <1>1, <1>2, NatSetInduction
<1> QED BY <1>3 DEF S

\* A store that can be reached.
IsStore(s) == s \in [available : {TRUE}, cards : {s.cards}, next : Nat]

LEMMA SyncIsRun ==
    ASSUME NEW start, NEW tasks, Len(tasks) \in Nat, IsStore(start)
    PROVE  \E f : /\ SyncTasks(start, tasks) = f[Len(tasks)]
                  /\ f[0] = [ok |-> TRUE, store |-> start, summary |-> EmptySummary]
                  /\ \A n \in 1..Len(tasks) : f[n] = SyncOne(f[n - 1], tasks[n])
<1> DEFINE run == CHOOSE f : SyncRun(f, Len(tasks), start, tasks)
<1>1. SyncTasks(start, tasks) = run[Len(tasks)]
  <2>1. start.available
    BY DEF IsStore
  <2> QED BY <2>1 DEF SyncTasks, SyncRun
<1>2. SyncRun(run, Len(tasks), start, tasks)
  BY SyncHasRun
<1> HIDE DEF run
<1>3. run[0] = [ok |-> TRUE, store |-> start, summary |-> EmptySummary]
  BY <1>2 DEF SyncRun
<1>4. ASSUME NEW n \in 1..Len(tasks)
      PROVE  run[n] = SyncOne(run[n - 1], tasks[n])
  <2> DEFINE all == [i \in 0..Len(tasks) |->
                        IF i = 0 THEN [ok |-> TRUE, store |-> start, summary |-> EmptySummary]
                        ELSE SyncOne(run[i - 1], tasks[i])]
  <2>1. all[n] = SyncOne(run[n - 1], tasks[n])
    OBVIOUS
  <2>2. run = all
    BY <1>2 DEF SyncRun
  <2> HIDE DEF all
  <2> QED BY <2>1, <2>2
<1> QED BY <1>1, <1>3, <1>4

\* One task: nothing is stored, or the card of the task is put.
SyncPuts(before, in, after) ==
    \/ after = before
    \/ \E card \in CardsOf(in) : after = Upsert(before, in.task.externalCard, card).store

LEMMA SyncOnePuts ==
    ASSUME NEW sync, NEW in, sync = [ok |-> sync.ok, store |-> sync.store, summary |-> sync.summary]
    PROVE  LET next == SyncOne(sync, in)
           IN  /\ next = [ok |-> next.ok, store |-> next.store, summary |-> next.summary]
               /\ SyncPuts(sync.store, in, next.store)
<1> DEFINE next == SyncOne(sync, in)
<1>1. CASE ~sync.ok
  <2>1. next = sync
    BY <1>1 DEF SyncOne
  <2> QED BY <2>1 DEF SyncPuts
<1>2. CASE sync.ok /\ CardsOf(in) = {}
  <2>1. next = [sync EXCEPT !.ok = FALSE]
    BY <1>2 DEF SyncOne
  <2>2. next = [ok |-> FALSE, store |-> sync.store, summary |-> sync.summary]
    BY <2>1
  <2> QED BY <2>2 DEF SyncPuts
<1>3. CASE sync.ok /\ CardsOf(in) # {}
  <2> DEFINE card == CHOOSE c \in CardsOf(in) : TRUE
             put  == Upsert(sync.store, in.task.externalCard, card)
             sums == CASE put.action = "Created" -> [sync.summary EXCEPT !.created = @ + 1]
                       [] put.action = "Updated" -> [sync.summary EXCEPT !.updated = @ + 1]
                       [] OTHER -> sync.summary
  <2>1. card \in CardsOf(in)
    BY <1>3
  <2>2. next = [ok |-> put.ok, store |-> put.store, summary |-> sums]
    BY <1>3 DEF SyncOne
  <2> HIDE DEF put, sums, card
  <2>3. next.store = put.store /\ next = [ok |-> next.ok, store |-> next.store, summary |-> next.summary]
    BY <2>2
  <2> QED BY <2>1, <2>3 DEF put, SyncPuts
<1> QED BY <1>1, <1>2, <1>3

LEMMA StoredIs ==
    ASSUME NEW s, IsStore(s), NEW id, NEW card
    PROVE  /\ IsStore(Stored(s, id, card)) /\ Stored(s, id, card).next = s.next
           /\ DOMAIN Stored(s, id, card).cards = {id} \cup DOMAIN s.cards
           /\ Stored(s, id, card).cards[id] = card
           /\ \A i \in DOMAIN s.cards : i # id => Stored(s, id, card).cards[i] = s.cards[i]
<1> DEFINE cards == [i \in DOMAIN s.cards \cup {id} |-> IF i = id THEN card ELSE s.cards[i]]
<1>1. /\ DOMAIN cards = {id} \cup DOMAIN s.cards
      /\ cards[id] = card
      /\ \A i \in DOMAIN s.cards : i # id => cards[i] = s.cards[i]
  OBVIOUS
<1> HIDE DEF cards
<1>2. Stored(s, id, card) = [s EXCEPT !.cards = cards]
  BY DEF Stored, cards
<1>3. Stored(s, id, card) = [available |-> TRUE, cards |-> cards, next |-> s.next]
  BY <1>2 DEF IsStore
<1> QED BY <1>1, <1>3 DEF IsStore

\* What putting a card comes to: it is at one id, for which there is a reason,
\* or its number was taken.
UpsertedAt(before, existing, card, id, after) ==
    /\ \/ id \in existing
       \/ existing = {} /\ id \in DOMAIN before.cards
                        /\ ShownTask(before.cards[id]) = ShownTask(card)
    /\ after.next = before.next
    /\ \A i \in DOMAIN before.cards : i # id => after.cards[i] = before.cards[i]
    /\ DOMAIN after.cards = {id} \cup DOMAIN before.cards
    /\ after.cards[id] = card

UpsertedNew(before, existing, card, id, after) ==
    /\ existing = {} /\ id = GeneratedId(before.next + 1) /\ id \notin DOMAIN before.cards
    /\ \A i \in DOMAIN before.cards : ShownTask(before.cards[i]) # ShownTask(card)
    /\ after.next = before.next + 1
    /\ \A i \in DOMAIN before.cards : i # id => after.cards[i] = before.cards[i]
    /\ DOMAIN after.cards = {id} \cup DOMAIN before.cards
    /\ after.cards[id] = card

LEMMA UpsertDoes ==
    ASSUME NEW s, IsStore(s), NEW existing, NEW card, NEW after,
           after = Upsert(s, existing, card).store
    PROVE  /\ IsStore(after)
           /\ \/ \E id : UpsertedAt(s, existing, card, id, after)
              \/ \E id : UpsertedNew(s, existing, card, id, after)
              \/ /\ existing = {} /\ GeneratedId(s.next + 1) \in DOMAIN s.cards
                 /\ \A i \in DOMAIN s.cards : ShownTask(s.cards[i]) # ShownTask(card)
                 /\ after.cards = s.cards /\ after.next = s.next + 1
<1> DEFINE same    == {id \in DOMAIN s.cards : ShownTask(s.cards[id]) = ShownTask(card)}
           new     == GeneratedId(s.next + 1)
           counted == [s EXCEPT !.next = @ + 1]
<1>1. /\ IsStore(counted) /\ counted.cards = s.cards /\ counted.next = s.next + 1
  <2> DEFINE n == s.next + 1
  <2>1. counted = [s EXCEPT !.next = n] /\ n \in Nat
    BY DEF IsStore
  <2> HIDE DEF counted, n
  <2>2. counted = [available |-> TRUE, cards |-> s.cards, next |-> n]
    BY <2>1 DEF IsStore
  <2>3. IsStore(counted) /\ counted.cards = s.cards /\ counted.next = n
    BY <2>1, <2>2 DEF IsStore
  <2> QED BY <2>3 DEF n
<1>2. CASE existing # {}
  <2> DEFINE id == CHOOSE i \in existing : TRUE
  <2>1. after = Stored(s, id, card)
    BY <1>2 DEF Upsert
  <2>2. id \in existing
    BY <1>2
  <2> HIDE DEF id
  <2>3. IsStore(after) /\ UpsertedAt(s, existing, card, id, after)
    BY <2>1, <2>2, StoredIs DEF UpsertedAt
  <2> QED BY <2>3
<1>3. CASE existing = {} /\ same # {}
  <2> DEFINE id == CHOOSE i \in same : TRUE
  <2>1. after = Stored(s, id, card)
    BY <1>3 DEF Upsert
  <2>2. id \in same
    BY <1>3
  <2> HIDE DEF id
  <2>3. IsStore(after) /\ UpsertedAt(s, existing, card, id, after)
    BY <1>3, <2>1, <2>2, StoredIs DEF UpsertedAt
  <2> QED BY <2>3
<1>4. CASE existing = {} /\ same = {} /\ new \in DOMAIN s.cards
  <2>1. after = counted
    BY <1>4 DEF Upsert
  <2> QED BY <1>1, <1>4, <2>1
<1>5. CASE existing = {} /\ same = {} /\ new \notin DOMAIN s.cards
  <2>1. after = Stored(counted, new, card)
    BY <1>5 DEF Upsert
  <2>2. IsStore(after) /\ UpsertedNew(s, existing, card, new, after)
    <3> HIDE DEF counted, new
    <3>1. /\ IsStore(after) /\ after.next = s.next + 1
          /\ DOMAIN after.cards = {new} \cup DOMAIN s.cards
          /\ after.cards[new] = card
          /\ \A i \in DOMAIN s.cards : i # new => after.cards[i] = s.cards[i]
      BY <1>1, <2>1, StoredIs
    <3>2. \A i \in DOMAIN s.cards : ShownTask(s.cards[i]) # ShownTask(card)
      BY <1>5
    <3> QED BY <1>5, <3>1, <3>2 DEF UpsertedNew, new
  <2> QED BY <2>2
<1> QED BY <1>2, <1>3, <1>4, <1>5
-----------------------------------------------------------------------------
(* The board shows nothing private.                                        *)

\* No text is left with a private word in it when it was redacted.
LEMMA RedactedIsClean ==
    ASSUME NEW text
    PROVE  Redacted(text) \cap PrivateWord = {}
<1> DEFINE masked == RedactedEmails(RedactedPaths(text))
<1>1. "path" \notin masked /\ "secret_path" \notin masked /\ "email" \notin masked
  BY DEF RedactedEmails, RedactedPaths
<1>2. CASE ContainsSecret(masked)
  BY <1>2 DEF Redacted, PrivateWord
<1>3. CASE ~ContainsSecret(masked)
  BY <1>1, <1>3 DEF Redacted, PrivateWord, ContainsSecret
<1> QED BY <1>2, <1>3

LEMMA CardsOfAreClean ==
    ASSUME NEW in, NEW card \in CardsOf(in)
    PROVE  VisibleWords(card) \cap PrivateWord = {}
<1> DEFINE raw == [ title    |-> in.title,
                    numbers  |-> NumberFields(in),
                    fields   |-> Fields(in),
                    comments |-> Comments(in) ]
<1>1. card = RedactedCard(raw)
  BY DEF CardsOf, MappedCard
<1> HIDE DEF raw
<1>2. /\ card.title = Redacted(raw.title)
      /\ card.fields = [name \in DOMAIN raw.fields |-> {Redacted(text) : text \in raw.fields[name]}]
      /\ card.comments = {[kind |-> c.kind, body |-> Redacted(c.body)] : c \in raw.comments}
  BY <1>1 DEF RedactedCard
<1>3. \A name \in DOMAIN card.fields : \A text \in card.fields[name] : text \cap PrivateWord = {}
  BY <1>2, RedactedIsClean
<1>4. \A comment \in card.comments : comment.body \cap PrivateWord = {}
  BY <1>2, RedactedIsClean
<1>5. card.title \cap PrivateWord = {}
  BY <1>2, RedactedIsClean
<1> SUFFICES ASSUME NEW word \in VisibleWords(card), word \in PrivateWord
             PROVE  FALSE
  OBVIOUS
<1>6. CASE \E name \in DOMAIN card.fields : word \in UNION card.fields[name]
  BY <1>3, <1>6
<1>7. CASE \E comment \in card.comments : word \in comment.body
  BY <1>4, <1>7
<1> DEFINE fieldWords   == UNION {UNION card.fields[name] : name \in DOMAIN card.fields}
           commentWords == UNION {comment.body : comment \in card.comments}
<1>8. VisibleWords(card) = card.title \cup fieldWords \cup commentWords
  BY DEF VisibleWords
<1>9. word \in fieldWords => \E name \in DOMAIN card.fields : word \in UNION card.fields[name]
  OBVIOUS
<1>10. word \in commentWords => \E comment \in card.comments : word \in comment.body
  OBVIOUS
<1> HIDE DEF fieldWords, commentWords
<1> QED BY <1>5, <1>6, <1>7, <1>8, <1>9, <1>10

\* A store in which no card shows anything private.
CleanStore(s) ==
    IsStore(s) /\ \A id \in DOMAIN s.cards : VisibleWords(s.cards[id]) \cap PrivateWord = {}

LEMMA PuttingKeepsClean ==
    ASSUME NEW before, CleanStore(before), NEW in, NEW after, SyncPuts(before, in, after)
    PROVE  CleanStore(after)
<1>1. CASE after = before
  BY <1>1
<1>2. ASSUME NEW card \in CardsOf(in), after = Upsert(before, in.task.externalCard, card).store
      PROVE  CleanStore(after)
  <2>1. VisibleWords(card) \cap PrivateWord = {}
    BY CardsOfAreClean
  <2> DEFINE existing == in.task.externalCard
  <2>2. /\ IsStore(after)
        /\ \/ \E id : UpsertedAt(before, existing, card, id, after)
           \/ \E id : UpsertedNew(before, existing, card, id, after)
           \/ after.cards = before.cards
    BY <1>2, UpsertDoes DEF CleanStore
  <2> HIDE DEF existing
  <2>3. ASSUME NEW id, UpsertedAt(before, existing, card, id, after)
                       \/ UpsertedNew(before, existing, card, id, after)
        PROVE  \A i \in DOMAIN after.cards :
                   after.cards[i] = card \/ (i \in DOMAIN before.cards /\ after.cards[i] = before.cards[i])
    BY <2>3 DEF UpsertedAt, UpsertedNew
  <2>4. \A i \in DOMAIN after.cards :
            after.cards[i] = card \/ (i \in DOMAIN before.cards /\ after.cards[i] = before.cards[i])
    BY <2>2, <2>3
  <2> QED BY <2>1, <2>2, <2>4 DEF CleanStore
<1> QED BY <1>1, <1>2 DEF SyncPuts

LEMMA SyncKeepsClean ==
    ASSUME NEW start, CleanStore(start), NEW tasks, Len(tasks) \in Nat
    PROVE  CleanStore(SyncTasks(start, tasks).store)
<1>1. IsStore(start)
  BY DEF CleanStore
<1>2. PICK f : /\ SyncTasks(start, tasks) = f[Len(tasks)]
               /\ f[0] = [ok |-> TRUE, store |-> start, summary |-> EmptySummary]
               /\ \A n \in 1..Len(tasks) : f[n] = SyncOne(f[n - 1], tasks[n])
  BY <1>1, SyncIsRun
<1> DEFINE Good(sync) == /\ sync = [ok |-> sync.ok, store |-> sync.store, summary |-> sync.summary]
                         /\ CleanStore(sync.store)
           S == {n \in Nat : n <= Len(tasks) => Good(f[n])}
<1>3. 0 \in S
  BY <1>2
<1>4. ASSUME NEW n \in Nat, n \in S
      PROVE  n + 1 \in S
  <2> SUFFICES ASSUME n + 1 <= Len(tasks) PROVE Good(f[n + 1])
    OBVIOUS
  <2>1. n + 1 \in 1..Len(tasks) /\ n <= Len(tasks) /\ (n + 1) - 1 = n
    OBVIOUS
  <2>2. Good(f[n])
    BY <1>4, <2>1
  <2>3. f[n + 1] = SyncOne(f[n], tasks[n + 1])
    BY <1>2, <2>1
  <2> QED BY <2>2, <2>3, SyncOnePuts, PuttingKeepsClean
<1> HIDE DEF S
<1>5. Len(tasks) \in S
  BY <1>3, <1>4, NatSetInduction
<1> QED BY <1>2, <1>5 DEF S
-----------------------------------------------------------------------------
\* The tasks a sync is given are tasks of the registry as they are now.
Describes(in, t) ==
    /\ in.task.idText = {t}
    /\ in.task.status = records[t].status
    /\ in.task.externalCard = CallerCards[t]

LEMMA BoardInputDescribes ==
    ASSUME NEW t, NEW broken, NEW lane
    PROVE  Describes(BoardInput(t, broken), t) /\ Describes(WithLane(BoardInput(t, {}), lane), t)
<1>1. ASSUME NEW reviews
      PROVE  LET in == CardInput(t, records[t], {}, CallerCards[t], reviews)
             IN  Describes(in, t) /\ Describes(WithLane(in, lane), t)
  BY DEF CardInput, WithLane, Describes
<1>2. BoardInput(t, {}) = CardInput(t, records[t], {}, CallerCards[t],
                                    IF t \in {} THEN {[summary |-> {}]} ELSE {})
  BY DEF BoardInput
<1>3. BoardInput(t, broken) = CardInput(t, records[t], {}, CallerCards[t],
                                        IF t \in broken THEN {[summary |-> {}]} ELSE {})
  BY DEF BoardInput
<1> QED BY <1>1, <1>2, <1>3

LEMMA BoardStepsSync ==
    ASSUME RecordsTyped, BoardSyncs \/ LaneSyncs
    PROVE  \E tasks : /\ Len(tasks) \in Nat
                      /\ store' = SyncTasks(store, tasks).store
                      /\ \A i \in 1..Len(tasks) : \E t \in DOMAIN records : Describes(tasks[i], t)
<1>1. ASSUME NEW list \in SyncLists, NEW broken,
             store' = SyncTasks(store, [i \in DOMAIN list |-> BoardInput(list[i], broken)]).store
      PROVE  \E tasks : /\ Len(tasks) \in Nat
                        /\ store' = SyncTasks(store, tasks).store
                        /\ \A i \in 1..Len(tasks) : \E t \in DOMAIN records : Describes(tasks[i], t)
  <2> DEFINE tasks == [i \in DOMAIN list |-> BoardInput(list[i], broken)]
  <2>1. Cardinality(DOMAIN records) \in Nat
    BY TasksAreFinite, FS_Subset, FS_CardinalityType DEF RecordsTyped
  <2>2. \E n \in Nat : DOMAIN list = 1..n /\ \A i \in 1..n : list[i] \in DOMAIN records
    <3>1. ASSUME list \in [1..Cardinality(DOMAIN records) -> DOMAIN records]
          PROVE  \E n \in Nat : DOMAIN list = 1..n /\ \A i \in 1..n : list[i] \in DOMAIN records
      BY <2>1, <3>1
    <3>2. ASSUME NEW t \in DOMAIN records, list = <<t>>
          PROVE  \E n \in Nat : DOMAIN list = 1..n /\ \A i \in 1..n : list[i] \in DOMAIN records
      <4>1. DOMAIN list = 1..1 /\ \A i \in 1..1 : list[i] \in DOMAIN records
        BY <3>2
      <4> QED BY <4>1
    <3> QED BY <3>1, <3>2 DEF SyncLists
  <2>3. PICK n \in Nat : DOMAIN list = 1..n /\ \A i \in 1..n : list[i] \in DOMAIN records
    BY <2>2
  <2>4. tasks \in [1..n -> {tasks[i] : i \in 1..n}]
    BY <2>3
  <2>5. \A i \in 1..n : Describes(tasks[i], list[i])
    BY <2>3, BoardInputDescribes
  <2> HIDE DEF tasks
  <2>6. tasks \in Seq({tasks[i] : i \in 1..n}) /\ Len(tasks) = n
    BY <2>4
  <2> QED BY <1>1, <2>3, <2>5, <2>6 DEF tasks
<1>2. ASSUME NEW t \in DOMAIN records, NEW lane,
             store' = SyncLaneTransition(store, BoardInput(t, {}), lane).store
      PROVE  \E tasks : /\ Len(tasks) \in Nat
                        /\ store' = SyncTasks(store, tasks).store
                        /\ \A i \in 1..Len(tasks) : \E u \in DOMAIN records : Describes(tasks[i], u)
  <2> DEFINE in == WithLane(BoardInput(t, {}), lane)
  <2>1. store' = SyncTasks(store, <<in>>).store
    BY <1>2 DEF SyncLaneTransition
  <2>2. Describes(in, t)
    BY BoardInputDescribes
  <2> HIDE DEF in
  <2>3. Len(<<in>>) = 1 /\ \A i \in 1..1 : <<in>>[i] = in
    OBVIOUS
  <2> QED BY <2>1, <2>2, <2>3
<1> QED BY <1>1, <1>2 DEF BoardSyncs, LaneSyncs

LEMMA OthersLeaveStore ==
    ASSUME [Next]_vars
    PROVE  BoardSyncs \/ LaneSyncs \/ UNCHANGED store
<1>1. ASSUME TaskCommand
      PROVE  UNCHANGED store
  BY <1>1 DEF TaskCommand, CreatesTask, SetsStatus, Prioritizes, ChangesRecord
<1>2. ASSUME NEW x \in StressRuns, StressStarts(x) \/ StressStep(x)
      PROVE  UNCHANGED store
  BY <1>2 DEF StressStarts, StressStep, StressMarks, StressAdmits, StressClaims, StressAllocates,
              StressCompletes, StressWritesCard, StressDies
<1>3. ASSUME InteractiveWork \/ UNCHANGED vars
      PROVE  UNCHANGED store
  BY <1>3 DEF InteractiveWork, vars, fleet
<1> QED BY <1>1, <1>2, <1>3 DEF Next

LEMMA StoreIsMadeClean == ASSUME Init PROVE CleanStore(store)
<1>1. store = [available |-> TRUE, cards |-> <<>>, next |-> 0] /\ DOMAIN <<>> = {}
  BY DEF Init
<1> QED BY <1>1 DEF CleanStore, IsStore

LEMMA StoreStaysClean ==
    ASSUME RecordsTyped, CleanStore(store), [Next]_vars
    PROVE  CleanStore(store')
  BY BoardStepsSync, SyncKeepsClean, OthersLeaveStore

\* map_task_to_hermes_card: whatever is synced in which order, and whatever a
\* task's title names, no card on the board shows a private word.
THEOREM CardsAreCleanAlways == Spec => []CardsAreClean
<1>1. Init => Typed /\ CleanStore(store)
  BY InitIsTyped, StoreIsMadeClean
<1>2. (Typed /\ CleanStore(store)) /\ [Next]_vars => (Typed /\ CleanStore(store))'
  BY StepMovesRecords, StoreStaysClean DEF Typed
<1>3. CleanStore(store) => CardsAreClean
  BY DEF CleanStore, CardsAreClean
<1> QED BY <1>1, <1>2, <1>3, PTL DEF Spec
-----------------------------------------------------------------------------
(* Everything has its type.                                                *)

\* What Typed leaves open: where a run is after its last project, and that a
\* reservation is of a task there is.
WithinBounds ==
    /\ \A x \in StressRuns :
          /\ stress[x].at \in 1 .. Len(Projects) + 1
          /\ \A r \in stress[x].reserved : r.task \in DOMAIN records
    /\ worktrees \subseteq Lanes

\* A run that goes on, with what it has reserved and perhaps one task more.
GoesOnWithin(x) ==
    /\ stress'[x].at \in 1 .. Len(Projects) + 1
    /\ \A r \in stress'[x].reserved : r \in stress[x].reserved \/ r.task \in TaskAt(x)
    /\ \A y \in StressRuns : y # x => stress'[y] = stress[y]
    /\ \/ worktrees' = worktrees
       \/ /\ worktrees' = worktrees \cup {ProjectAt(x)}
          /\ stress[x].at \in 1 .. Len(Projects)

LEMMA AfterIsWithin ==
    ASSUME WithinBounds, NEW x \in StressRuns, NEW stage,
           \/ After(x, stage, stress[x].at, stress[x].reserved)
           \/ \E t \in TaskAt(x) : /\ After(x, stage, stress[x].at,
                                            stress[x].reserved \cup {NewReservation(x, t)})
                                   /\ NewReservation(x, t).task = t,
           worktrees' = worktrees
    PROVE  GoesOnWithin(x)
<1>1. stress[x].at \in 1 .. Len(Projects) + 1
  BY DEF WithinBounds
<1> QED BY <1>1 DEF After, GoesOnWithin

LEMMA NextIsWithin ==
    ASSUME Typed, WithinBounds, NEW x \in StressRuns, NextProject(x),
           stress[x].stage \in AtProject, worktrees' = worktrees
    PROVE  GoesOnWithin(x)
<1>1. /\ stress[x].at \in 1 .. Len(Projects) /\ Len(Projects) \in Nat
  BY ProjectsAreLanes DEF Typed, StressTyped
<1>2. stress[x].at + 1 \in 1 .. Len(Projects) + 1
  BY <1>1
<1>3. \E stage : After(x, stage, stress[x].at + 1, stress[x].reserved)
  BY NextProjectIsWritten
<1> QED BY <1>2, <1>3 DEF After, GoesOnWithin

LEMMA BoundsHold ==
    ASSUME Typed, WithinBounds, [Next]_vars
    PROVE  WithinBounds'
<1>0. RecordsMove /\ Len(Projects) \in Nat
  BY StepMovesRecords, ProjectsAreLanes
<1>1. CASE Quiet
  BY <1>0, <1>1 DEF Quiet, WithinBounds, RecordsMove
<1>2. ASSUME NEW x \in StressRuns, GoesOnWithin(x)
      PROVE  WithinBounds'
  <2>1. \A r \in stress'[x].reserved : r.task \in DOMAIN records'
    BY <1>0, <1>2, TaskIsOne DEF GoesOnWithin, WithinBounds, RecordsMove
  <2>2. \A y \in StressRuns : y # x =>
            /\ stress'[y].at \in 1 .. Len(Projects) + 1
            /\ \A r \in stress'[y].reserved : r.task \in DOMAIN records'
    BY <1>0, <1>2 DEF GoesOnWithin, WithinBounds, RecordsMove
  <2>3. worktrees' \subseteq Lanes
    BY <1>2, ProjectIsLane DEF GoesOnWithin, WithinBounds
  <2> QED BY <1>2, <2>1, <2>2, <2>3 DEF GoesOnWithin, WithinBounds
<1>3. ASSUME NEW x \in StressRuns, Fails(x), worktrees' = worktrees
      PROVE  GoesOnWithin(x)
  BY <1>3, AfterIsWithin DEF Fails
<1>4. ASSUME NEW x \in StressRuns, StressStarts(x)
      PROVE  GoesOnWithin(x)
  <2>1. stress'[x].at = 1 /\ stress'[x].reserved = stress[x].reserved /\ worktrees' = worktrees
        /\ \A y \in StressRuns : y # x => stress'[y] = stress[y]
    BY <1>4, StressStartsDoes
  <2> QED BY <1>0, <2>1 DEF GoesOnWithin
<1>5. ASSUME NEW x \in StressRuns, StressMarks(x)
      PROVE  GoesOnWithin(x)
  <2>1. stress[x].stage \in AtProject /\ worktrees' = worktrees
    BY <1>5, StressMarksDoes DEF AtProject
  <2> QED BY <1>3, <1>5, <2>1, StressMarksDoes, AfterIsWithin, NextIsWithin
<1>6. ASSUME NEW x \in StressRuns, StressClaims(x)
      PROVE  GoesOnWithin(x)
  <2>1. stress[x].stage \in AtProject /\ worktrees' = worktrees
    BY <1>6, StressClaimsDoes DEF AtProject
  <2>2. \A t \in TaskAt(x) : NewReservation(x, t).task = t
    BY <2>1, ReservationIsTyped, ProjectIsLane DEF Typed, StressTyped
  <2> QED BY <1>3, <1>6, <2>1, <2>2, StressClaimsDoes, AfterIsWithin
<1>7. ASSUME NEW x \in StressRuns, StressAllocates(x)
      PROVE  GoesOnWithin(x)
  <2>1. stress[x].at \in 1 .. Len(Projects)
    BY <1>7, StressAllocatesDoes DEF Typed, StressTyped, AtProject
  <2>2. ASSUME After(x, "complete", stress[x].at, stress[x].reserved),
               worktrees' = worktrees \cup {ProjectAt(x)}
        PROVE  GoesOnWithin(x)
    BY <1>0, <2>1, <2>2 DEF After, GoesOnWithin
  <2> QED BY <1>3, <1>7, <2>2, StressAllocatesDoes
<1>8. ASSUME NEW x \in StressRuns, StressCompletes(x)
      PROVE  GoesOnWithin(x)
  BY <1>3, <1>8, StressCompletesDoes, AfterIsWithin
<1>9. ASSUME NEW x \in StressRuns, StressWritesCard(x)
      PROVE  GoesOnWithin(x)
  <2>1. stress[x].stage \in AtProject /\ worktrees' = worktrees
    BY <1>9, StressWritesCardDoes DEF AtProject
  <2> QED BY <1>3, <1>9, <2>1, StressWritesCardDoes, NextIsWithin
<1>10. ASSUME NEW x \in StressRuns, StressDies(x)
       PROVE  GoesOnWithin(x)
  BY <1>3, <1>10, StressDiesDoes
<1>11. ASSUME NEW x \in StressRuns, StressAdmits(x)
       PROVE  GoesOnWithin(x)
  BY <1>3, <1>11, StressAdmitsDoes, AfterIsWithin
<1> QED BY <1>1, <1>2, <1>4, <1>5, <1>6, <1>7, <1>8, <1>9, <1>10, <1>11, StepCases

\* Each command is counted, and none is given beyond the bound.
LEMMA CommandsAreCounted ==
    ASSUME [Next]_vars, commands \in 0 .. MaxCommands
    PROVE  commands' \in 0 .. MaxCommands
<1>1. MaxCommands \in Nat
  BY LimitsAreNats
<1>2. Command \/ UNCHANGED commands
  <2>1. ASSUME NEW x \in StressRuns, StressStarts(x) \/ UNCHANGED commands
        PROVE  Command \/ UNCHANGED commands
    BY <2>1 DEF StressStarts
  <2> QED BY <2>1 DEF Next, TaskCommand, BoardSyncs, LaneSyncs, InteractiveWork, vars
<1> QED BY <1>1, <1>2 DEF Command

\* What tmux is told is about lanes there are.
LEMMA InteractiveIsTyped ==
    ASSUME InteractiveTypeOK, [InteractiveNext]_interactive
    PROVE  InteractiveTypeOK'
<1> USE DEF InteractiveTypeOK
<1>1. CASE UNCHANGED interactive
  BY <1>1 DEF interactive
<1>2. ASSUME NEW lane \in SessionLanes,
             \/ AllocateInteractiveLane(lane) \/ OpenSession(lane) \/ RecordSession(lane)
             \/ SessionEnds(lane) \/ Teardown(lane)
      PROVE  InteractiveTypeOK'
  BY <1>2 DEF AllocateInteractiveLane, OpenSession, RecordSession, SessionEnds, Teardown,
              LaunchFails, LaunchStage
<1>3. ASSUME NEW lane \in SessionLanes, NEW request \in SteeringRequests, LogSteering(lane, request)
      PROVE  InteractiveTypeOK'
  <2>1. request.message \in Messages /\ request.dryRun \in BOOLEAN
    BY DEF SteeringRequests
  <2>2. /\ [lane |-> lane, message |-> request.message, dryRun |-> request.dryRun] \in Line
        /\ [lane |-> lane, message |-> request.message] \in Keys
    BY <2>1 DEF Line, Keys
  <2> QED BY <1>3, <2>2 DEF LogSteering
<1>4. ASSUME NEW keys \in pending, TypeMessage(keys)
      PROVE  InteractiveTypeOK'
  <2>1. keys.lane \in SessionLanes /\ keys.message \in Messages
    BY DEF Keys
  <2>2. Target(keys.lane) \subseteq SessionLanes
    BY DEF Target
  <2>3. typed' \subseteq [lane : SessionLanes, message : Messages, session : SessionLanes]
    BY <1>4, <2>1, <2>2 DEF TypeMessage
  <2> QED BY <1>4, <2>3 DEF TypeMessage
<1> QED BY <1>1, <1>2, <1>3, <1>4 DEF InteractiveNext, InteractiveCommand, InteractiveStep

TypeInv ==
    /\ CardInv /\ WithinBounds /\ CleanStore(store)
    /\ commands \in 0 .. MaxCommands /\ InteractiveTypeOK

\* Every record, lane, reservation and card is what the types say, for any
\* number of tasks, projects, stress runs and interactive lanes.
THEOREM TypeCorrect == Spec => []TypeOK
<1>1. Init => TypeInv
  <2>1. Init => WithinBounds /\ commands \in 0 .. MaxCommands
    BY ProjectsAreLanes, LimitsAreNats DEF Init, WithinBounds
  <2>2. Init => InteractiveTypeOK
    BY DEF Init, InteractiveInit, InteractiveTypeOK, LaunchStage
  <2> QED BY <2>1, <2>2, InitIsTyped, NothingIsHeldAtFirst, StoreIsMadeClean DEF TypeInv, CardInv
<1>2. TypeInv /\ [Next]_vars => TypeInv'
  <2> SUFFICES ASSUME TypeInv, [Next]_vars
               PROVE  TypeInv'
    OBVIOUS
  <2>1. CardInv'
    BY StepMovesRecords, LanesStayHeld, TreesStayOwned, CardsGoOnNaming DEF TypeInv, CardInv
  <2>2. WithinBounds' /\ CleanStore(store')
    BY BoundsHold, StoreStaysClean DEF TypeInv, CardInv, Typed
  <2>3. commands' \in 0 .. MaxCommands /\ InteractiveTypeOK'
    BY CommandsAreCounted, InteractiveSteps, InteractiveIsTyped DEF TypeInv
  <2> QED BY <2>1, <2>2, <2>3 DEF TypeInv
<1>3. TypeInv => TypeOK
  <2>1. TypeInv => store.next \in Nat
    BY DEF TypeInv, CleanStore, IsStore
  <2>2. TypeInv => /\ RecordsTyped /\ commands \in 0 .. MaxCommands
                   /\ InteractiveTypeOK /\ worktrees \subseteq Lanes
    BY DEF TypeInv, CardInv, Typed, WithinBounds
  <2>3. TypeInv => \A x \in StressRuns :
                      /\ stress[x].stage \in Stage
                      /\ stress[x].at \in 1 .. Len(Projects) + 1
                      /\ \A r \in stress[x].reserved : r.task \in DOMAIN records /\ r.lane \in Lanes
                      /\ DOMAIN stress[x].seen \subseteq DOMAIN records
    BY DEF TypeInv, CardInv, Typed, StressTyped, StressRun, Reservations, WithinBounds
  <2>4. TypeInv => \A file \in cardFiles : file.lane \in Lanes /\ file.task \in DOMAIN records
    BY DEF TypeInv, CardInv, TreesAreOwned, CardsName
  <2> QED BY <2>1, <2>2, <2>3, <2>4 DEF TypeOK, RecordsTyped
<1> QED BY <1>1, <1>2, <1>3, PTL DEF Spec
-----------------------------------------------------------------------------
(* The board implements TaskBoard.                                         *)

\* A word that is neither private nor a placeholder stays as it is.
LEMMA PlainWordStays ==
    ASSUME NEW word, word \notin PrivateWord \cup Placeholder
    PROVE  Redacted({word}) = {word}
<1>1. RedactedPaths({word}) = {word}
  BY DEF RedactedPaths, PrivateWord
<1>2. RedactedEmails({word}) = {word}
  BY DEF RedactedEmails, PrivateWord
<1>3. ~ContainsSecret({word})
  BY DEF ContainsSecret, PrivateWord, Placeholder
<1> QED BY <1>1, <1>2, <1>3 DEF Redacted

\* What is added to the fields leaves those there are.
LEMMA FirstFieldsStay ==
    ASSUME NEW f, NEW g, NEW name \in DOMAIN f
    PROVE  name \in DOMAIN (f ++ g) /\ (f ++ g)[name] = f[name]
  BY DEF ++

LEMMA BaseFieldsStay ==
    ASSUME NEW in, NEW name \in DOMAIN BaseFields(in)
    PROVE  name \in DOMAIN Fields(in) /\ Fields(in)[name] = BaseFields(in)[name]
<1> DEFINE f1 == BaseFields(in) ++ LaneFields(in)
           f2 == f1 ++ ExternalCardField(in)
           f3 == f2 ++ ValidationFields(in)
           f4 == f3 ++ ReportFields(in)
<1>1. Fields(in) = f4 ++ TimingFields(in)
  BY DEF Fields
<1>2. name \in DOMAIN f1 /\ f1[name] = BaseFields(in)[name]
  BY FirstFieldsStay
<1> HIDE DEF f1
<1>3. name \in DOMAIN f2 /\ f2[name] = f1[name]
  BY <1>2, FirstFieldsStay
<1> HIDE DEF f2
<1>4. name \in DOMAIN f3 /\ f3[name] = f2[name]
  BY <1>3, FirstFieldsStay
<1> HIDE DEF f3
<1>5. name \in DOMAIN f4 /\ f4[name] = f3[name]
  BY <1>4, FirstFieldsStay
<1> HIDE DEF f4
<1>6. name \in DOMAIN (f4 ++ TimingFields(in)) /\ (f4 ++ TimingFields(in))[name] = f4[name]
  BY <1>5, FirstFieldsStay
<1> QED BY <1>1, <1>2, <1>3, <1>4, <1>5, <1>6

\* The card of a task shows the task and how it stands.
LEMMA CardShowsItsTask ==
    ASSUME BoardIdsDiffer, NEW t \in Tasks, records[t].status \in TaskStatus,
           NEW in, Describes(in, t), NEW card \in CardsOf(in)
    PROVE  /\ ShownTask(card) = {{t}}
           /\ card.fields.task_status = {{records[t].status}}
<1> DEFINE raw == [ title    |-> in.title,
                    numbers  |-> NumberFields(in),
                    fields   |-> Fields(in),
                    comments |-> Comments(in) ]
<1>1. card = RedactedCard(raw) /\ raw.fields = Fields(in)
  BY DEF CardsOf, MappedCard
<1> HIDE DEF raw
<1>2. card.fields = [name \in DOMAIN Fields(in) |-> {Redacted(text) : text \in Fields(in)[name]}]
  BY <1>1 DEF RedactedCard
<1>3. /\ "task_id" \in DOMAIN BaseFields(in) /\ BaseFields(in)["task_id"] = {{t}}
      /\ "task_status" \in DOMAIN BaseFields(in)
      /\ BaseFields(in)["task_status"] = {{records[t].status}}
  BY DEF BaseFields, Describes
<1>4. /\ "task_id" \in DOMAIN Fields(in) /\ Fields(in)["task_id"] = {{t}}
      /\ "task_status" \in DOMAIN Fields(in) /\ Fields(in)["task_status"] = {{records[t].status}}
  BY <1>3, BaseFieldsStay
<1>5. Redacted({t}) = {t}
  BY PlainWordStays DEF BoardIdsDiffer
<1>6. Redacted({records[t].status}) = {records[t].status}
  BY PlainWordStays DEF TaskStatus, PrivateWord, Placeholder
<1>7. ASSUME NEW name \in DOMAIN Fields(in), NEW text,
             Fields(in)[name] = {text}, Redacted(text) = text
      PROVE  card.fields[name] = {text}
  <2>1. card.fields[name] = {Redacted(x) : x \in {text}}
    BY <1>2, <1>7
  <2> QED BY <1>7, <2>1
<1>8. card.fields["task_id"] = {{t}} /\ card.fields["task_status"] = {{records[t].status}}
  BY <1>4, <1>5, <1>6, <1>7
<1> QED BY <1>8 DEF ShownTask

\* The ids in use: the caller's for its task, and the first ones of the store for
\* the others.
OwnId(id, t, next) ==
    \/ id \in CallerCards[t]
    \/ CallerCards[t] = {} /\ \E n \in 1 .. next : id = GeneratedId(n)

BoardInv(s) ==
    /\ IsStore(s)
    /\ \A id \in DOMAIN s.cards :
          \E t \in Tasks : ShownTask(s.cards[id]) = {{t}} /\ OwnId(id, t, s.next)
    /\ \A i, j \in DOMAIN s.cards : ShownTask(s.cards[i]) = ShownTask(s.cards[j]) => i = j
    /\ \A n \in 1 .. s.next : GeneratedId(n) \in DOMAIN s.cards
    /\ s.next <= Cardinality(Tasks)

\* The cards a store has of a task, as a reader of the board sees them.
ShownIn(s, t) ==
    { [id |-> id, says |-> CHOOSE status \in TaskStatus :
                               {status} \in s.cards[id].fields.task_status]
      : id \in {i \in DOMAIN s.cards : ShownTask(s.cards[i]) = {{t}}} }

\* A task that is not shown and whose caller names no card leaves a number unused:
\* the others are shown on one card each.
LEMMA NumbersAreLeft ==
    ASSUME NEW s, BoardInv(s), NEW t \in Tasks,
           \A i \in DOMAIN s.cards : ShownTask(s.cards[i]) # {{t}}
    PROVE  s.next + 1 <= Cardinality(Tasks)
<1>1. s.next \in Nat
  BY DEF BoardInv, IsStore
<1> DEFINE numbers == 1 .. s.next + 1
           shows(n) == CHOOSE u \in Tasks : ShownTask(s.cards[GeneratedId(n)]) = {{u}}
           f == [n \in numbers |-> IF n = s.next + 1 THEN t ELSE shows(n)]
<1>2. ASSUME NEW n \in 1 .. s.next
      PROVE  /\ GeneratedId(n) \in DOMAIN s.cards
             /\ shows(n) \in Tasks /\ ShownTask(s.cards[GeneratedId(n)]) = {{shows(n)}}
             /\ shows(n) # t
  <2>1. GeneratedId(n) \in DOMAIN s.cards
    BY DEF BoardInv
  <2>2. \E u \in Tasks : ShownTask(s.cards[GeneratedId(n)]) = {{u}}
    BY <2>1 DEF BoardInv
  <2> QED BY <2>1, <2>2
<1> HIDE DEF shows
<1>3. ASSUME NEW m \in numbers, NEW n \in numbers, f[m] = f[n]
      PROVE  m = n
  <2>1. CASE m \in 1 .. s.next /\ n \in 1 .. s.next
    <3>1. shows(m) = shows(n)
      BY <1>1, <1>3, <2>1
    <3>2. ShownTask(s.cards[GeneratedId(m)]) = ShownTask(s.cards[GeneratedId(n)])
      BY <1>2, <2>1, <3>1
    <3>3. GeneratedId(m) \in DOMAIN s.cards /\ GeneratedId(n) \in DOMAIN s.cards
      BY <1>2, <2>1
    <3>4. GeneratedId(m) = GeneratedId(n)
      BY <3>2, <3>3 DEF BoardInv
    <3> QED BY <3>4 DEF GeneratedId
  <2>2. CASE ~(m \in 1 .. s.next /\ n \in 1 .. s.next)
    BY <1>1, <1>2, <1>3, <2>2
  <2> QED BY <2>1, <2>2
<1>4. f \in [numbers -> Tasks]
  BY <1>1, <1>2
<1> HIDE DEF f
<1>5. f \in Injection(numbers, Tasks)
  BY <1>3, <1>4 DEF Injection, IsInjective
<1>6. Cardinality(numbers) <= Cardinality(Tasks)
  BY <1>5, TasksAreFinite, FS_Injection
<1>7. Cardinality(numbers) = s.next + 1
  BY <1>1, FS_Interval
<1> QED BY <1>6, <1>7

\* Where a card of a task is put: at the one id the task has, or at a new one.
PutAt(before, t, status, id, after) ==
    /\ IsStore(after)
    /\ ShownTask(after.cards[id]) = {{t}}
    /\ after.cards[id].fields.task_status = {{status}}
    /\ DOMAIN after.cards = {id} \cup DOMAIN before.cards
    /\ \A i \in DOMAIN before.cards : i # id => after.cards[i] = before.cards[i]
    /\ id \in DOMAIN before.cards => ShownTask(before.cards[id]) = {{t}}
    /\ \A i \in DOMAIN before.cards : ShownTask(before.cards[i]) = {{t}} => i = id
    /\ OwnId(id, t, after.next)
    /\ \/ after.next = before.next
       \/ after.next = before.next + 1 /\ id = GeneratedId(after.next)
    /\ after.next <= Cardinality(Tasks)

LEMMA PuttingIsAtOne ==
    ASSUME BoardIdsDiffer, NEW before, BoardInv(before), NEW t \in Tasks,
           records[t].status \in TaskStatus, NEW in, Describes(in, t),
           NEW card \in CardsOf(in), NEW after,
           after = Upsert(before, in.task.externalCard, card).store
    PROVE  \E id : PutAt(before, t, records[t].status, id, after)
<1>1. /\ ShownTask(card) = {{t}} /\ card.fields.task_status = {{records[t].status}}
  BY CardShowsItsTask
<1>2. in.task.externalCard = CallerCards[t]
  BY DEF Describes
<1>3. IsStore(before) /\ before.next \in Nat /\ before.next <= Cardinality(Tasks)
      /\ Cardinality(Tasks) \in Nat
  BY TasksAreFinite, FS_CardinalityType DEF BoardInv, IsStore
<1>4. /\ IsStore(after)
      /\ \/ \E id : UpsertedAt(before, CallerCards[t], card, id, after)
         \/ \E id : UpsertedNew(before, CallerCards[t], card, id, after)
         \/ /\ GeneratedId(before.next + 1) \in DOMAIN before.cards
            /\ \A i \in DOMAIN before.cards : ShownTask(before.cards[i]) # {{t}}
  <2> DEFINE existing == in.task.externalCard
  <2>1. /\ IsStore(after)
        /\ \/ \E id : UpsertedAt(before, existing, card, id, after)
           \/ \E id : UpsertedNew(before, existing, card, id, after)
           \/ /\ GeneratedId(before.next + 1) \in DOMAIN before.cards
              /\ \A i \in DOMAIN before.cards : ShownTask(before.cards[i]) # ShownTask(card)
    BY <1>3, UpsertDoes
  <2>2. existing = CallerCards[t]
    BY <1>2
  <2> HIDE DEF existing
  <2> QED BY <1>1, <2>1, <2>2
<1>5. ASSUME NEW i \in DOMAIN before.cards, ShownTask(before.cards[i]) = {{t}}
      PROVE  OwnId(i, t, before.next)
  <2>1. PICK u \in Tasks : ShownTask(before.cards[i]) = {{u}} /\ OwnId(i, u, before.next)
    BY DEF BoardInv
  <2>2. u = t
    BY <1>5, <2>1
  <2> QED BY <2>1, <2>2
<1>6. ASSUME NEW id, UpsertedAt(before, CallerCards[t], card, id, after)
      PROVE  PutAt(before, t, records[t].status, id, after)
  <2>1. CASE id \in CallerCards[t]
    <3>1. \A i \in DOMAIN before.cards : ShownTask(before.cards[i]) = {{t}} => i = id
      BY <1>5, <2>1 DEF OwnId, BoardIdsDiffer
    <3>2. ASSUME id \in DOMAIN before.cards
          PROVE  ShownTask(before.cards[id]) = {{t}}
      <4>1. PICK u \in Tasks : ShownTask(before.cards[id]) = {{u}} /\ OwnId(id, u, before.next)
        BY <3>2 DEF BoardInv
      <4>2. id \in CallerCards[u]
        <5>1. \A n \in 1 .. before.next : n \in 1 .. Cardinality(Tasks)
          BY <1>3
        <5> QED BY <2>1, <4>1, <5>1 DEF OwnId, BoardIdsDiffer
      <4>3. u = t
        BY <2>1, <4>2 DEF BoardIdsDiffer
      <4> QED BY <4>1, <4>3
    <3>3. OwnId(id, t, after.next)
      BY <2>1 DEF OwnId
    <3> QED BY <1>1, <1>3, <1>4, <1>6, <3>1, <3>2, <3>3 DEF UpsertedAt, PutAt
  <2>2. CASE id \in DOMAIN before.cards /\ ShownTask(before.cards[id]) = ShownTask(card)
    <3>1. ShownTask(before.cards[id]) = {{t}} /\ OwnId(id, t, after.next)
      BY <1>1, <1>5, <1>6, <2>2 DEF UpsertedAt
    <3>2. \A i \in DOMAIN before.cards : ShownTask(before.cards[i]) = {{t}} => i = id
      BY <2>2, <3>1 DEF BoardInv
    <3> QED BY <1>1, <1>3, <1>4, <1>6, <3>1, <3>2 DEF UpsertedAt, PutAt
  <2> QED BY <1>6, <2>1, <2>2 DEF UpsertedAt
<1>7. ASSUME NEW id, UpsertedNew(before, CallerCards[t], card, id, after)
      PROVE  PutAt(before, t, records[t].status, id, after)
  <2>1. \A i \in DOMAIN before.cards : ShownTask(before.cards[i]) # {{t}}
    BY <1>1, <1>7 DEF UpsertedNew
  <2>2. after.next <= Cardinality(Tasks)
    BY <1>7, <2>1, NumbersAreLeft DEF UpsertedNew
  <2>3. CallerCards[t] = {} /\ id = GeneratedId(after.next) /\ after.next \in 1 .. after.next
    BY <1>3, <1>7 DEF UpsertedNew
  <2>4. OwnId(id, t, after.next)
    BY <2>3 DEF OwnId
  <2> QED BY <1>1, <1>4, <1>7, <2>1, <2>2, <2>3, <2>4 DEF UpsertedNew, PutAt
<1>8. ASSUME GeneratedId(before.next + 1) \in DOMAIN before.cards,
             \A i \in DOMAIN before.cards : ShownTask(before.cards[i]) # {{t}}
      PROVE  FALSE
  <2>1. before.next + 1 \in 1 .. Cardinality(Tasks)
    <3>1. before.next + 1 <= Cardinality(Tasks)
      BY <1>8, NumbersAreLeft
    <3> QED BY <1>3, <3>1
  <2>2. PICK u \in Tasks : OwnId(GeneratedId(before.next + 1), u, before.next)
    BY <1>8 DEF BoardInv
  <2>3. GeneratedId(before.next + 1) \notin CallerCards[u]
    BY <2>1 DEF BoardIdsDiffer
  <2>4. \A n \in 1 .. before.next : GeneratedId(n) # GeneratedId(before.next + 1)
    BY <1>3 DEF GeneratedId
  <2> QED BY <2>2, <2>3, <2>4 DEF OwnId
<1> QED BY <1>4, <1>6, <1>7, <1>8

\* A card of a task is put: the others keep theirs, and it keeps its own.
LEMMA PuttingKeepsBoard ==
    ASSUME NEW before, BoardInv(before), NEW t \in Tasks, NEW status, NEW id, NEW after,
           PutAt(before, t, status, id, after)
    PROVE  BoardInv(after)
<1>1. /\ before.next \in Nat /\ after.next \in Nat /\ before.next <= after.next
      /\ DOMAIN after.cards = {id} \cup DOMAIN before.cards
  BY DEF BoardInv, IsStore, PutAt
<1>2. ASSUME NEW i \in DOMAIN before.cards, i # id
      PROVE  /\ after.cards[i] = before.cards[i] /\ ShownTask(after.cards[i]) # {{t}}
             /\ \E u \in Tasks : ShownTask(after.cards[i]) = {{u}} /\ OwnId(i, u, after.next)
  <2>1. after.cards[i] = before.cards[i] /\ ShownTask(before.cards[i]) # {{t}}
    BY <1>2 DEF PutAt
  <2>2. PICK u \in Tasks : ShownTask(before.cards[i]) = {{u}} /\ OwnId(i, u, before.next)
    BY DEF BoardInv
  <2>3. \A n \in 1 .. before.next : n \in 1 .. after.next
    BY <1>1
  <2>4. OwnId(i, u, after.next)
    BY <2>2, <2>3 DEF OwnId
  <2> QED BY <2>1, <2>2, <2>4
<1>3. ShownTask(after.cards[id]) = {{t}} /\ OwnId(id, t, after.next)
  BY DEF PutAt
<1>4. \A i \in DOMAIN after.cards :
          \E u \in Tasks : ShownTask(after.cards[i]) = {{u}} /\ OwnId(i, u, after.next)
  BY <1>1, <1>2, <1>3
<1>5. ASSUME NEW i \in DOMAIN after.cards, NEW j \in DOMAIN after.cards,
             ShownTask(after.cards[i]) = ShownTask(after.cards[j])
      PROVE  i = j
  <2>1. CASE i = id \/ j = id
    BY <1>1, <1>2, <1>3, <1>5, <2>1
  <2>2. CASE i # id /\ j # id
    <3>1. /\ i \in DOMAIN before.cards /\ j \in DOMAIN before.cards
          /\ ShownTask(before.cards[i]) = ShownTask(before.cards[j])
      BY <1>1, <1>2, <1>5, <2>2
    <3> QED BY <3>1 DEF BoardInv
  <2> QED BY <2>1, <2>2
<1>6. ASSUME NEW n \in 1 .. after.next
      PROVE  GeneratedId(n) \in DOMAIN after.cards
  <2>1. CASE n \in 1 .. before.next
    BY <1>1, <2>1 DEF BoardInv
  <2>2. CASE n \notin 1 .. before.next
    <3>1. n = after.next /\ id = GeneratedId(after.next)
      BY <1>1, <2>2 DEF PutAt
    <3> QED BY <1>1, <3>1
  <2> QED BY <2>1, <2>2
<1> QED BY <1>4, <1>5, <1>6 DEF BoardInv, PutAt

\* What readers see of a task before and after: the same, or its one card with its
\* status.
Follows(before, after, t, status) ==
    \/ ShownIn(after, t) = ShownIn(before, t)
    \/ \E id \in BoardIds :
          /\ ShownIn(after, t) = {[id |-> id, says |-> status]}
          /\ \A card \in ShownIn(before, t) : card.id = id

LEMMA FollowingGoesOn ==
    ASSUME NEW t, NEW status, NEW first, NEW second, NEW third,
           Follows(first, second, t, status), Follows(second, third, t, status)
    PROVE  Follows(first, third, t, status)
<1>1. CASE ShownIn(second, t) = ShownIn(first, t) \/ ShownIn(third, t) = ShownIn(second, t)
  BY <1>1 DEF Follows
<1>2. ASSUME NEW i \in BoardIds, NEW j \in BoardIds,
             ShownIn(second, t) = {[id |-> i, says |-> status]},
             \A card \in ShownIn(first, t) : card.id = i,
             ShownIn(third, t) = {[id |-> j, says |-> status]},
             \A card \in ShownIn(second, t) : card.id = j
      PROVE  Follows(first, third, t, status)
  <2>1. i = j
    BY <1>2
  <2> QED BY <1>2, <2>1 DEF Follows
<1> QED BY <1>1, <1>2 DEF Follows

LEMMA PuttingIsFollowed ==
    ASSUME NEW before, BoardInv(before), NEW t \in Tasks, NEW status \in TaskStatus,
           NEW id, NEW after, PutAt(before, t, status, id, after), NEW u \in Tasks
    PROVE  \/ u = t /\ Follows(before, after, u, status)
           \/ u # t /\ ShownIn(after, u) = ShownIn(before, u)
<1>1. /\ DOMAIN after.cards = {id} \cup DOMAIN before.cards
      /\ \A i \in DOMAIN before.cards : i # id => after.cards[i] = before.cards[i]
      /\ ShownTask(after.cards[id]) = {{t}}
      /\ id \in DOMAIN before.cards => ShownTask(before.cards[id]) = {{t}}
      /\ \A i \in DOMAIN before.cards : ShownTask(before.cards[i]) = {{t}} => i = id
  BY DEF PutAt
<1>2. CASE u = t
  <2>1. {i \in DOMAIN after.cards : ShownTask(after.cards[i]) = {{t}}} = {id}
    BY <1>1
  <2>2. (CHOOSE s \in TaskStatus : {s} \in after.cards[id].fields.task_status) = status
    <3>1. \A s \in TaskStatus : {s} \in {{status}} <=> s = status
      OBVIOUS
    <3>2. after.cards[id].fields.task_status = {{status}}
      BY DEF PutAt
    <3> QED BY <3>1, <3>2
  <2>3. ShownIn(after, t) = {[id |-> id, says |-> status]}
    <3> DEFINE says(i) == CHOOSE s \in TaskStatus : {s} \in after.cards[i].fields.task_status
    <3>1. ShownIn(after, t) = {[id |-> i, says |-> says(i)] : i \in {id}}
      BY <2>1 DEF ShownIn
    <3>2. says(id) = status
      BY <2>2
    <3> HIDE DEF says
    <3> QED BY <3>1, <3>2
  <2>4. \A card \in ShownIn(before, t) : card.id = id
    BY <1>1 DEF ShownIn
  <2>5. id \in BoardIds
    <3>1. after.next \in Nat /\ Cardinality(Tasks) \in Nat /\ after.next <= Cardinality(Tasks)
      BY TasksAreFinite, FS_CardinalityType DEF PutAt, IsStore
    <3>2. \A n \in 1 .. after.next : n \in 1 .. Cardinality(Tasks)
      BY <3>1
    <3>3. OwnId(id, t, after.next)
      BY DEF PutAt
    <3> QED BY <3>2, <3>3 DEF OwnId, BoardIds
  <2> QED BY <1>2, <2>3, <2>4, <2>5 DEF Follows
<1>3. CASE u # t
  <2> DEFINE ids == {i \in DOMAIN before.cards : ShownTask(before.cards[i]) = {{u}}}
             says(s, i) == CHOOSE status_1 \in TaskStatus : {status_1} \in s.cards[i].fields.task_status
  <2>0. {{t}} # {{u}}
    <3>1. {t} # {u}
      BY <1>3
    <3> QED BY <3>1
  <2>1. {i \in DOMAIN after.cards : ShownTask(after.cards[i]) = {{u}}} = ids
    BY <1>1, <2>0
  <2>2. \A i \in ids : after.cards[i] = before.cards[i]
    BY <1>1, <1>3
  <2>3. \A i \in ids : says(after, i) = says(before, i)
    BY <2>2
  <2>4. /\ ShownIn(after, u) = {[id |-> i, says |-> says(after, i)] : i \in ids}
        /\ ShownIn(before, u) = {[id |-> i, says |-> says(before, i)] : i \in ids}
    BY <2>1 DEF ShownIn
  <2> HIDE DEF says, ids
  <2> QED BY <1>3, <2>3, <2>4
<1> QED BY <1>2, <1>3

\* One task of a sync, on the board.
LEMMA SyncOneIsFollowed ==
    ASSUME BoardIdsDiffer, RecordsTyped, NEW before, BoardInv(before),
           NEW t \in DOMAIN records, NEW in, Describes(in, t),
           NEW after, SyncPuts(before, in, after)
    PROVE  /\ BoardInv(after)
           /\ \A u \in Tasks : \/ u \in DOMAIN records /\ Follows(before, after, u, records[u].status)
                               \/ ShownIn(after, u) = ShownIn(before, u)
<1>1. t \in Tasks /\ records[t].status \in TaskStatus
  BY DEF RecordsTyped, TaskRecord
<1>2. CASE after = before
  BY <1>2
<1>3. ASSUME NEW card \in CardsOf(in), after = Upsert(before, in.task.externalCard, card).store
      PROVE  /\ BoardInv(after)
             /\ \A u \in Tasks :
                   \/ u \in DOMAIN records /\ Follows(before, after, u, records[u].status)
                   \/ ShownIn(after, u) = ShownIn(before, u)
  <2>1. PICK id : PutAt(before, t, records[t].status, id, after)
    BY <1>1, <1>3, PuttingIsAtOne
  <2>2. BoardInv(after)
    BY <1>1, <2>1, PuttingKeepsBoard
  <2> QED BY <1>1, <2>1, <2>2, PuttingIsFollowed
<1> QED BY <1>2, <1>3 DEF SyncPuts

\* After a sync of any length, every task is shown as before, or on its one card
\* as it stands now.
BoardMoved(before, after) ==
    \A u \in Tasks : \/ u \in DOMAIN records /\ Follows(before, after, u, records[u].status)
                     \/ ShownIn(after, u) = ShownIn(before, u)

LEMMA MovingGoesOn ==
    ASSUME NEW first, NEW second, NEW third, BoardMoved(first, second), BoardMoved(second, third)
    PROVE  BoardMoved(first, third)
<1> SUFFICES ASSUME NEW u \in Tasks
             PROVE  \/ u \in DOMAIN records /\ Follows(first, third, u, records[u].status)
                    \/ ShownIn(third, u) = ShownIn(first, u)
  BY DEF BoardMoved
<1>1. CASE u \in DOMAIN records
  <2>1. /\ Follows(first, second, u, records[u].status)
        /\ Follows(second, third, u, records[u].status)
    BY <1>1 DEF BoardMoved, Follows
  <2> QED BY <1>1, <2>1, FollowingGoesOn
<1>2. CASE u \notin DOMAIN records
  BY <1>2 DEF BoardMoved
<1> QED BY <1>1, <1>2

LEMMA SyncMovesBoard ==
    ASSUME BoardIdsDiffer, RecordsTyped, NEW start, BoardInv(start),
           NEW tasks, Len(tasks) \in Nat,
           \A i \in 1..Len(tasks) : \E t \in DOMAIN records : Describes(tasks[i], t)
    PROVE  /\ BoardInv(SyncTasks(start, tasks).store)
           /\ BoardMoved(start, SyncTasks(start, tasks).store)
<1>1. IsStore(start)
  BY DEF BoardInv
<1>2. PICK f : /\ SyncTasks(start, tasks) = f[Len(tasks)]
               /\ f[0] = [ok |-> TRUE, store |-> start, summary |-> EmptySummary]
               /\ \A n \in 1..Len(tasks) : f[n] = SyncOne(f[n - 1], tasks[n])
  BY <1>1, SyncIsRun
<1> DEFINE Good(sync) == /\ sync = [ok |-> sync.ok, store |-> sync.store, summary |-> sync.summary]
                         /\ BoardInv(sync.store) /\ BoardMoved(start, sync.store)
           S == {n \in Nat : n <= Len(tasks) => Good(f[n])}
<1>3. 0 \in S
  <2>1. BoardMoved(start, start)
    BY DEF BoardMoved
  <2> QED BY <1>2, <2>1
<1>4. ASSUME NEW n \in Nat, n \in S
      PROVE  n + 1 \in S
  <2> SUFFICES ASSUME n + 1 <= Len(tasks) PROVE Good(f[n + 1])
    OBVIOUS
  <2>1. n + 1 \in 1..Len(tasks) /\ n <= Len(tasks) /\ (n + 1) - 1 = n
    OBVIOUS
  <2>2. Good(f[n])
    BY <1>4, <2>1
  <2>3. f[n + 1] = SyncOne(f[n], tasks[n + 1])
    BY <1>2, <2>1
  <2>4. PICK t \in DOMAIN records : Describes(tasks[n + 1], t)
    BY <2>1
  <2>5. /\ f[n + 1] = [ok |-> f[n + 1].ok, store |-> f[n + 1].store, summary |-> f[n + 1].summary]
        /\ SyncPuts(f[n].store, tasks[n + 1], f[n + 1].store)
    BY <2>2, <2>3, SyncOnePuts
  <2>6. BoardInv(f[n + 1].store) /\ BoardMoved(f[n].store, f[n + 1].store)
    BY <2>2, <2>4, <2>5, SyncOneIsFollowed DEF BoardMoved
  <2>7. BoardMoved(start, f[n + 1].store)
    BY <2>2, <2>6, MovingGoesOn
  <2> QED BY <2>5, <2>6, <2>7
<1> HIDE DEF S
<1>5. Len(tasks) \in S
  BY <1>3, <1>4, NatSetInduction
<1> QED BY <1>2, <1>5 DEF S

StatusNow == [t \in DOMAIN records |-> records[t].status]
ShownNow  == [t \in Tasks |-> ShownCards(t)]

LEMMA BoardSteps ==
    ASSUME BoardIdsDiffer, RecordsTyped, BoardInv(store), [Next]_vars
    PROVE  BoardInv(store') /\ [Board!BoardNext]_(<<StatusNow, ShownNow>>)
<1>0. ASSUME NEW t
      PROVE  ShownCards(t) = ShownIn(store, t) /\ ShownCards(t)' = ShownIn(store', t)
  BY DEF ShownCards, ShownIn
<1>1. CASE UNCHANGED store
  <2>1. ShownNow' = ShownNow
    BY <1>0, <1>1 DEF ShownNow
  <2> QED BY <1>1, <2>1 DEF Board!BoardNext, Board!TasksMove, ShownNow
<1>2. CASE BoardSyncs \/ LaneSyncs
  <2>1. PICK tasks : /\ Len(tasks) \in Nat
                     /\ store' = SyncTasks(store, tasks).store
                     /\ \A i \in 1..Len(tasks) : \E t \in DOMAIN records : Describes(tasks[i], t)
    BY <1>2, BoardStepsSync
  <2>2. BoardInv(store') /\ BoardMoved(store, store')
    BY <2>1, SyncMovesBoard
  <2>3. StatusNow' = StatusNow
    BY <1>2, BoardIsApart DEF StatusNow
  <2>4. ASSUME NEW t \in Tasks
        PROVE  \/ ShownNow'[t] = ShownNow[t]
               \/ \E id \in BoardIds :
                     /\ ShownNow'[t] = {[id |-> id, says |-> StatusNow[t]]}
                     /\ \A card \in ShownNow[t] : card.id = id
    <3>1. ShownNow[t] = ShownIn(store, t) /\ ShownNow'[t] = ShownIn(store', t)
      BY <1>0 DEF ShownNow
    <3>2. t \in DOMAIN records => StatusNow[t] = records[t].status
      BY DEF StatusNow
    <3> QED BY <2>2, <3>1, <3>2 DEF BoardMoved, Follows
  <2>5. Board!CardsAreShown
    BY <2>3, <2>4 DEF Board!CardsAreShown, StatusNow, ShownNow
  <2> QED BY <2>2, <2>5 DEF Board!BoardNext
<1> QED BY <1>1, <1>2, OthersLeaveStore

\* sync_tasks: the board implements its promise - a task has one card, keeps it,
\* and a card changes only to say how its task stands - whatever is synced in
\* which order, and wherever a sync ends.
THEOREM BoardIsImplemented == ASSUME BoardIdsDiffer PROVE Spec => ImplementsBoard
<1>1. Init => Typed /\ BoardInv(store) /\ Board!BoardInit
  <2> SUFFICES ASSUME Init PROVE Typed /\ BoardInv(store) /\ Board!BoardInit
    OBVIOUS
  <2>1. store = [available |-> TRUE, cards |-> <<>>, next |-> 0] /\ DOMAIN <<>> = {}
    BY DEF Init
  <2>2. Cardinality(Tasks) \in Nat
    BY TasksAreFinite, FS_CardinalityType
  <2>3. BoardInv(store)
    BY <2>1, <2>2 DEF BoardInv, IsStore
  <2>4. \A t \in Tasks : ShownCards(t) = {}
    BY <2>1 DEF ShownCards
  <2> QED BY <2>3, <2>4, InitIsTyped DEF Board!BoardInit
<1>2. (Typed /\ BoardInv(store)) /\ [Next]_vars => (Typed /\ BoardInv(store))'
  BY StepMovesRecords, BoardSteps DEF Typed
<1>3. Typed /\ BoardInv(store) /\ [Next]_vars => [Board!BoardNext]_(<<StatusNow, ShownNow>>)
  BY BoardSteps DEF Typed
<1> QED BY <1>1, <1>2, <1>3, PTL
        DEF Spec, ImplementsBoard, Board!BoardSpec, Board!board, StatusNow, ShownNow

-----------------------------------------------------------------------------
(* The scheduler's tick.                                                    *)

\* Every set of some of the first tasks has one that is offered before the others.
LEMMA OneIsOfferedFirst ==
    ASSUME NEW rows, IsFiniteSet(DOMAIN rows), \A t \in DOMAIN rows : rows[t].priority \in Int,
           NEW rank, \A t \in DOMAIN rows : rank[t] \in Int,
           \A t, u \in DOMAIN rows : rank[t] = rank[u] => t = u,
           NEW some \in SUBSET DOMAIN rows, some # {}
    PROVE  \E t \in some : \A u \in some \ {t} : OfferedBefore(rows, rank, t, u)
<1> DEFINE First(set) == \E t \in set : \A u \in set \ {t} : OfferedBefore(rows, rank, t, u)
<1>1. PICK n \in Nat, seq \in Seq(DOMAIN rows) :
          Len(seq) = n /\ \A t \in DOMAIN rows : \E i \in 1..n : seq[i] = t
  BY DEF IsFiniteSet
<1> DEFINE upto(m) == {seq[i] : i \in 1..m} \cap DOMAIN rows
           S == {m \in Nat : \A set \in SUBSET upto(m) : set # {} => First(set)}
<1>2. 0 \in S
  OBVIOUS
<1>3. ASSUME NEW m \in Nat, m \in S
      PROVE  m + 1 \in S
  <2> SUFFICES ASSUME NEW set \in SUBSET upto(m + 1), set # {}
               PROVE  First(set)
    OBVIOUS
  <2> DEFINE last == seq[m + 1]
             rest == set \ {last}
  <2>1. rest \in SUBSET upto(m)
    <3>1. \A i \in 1..(m + 1) : i \in 1..m \/ i = m + 1
      OBVIOUS
    <3> QED BY <3>1
  <2>2. set \subseteq DOMAIN rows
    OBVIOUS
  <2> HIDE DEF upto, last
  <2>3. CASE rest = {}
    BY <2>3
  <2>4. CASE rest # {} /\ last \notin set
    BY <1>3, <2>1, <2>4
  <2>5. CASE rest # {} /\ last \in set
    <3>1. PICK t \in rest : \A u \in rest \ {t} : OfferedBefore(rows, rank, t, u)
      BY <1>3, <2>1, <2>5
    <3>2. /\ t \in DOMAIN rows /\ last \in DOMAIN rows /\ t # last
          /\ rows[t].priority \in Int /\ rows[last].priority \in Int
          /\ rank[t] \in Int /\ rank[last] \in Int /\ rank[t] # rank[last]
      BY <2>2, <2>5, <3>1
    <3>3. CASE OfferedBefore(rows, rank, t, last)
      BY <3>1, <3>3
    <3>4. CASE OfferedBefore(rows, rank, last, t)
      <4>1. \A u \in rest : OfferedBefore(rows, rank, last, u)
        <5> SUFFICES ASSUME NEW u \in rest, u # t
                     PROVE  OfferedBefore(rows, rank, last, u)
          BY <3>4
        <5>1. OfferedBefore(rows, rank, t, u) /\ rows[u].priority \in Int /\ rank[u] \in Int
          BY <2>2, <3>1
        <5> QED BY <3>2, <3>4, <5>1 DEF OfferedBefore
      <4> QED BY <2>5, <4>1
    <3> QED BY <3>2, <3>3, <3>4 DEF OfferedBefore
  <2> QED BY <2>3, <2>4, <2>5
<1> HIDE DEF S
<1>4. n \in S
  BY <1>2, <1>3, NatSetInduction
<1>5. some \in SUBSET upto(n)
  BY <1>1
<1> QED BY <1>4, <1>5 DEF S

\* tick: what is offered is one task.  It is ready, everything it depends on is
\* completed - so claim_one does not make it wait for a dependency - and no task
\* of which the same is true has a higher priority.
THEOREM TickOffersOne ==
    ASSUME NEW rows, IsFiniteSet(DOMAIN rows), \A t \in DOMAIN rows : rows[t].priority \in Int,
           NEW rank, \A t \in DOMAIN rows : rank[t] \in Int,
           \A t, u \in DOMAIN rows : rank[t] = rank[u] => t = u,
           NEW dependencies, NEW running, NEW maxLanes, NEW active,
           Tick(running, rows, dependencies, rank, maxLanes, active).outcome = "Claimable"
    PROVE  \E t \in ReadyTasks(rows) :
              /\ Tick(running, rows, dependencies, rank, maxLanes, active).tasks = {t}
              /\ \A d \in dependencies[t] : d \in DOMAIN rows /\ rows[d].status = "Completed"
              /\ \A u \in ReadyTasks(rows) :
                     rows[u].priority > rows[t].priority =>
                         UnmetDependencies(rows, dependencies, u) # {}
              /\ \A limits, reserved, candidate :
                     candidate.task = t =>
                         \A w \in AdmissionWaits(rows, dependencies, limits, reserved, candidate) :
                             w.reason # "DependencyPending"
<1> DEFINE ready == ReadyTasks(rows)
           free  == {t \in ready : UnmetDependencies(rows, dependencies, t) = {}}
           tick  == Tick(running, rows, dependencies, rank, maxLanes, active)
<1>1. /\ ready # {} /\ free # {}
      /\ tick.tasks = {t \in free : \A u \in free \ {t} : OfferedBefore(rows, rank, t, u)}
  <2> HIDE DEF ready, free
  <2>1. running /\ ready # {} /\ ~(free = {} \/ Cardinality(active) >= maxLanes)
    <3>1. ~running => tick.outcome = "NotRunning"
      BY DEF Tick
    <3>2. running /\ ready = {} => tick.outcome = "Idle"
      BY DEF Tick, ready
    <3>3. running /\ ready # {} /\ (free = {} \/ Cardinality(active) >= maxLanes)
             => tick.outcome = "Waiting"
      BY DEF Tick, ready, free
    <3> QED BY <3>1, <3>2, <3>3
  <2>2. tick.tasks = {t \in free : \A u \in free \ {t} : OfferedBefore(rows, rank, t, u)}
    BY <2>1 DEF Tick, ready, free
  <2> QED BY <2>1, <2>2
<1>2. free \in SUBSET DOMAIN rows /\ free \subseteq ready
  BY DEF ReadyTasks
<1> HIDE DEF free, ready, tick
<1>3. PICK t \in free : \A u \in free \ {t} : OfferedBefore(rows, rank, t, u)
  BY <1>1, <1>2, OneIsOfferedFirst
<1>4. \A u \in free : t \in DOMAIN rows /\ u \in DOMAIN rows /\ rows[u].priority \in Int
                      /\ rank[t] \in Int /\ rank[u] \in Int /\ rows[t].priority \in Int
  BY <1>2
<1>5. tick.tasks = {t}
  <2>1. ASSUME NEW u \in free, u # t, \A v \in free \ {u} : OfferedBefore(rows, rank, u, v)
        PROVE  FALSE
    BY <1>3, <1>4, <2>1 DEF OfferedBefore
  <2> QED BY <1>1, <1>3, <2>1
<1>6. t \in ready /\ UnmetDependencies(rows, dependencies, t) = {}
  BY <1>2, <1>3 DEF free
<1>7. \A d \in dependencies[t] : d \in DOMAIN rows /\ rows[d].status = "Completed"
  BY <1>6 DEF UnmetDependencies
<1>8. ASSUME NEW u \in ready, rows[u].priority > rows[t].priority
      PROVE  UnmetDependencies(rows, dependencies, u) # {}
  <2> SUFFICES ASSUME UnmetDependencies(rows, dependencies, u) = {} PROVE FALSE
    OBVIOUS
  <2>1. u \in free
    BY DEF free
  <2>2. u = t \/ OfferedBefore(rows, rank, t, u)
    BY <1>3, <2>1
  <2> QED BY <1>4, <1>8, <2>1, <2>2 DEF OfferedBefore
<1>9. ASSUME NEW limits, NEW reserved, NEW candidate, candidate.task = t,
             NEW w \in AdmissionWaits(rows, dependencies, limits, reserved, candidate)
      PROVE  w.reason # "DependencyPending"
  <2>1. \A kind, about : Wait(kind, about).reason = kind
    BY DEF Wait
  <2>2. w \in Governor(limits, reserved, candidate) \/ w \in Planner(reserved, candidate)
    BY <1>6, <1>9 DEF AdmissionWaits
  <2> QED BY <2>1, <2>2 DEF Governor, Planner
<1> QED BY <1>5, <1>6, <1>7, <1>8, <1>9 DEF ready, tick
=============================================================================
