----------------------------- MODULE ControlPlane -----------------------------
(***************************************************************************)
(* The control plane beside the hermes runs: the operator's task commands, *)
(* `hepa fleet stress-run` (crates/hepa-cli/src/fleet.rs) claiming through *)
(* the scheduler, the board the sync engine keeps, and interactive lanes.  *)
(*                                                                         *)
(* A stress run reads projects and tasks once, and then takes one project  *)
(* after the other through mark, claim, allocate, complete and card; each  *)
(* of these is a step of its process, between which another process may    *)
(* do anything.  An operation on one task record is one step here: how it  *)
(* is read and written is the business of FleetRegistry.                   *)
(***************************************************************************)
EXTENDS Scheduling, CardSync, InteractiveSessions

CONSTANTS
    Tasks,             \* task ids
    Rank,              \* the order of the task ids
    Projects,          \* project ids in the order of list_projects
    ProjectOf,         \* the project of each task
    Dependencies,      \* what the `Dependencies` section of each task names
    Titles,            \* the words of each task's title
    CallerCards,       \* external_card_id of each task, {} or {id}
    LockfileProjects,  \* projects whose id contains "repo-b"
    StressRuns,        \* stress-run processes
    LanesLimit,        \* max_parallel_lanes of stress-run (3)
    PaidLimit,         \* max_paid_lanes of stress-run (1)
    MinProjects,       \* what stress-run asks for (3), of tasks too
    StartRecords,      \* the records the tasks of the start may have
    MaxCommands        \* bound: commands given by the operator

ASSUME TasksAreFinite == IsFiniteSet(Tasks)
ASSUME RankOrdersTasks ==
    /\ Rank \in [Tasks -> Nat]
    /\ \A t, u \in Tasks : Rank[t] = Rank[u] => t = u
ASSUME ProjectsAreListed == \A t \in Tasks : \E i \in DOMAIN Projects : Projects[i] = ProjectOf[t]
ASSUME ProjectsAreLanes ==   \* and each is listed once
    /\ Projects \in Seq(Lanes)
    /\ \A i, j \in DOMAIN Projects : Projects[i] = Projects[j] => i = j
ASSUME DependenciesAreTasks == Dependencies \in [Tasks -> SUBSET Tasks]
ASSUME StartRecordsAreNew == StartRecords \subseteq NewTaskRecords
ASSUME LimitsAreNats ==
    {LanesLimit, PaidLimit, MaxCommands} \subseteq Nat /\ MinProjects \in Nat \ {0}

VARIABLES
    records,      \* the task records, of the tasks that exist
    deps,         \* the dependencies in each task's record
    replaced,     \* history: tasks whose record a create command has overwritten
    stress,       \* the stress-run processes
    worktrees,    \* stress lanes whose worktree is allocated
    cardFiles,    \* the <lane>-card.json files
    store,        \* the card store
    commands      \* history: commands given

fleet == <<records, deps, replaced, stress, worktrees, cardFiles, store>>
vars  == <<fleet, commands, interactive>>

Stage == {"idle", "mark", "admit", "claim", "allocate", "complete", "card", "done", "failed"}

\* rs7-lane-<project>
LaneOf(project) == project

Limits == [lanes |-> LanesLimit, paid |-> PaidLimit, perAdapter |-> <<>>]

TypeOK ==
    /\ DOMAIN records \subseteq Tasks
    /\ \A t \in DOMAIN records : records[t] \in TaskRecord
    /\ deps \in [Tasks -> SUBSET Tasks]
    /\ replaced \subseteq DOMAIN records
    /\ \A x \in StressRuns :
          /\ stress[x].stage \in Stage
          /\ stress[x].at \in 1 .. Len(Projects) + 1
          /\ \A r \in stress[x].reserved : r.task \in DOMAIN records /\ r.lane \in Lanes
          /\ DOMAIN stress[x].seen \subseteq DOMAIN records
    /\ worktrees \subseteq Lanes
    /\ \A file \in cardFiles : file.lane \in Lanes /\ file.task \in DOMAIN records
    /\ store.next \in Nat
    /\ commands \in 0 .. MaxCommands
    /\ InteractiveTypeOK

\* What a creator writes as dependencies: `task create` and run-dashboard-card
\* none, ingest-spec what the specification it is given names, if it does.
Needs(t, record) == IF record.readiness = "NotReady" THEN {{}} ELSE {{}, Dependencies[t]}

Init ==
    /\ \E existing \in SUBSET Tasks :
          /\ Cardinality(existing) >= MinProjects
          /\ records \in [existing -> StartRecords]
    /\ deps = [t \in Tasks |-> IF t \in DOMAIN records /\ records[t].readiness # "NotReady"
                               THEN Dependencies[t] ELSE {}]
    /\ replaced = {}
    /\ stress = [x \in StressRuns |->
                    [stage |-> "idle", at |-> 1, seen |-> <<>>, reserved |-> {}]]
    /\ worktrees = {}
    /\ cardFiles = {}
    /\ store = [available |-> TRUE, cards |-> <<>>, next |-> 0]
    /\ commands = 0
    /\ InteractiveInit

-----------------------------------------------------------------------------
(* The operator.                                                           *)

Command == commands < MaxCommands /\ commands' = commands + 1

\* The commands that change one task record.
ChangesRecord(t, record) ==
    /\ records' = [records EXCEPT ![t] = record]
    /\ UNCHANGED <<deps, replaced, stress, worktrees, cardFiles, store>>

\* The record is written without a look at the one there is, be it running or
\* completed, and with it go the lane and the dependencies that one had.
CreatesTask(t, record) ==
    /\ records' = [u \in DOMAIN records \cup {t} |-> IF u = t THEN record ELSE records[u]]
    /\ \E needed \in Needs(t, record) : deps' = [deps EXCEPT ![t] = needed]
    /\ replaced' = replaced \cup ({t} \cap DOMAIN records)
    /\ UNCHANGED <<stress, worktrees, cardFiles, store>>

\* task block, cancel, complete and resume; lane stop blocks the task of the lane.
SetsStatus(t, status) ==
    CanSetStatus(records[t], status) /\ ChangesRecord(t, WithStatus(records[t], status))

Prioritizes(t, priority) ==
    CanPrioritize(records[t]) /\ ChangesRecord(t, WithPriority(records[t], priority))

TaskCommand ==
    /\ Command
    /\ UNCHANGED interactive
    /\ \/ \E t \in Tasks, record \in NewTaskRecords : CreatesTask(t, record)
       \/ \E t \in DOMAIN records :
             \/ \E status \in {"Blocked", "Cancelled", "Completed", "Queued"} : SetsStatus(t, status)
             \/ \E priority \in Priorities : Prioritizes(t, priority)

-----------------------------------------------------------------------------
(* hepa fleet stress-run.                                                  *)

Turn(x, at, stage) == [stress[x] EXCEPT !.at = at, !.stage = stage]

\* The process x goes on at `stage` with the same project.
GoesTo(x, stage) == stress' = [stress EXCEPT ![x] = Turn(x, stress[x].at, stage)]

\* The next project, or the end with the summary.
NextProject(x) ==
    stress' = [stress EXCEPT ![x] =
        Turn(x, stress[x].at + 1,
             IF stress[x].at = Len(Projects) THEN "done" ELSE "mark")]

ProjectAt(x) == Projects[stress[x].at]

\* The first task of the project, in the listing the run began with.
TaskAt(x) ==
    LET own == {t \in DOMAIN stress[x].seen : ProjectOf[t] = ProjectAt(x)}
    IN  {t \in own : \A u \in own : Rank[t] <= Rank[u]}

CandidateAt(x, t) ==
    [ task     |-> t,
      adapter  |-> IF stress[x].at = 1 THEN "pi-paid-cloud" ELSE "pi-local",
      cost     |-> IF stress[x].at = 1 THEN "Paid" ELSE "Local",
      areas    |-> {ProjectAt(x)},
      group    |-> {ProjectAt(x)},
      lockfile |-> ProjectAt(x) \in LockfileProjects ]

\* Its own listings, read once.
StressStarts(x) ==
    /\ Command
    /\ stress[x].stage = "idle"
    /\ stress' = [stress EXCEPT ![x].seen = [t \in DOMAIN records |-> records[t].status],
                                ![x].stage = IF /\ Len(Projects) >= MinProjects
                                                /\ Cardinality(DOMAIN records) >= MinProjects
                                             THEN "mark" ELSE "failed"]
    /\ UNCHANGED <<records, deps, replaced, worktrees, cardFiles, store>>

StressMarks(x) ==
    /\ stress[x].stage = "mark"
    /\ UNCHANGED <<deps, replaced, worktrees, cardFiles, store>>
    /\ \/ TaskAt(x) = {} /\ NextProject(x) /\ UNCHANGED records
       \/ \E t \in TaskAt(x) :
             \/ /\ stress[x].seen[t] # "Queued"
                /\ GoesTo(x, "admit") /\ UNCHANGED records
             \/ /\ stress[x].seen[t] = "Queued" /\ CanMarkReady(records[t])
                /\ records' = [records EXCEPT ![t] = MarkedReady(@)]
                /\ GoesTo(x, "admit")
             \/ /\ stress[x].seen[t] = "Queued" /\ ~CanMarkReady(records[t])
                /\ GoesTo(x, "failed") /\ UNCHANGED records

AdmissionWaitsAt(x, t) ==
    AdmissionWaits(records, deps, Limits, stress[x].reserved, CandidateAt(x, t))

\* claim_one of a scheduler that was started: what there is to wait for is
\* looked up first, and the end of the run.
StressAdmits(x) ==
    /\ stress[x].stage = "admit"
    /\ UNCHANGED <<records, deps, replaced, worktrees, cardFiles, store>>
    /\ \E t \in TaskAt(x) :
          GoesTo(x, IF AdmissionWaitsAt(x, t) = {} THEN "claim" ELSE "failed")

\* The claim goes by the record as it is by then; a refusal is an error.
StressClaims(x) ==
    /\ stress[x].stage = "claim"
    /\ UNCHANGED <<deps, replaced, worktrees, cardFiles, store>>
    /\ \E t \in TaskAt(x) :
          \/ /\ CanClaim(records[t])
             /\ records' = [records EXCEPT ![t] = Claimed(@, LaneOf(ProjectAt(x)))]
             /\ stress' = [stress EXCEPT
                   ![x].stage = "allocate",
                   ![x].reserved = @ \cup {Reservation(CandidateAt(x, t), LaneOf(ProjectAt(x)))}]
          \/ /\ ~CanClaim(records[t])
             /\ GoesTo(x, "failed") /\ UNCHANGED records

\* Mutant of StressAllocates: the next project is begun when git fails.
StressSkipsLane(x) ==
    /\ stress[x].stage = "allocate"
    /\ UNCHANGED <<records, deps, replaced, cardFiles, store>>
    /\ \/ /\ LaneOf(ProjectAt(x)) \notin worktrees
          /\ worktrees' = worktrees \cup {LaneOf(ProjectAt(x))}
          /\ GoesTo(x, "complete")
       \/ NextProject(x) /\ UNCHANGED worktrees

\* The lane is never given back, so a later run is refused here; git may
\* refuse a new one too.
StressAllocates(x) ==
    /\ stress[x].stage = "allocate"
    /\ UNCHANGED <<records, deps, replaced, cardFiles, store>>
    /\ \/ /\ LaneOf(ProjectAt(x)) \notin worktrees
          /\ worktrees' = worktrees \cup {LaneOf(ProjectAt(x))}
          /\ GoesTo(x, "complete")
       \/ GoesTo(x, "failed") /\ UNCHANGED worktrees

\* Mutant of StressCompletes: a refusal of the registry is passed over.
StressGoesOn(x) ==
    /\ stress[x].stage = "complete"
    /\ UNCHANGED <<deps, replaced, worktrees, cardFiles, store>>
    /\ \E t \in TaskAt(x) :
          /\ records' = IF CanSetStatus(records[t], "Completed")
                        THEN [records EXCEPT ![t] = WithStatus(@, "Completed")] ELSE records
          /\ GoesTo(x, "card")

StressCompletes(x) ==
    /\ stress[x].stage = "complete"
    /\ UNCHANGED <<deps, replaced, worktrees, cardFiles, store>>
    /\ \E t \in TaskAt(x) :
          \/ /\ CanSetStatus(records[t], "Completed")
             /\ records' = [records EXCEPT ![t] = WithStatus(@, "Completed")]
             /\ GoesTo(x, "card")
          \/ /\ ~CanSetStatus(records[t], "Completed")
             /\ GoesTo(x, "failed") /\ UNCHANGED records

\* What every card of these tasks is mapped from: a specification made of the
\* title, and no run artifacts.  unreadable is what a broken artifact adds.
CardInput(t, record, lanes, externalCard, reviews) ==
    [ project       |-> ProjectOf[t],
      projectText   |-> {ProjectOf[t]},
      projectName   |-> {ProjectOf[t]},
      title         |-> Titles[t],
      task          |-> [ id           |-> t,
                          idText       |-> {t},
                          project      |-> ProjectOf[t],
                          status       |-> record.status,
                          readiness    |-> record.readiness,
                          dependencies |-> {{d} : d \in deps[t]},
                          lanes        |-> {record.lane} \ {NoLane},
                          externalCard |-> externalCard,
                          priority     |-> record.priority ],
      spec          |-> [ id         |-> t,
                          project    |-> ProjectOf[t],
                          goal       |-> Titles[t],
                          acceptance |-> {{"terminal"}},
                          validation |-> {},
                          risk       |-> "low",
                          maxRounds  |-> 1 ],
      lanes         |-> lanes,
      steering      |-> {},
      readinessText |-> {{"ready"}},
      validation    |-> {},
      reviews       |-> reviews,
      report        |-> {},
      timing        |-> {},
      questions     |-> {} ]

\* The lane record the stress run makes up for the card.
StressLane(x, t) ==
    [id |-> LaneOf(ProjectAt(x)), task |-> t, state |-> "Completed"]

\* The card is mapped from the record complete_task returned; its file is
\* replaced when it exists.
StressWritesCard(x) ==
    /\ stress[x].stage = "card"
    /\ UNCHANGED <<records, deps, replaced, worktrees, store>>
    /\ \E t \in TaskAt(x) :
          \/ /\ CardsOf(CardInput(t, [records[t] EXCEPT !.status = "Completed"],
                                  {StressLane(x, t)}, {{ProjectAt(x)}}, {})) # {}
             /\ cardFiles' = {file \in cardFiles : file.lane # LaneOf(ProjectAt(x))}
                             \cup {[lane |-> LaneOf(ProjectAt(x)), task |-> t]}
             /\ NextProject(x)
          \/ GoesTo(x, "failed") /\ UNCHANGED cardFiles

\* The process dies, or one of the writes it does not survive fails.
StressDies(x) ==
    /\ stress[x].stage \notin {"idle", "done", "failed"}
    /\ GoesTo(x, "failed")
    /\ UNCHANGED <<records, deps, replaced, worktrees, cardFiles, store>>

StressStep(x) ==
    \/ StressMarks(x)
    \/ StressAdmits(x)
    \/ StressClaims(x)
    \/ StressAllocates(x)
    \/ StressCompletes(x)
    \/ StressWritesCard(x)
    \/ StressDies(x)

-----------------------------------------------------------------------------
(* The board.                                                              *)

\* A caller of the engine hands it tasks as they are now; a review that says
\* nothing cannot be mapped.
BoardInput(t, broken) ==
    CardInput(t, records[t], {}, CallerCards[t], IF t \in broken THEN {[summary |-> {}]} ELSE {})

\* All tasks in the order of their ids, or one of them.
SyncLists ==
    LET all == DOMAIN records
    IN  {list \in [1 .. Cardinality(all) -> all] :
            \A i, j \in DOMAIN list : i < j => Rank[list[i]] < Rank[list[j]]}
        \cup {<<t>> : t \in all}

\* sync_tasks.  A store that is out of reach is left as it is, so that case
\* is no step.
BoardSyncs ==
    /\ Command
    /\ UNCHANGED <<records, deps, replaced, stress, worktrees, cardFiles, interactive>>
    /\ \E list \in SyncLists, broken \in {{}} \cup {{t} : t \in DOMAIN records} :
          store' = SyncTasks(store, [i \in DOMAIN list |-> BoardInput(list[i], broken)]).store

\* sync_lane_transition of the task's lane.
LaneSyncs ==
    /\ Command
    /\ UNCHANGED <<records, deps, replaced, stress, worktrees, cardFiles, interactive>>
    /\ \E t \in DOMAIN records :
          /\ records[t].lane # NoLane
          /\ store' = SyncLaneTransition(store, BoardInput(t, {}),
                          [id |-> records[t].lane, task |-> t, state |-> records[t].status]).store

-----------------------------------------------------------------------------
InteractiveWork ==
    /\ UNCHANGED fleet
    /\ \/ Command /\ InteractiveCommand
       \/ UNCHANGED commands /\ InteractiveStep

Next ==
    \/ TaskCommand
    \/ \E x \in StressRuns :
          /\ UNCHANGED interactive
          /\ \/ StressStarts(x)
             \/ UNCHANGED commands /\ StressStep(x)
    \/ BoardSyncs
    \/ LaneSyncs
    \/ InteractiveWork

Spec == Init /\ [][Next]_vars
-----------------------------------------------------------------------------
\* fleet_stress_run: a card that says a lane is done is true - its task is
\* completed, in that lane, on a worktree that was allocated for it - whatever
\* status commands the operator gives and whatever a second run does between
\* the steps of the first, and wherever either of them fails.  The exception is
\* a task whose record a create command has overwritten: the card of a done
\* lane is then left beside a record that knows nothing of it.
StressCardsAreTrue ==
    \A file \in cardFiles :
        /\ file.lane \in worktrees
        /\ file.task \notin replaced => /\ records[file.task].status = "Completed"
                                       /\ records[file.task].lane = file.lane

\* A stress run that stops half way leaves at most one of the tasks it claimed
\* without a card: everything before the failure is finished.
AtMostOneUnfinished ==
    \A x \in StressRuns :
        Cardinality({r \in stress[x].reserved :
                        ~\E file \in cardFiles : file.lane = r.lane /\ file.task = r.task}) <= 1

\* claim_one: no lane is given to a task before everything its record depends
\* on is completed, though the look at the dependencies is over when the lane
\* is given.  The exception, on either side, is a record that a create command
\* has overwritten: a done dependency is undone by it, and the dependencies of
\* a task may be others than those that were looked at.
Met(t) ==
    \A d \in deps[t] \ replaced : d \in DOMAIN records /\ records[d].status = "Completed"

DependenciesBeforeLanes ==
    \A t \in DOMAIN records \ replaced : records[t].lane # NoLane => Met(t)

\* Governor and planner: a run's claims stay within its limits and are about
\* disjoint work, since it counts all it claimed before.
ReservationsWithinLimits ==
    \A x \in StressRuns :
        LimitsHold(Limits, stress[x].reserved) /\ NoConflict(stress[x].reserved)

\* map_task_to_hermes_card: no card on the board shows a private path, an
\* address or a secret that its task names.
CardsAreClean ==
    \A id \in DOMAIN store.cards : VisibleWords(store.cards[id]) \cap PrivateWord = {}

\* The board is a TaskBoard: each task has one card, and it changes only to
\* say how the task stands.
ShownCards(t) ==
    { [id |-> id, says |-> CHOOSE status \in TaskStatus :
                               {status} \in store.cards[id].fields.task_status]
      : id \in {i \in DOMAIN store.cards : ShownTask(store.cards[i]) = {{t}}} }

BoardIds ==
    (UNION {CallerCards[t] : t \in Tasks}) \cup {GeneratedId(n) : n \in 1 .. Cardinality(Tasks)}

\* The promise is made for task ids that redaction leaves as they are, and for
\* callers that name one card for a task, no two tasks' the same, and none that
\* the store makes up.
BoardIdsDiffer ==
    /\ Tasks \cap (PrivateWord \cup Placeholder) = {}
    /\ \A t \in Tasks : \A i, j \in CallerCards[t] : i = j
    /\ \A t, u \in Tasks : t # u => CallerCards[t] \cap CallerCards[u] = {}
    /\ \A t \in Tasks : \A n \in 1 .. Cardinality(Tasks) : GeneratedId(n) \notin CallerCards[t]

Board == INSTANCE TaskBoard WITH
             BoardTasks <- Tasks,
             CardIds    <- BoardIds,
             status     <- [t \in DOMAIN records |-> records[t].status],
             shown      <- [t \in Tasks |-> ShownCards(t)]

ImplementsBoard == Board!BoardSpec
=============================================================================
