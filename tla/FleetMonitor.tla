----------------------------- MODULE FleetMonitor -----------------------------
(***************************************************************************)
(* What the fleet monitor makes of a set of lane observations              *)
(* (crates/hepa-core/src/fleet_monitor.rs), and the observations the       *)
(* command `hepa fleet` gives it (fleet.rs): the command looks at no       *)
(* process, branch, worktree or card, it derives all of them from the      *)
(* status of the task.                                                     *)
(***************************************************************************)
EXTENDS HepaContracts, Naturals, FiniteSets

\* expected_card_status: what a board may say of a lane in each state.
ExpectedCardStatus(state) ==
    CASE state \in {"DraftSpec", "Ready"} -> {"todo", "ready"}
      [] state \in {"Allocated", "Starting", "Running", "Validating", "Reviewing",
                    "Repairing", "Staging"} -> {"in_progress", "running"}
      [] state \in {"PrCreated", "ReadyForHuman"} -> {"in_review", "ready_for_human"}
      [] state \in {"Completed", "Cleaned"} -> {"done", "completed"}
      [] state \in {"Blocked", "Failed"} -> {"blocked", "failed"}
      [] state = "Cancelled" -> {"cancelled"}

\* A card is {} or {status}: a missing card is no drift.
CardDrift(state, card) == \E status \in card : status \notin ExpectedCardStatus(state)

\* is_terminal_lane: the same four states as lane_state.rs.
IsTerminalLane(state) == state \in TerminalLaneState

\* refresh: the health of every lane, and the lanes whose card disagrees.
\* An observation is [lane, task, state, alive, worktree, card].
Refresh(observations) ==
    [ lanes   |-> {[lane |-> o.lane, alive |-> o.alive, drift |-> CardDrift(o.state, o.card)] :
                      o \in observations},
      drifted |-> {o.lane : o \in {x \in observations : CardDrift(x.state, x.card)}} ]

\* reconcile: what it would take to bring the board and the lanes together.
Reconcile(observations) ==
    LET lasting  == {o \in observations : ~IsTerminalLane(o.state)}
        terminal == {o \in observations : IsTerminalLane(o.state)}
        act(kind, some) == {[action |-> kind, lane |-> o.lane] : o \in some}
    IN  act("MarkLaneStale", {o \in lasting : ~o.alive})
        \cup act("RecreateCard", {o \in lasting : o.card = {}})
        \cup act("PruneWorktree", {o \in terminal : o.worktree})
        \cup act("FinalizeTerminalLane", {o \in terminal : CardDrift(o.state, o.card)})

\* cleanup_runtime: the runtime directories of the owned lanes go, if their
\* name is a plain one, and every other directory stays.
CleanupRuntime(dirs, owned, safe) ==
    [removed |-> dirs \cap owned \cap safe, preserved |-> dirs \ owned]

-----------------------------------------------------------------------------
(* The command `hepa fleet`.                                               *)

\* task_status_to_lane_state: other tasks are in no lane state.
LaneStateOfTask(status) == {status} \cap {"Running", "Blocked", "Completed", "Cancelled"}

\* The observations of the command, from records that name a lane.
ObservedLanes(records, noLane) ==
    UNION { {[ lane     |-> records[t].lane,
               task     |-> t,
               state    |-> state,
               alive    |-> records[t].status = "Running",
               worktree |-> records[t].status = "Running",
               card     |-> {} ] : state \in LaneStateOfTask(records[t].status)}
            : t \in {u \in DOMAIN records : records[u].lane # noLane} }

\* fleet status, watch and report: lanes of any task, lanes of running tasks,
\* lanes whose card disagrees (none, there are no cards to look at).
FleetStatus(records, noLane) ==
    LET inLane == {t \in DOMAIN records : records[t].lane # noLane}
    IN  [ lanes   |-> Cardinality(inLane),
          running |-> Cardinality({t \in inLane : records[t].status = "Running"}),
          drifted |-> Cardinality(Refresh(ObservedLanes(records, noLane)).drifted) ]

\* fleet cleanup: the lanes of completed and cancelled tasks.
CleanupLanes(records, noLane) ==
    {records[t].lane : t \in {u \in DOMAIN records :
        records[u].status \in TerminalTaskStatus /\ records[u].lane # noLane}}

\* fleet reconcile counts the actions and applies none of them.
FleetReconcile(records, noLane) == Reconcile(ObservedLanes(records, noLane))

\* lane stop and lane show: the first task, by id, that names the lane; the
\* command blocks that task and lets the lane's processes be.
TaskOfLane(records, rank, lane) ==
    {t \in DOMAIN records :
        /\ records[t].lane = lane
        /\ \A u \in DOMAIN records : records[u].lane = lane => rank[t] <= rank[u]}
=============================================================================
