------------------------------ MODULE Scheduling ------------------------------
(***************************************************************************)
(* What the fleet scheduler decides from the task records and the lanes it *)
(* is told about: crates/hepa-core/src/scheduler.rs with the resource      *)
(* governor and the conflict planner it asks.  Pure: the scheduler keeps   *)
(* nothing but whether it runs, and it reserves nothing itself - a caller  *)
(* that wants its earlier claims counted has to bring them.                *)
(***************************************************************************)
EXTENDS TaskRecords, Naturals, FiniteSets

\* A wait reason with the dependency, adapter, area or group it is about; the
\* others are about nothing further, and say so with their own kind.
Wait(kind, about) == [reason |-> kind, about |-> about]

-----------------------------------------------------------------------------
\* Mutant of Governor: the cap is passed before it is noticed.
GovernorOneTooMany(limits, reservations, candidate) ==
    {w \in {Wait("CapacityFull", "lanes")} : Cardinality(reservations) > limits.lanes}

\* HepaResourceGovernor::evaluate: every cap that is reached.
Governor(limits, reservations, candidate) ==
    LET paid    == {r \in reservations : r.cost = "Paid"}
        sameUse == {r \in reservations : r.adapter = candidate.adapter}
    IN  {w \in {Wait("CapacityFull", "lanes")} : Cardinality(reservations) >= limits.lanes}
        \cup {w \in {Wait("PaidLaneCapReached", "paid")} :
                 candidate.cost = "Paid" /\ Cardinality(paid) >= limits.paid}
        \cup {w \in {Wait("AdapterCapReached", candidate.adapter)} :
                 /\ candidate.adapter \in DOMAIN limits.perAdapter
                 /\ Cardinality(sameUse) >= limits.perAdapter[candidate.adapter]}

\* HepaConflictPlanner::evaluate: overlapping work is serialized.  A group is
\* {} or {name}.
Planner(reservations, candidate) ==
    {Wait("FileAreaReserved", area) :
        area \in {a \in candidate.areas : \E r \in reservations : a \in r.areas}}
    \cup {Wait("ConflictGroupBusy", group) :
             group \in {g \in candidate.group : \E r \in reservations : r.group = {g}}}
    \cup {w \in {Wait("LockfileSerialized", "lockfile")} :
             candidate.lockfile /\ \E r \in reservations : r.lockfile}

-----------------------------------------------------------------------------
\* Mutant of UnmetDependencies: a dependency that has been started will do.
NotStartedDependencies(records, dependencies, task) ==
    {d \in dependencies[task] :
        ~(d \in DOMAIN records /\ records[d].status \in {"Running", "Completed"})}

\* unmet_dependencies: a dependency that has no record is unmet too.
UnmetDependencies(records, dependencies, task) ==
    {d \in dependencies[task] : ~(d \in DOMAIN records /\ records[d].status = "Completed")}

\* claim_one of a running scheduler, up to the claim: the unmet dependencies (the
\* code names the first of them), the governor's and the planner's reasons.  Any
\* of them rejects the claim, and nothing is changed.  What the registry says to
\* the claim itself is passed on as an error and not as a reason to wait.
AdmissionWaits(records, dependencies, limits, reservations, candidate) ==
    {Wait("DependencyPending", d) :
        d \in UnmetDependencies(records, dependencies, candidate.task)}
    \cup Governor(limits, reservations, candidate)
    \cup Planner(reservations, candidate)

\* What a claim hands to the caller, to be counted next time.
Reservation(candidate, lane) ==
    [ lane     |-> lane,
      task     |-> candidate.task,
      adapter  |-> candidate.adapter,
      cost     |-> candidate.cost,
      areas    |-> candidate.areas,
      group    |-> candidate.group,
      lockfile |-> candidate.lockfile ]

-----------------------------------------------------------------------------
ReadyTasks(records) == {t \in DOMAIN records : records[t].status = "Ready"}

\* ready_tasks_by_priority: t is offered before u.  rank is the order of the
\* task ids.
OfferedBefore(records, rank, t, u) ==
    \/ records[t].priority > records[u].priority
    \/ records[t].priority = records[u].priority /\ rank[t] < rank[u]

\* active_lanes (fleet.rs): a task the registry records as running, with the
\* lane it names first or else its own id.
ActiveLanes(records) == {t \in DOMAIN records : records[t].status = "Running"}

\* tick: the first ready task whose dependencies are complete, if there is a
\* lane left; otherwise every ready task waits.  Whether the task can be
\* claimed at all (an old lane id) is not looked at.
Tick(running, records, dependencies, rank, maxLanes, active) ==
    LET ready == ReadyTasks(records)
        free  == {t \in ready : UnmetDependencies(records, dependencies, t) = {}}
    IN  CASE ~running -> [outcome |-> "NotRunning", tasks |-> {}]
          [] running /\ ready = {} -> [outcome |-> "Idle", tasks |-> {}]
          [] running /\ ready # {} /\ (free = {} \/ Cardinality(active) >= maxLanes) ->
                 [outcome |-> "Waiting", tasks |-> ready]
          [] OTHER ->
                 [ outcome |-> "Claimable",
                   tasks   |-> {t \in free :
                                  \A u \in free \ {t} : OfferedBefore(records, rank, t, u)} ]

\* status: counts of the records and the waits of a tick.
SchedulerStatus(running, records, dependencies, rank, maxLanes, active) ==
    LET with(status) == Cardinality({t \in DOMAIN records : records[t].status = status})
        tick == Tick(running, records, dependencies, rank, maxLanes, active)
    IN  [ running |-> running,
          ready   |-> with("Ready"),
          active  |-> Cardinality(active),
          started |-> with("Running"),
          blocked |-> with("Blocked"),
          queued  |-> with("Queued"),
          waits   |-> IF tick.outcome = "Waiting" THEN tick.tasks ELSE {} ]

-----------------------------------------------------------------------------
(* What the admission of one claim after the other is for.                 *)

LimitsHold(limits, reservations) ==
    /\ Cardinality(reservations) <= limits.lanes
    /\ Cardinality({r \in reservations : r.cost = "Paid"}) <= limits.paid

\* No two lanes share an area or a group, and one at most touches a lockfile.
NoConflict(reservations) ==
    \A r, s \in reservations :
        r # s => /\ r.areas \cap s.areas = {}
                 /\ r.group \cap s.group = {}
                 /\ ~(r.lockfile /\ s.lockfile)
=============================================================================
