------------------------------ MODULE Rules_proofs ------------------------------
(***************************************************************************)
(* What the rules without a state promise, for every input: what is        *)
(* accepted on the board, what a supervisor makes of a fleet, what a run   *)
(* works from, what is told once, what is remembered, what is redacted,    *)
(* what counts as a worker's success, which adapter is chosen, what a      *)
(* template becomes, what git is asked, which setting counts and what is   *)
(* made of a specification.  The runs compare the same rules with their    *)
(* reference definitions over bounded inputs; here nothing is bounded but  *)
(* what the code itself bounds.                                            *)
(***************************************************************************)
EXTENDS FleetMonitor, LaneGates, ProjectMemory, Disclosure, RunInputs,
        MonitorPolicy, WorkerAttempt, Induction, FiniteSetTheorems, SequenceTheorems
CONSTANT DefaultProject

Moves == INSTANCE BoardTransition

-----------------------------------------------------------------------------
(* Moves on the board.                                                     *)

BoardAction == {"MarkReady", "Cancel", "Resume", "Block", "SetPriority", "SetDependencies"}

IsBoardTask(task) ==
    task = [ id |-> task.id, status |-> task.status, readiness |-> task.readiness,
             priority |-> task.priority, dependencies |-> task.dependencies ]

LEMMA StatusDecisionIsLegal ==
    ASSUME NEW task, IsBoardTask(task), NEW status,
           NEW updated \in Moves!StatusDecision(task, status).updated
    PROVE  /\ updated.id = task.id /\ updated.dependencies = task.dependencies
           /\ updated.readiness = task.readiness
           /\ updated.status = status
           /\ updated.status = task.status \/ Moves!CanTaskTransition(task.status, updated.status)
<1>1. CASE task.status = status \/ Moves!CanTaskTransition(task.status, status)
  <2>1. updated = [task EXCEPT !.status = status]
    BY <1>1 DEF Moves!StatusDecision, Moves!Accepted
  <2> HIDE DEF Moves!CanTaskTransition
  <2> QED BY <1>1, <2>1 DEF IsBoardTask
<1>2. CASE ~(task.status = status \/ Moves!CanTaskTransition(task.status, status))
  BY <1>2 DEF Moves!StatusDecision, Moves!Rejected
<1> QED BY <1>1, <1>2

\* evaluate_board_transition_with_lanes: whatever is asked for any task, what
\* is accepted is a step HEPA itself could take, does not make a task ready
\* past the gates of one of its lanes, and makes no task depend on itself.
THEOREM AcceptedMovesAreLegal ==
    ASSUME NEW task, IsBoardTask(task), NEW lanes, NEW request,
           request.action.type \in BoardAction,
           NEW updated \in Moves!Decision(task, lanes, request).updated
    PROVE  /\ updated.id = task.id
           /\ updated.status = task.status \/ Moves!CanTaskTransition(task.status, updated.status)
           /\ updated.status = "Ready" /\ task.status # "Ready" =>
                  \A lane \in lanes : lane.state \notin Moves!GatedLaneState
           /\ updated.dependencies # task.dependencies =>
                  \A i \in DOMAIN updated.dependencies : updated.dependencies[i] # task.id
<1> DEFINE action == request.action
<1>1. task.id = request.task /\ ~Moves!BypassesGates(action, lanes)
  BY DEF Moves!Decision, Moves!Rejected
<1>2. CASE action.type = "SetPriority"
  <2>1. updated = [task EXCEPT !.priority = action.priority]
    BY <1>1, <1>2 DEF Moves!Decision, Moves!Accepted
  <2> QED BY <2>1 DEF IsBoardTask
<1>3. CASE action.type = "MarkReady"
  <2> DEFINE ready == [task EXCEPT !.readiness = "Ready"]
  <2>1. IsBoardTask(ready) /\ ready.id = task.id /\ ready.status = task.status
        /\ ready.dependencies = task.dependencies
    BY DEF IsBoardTask
  <2>2. updated \in Moves!StatusDecision(ready, "Ready").updated
    BY <1>1, <1>3 DEF Moves!Decision
  <2>3. \A lane \in lanes : lane.state \notin Moves!GatedLaneState
    BY <1>1, <1>3 DEF Moves!BypassesGates
  <2> HIDE DEF ready
  <2> QED BY <2>1, <2>2, <2>3, StatusDecisionIsLegal
<1>4. CASE action.type = "Block"
  <2> DEFINE blocked == [task EXCEPT !.readiness = "Blocked"]
  <2>1. IsBoardTask(blocked) /\ blocked.id = task.id /\ blocked.status = task.status
        /\ blocked.dependencies = task.dependencies
    BY DEF IsBoardTask
  <2>2. updated \in Moves!StatusDecision(blocked, "Blocked").updated
    BY <1>1, <1>4 DEF Moves!Decision
  <2> HIDE DEF blocked
  <2> QED BY <2>1, <2>2, StatusDecisionIsLegal
<1>5. CASE action.type = "Cancel"
  <2>1. updated \in Moves!StatusDecision(task, "Cancelled").updated
    BY <1>1, <1>5 DEF Moves!Decision
  <2> QED BY <2>1, StatusDecisionIsLegal
<1>6. CASE action.type = "Resume"
  <2>1. updated \in Moves!StatusDecision(task, Moves!ResumedStatus(task)).updated
    BY <1>1, <1>6 DEF Moves!Decision
  <2>2. \A lane \in lanes : lane.state \notin Moves!GatedLaneState
    BY <1>1, <1>6 DEF Moves!BypassesGates
  <2> QED BY <2>1, <2>2, StatusDecisionIsLegal
<1>7. CASE action.type = "SetDependencies"
  <2>1. /\ ~\E i \in DOMAIN action.dependencies : action.dependencies[i] = task.id
        /\ updated = [task EXCEPT !.dependencies = action.dependencies]
    BY <1>1, <1>7 DEF Moves!Decision, Moves!Accepted, Moves!Rejected
  <2> QED BY <2>1 DEF IsBoardTask
<1> QED BY <1>2, <1>3, <1>4, <1>5, <1>6, <1>7 DEF BoardAction

\* A task that is blocked on the board is queued when it is resumed there, and
\* never put in front of the scheduler: blocking it takes its readiness.
THEOREM BlockedByHandIsQueued ==
    ASSUME NEW task, IsBoardTask(task), NEW lanes, NEW later, NEW block, NEW resume,
           block.action.type = "Block", resume.action.type = "Resume",
           NEW blocked \in Moves!Decision(task, lanes, block).updated,
           NEW resumed \in Moves!Decision(blocked, later, resume).updated
    PROVE  resumed.status = "Queued" /\ resumed.readiness = "Blocked"
<1> DEFINE marked == [task EXCEPT !.readiness = "Blocked"]
<1>1. IsBoardTask(marked) /\ marked.readiness = "Blocked"
  BY DEF IsBoardTask
<1>2. blocked \in Moves!StatusDecision(marked, "Blocked").updated
  BY DEF Moves!Decision, Moves!Rejected
<1>3. blocked = [marked EXCEPT !.status = "Blocked"]
  BY <1>2 DEF Moves!StatusDecision, Moves!Accepted, Moves!Rejected
<1>4. IsBoardTask(blocked) /\ blocked.readiness = "Blocked"
  BY <1>1, <1>3 DEF IsBoardTask
<1>5. resumed \in Moves!StatusDecision(blocked, Moves!ResumedStatus(blocked)).updated
  BY DEF Moves!Decision, Moves!Rejected
<1>6. Moves!ResumedStatus(blocked) = "Queued"
  BY <1>4 DEF Moves!ResumedStatus
<1> HIDE DEF marked
<1> QED BY <1>4, <1>5, <1>6, StatusDecisionIsLegal

-----------------------------------------------------------------------------
(* The fleet monitor.                                                      *)

\* reconcile: whatever is observed of a fleet, a lane that goes on is asked for
\* a card or called stale, one that ended loses its worktree or has its card
\* corrected, and never the other way round; and a card that disagrees with a
\* lane that ended is always corrected.
THEOREM ReconciliationIsExclusive ==
    ASSUME NEW observations, \A o, p \in observations : o.lane = p.lane => o = p,
           NEW o \in observations
    PROVE  LET actions == {a.action : a \in {b \in Reconcile(observations) : b.lane = o.lane}}
           IN  /\ actions \subseteq IF IsTerminalLane(o.state)
                                    THEN {"PruneWorktree", "FinalizeTerminalLane"}
                                    ELSE {"MarkLaneStale", "RecreateCard"}
               /\ IsTerminalLane(o.state) =>
                      ("FinalizeTerminalLane" \in actions
                         <=> o.lane \in Refresh(observations).drifted)
<1> DEFINE some == {b \in Reconcile(observations) : b.lane = o.lane}
           actions == {a.action : a \in some}
<1>1. ASSUME NEW a \in some
      PROVE  \/ a.action \in {"MarkLaneStale", "RecreateCard"} /\ ~IsTerminalLane(o.state)
             \/ a.action = "PruneWorktree" /\ IsTerminalLane(o.state)
             \/ /\ a.action = "FinalizeTerminalLane" /\ IsTerminalLane(o.state)
                /\ CardDrift(o.state, o.card)
  <2> HIDE DEF IsTerminalLane, CardDrift
  <2> QED BY DEF Reconcile
<1>2. ASSUME IsTerminalLane(o.state), CardDrift(o.state, o.card)
      PROVE  "FinalizeTerminalLane" \in actions
  <2> HIDE DEF IsTerminalLane, CardDrift
  <2> DEFINE final == [action |-> "FinalizeTerminalLane", lane |-> o.lane]
  <2>1. final \in Reconcile(observations) /\ final.lane = o.lane
    BY <1>2 DEF Reconcile
  <2>2. final \in some /\ final.action = "FinalizeTerminalLane"
    BY <2>1
  <2> QED BY <2>2
<1>3. o.lane \in Refresh(observations).drifted <=> CardDrift(o.state, o.card)
  BY DEF Refresh
<1>4. actions \subseteq IF IsTerminalLane(o.state)
                         THEN {"PruneWorktree", "FinalizeTerminalLane"}
                         ELSE {"MarkLaneStale", "RecreateCard"}
  <2> HIDE DEF some
  <2> QED BY <1>1
<1>5. "FinalizeTerminalLane" \in actions => CardDrift(o.state, o.card)
  <2> HIDE DEF some
  <2> QED BY <1>1
<1> QED BY <1>2, <1>3, <1>4, <1>5

\* The command `hepa fleet` looks at no card and no process.  So whatever the
\* registry holds it finds no drift, it never has anything to do for a lane that
\* ended, and it wants the card of every other lane to be made again.
THEOREM CommandSeesNoDrift ==
    ASSUME NEW records, NEW noLane
    PROVE  /\ FleetStatus(records, noLane).drifted = 0
           /\ \A a \in FleetReconcile(records, noLane) :
                  a.action \in {"MarkLaneStale", "RecreateCard"}
           /\ {a.lane : a \in FleetReconcile(records, noLane)} =
                  {records[t].lane : t \in {u \in DOMAIN records :
                       records[u].status \in {"Running", "Blocked"} /\ records[u].lane # noLane}}
<1> DEFINE observed == ObservedLanes(records, noLane)
           open == {u \in DOMAIN records :
                       records[u].status \in {"Running", "Blocked"} /\ records[u].lane # noLane}
<1>1. ASSUME NEW o \in observed
      PROVE  /\ o.card = {} /\ o.task \in DOMAIN records /\ records[o.task].lane # noLane
             /\ o.lane = records[o.task].lane
             /\ o.state = records[o.task].status
             /\ o.state \in {"Running", "Blocked", "Completed", "Cancelled"}
             /\ o.worktree <=> o.state = "Running"
  BY DEF ObservedLanes, LaneStateOfTask
<1>2. \A o \in observed : ~CardDrift(o.state, o.card)
  BY <1>1 DEF CardDrift
<1>3. ASSUME NEW o \in observed
      PROVE  IsTerminalLane(o.state) <=> o.state \notin {"Running", "Blocked"}
  BY <1>1 DEF IsTerminalLane, TerminalLaneState
<1>4. \A t \in open : \E o \in observed : o.lane = records[t].lane /\ o.state = records[t].status
  <2> TAKE t \in open
  <2> DEFINE o == [ lane |-> records[t].lane, task |-> t, state |-> records[t].status,
                    alive |-> records[t].status = "Running",
                    worktree |-> records[t].status = "Running", card |-> {} ]
  <2>1. o \in observed
    <3> DEFINE rows(u) == {[ lane |-> records[u].lane, task |-> u, state |-> state,
                             alive |-> records[u].status = "Running",
                             worktree |-> records[u].status = "Running", card |-> {} ] :
                               state \in LaneStateOfTask(records[u].status)}
    <3>1. o \in rows(t)
      BY DEF LaneStateOfTask
    <3>2. rows(t) \in {rows(u) : u \in {v \in DOMAIN records : records[v].lane # noLane}}
      OBVIOUS
    <3> QED BY <3>1, <3>2 DEF ObservedLanes
  <2>2. o.lane = records[t].lane /\ o.state = records[t].status
    OBVIOUS
  <2> QED BY <2>1, <2>2
<1> HIDE DEF observed
<1>5. FleetStatus(records, noLane).drifted = 0
  <2>1. Refresh(observed).drifted = {}
    BY <1>2 DEF Refresh
  <2> QED BY <2>1, FS_EmptySet DEF FleetStatus, observed
<1>6. ASSUME NEW a \in Reconcile(observed)
      PROVE  /\ a.action \in {"MarkLaneStale", "RecreateCard"}
             /\ \E o \in observed : a.lane = o.lane /\ o.state \in {"Running", "Blocked"}
  <2> HIDE DEF IsTerminalLane, CardDrift
  <2> QED BY <1>1, <1>2, <1>3 DEF Reconcile
<1>7. ASSUME NEW o \in observed, o.state \in {"Running", "Blocked"}
      PROVE  \E a \in Reconcile(observed) : a.lane = o.lane
  <2> DEFINE a == [action |-> "RecreateCard", lane |-> o.lane]
  <2>1. ~IsTerminalLane(o.state) /\ o.card = {}
    BY <1>1, <1>3, <1>7
  <2> HIDE DEF IsTerminalLane, CardDrift
  <2>2. a \in Reconcile(observed) /\ a.lane = o.lane
    BY <2>1 DEF Reconcile
  <2> QED BY <2>2
<1>8. {a.lane : a \in Reconcile(observed)} = {records[t].lane : t \in open}
  <2>1. ASSUME NEW a \in Reconcile(observed)
        PROVE  a.lane \in {records[t].lane : t \in open}
    <3>1. PICK o \in observed : a.lane = o.lane /\ o.state \in {"Running", "Blocked"}
      BY <1>6
    <3>2. o.task \in open /\ a.lane = records[o.task].lane
      BY <1>1, <3>1
    <3> QED BY <3>2
  <2>2. ASSUME NEW t \in open
        PROVE  records[t].lane \in {a.lane : a \in Reconcile(observed)}
    <3>1. PICK o \in observed : o.lane = records[t].lane /\ o.state = records[t].status
      BY <1>4
    <3>2. PICK a \in Reconcile(observed) : a.lane = o.lane
      BY <1>7, <3>1
    <3> QED BY <3>1, <3>2
  <2> HIDE DEF open
  <2> QED BY <2>1, <2>2
<1> QED BY <1>5, <1>6, <1>8 DEF FleetReconcile, observed

\* `hepa fleet cleanup`, whatever the records say: a task's lane loses its
\* directory exactly when the name is a plain one and a completed or cancelled
\* task names the lane.  So the lane of a running task is taken if an ended task
\* names it as well (the lanes of stress runs are one per project), and only
\* then; and a directory that no ended task names is kept.
THEOREM CleanupTakesEndedLanes ==
    ASSUME NEW records, NEW noLane, NEW dirs, NEW safe
    PROVE  LET cleaned == CleanupRuntime(dirs, CleanupLanes(records, noLane), safe)
               ended == {u \in DOMAIN records : records[u].status \in {"Completed", "Cancelled"}}
           IN  /\ \A t \in DOMAIN records :
                      records[t].status = "Running" /\ records[t].lane # noLane =>
                          /\ t \notin ended
                          /\ records[t].lane \in cleaned.removed <=>
                                 /\ records[t].lane \in dirs \cap safe
                                 /\ \E u \in ended : records[u].lane = records[t].lane
               /\ \A d \in dirs : d \in cleaned.preserved \/ \E u \in ended : records[u].lane = d
               /\ cleaned.removed \cap cleaned.preserved = {}
BY DEF CleanupRuntime, CleanupLanes, TerminalTaskStatus
-----------------------------------------------------------------------------
(* Policies and waits.                                                     *)

\* check_elapsed: a stop for being late is for good.  It stays one as time
\* passes, though a stall may turn into a timeout.
THEOREM LateStaysLate ==
    ASSUME NEW policy, policy.timeout \subseteq Nat, policy.stall \subseteq Nat,
           NEW early \in Nat, NEW late \in Nat, early <= late
    PROVE  /\ CheckElapsed(policy, early) # {} => CheckElapsed(policy, late) # {}
           /\ "timeout" \in CheckElapsed(policy, early) => "timeout" \in CheckElapsed(policy, late)
<1>1. \A limit \in policy.timeout \cup policy.stall : early > limit => late > limit
  OBVIOUS
<1> QED BY <1>1 DEF CheckElapsed

\* acquire_local_pi_generation_permit: a wait for the local model never fails
\* one that is freed in time, and never lasts a poll longer than its limit.
THEOREM PermitWaitIsBounded ==
    ASSUME NEW freedAfter \in Nat, NEW waitMs \in Nat
    PROVE  /\ freedAfter <= waitMs => PermitTaken("held", freedAfter, waitMs)
           /\ PermitTaken("held", freedAfter, waitMs) => freedAfter < waitMs + PollMs
<1> DEFINE last == (waitMs + 9) \div 10
<1>1. last \in Nat /\ last * 10 <= waitMs + 9 /\ last * 10 >= waitMs
  OBVIOUS
<1>2. (waitMs + PollMs - 1) \div PollMs = last
  BY DEF PollMs
<1> HIDE DEF last
<1>3. ASSUME freedAfter <= waitMs
      PROVE  PermitTaken("held", freedAfter, waitMs)
  <2>1. last \in 0..last /\ last * PollMs >= freedAfter
    BY <1>1, <1>3 DEF PollMs
  <2> QED BY <1>2, <2>1 DEF PermitTaken
<1>4. ASSUME PermitTaken("held", freedAfter, waitMs)
      PROVE  freedAfter < waitMs + PollMs
  <2>1. PICK tries \in 0..last : tries * PollMs >= freedAfter
    BY <1>2, <1>4 DEF PermitTaken
  <2>2. tries * 10 <= last * 10
    BY <1>1
  <2> QED BY <1>1, <2>1, <2>2 DEF PollMs
<1> QED BY <1>3, <1>4

-----------------------------------------------------------------------------
(* What a run works from.                                                  *)

\* live_run_brief: whatever the environment names and whatever lies around, a
\* run that has a brief has one that is valid and is for its task and lane; one
\* that needs a brief never starts without; and what a command is trusted with
\* is what the directory holds when it is over.
THEOREM BriefsAreForTheRun ==
    ASSUME NEW run, NEW env, NEW default
    PROVE  LET got == RunBrief(run, env, default)
           IN  /\ \A brief \in got.brief :
                      brief.valid /\ brief.task = run.task /\ brief.lane = run.lane
               /\ got.result = "brief" <=> got.brief # {}
               /\ env.required => got.result # "none"
               /\ env.command # {} => got.brief \subseteq DefaultBriefAfter(env, default)
<1> DEFINE got == RunBrief(run, env, default)
           after(command) == AfterCommand(command, default)
           fitting == UNION {Fitting(after(command), run) : command \in env.command}
<1>1. \A file : Fitting(file, run) \subseteq file
                /\ \A brief \in Fitting(file, run) :
                       brief.valid /\ brief.task = run.task /\ brief.lane = run.lane
  BY DEF Fitting
<1>2. /\ fitting \subseteq UNION {after(command) : command \in env.command}
      /\ \A brief \in fitting : brief.valid /\ brief.task = run.task /\ brief.lane = run.lane
  <2> SUFFICES ASSUME NEW brief \in fitting
               PROVE  /\ brief \in UNION {after(command) : command \in env.command}
                      /\ brief.valid /\ brief.task = run.task /\ brief.lane = run.lane
    OBVIOUS
  <2>1. PICK command \in env.command : brief \in Fitting(after(command), run)
    OBVIOUS
  <2> HIDE DEF after
  <2>2. brief \in after(command)
    BY <1>1, <2>1
  <2> QED BY <1>1, <2>1, <2>2
<1>3. \A b : /\ Use(b).brief = b
             /\ Use(b).result = IF b = {} THEN "error" ELSE "brief"
  BY DEF Use
<1>4. \/ got = Use({})
      \/ got = Use(fitting) /\ env.command # {}
      \/ env.command = {} /\ \E file : got = Use(Fitting(file, run))
      \/ got = None /\ env.command = {} /\ ~env.required
  BY DEF RunBrief
<1>5. env.command # {} =>
          DefaultBriefAfter(env, default) = UNION {after(command) : command \in env.command}
  BY DEF DefaultBriefAfter
<1> HIDE DEF got, fitting
<1>6. CASE got = Use({})
  BY <1>3, <1>6 DEF got
<1>7. CASE got = Use(fitting) /\ env.command # {}
  BY <1>2, <1>3, <1>5, <1>7 DEF got
<1>8. CASE env.command = {} /\ \E file : got = Use(Fitting(file, run))
  BY <1>1, <1>3, <1>8 DEF got
<1>9. CASE got = None /\ env.command = {} /\ ~env.required
  BY <1>9 DEF got, None
<1> QED BY <1>4, <1>6, <1>7, <1>8, <1>9

\* run_live_validation and force_validation_failure_for_repair_stress: for any
\* commands a validation passes only if each of them is one of the safe forms,
\* could be launched and came to 0; and a failure that is forced is told of a
\* command, and is the only thing that is told otherwise than it was.
THEOREM ForcedFailuresFail ==
    ASSUME NEW Commands, NEW commands \in Seq(Commands)
    PROVE  LET found  == FirstVerdict(commands, FALSE)
               forced == FirstVerdict(commands, TRUE)
           IN  /\ found.status = "Passed" <=>
                      commands # <<>> /\ \A i \in DOMAIN commands :
                          /\ commands[i].launches /\ commands[i].exit = 0
                          /\ IsSafeCommand(commands[i])
               /\ forced.status = "Failed"
               /\ \E i \in DOMAIN forced.commands : forced.commands[i] # 0
               /\ \A i, j \in DOMAIN commands :
                      forced.commands[i] # found.commands[i] /\ forced.commands[j] # found.commands[j]
                          => i = j /\ found.commands[i] = 0
<1> DEFINE found  == LiveValidation(commands)
           forced == ForcedFailure(found)
           exits  == [i \in DOMAIN commands |-> ExitOf(commands[i])]
           passed == {i \in DOMAIN exits : exits[i] = 0}
<1>1. FirstVerdict(commands, FALSE) = found /\ FirstVerdict(commands, TRUE) = forced
  BY DEF FirstVerdict
<1>2. \A i \in DOMAIN commands :
          exits[i] = 0 <=> /\ commands[i].launches /\ commands[i].exit = 0
                           /\ IsSafeCommand(commands[i])
  BY DEF ExitOf
<1>3. found.commands = exits /\ (found.status = "Passed" <=>
          commands # <<>> /\ \A i \in DOMAIN commands : exits[i] = 0)
  BY DEF LiveValidation
<1>4. commands # <<>> => 1 \in DOMAIN commands /\ \A i \in DOMAIN commands : i \in Nat /\ 1 <= i
  OBVIOUS
<1>5. commands = <<>> => DOMAIN commands = {} /\ exits = <<>>
  OBVIOUS
<1>6. commands # <<>> => exits # <<>>
  <2>1. DOMAIN exits = DOMAIN commands
    OBVIOUS
  <2> HIDE DEF exits
  <2> QED BY <1>4, <2>1
<1>7. forced.status = "Failed"
  BY DEF ForcedFailure
<1>8. commands = <<>> => forced.commands = <<1>>
  BY <1>3, <1>5 DEF ForcedFailure
<1>9. commands # <<>> =>
          forced.commands = [i \in DOMAIN commands |->
                               IF i \in passed /\ \A j \in passed : i <= j THEN 1 ELSE exits[i]]
  <2> HIDE DEF exits
  <2>1. commands # <<>> => ForcedFailure(found).commands =
            [i \in DOMAIN exits |->
               IF i \in passed /\ \A j \in passed : i <= j THEN 1 ELSE exits[i]]
    BY <1>3, <1>6 DEF ForcedFailure
  <2> QED BY <2>1 DEF exits
<1> HIDE DEF exits, found, forced
<1>10. \E i \in DOMAIN forced.commands : forced.commands[i] # 0
  <2>1. CASE commands = <<>>
    BY <1>8, <2>1
  <2>2. CASE commands # <<>>
    <3>1. 1 \in DOMAIN forced.commands /\ forced.commands[1] # 0
      <4>1. passed \subseteq DOMAIN commands
        BY DEF exits
      <4>2. \A j \in passed : 1 <= j
        BY <1>4, <2>2, <4>1
      <4>3. 1 \in DOMAIN commands /\ 1 \in DOMAIN exits
        BY <1>4, <2>2 DEF exits
      <4>4. forced.commands[1] = IF 1 \in passed THEN 1 ELSE exits[1]
        BY <1>9, <2>2, <4>2, <4>3
      <4> QED BY <1>9, <2>2, <4>3, <4>4
    <3> QED BY <3>1
  <2> QED BY <2>1, <2>2
<1>11. ASSUME NEW i \in DOMAIN commands, NEW j \in DOMAIN commands,
              forced.commands[i] # found.commands[i], forced.commands[j] # found.commands[j]
       PROVE  i = j /\ found.commands[i] = 0
  <2>1. commands # <<>>
    OBVIOUS
  <2>2. passed \subseteq DOMAIN commands
    BY DEF exits
  <2>3. i \in passed /\ (\A k \in passed : i <= k) /\ j \in passed /\ \A k \in passed : j <= k
    BY <1>3, <1>9, <1>11, <2>1
  <2>4. i \in Nat /\ j \in Nat
    BY <1>4, <2>1
  <2>5. i = j
    BY <2>3, <2>4
  <2> QED BY <1>3, <2>3, <2>5
<1>12. found.status = "Passed" <=>
           commands # <<>> /\ \A i \in DOMAIN commands :
               /\ commands[i].launches /\ commands[i].exit = 0
               /\ IsSafeCommand(commands[i])
  BY <1>2, <1>3
<1>13. \A i, j \in DOMAIN commands :
           forced.commands[i] # found.commands[i] /\ forced.commands[j] # found.commands[j]
               => i = j /\ found.commands[i] = 0
  BY <1>11
<1> QED BY <1>1, <1>7, <1>10, <1>12, <1>13

-----------------------------------------------------------------------------
(* Notifications.                                                          *)

\* What the call k of the notifier says, and whether it is the first to say so.
Said(calls, k) == <<calls[k].task, calls[k].status>>
IsFirst(calls, k) == \A j \in 1..(k - 1) : Said(calls, j) # Said(calls, k)

\* The notifier after each of the calls.
IsNotified(notifier, calls) ==
    /\ notifier[0].seen = {} /\ notifier[0].delivered = <<>>
    /\ \A n \in DOMAIN calls :
           notifier[n] = Notify(notifier[n - 1], calls[n].task, calls[n].status, calls[n].delivers)

\* After n of the calls.
ToldAsOf(notifier, calls, n) ==
    LET told == notifier[n].delivered
    IN  /\ notifier[n].seen = {Said(calls, k) : k \in 1..n}
        /\ told \in Seq({Said(calls, k) : k \in 1..n})
        /\ \A i, j \in DOMAIN told : told[i] = told[j] => i = j
        /\ {told[i] : i \in DOMAIN told} =
               {Said(calls, k) : k \in {m \in 1..n : IsFirst(calls, m) /\ calls[m].delivers}}

LEMMA NotifyKeepsTold ==
    ASSUME NEW Calls, NEW calls \in Seq(Calls), NEW notifier, IsNotified(notifier, calls),
           NEW n \in 0..(Len(calls) - 1), ToldAsOf(notifier, calls, n)
    PROVE  ToldAsOf(notifier, calls, n + 1)
<1> DEFINE said  == Said(calls, n + 1)
           old   == notifier[n].delivered
           told  == notifier[n + 1].delivered
           first(m) == {k \in 1..m : IsFirst(calls, k) /\ calls[k].delivers}
           all(m)   == {Said(calls, k) : k \in 1..m}
<1>1. /\ n \in Nat /\ n + 1 \in DOMAIN calls /\ (n + 1) - 1 = n
      /\ 1..(n + 1) = (1..n) \cup {n + 1}
  OBVIOUS
<1>2. /\ notifier[n + 1].seen = notifier[n].seen \cup {said}
      /\ told = IF said \notin notifier[n].seen /\ calls[n + 1].delivers
                THEN Append(old, said) ELSE old
  <2>1. notifier[n + 1] = Notify(notifier[n], calls[n + 1].task, calls[n + 1].status,
                                 calls[n + 1].delivers)
    BY <1>1 DEF IsNotified
  <2>2. said = <<calls[n + 1].task, calls[n + 1].status>>
    BY DEF Said
  <2> HIDE DEF said
  <2> QED BY <2>1, <2>2 DEF Notify
<1>3. /\ notifier[n].seen = all(n)
      /\ old \in Seq(all(n))
      /\ \A i, j \in DOMAIN old : old[i] = old[j] => i = j
      /\ {old[i] : i \in DOMAIN old} = {Said(calls, k) : k \in first(n)}
  BY DEF ToldAsOf
<1>4. all(n + 1) = all(n) \cup {said}
  BY <1>1
<1>5. IsFirst(calls, n + 1) <=> said \notin all(n)
  BY <1>1 DEF IsFirst
<1>6. first(n + 1) = IF IsFirst(calls, n + 1) /\ calls[n + 1].delivers
                     THEN first(n) \cup {n + 1} ELSE first(n)
  BY <1>1
<1>7. told \in Seq(all(n + 1)) /\ \A i, j \in DOMAIN told : told[i] = told[j] => i = j
  <2> HIDE DEF all, said
  <2>1. old \in Seq(all(n + 1))
    BY <1>3, <1>4
  <2>2. CASE said \notin all(n) /\ calls[n + 1].delivers
    <3>1. told = Append(old, said)
      BY <1>2, <1>3, <2>2
    <3>2. \A i \in DOMAIN old : old[i] # said
      BY <1>3, <2>2
    <3>3. said \in all(n + 1)
      BY <1>4
    <3>4. /\ DOMAIN told = DOMAIN old \cup {Len(old) + 1} /\ told[Len(old) + 1] = said
          /\ \A i \in DOMAIN old : told[i] = old[i]
      BY <1>3, <3>1
    <3> QED BY <1>3, <2>1, <3>1, <3>2, <3>3, <3>4
  <2>3. CASE ~(said \notin all(n) /\ calls[n + 1].delivers)
    BY <1>2, <1>3, <2>1, <2>3
  <2> QED BY <2>2, <2>3
<1>8. {told[i] : i \in DOMAIN told} = {Said(calls, k) : k \in first(n + 1)}
  <2> HIDE DEF first, all, said
  <2>1. CASE said \notin all(n) /\ calls[n + 1].delivers
    <3>1. told = Append(old, said)
      BY <1>2, <1>3, <2>1
    <3>2. /\ DOMAIN told = DOMAIN old \cup {Len(old) + 1} /\ told[Len(old) + 1] = said
          /\ \A i \in DOMAIN old : told[i] = old[i]
      BY <1>3, <3>1
    <3>3. {told[i] : i \in DOMAIN told} = {old[i] : i \in DOMAIN old} \cup {said}
      BY <3>2
    <3>4. first(n + 1) = first(n) \cup {n + 1}
      BY <1>5, <1>6, <2>1
    <3>5. {Said(calls, k) : k \in first(n + 1)} = {Said(calls, k) : k \in first(n)} \cup {said}
      BY <3>4 DEF said
    <3> QED BY <1>3, <3>3, <3>5
  <2>2. CASE ~(said \notin all(n) /\ calls[n + 1].delivers)
    BY <1>2, <1>3, <1>5, <1>6, <2>2
  <2> QED BY <2>1, <2>2
<1> QED BY <1>2, <1>3, <1>4, <1>7, <1>8 DEF ToldAsOf

\* HepaNotifier::notify: whatever it is called with and however often, what it
\* delivers are exactly the notifications whose first call was delivered, each
\* of them once.  So what failed once is never delivered at all.
THEOREM ToldOnce ==
    ASSUME NEW Calls, NEW calls \in Seq(Calls), NEW notifier, IsNotified(notifier, calls)
    PROVE  LET told == notifier[Len(calls)].delivered
           IN  /\ \A i, j \in DOMAIN told : told[i] = told[j] => i = j
               /\ {told[i] : i \in DOMAIN told} =
                      {Said(calls, k) : k \in {m \in DOMAIN calls :
                          IsFirst(calls, m) /\ calls[m].delivers}}
<1> DEFINE S == {n \in Nat : n <= Len(calls) => ToldAsOf(notifier, calls, n)}
<1>1. 0 \in S
  <2>1. {Said(calls, k) : k \in 1..0} = {} /\ notifier[0].delivered = <<>>
        /\ notifier[0].seen = {}
    BY DEF IsNotified
  <2>2. {k \in 1..0 : IsFirst(calls, k) /\ calls[k].delivers} = {}
    OBVIOUS
  <2>3. ToldAsOf(notifier, calls, 0)
    BY <2>1, <2>2 DEF ToldAsOf
  <2> QED BY <2>3
<1>2. ASSUME NEW n \in Nat, n \in S
      PROVE  n + 1 \in S
  BY <1>2, NotifyKeepsTold
<1> HIDE DEF S
<1>3. Len(calls) \in S
  BY <1>1, <1>2, NatSetInduction
<1>4. ToldAsOf(notifier, calls, Len(calls)) /\ DOMAIN calls = 1..Len(calls)
  BY <1>3 DEF S
<1> QED BY <1>4 DEF ToldAsOf

-----------------------------------------------------------------------------
(* Memory.                                                                 *)

\* A header fits into a pack, and some entries are allowed.
MemoryLimits ==
    /\ HeaderBytes \in Nat /\ ByteBudget \in Nat /\ HeaderBytes <= ByteBudget
    /\ MaxPatternEntries \in Nat \ {0} /\ MaxRewardEntries \in Nat
    /\ "<path>" \notin PrivateWord

\* The sum the room is computed by.
IsRoom(room, entries, n) ==
    /\ room[0] = HeaderBytes
    /\ \A i \in 1..n : room[i] = room[i - 1] + 1 + Len(entries[i])
    /\ \A i \in 0..n : room[i] \in Nat

LEMMA RoomIsComputed ==
    ASSUME MemoryLimits, NEW Words, NEW entries \in Seq(Seq(Words)), NEW n \in 0..Len(entries)
    PROVE  \E room : IsRoom(room, entries, n) /\ Room(entries, n) = room[n]
<1> DEFINE def(f) == [i \in 0..n |->
                         IF i = 0 THEN HeaderBytes ELSE f[i - 1] + 1 + Len(entries[i])]
           step == [x \in Nat \X (1..n) |-> x[1] + 1 + Len(entries[x[2]])]
           room == CHOOSE f : f = def(f)
<1>1. n \in Nat /\ \A i \in 1..n : Len(entries[i]) \in Nat
  OBVIOUS
<1>2. \E f : f = def(f)
  <2>1. PICK f : IsRun(f, n, HeaderBytes, step)
    BY <1>1, RunExists
  <2>2. \A i \in 1..n, r \in Nat : step[<<r, i>>] = r + 1 + Len(entries[i])
    OBVIOUS
  <2>3. \A i \in 1..n, r \in Nat : step[<<r, i>>] \in Nat
    <3> HIDE DEF step
    <3> TAKE i \in 1..n, r \in Nat
    <3>1. step[<<r, i>>] = r + 1 + Len(entries[i]) /\ Len(entries[i]) \in Nat
      BY <1>1, <2>2
    <3>2. \A x, y \in Nat : x + 1 + y \in Nat
      OBVIOUS
    <3>3. r + 1 + Len(entries[i]) \in Nat
      BY <3>1, <3>2
    <3> QED BY <3>1, <3>3
  <2> HIDE DEF step
  <2>4. f \in [0..n -> Nat]
    BY <1>1, <2>1, <2>3, RunStays DEF MemoryLimits
  <2>5. f = [i \in 0..n |-> IF i = 0 THEN HeaderBytes ELSE step[<<f[i - 1], i>>]]
    BY <2>1 DEF IsRun
  <2>6. ASSUME NEW i \in 0..n
        PROVE  f[i] = def(f)[i]
    <3>1. i # 0 => i \in 1..n /\ i - 1 \in 0..n /\ f[i - 1] \in Nat
      BY <2>4
    <3> QED BY <2>2, <2>5, <3>1
  <2>7. f = def(f)
    BY <2>4, <2>6
  <2> HIDE DEF def
  <2> QED BY <2>7
<1>3. room = def(room)
  <2> HIDE DEF def
  <2> QED BY <1>2
<1>4. Room(entries, n) = room[n]
  BY DEF Room
<1> HIDE DEF room
<1>5. room[0] = HeaderBytes /\ \A i \in 1..n : room[i] = room[i - 1] + 1 + Len(entries[i])
  BY <1>3
<1> DEFINE S == {k \in Nat : k <= n => room[k] \in Nat}
<1>6. 0 \in S
  BY <1>5 DEF MemoryLimits
<1>7. ASSUME NEW k \in Nat, k \in S
      PROVE  k + 1 \in S
  <2> SUFFICES ASSUME k + 1 <= n
               PROVE  room[k + 1] \in Nat
    OBVIOUS
  <2>1. k + 1 \in 1..n /\ (k + 1) - 1 = k /\ room[k] \in Nat
    BY <1>1, <1>7
  <2>2. room[k + 1] = room[k] + 1 + Len(entries[k + 1]) /\ Len(entries[k + 1]) \in Nat
    BY <1>1, <1>5, <2>1
  <2> QED BY <2>1, <2>2
<1> HIDE DEF S
<1>8. Nat \subseteq S
  BY <1>6, <1>7, NatSetInduction
<1>9. \A i \in 0..n : room[i] \in Nat
  BY <1>8 DEF S
<1> QED BY <1>4, <1>5, <1>9 DEF IsRoom

\* The room depends on the lengths of the entries only.
LEMMA RoomAgrees ==
    ASSUME MemoryLimits, NEW Words, NEW n \in Nat,
           NEW entries \in Seq(Seq(Words)), NEW others \in Seq(Seq(Words)),
           n <= Len(entries), n <= Len(others),
           \A i \in 1..n : Len(entries[i]) = Len(others[i]),
           NEW room, IsRoom(room, entries, n)
    PROVE  Room(others, n) = room[n]
<1>1. PICK other : IsRoom(other, others, n) /\ Room(others, n) = other[n]
  BY RoomIsComputed
<1> DEFINE S == {k \in Nat : k <= n => room[k] = other[k]}
<1>2. 0 \in S
  BY <1>1 DEF IsRoom
<1>3. ASSUME NEW k \in Nat, k \in S
      PROVE  k + 1 \in S
  <2> SUFFICES ASSUME k + 1 <= n
               PROVE  room[k + 1] = other[k + 1]
    OBVIOUS
  <2>1. k + 1 \in 1..n /\ (k + 1) - 1 = k /\ k <= n
    OBVIOUS
  <2>2. room[k] = other[k]
    BY <1>3, <2>1
  <2>3. Len(entries[k + 1]) = Len(others[k + 1])
    BY <2>1
  <2> QED BY <1>1, <2>1, <2>2, <2>3 DEF IsRoom
<1> HIDE DEF S
<1>4. n \in S
  BY <1>2, <1>3, NatSetInduction
<1> QED BY <1>1, <1>4 DEF S

\* An entry takes its words and a dash.
LEMMA RoomOfOneMore ==
    ASSUME MemoryLimits, NEW Words, NEW entries \in Seq(Seq(Words)),
           NEW n \in 0..(Len(entries) - 1)
    PROVE  /\ Room(entries, n) \in Nat
           /\ Room(entries, n + 1) = Room(entries, n) + 1 + Len(entries[n + 1])
<1>1. n + 1 \in 0..Len(entries) /\ n + 1 \in 1..(n + 1) /\ n \in Nat /\ (n + 1) - 1 = n
  OBVIOUS
<1>2. PICK room : IsRoom(room, entries, n + 1) /\ Room(entries, n + 1) = room[n + 1]
  BY <1>1, RoomIsComputed
<1>3. IsRoom(room, entries, n)
  BY <1>1, <1>2 DEF IsRoom
<1>4. Room(entries, n) = room[n]
  BY <1>1, <1>3, RoomAgrees
<1> QED BY <1>1, <1>2, <1>4 DEF IsRoom

\* The largest of some numbers up to n.
LEMMA LargestExists ==
    ASSUME NEW n \in Nat, NEW some \in SUBSET (0..n), some # {}
    PROVE  \E m \in some : \A k \in some : k <= m
<1> DEFINE T == {m \in Nat : (\E k \in some : k >= n - m) => \E l \in some : \A k \in some : k <= l}
<1>1. 0 \in T
  OBVIOUS
<1>2. ASSUME NEW m \in Nat, m \in T
      PROVE  m + 1 \in T
  <2> SUFFICES ASSUME NEW k \in some, k >= n - (m + 1)
               PROVE  \E l \in some : \A j \in some : j <= l
    OBVIOUS
  <2>1. CASE \E j \in some : j >= n - m
    BY <1>2, <2>1
  <2>2. CASE ~\E j \in some : j >= n - m
    <3>1. \A j \in some : j <= k
      BY <2>2
    <3> QED BY <3>1
  <2> QED BY <2>1, <2>2
<1> HIDE DEF T
<1>3. n \in T
  BY <1>1, <1>2, NatSetInduction
<1>4. n - n = 0 /\ \A k \in some : k >= 0
  OBVIOUS
<1>5. \E k \in some : k >= n - n
  BY <1>4
<1> QED BY <1>3, <1>5 DEF T

\* What a pack may be like.
CleanWord(Words) == (Words \cup {"<path>"}) \ PrivateWord

PackIsGood(pack, Words) ==
    /\ pack \in Seq(Seq(CleanWord(Words)))
    /\ Len(pack) <= MaxPatternEntries
    /\ Room(pack, Len(pack)) <= ByteBudget

\* write_bounded: what is written fits, whatever does not.
LEMMA BoundedFits ==
    ASSUME MemoryLimits, NEW Words, NEW entries \in Seq(Seq(Words))
    PROVE  /\ Bounded(entries) \in Seq(Seq(Words))
           /\ Len(Bounded(entries)) <= Len(entries)
           /\ Room(Bounded(entries), Len(Bounded(entries))) <= ByteBudget
<1> DEFINE fit  == {n \in 0..Len(entries) : Room(entries, n) <= ByteBudget}
           last == IF fit = {} THEN 0 ELSE CHOOSE n \in fit : \A k \in fit : k <= n
           left == ByteBudget - (Room(entries, last) + 1)
           whole == SubSeq(entries, 1, last)
           part  == SubSeq(entries[last + 1], 1, left)
           cut   == Append(whole, part)
<1>0. Len(entries) \in Nat /\ \A i \in 1..Len(entries) : entries[i] \in Seq(Words)
  OBVIOUS
<1>1. /\ last \in 0..Len(entries) /\ Room(entries, last) <= ByteBudget
      /\ last < Len(entries) => Room(entries, last + 1) > ByteBudget
  <2>1. 0 \in fit
    <3>1. PICK room : IsRoom(room, entries, 0) /\ Room(entries, 0) = room[0]
      BY RoomIsComputed
    <3> QED BY <3>1 DEF IsRoom, MemoryLimits
  <2>2. last \in fit /\ \A k \in fit : k <= last
    <3>1. \E m \in fit : \A k \in fit : k <= m
      <4> HIDE DEF fit
      <4>1. fit \in SUBSET (0..Len(entries))
        BY DEF fit
      <4> QED BY <1>0, <2>1, <4>1, LargestExists
    <3> HIDE DEF fit
    <3> QED BY <2>1, <3>1
  <2> HIDE DEF last
  <2>3. last < Len(entries) => last + 1 \in 0..Len(entries) /\ last + 1 \notin fit
    <3> HIDE DEF fit
    <3>1. last \in 0..Len(entries)
      BY <2>2 DEF fit
    <3> QED BY <1>0, <2>2, <3>1
  <2>4. PICK room : IsRoom(room, entries, Len(entries))
    BY <1>0, RoomIsComputed
  <2>5. last < Len(entries) => Room(entries, last + 1) \in Nat
    <3>1. ASSUME last < Len(entries)
          PROVE  last + 1 \in 0..Len(entries)
      BY <2>3, <3>1
    <3>2. ASSUME last < Len(entries)
          PROVE  Room(entries, last + 1) \in Nat
      <4>1. PICK r : IsRoom(r, entries, last + 1) /\ Room(entries, last + 1) = r[last + 1]
        BY <3>1, <3>2, RoomIsComputed
      <4>2. last + 1 \in 0..(last + 1)
        BY <3>1, <3>2
      <4> QED BY <4>1, <4>2 DEF IsRoom
    <3> QED BY <3>2
  <2> QED BY <1>0, <2>2, <2>3, <2>5 DEF MemoryLimits
<1> HIDE DEF last
<1>2. Bounded(entries) = IF last = Len(entries) \/ left <= 0 THEN whole ELSE cut
  BY DEF Bounded, last
<1>3. /\ whole \in Seq(Seq(Words)) /\ Len(whole) = last
      /\ \A i \in 1..last : whole[i] = entries[i]
  <2>1. \A i \in 1..last : entries[i] \in Seq(Words)
    BY <1>0, <1>1
  <2> QED BY <1>0, <1>1, <2>1, SubSeqProperties
<1>4. PICK room : IsRoom(room, entries, last) /\ Room(entries, last) = room[last]
  BY <1>1, RoomIsComputed
<1>5. Room(whole, last) = Room(entries, last) /\ Room(entries, last) \in Nat
  <2>1. Room(whole, last) = room[last]
    <3>1. last \in Nat /\ last <= Len(entries) /\ last <= Len(whole)
      BY <1>0, <1>1, <1>3
    <3>2. \A i \in 1..last : Len(entries[i]) = Len(whole[i])
      BY <1>3
    <3> HIDE DEF whole
    <3> QED BY <1>3, <1>4, <3>1, <3>2, RoomAgrees
  <2> QED BY <1>1, <1>4, <2>1 DEF IsRoom
<1>6. CASE last = Len(entries) \/ left <= 0
  BY <1>0, <1>1, <1>2, <1>3, <1>5, <1>6
<1>7. CASE ~(last = Len(entries) \/ left <= 0)
  <2>1. last < Len(entries) /\ last + 1 \in 1..Len(entries) /\ left \in Nat
        /\ entries[last + 1] \in Seq(Words)
    BY <1>0, <1>1, <1>5, <1>7 DEF MemoryLimits
  <2>2. left < Len(entries[last + 1])
    <3>1. last \in 0..(Len(entries) - 1)
      BY <1>0, <1>1, <2>1
    <3>2. Room(entries, last + 1) = Room(entries, last) + 1 + Len(entries[last + 1])
      BY <3>1, RoomOfOneMore
    <3> QED BY <1>1, <1>5, <2>1, <3>2 DEF MemoryLimits
  <2> DEFINE entry == entries[last + 1]
  <2> HIDE DEF left
  <2>3. part \in Seq(Words) /\ Len(part) = left
    <3>1. \A i \in 1..left : entry[i] \in Words
      BY <2>1, <2>2
    <3> QED BY <2>1, <3>1, SubSeqProperties
  <2> HIDE DEF part, whole
  <2>4. /\ cut \in Seq(Seq(Words)) /\ Len(cut) = last + 1 /\ cut[last + 1] = part
        /\ \A i \in 1..last : cut[i] = whole[i]
    BY <1>1, <1>3, <2>3
  <2> HIDE DEF cut
  <2>5. Room(cut, last) = room[last]
    <3>1. \A i \in 1..last : Len(entries[i]) = Len(cut[i])
      BY <1>3, <2>4
    <3>2. last \in Nat /\ last <= Len(entries) /\ last <= Len(cut)
      BY <1>0, <1>1, <2>4
    <3> QED BY <1>4, <2>4, <3>1, <3>2, RoomAgrees
  <2>6. Room(cut, last + 1) = Room(cut, last) + 1 + left
    <3>1. last \in 0..(Len(cut) - 1)
      BY <1>1, <2>4
    <3> QED BY <2>3, <2>4, <3>1, RoomOfOneMore
  <2>7. Room(cut, last + 1) <= ByteBudget
    BY <1>4, <1>5, <2>5, <2>6 DEF left, MemoryLimits
  <2>8. Bounded(entries) = cut
    BY <1>2, <1>7 DEF left, cut, part, whole
  <2> QED BY <1>0, <2>1, <2>4, <2>7, <2>8
<1> QED BY <1>6, <1>7

LEMMA NewestAreFew ==
    ASSUME NEW Entries, NEW entries \in Seq(Entries), NEW most \in Nat
    PROVE  Newest(entries, most) \in Seq(Entries) /\ Len(Newest(entries, most)) <= most
<1>1. CASE Len(entries) > most
  <2> DEFINE from == Len(entries) - most + 1
  <2>1. Newest(entries, most) = SubSeq(entries, from, Len(entries))
    BY <1>1 DEF Newest
  <2>2. from \in Int /\ Len(entries) \in Int /\ from >= 1 /\ Len(entries) - from + 1 = most
    BY <1>1
  <2>3. \A i \in from..Len(entries) : entries[i] \in Entries
    BY <2>2
  <2> HIDE DEF from
  <2>4. /\ SubSeq(entries, from, Len(entries)) \in Seq(Entries)
        /\ Len(SubSeq(entries, from, Len(entries))) =
               IF from <= Len(entries) THEN Len(entries) - from + 1 ELSE 0
    BY <2>2, <2>3, SubSeqProperties
  <2> QED BY <2>1, <2>2, <2>4
<1>2. CASE ~(Len(entries) > most)
  BY <1>2 DEF Newest
<1> QED BY <1>1, <1>2

\* append_pattern
LEMMA AppendKeepsPackGood ==
    ASSUME MemoryLimits, NEW Words, NEW pack, PackIsGood(pack, Words), NEW state,
           NEW text \in Seq(Words)
    PROVE  PackIsGood(AppendPattern(pack, state, text).pack, Words)
<1> DEFINE Clean == CleanWord(Words)
           entry == Redact(text)
           after == AppendPattern(pack, state, text).pack
           some  == Newest(Append(pack, entry), MaxPatternEntries)
<1>1. entry \in Seq(Clean)
  <2>1. \A i \in 1..Len(text) :
            (IF text[i] \in PrivateWord THEN "<path>" ELSE text[i]) \in Clean
    BY DEF CleanWord, MemoryLimits
  <2>2. entry = [i \in 1..Len(text) |-> IF text[i] \in PrivateWord THEN "<path>" ELSE text[i]]
    BY DEF Redact
  <2> HIDE DEF entry, Clean
  <2> QED BY <2>1, <2>2
<1> HIDE DEF entry, Clean
<1>2. after = pack \/ after = Bounded(some)
  BY DEF AppendPattern, entry
<1>3. pack \in Seq(Seq(Clean))
  BY DEF PackIsGood, Clean
<1>4. some \in Seq(Seq(Clean)) /\ Len(some) <= MaxPatternEntries
  <2>1. Append(pack, entry) \in Seq(Seq(Clean)) /\ MaxPatternEntries \in Nat
    BY <1>1, <1>3 DEF MemoryLimits
  <2> QED BY <2>1, NewestAreFew
<1> HIDE DEF some, after
<1>5. /\ Bounded(some) \in Seq(Seq(Clean)) /\ Len(Bounded(some)) <= Len(some)
      /\ Room(Bounded(some), Len(Bounded(some))) <= ByteBudget
  BY <1>4, BoundedFits
<1>6. Len(Bounded(some)) <= MaxPatternEntries
  <2>1. Len(Bounded(some)) \in Nat /\ Len(some) \in Nat /\ MaxPatternEntries \in Nat
    BY <1>4, <1>5 DEF MemoryLimits
  <2> QED BY <1>4, <1>5, <2>1
<1>7. PackIsGood(Bounded(some), Words)
  BY <1>5, <1>6 DEF PackIsGood, Clean
<1> QED BY <1>2, <1>7 DEF after

\* record_terminal_memory: however many runs end and whatever they say, a pack
\* stays within its budget and its number of entries and no private word gets
\* into it, the rewards stay within theirs, and a run that has not ended
\* teaches nothing.
THEOREM PacksStaySmallAndClean ==
    ASSUME MemoryLimits, NEW Words, NEW memory, NEW run,
           \A part \in {memory.prompts, memory.failures, memory.lessons} : PackIsGood(part, Words),
           NEW Rewards, memory.rewards \in Seq(Rewards),
           run.prompt \in Seq(Words), run.failure \subseteq Seq(Words),
           {run.adapter, run.state} \subseteq Words
    PROVE  LET after == RecordTerminal(memory, run)
           IN  /\ \A part \in {after.prompts, after.failures, after.lessons} : PackIsGood(part, Words)
               /\ Len(after.rewards) <= MaxRewardEntries
               /\ ~Teaches(run.state) => /\ after.prompts = memory.prompts
                                         /\ after.failures = memory.failures
                                         /\ after.lessons = memory.lessons
<1> DEFINE after == RecordTerminal(memory, run)
           failure == CHOOSE f \in run.failure : TRUE
<1>1. run.failure # {} => failure \in Seq(Words)
  OBVIOUS
<1>2. <<run.adapter, run.state>> \in Seq(Words)
  OBVIOUS
<1>3. /\ after.prompts = AppendPattern(memory.prompts, run.state, run.prompt).pack
      /\ after.failures = IF run.failure = {} THEN memory.failures
                          ELSE AppendPattern(memory.failures, run.state, failure).pack
      /\ after.lessons = AppendPattern(memory.lessons, run.state, <<run.adapter, run.state>>).pack
  BY DEF RecordTerminal
<1> HIDE DEF failure
<1>4. /\ PackIsGood(after.prompts, Words) /\ PackIsGood(after.failures, Words)
      /\ PackIsGood(after.lessons, Words)
  <2> HIDE DEF after
  <2>1. PackIsGood(after.prompts, Words)
    BY <1>3, AppendKeepsPackGood
  <2>2. PackIsGood(after.failures, Words)
    BY <1>1, <1>3, AppendKeepsPackGood
  <2>3. PackIsGood(after.lessons, Words)
    BY <1>2, <1>3, AppendKeepsPackGood
  <2> QED BY <2>1, <2>2, <2>3
<1>5. Len(after.rewards) <= MaxRewardEntries
  <2> DEFINE signal == [ laneIsSafe |-> TRUE, validation |-> run.validation,
                         review |-> run.review, pr |-> run.pr, ci |-> run.pr,
                         merged |-> FALSE, repaired |-> run.repaired ]
  <2>1. after.rewards = Newest(Append(memory.rewards, signal), MaxRewardEntries)
    BY DEF RecordTerminal, RecordReward
  <2>2. Append(memory.rewards, signal) \in Seq(Rewards \cup {signal})
    <3> HIDE DEF signal
    <3>1. memory.rewards \in Seq(Rewards \cup {signal})
      OBVIOUS
    <3> QED BY <3>1
  <2> HIDE DEF signal, after
  <2>3. MaxRewardEntries \in Nat
    BY DEF MemoryLimits
  <2> QED BY <2>1, <2>2, <2>3, NewestAreFew
<1>6. ASSUME ~Teaches(run.state), NEW pack, NEW text
      PROVE  AppendPattern(pack, run.state, text).pack = pack
  BY <1>6 DEF AppendPattern
<1> HIDE DEF after
<1>7. ~Teaches(run.state) => /\ after.prompts = memory.prompts
                             /\ after.failures = memory.failures
                             /\ after.lessons = memory.lessons
  BY <1>3, <1>6
<1> QED BY <1>4, <1>5, <1>7 DEF after

-----------------------------------------------------------------------------
(* Redaction.                                                              *)

\* Where a bearer waits for its word.
IsWaiting(after, words) ==
    /\ after \in [0..Len(words) -> BOOLEAN]
    /\ ~after[0]
    /\ \A i \in 1..Len(words) :
           after[i] <=> IF after[i - 1] THEN words[i] = "" ELSE words[i] = "bearer"

RedactedAt(after, words, i) ==
    IF (after[i - 1] /\ words[i] # "") \/ words[i] = "a token" THEN "<redacted>" ELSE words[i]

LEMMA WaitingIsComputed ==
    ASSUME NEW Words, NEW words \in Seq(Words)
    PROVE  \E after : /\ IsWaiting(after, words)
                      /\ RedactWords(words) = [i \in DOMAIN words |-> RedactedAt(after, words, i)]
<1> DEFINE N == Len(words)
           next(before, i) == IF before THEN words[i] = "" ELSE words[i] = "bearer"
           def(f) == [i \in 0..N |-> IF i = 0 THEN FALSE
                                     ELSE IF f[i - 1] THEN words[i] = "" ELSE words[i] = "bearer"]
           step == [x \in BOOLEAN \X (1..N) |-> IF x[1] THEN words[x[2]] = "" ELSE words[x[2]] = "bearer"]
           after == CHOOSE f : f = def(f)
<1>1. N \in Nat /\ DOMAIN words = 1..N
  OBVIOUS
<1>2. \E f : f = def(f)
  <2>1. PICK f : IsRun(f, N, FALSE, step)
    BY <1>1, RunExists
  <2>2. \A i \in 1..N, before \in BOOLEAN : step[<<before, i>>] = next(before, i)
    OBVIOUS
  <2>3. \A i \in 1..N, before \in BOOLEAN : step[<<before, i>>] \in BOOLEAN
    BY <2>2
  <2> HIDE DEF step
  <2>4. f \in [0..N -> BOOLEAN]
    <3>1. FALSE \in BOOLEAN
      OBVIOUS
    <3> QED BY <1>1, <2>1, <2>3, <3>1, RunStays
  <2>5. f = [i \in 0..N |-> IF i = 0 THEN FALSE ELSE step[<<f[i - 1], i>>]]
    BY <2>1 DEF IsRun
  <2>6. ASSUME NEW i \in 0..N
        PROVE  f[i] = def(f)[i]
    <3>1. CASE i = 0
      BY <2>5, <3>1
    <3>2. CASE i # 0
      <4>1. i \in 1..N /\ i - 1 \in 0..N
        BY <1>1, <3>2
      <4>2. f[i - 1] \in BOOLEAN
        BY <2>4, <4>1
      <4>3. f[i] = step[<<f[i - 1], i>>]
        BY <2>5, <3>2
      <4>4. f[i] = next(f[i - 1], i)
        BY <2>2, <4>1, <4>2, <4>3
      <4>5. def(f)[i] = next(f[i - 1], i)
        BY <3>2
      <4> QED BY <4>4, <4>5
    <3> QED BY <3>1, <3>2
  <2>7. f = def(f)
    <3>1. f = [i \in 0..N |-> f[i]]
      BY <2>5
    <3> QED BY <2>6, <3>1
  <2> HIDE DEF def
  <2> QED BY <2>7
<1>3. after = def(after)
  <2> HIDE DEF def
  <2> QED BY <1>2
<1>4. RedactWords(words) = [i \in DOMAIN words |-> RedactedAt(after, words, i)]
  BY DEF RedactWords, RedactedAt
<1> HIDE DEF after
<1>5. after[0] = FALSE /\ \A i \in 1..N : after[i] = next(after[i - 1], i)
  <2> DEFINE all == def(after)
  <2>1. all[0] = FALSE
    BY <1>1
  <2>2. ASSUME NEW i \in 1..N
        PROVE  all[i] = next(after[i - 1], i)
    <3>1. i \in 0..N /\ i # 0
      BY <1>1
    <3> QED BY <3>1
  <2> HIDE DEF all, next
  <2> QED BY <1>3, <2>1, <2>2 DEF all
<1>6. DOMAIN after = 0..N
  BY <1>3
<1>7. \A i \in 0..N : after[i] \in BOOLEAN
  <2>1. \A i \in 1..N : \A before : next(before, i) \in BOOLEAN
    OBVIOUS
  <2> HIDE DEF next
  <2>2. \A i \in 0..N : i = 0 \/ i \in 1..N
    OBVIOUS
  <2> QED BY <1>5, <2>1, <2>2
<1>8. after \in [0..N -> BOOLEAN]
  <2> HIDE DEF def
  <2>1. after = [i \in 0..N |-> after[i]]
    BY <1>3 DEF def
  <2> QED BY <1>7, <2>1
<1>9. IsWaiting(after, words)
  BY <1>5, <1>8 DEF IsWaiting
<1> QED BY <1>4, <1>9

\* The next word behind another, blanks aside.
Follows(words, i, j) == i < j /\ \A k \in (i + 1)..(j - 1) : words[k] = ""

LEMMA WaitingGoesOn ==
    ASSUME NEW after, NEW words, IsWaiting(after, words), NEW n \in Nat, n + 1 \in 1..Len(words)
    PROVE  after[n + 1] <=> IF after[n] THEN words[n + 1] = "" ELSE words[n + 1] = "bearer"
<1>1. (n + 1) - 1 = n
  OBVIOUS
<1> DEFINE m == n + 1
<1>2. after[m] <=> IF after[m - 1] THEN words[m] = "" ELSE words[m] = "bearer"
  <2> HIDE DEF m
  <2>1. m \in 1..Len(words)
    BY DEF m
  <2> QED BY <2>1 DEF IsWaiting
<1> QED BY <1>1, <1>2

\* Two ways to wait over the same words are the same.
LEMMA WaitingIsUnique ==
    ASSUME NEW Words, NEW words \in Seq(Words), NEW left \in Seq(Words \cup {"<redacted>"}),
           Len(left) = Len(words),
           NEW after, IsWaiting(after, words),
           \A i \in 1..Len(words) : left[i] = RedactedAt(after, words, i),
           NEW again, IsWaiting(again, left)
    PROVE  \A i \in 0..Len(words) : again[i] <=> after[i]
<1> DEFINE S == {n \in Nat : n <= Len(words) => (again[n] <=> after[n])}
<1>1. 0 \in S
  BY DEF IsWaiting
<1>2. ASSUME NEW n \in Nat, n \in S
      PROVE  n + 1 \in S
  <2> SUFFICES ASSUME n + 1 <= Len(words)
               PROVE  again[n + 1] <=> after[n + 1]
    OBVIOUS
  <2>1. n + 1 \in 1..Len(words) /\ n + 1 \in 1..Len(left) /\ (n + 1) - 1 = n /\ n <= Len(words)
    OBVIOUS
  <2>2. again[n] <=> after[n]
    BY <1>2, <2>1
  <2>3. after[n + 1] <=> IF after[n] THEN words[n + 1] = "" ELSE words[n + 1] = "bearer"
    BY <2>1, WaitingGoesOn
  <2>4. again[n + 1] <=> IF again[n] THEN left[n + 1] = "" ELSE left[n + 1] = "bearer"
    BY <2>1, WaitingGoesOn
  <2>5. left[n + 1] = IF (after[n] /\ words[n + 1] # "") \/ words[n + 1] = "a token"
                      THEN "<redacted>" ELSE words[n + 1]
    BY <2>1 DEF RedactedAt
  <2>6. CASE after[n]
    BY <2>2, <2>3, <2>4, <2>5, <2>6
  <2>7. CASE ~after[n]
    BY <2>2, <2>3, <2>4, <2>5, <2>7
  <2> QED BY <2>6, <2>7
<1> HIDE DEF S
<1>3. Nat \subseteq S
  BY <1>1, <1>2, NatSetInduction
<1> QED BY <1>3 DEF S

\* redact_tokens
LEMMA WordsAreRedacted ==
    ASSUME NEW Words, NEW words \in Seq(Words)
    PROVE  LET left == RedactWords(words)
           IN  /\ left \in Seq(Words \cup {"<redacted>"}) /\ Len(left) = Len(words)
               /\ RedactWords(left) = left
               /\ \A i \in 1..Len(left) : left[i] # "a token"
               /\ \A i, j \in 1..Len(left) :
                      left[i] = "bearer" /\ Follows(left, i, j)
                          => left[j] \in {"", "<redacted>"}
<1> DEFINE left == RedactWords(words)
<1>1. PICK after : IsWaiting(after, words)
                   /\ left = [i \in DOMAIN words |-> RedactedAt(after, words, i)]
  BY WaitingIsComputed
<1>2. DOMAIN words = 1..Len(words) /\ Len(words) \in Nat
  OBVIOUS
<1>3. \A i \in 1..Len(words) : left[i] = RedactedAt(after, words, i)
  BY <1>1, <1>2
<1>4. left \in Seq(Words \cup {"<redacted>"}) /\ Len(left) = Len(words)
  <2>1. \A i \in 1..Len(words) : RedactedAt(after, words, i) \in Words \cup {"<redacted>"}
    <3>1. \A i \in 1..Len(words) : words[i] \in Words
      OBVIOUS
    <3> QED BY <3>1 DEF RedactedAt
  <2> HIDE DEF left
  <2> QED BY <1>1, <1>2, <2>1
<1> HIDE DEF left
<1>5. RedactWords(left) = left
  <2>1. PICK again : IsWaiting(again, left)
                     /\ RedactWords(left) = [i \in DOMAIN left |-> RedactedAt(again, left, i)]
    BY <1>4, WaitingIsComputed
  <2>2. \A i \in 0..Len(words) : again[i] <=> after[i]
    BY <1>1, <1>3, <1>4, <2>1, WaitingIsUnique
  <2>3. ASSUME NEW i \in 1..Len(words)
        PROVE  RedactedAt(again, left, i) = left[i]
    <3>1. i - 1 \in 0..Len(words)
      BY <1>2
    <3>2. again[i - 1] <=> after[i - 1]
      BY <2>2, <3>1
    <3>3. left[i] = RedactedAt(after, words, i)
      BY <1>3
    <3> QED BY <3>2, <3>3 DEF RedactedAt
  <2>4. DOMAIN left = 1..Len(words) /\ left = [i \in DOMAIN left |-> left[i]]
    BY <1>2, <1>4
  <2> QED BY <2>1, <2>3, <2>4
<1>6. \A i \in 1..Len(left) : left[i] # "a token"
  BY <1>3, <1>4 DEF RedactedAt
<1>7. ASSUME NEW i \in 1..Len(left), NEW j \in 1..Len(left), left[i] = "bearer",
             Follows(left, i, j)
      PROVE  left[j] \in {"", "<redacted>"}
  <2> DEFINE S == {n \in Nat : n < j - i => after[i + n]}
  <2>1. i \in Nat /\ j \in Nat /\ i >= 1 /\ j <= Len(words) /\ i < j
    <3>1. i < j
      BY <1>7 DEF Follows
    <3> QED BY <1>2, <1>4, <3>1
  <2>2. 0 \in S
    <3>1. left[i] = RedactedAt(after, words, i)
      BY <1>3, <1>4
    <3>2. words[i] = "bearer" /\ ~after[i - 1]
      BY <1>7, <3>1 DEF RedactedAt
    <3>3. i \in 1..Len(words)
      BY <1>4
    <3>4. after[i] <=> IF after[i - 1] THEN words[i] = "" ELSE words[i] = "bearer"
      BY <1>1, <3>3 DEF IsWaiting
    <3>5. after[i] /\ i + 0 = i
      BY <2>1, <3>2, <3>4
    <3> QED BY <3>5
  <2>3. ASSUME NEW n \in Nat, n \in S
        PROVE  n + 1 \in S
    <3> SUFFICES ASSUME n + 1 < j - i
                 PROVE  after[i + (n + 1)]
      OBVIOUS
    <3> DEFINE k == i + (n + 1)
    <3>1. k \in 1..Len(words) /\ k \in (i + 1)..(j - 1) /\ k - 1 = i + n /\ n < j - i
      BY <2>1
    <3>2. left[k] = "" /\ after[k - 1]
      BY <1>7, <2>3, <3>1 DEF Follows
    <3>3. left[k] = RedactedAt(after, words, k)
      BY <1>3, <3>1
    <3> HIDE DEF k
    <3>4. words[k] = ""
      BY <3>2, <3>3 DEF RedactedAt
    <3>5. after[k] <=> IF after[k - 1] THEN words[k] = "" ELSE words[k] = "bearer"
      BY <1>1, <3>1 DEF IsWaiting
    <3> QED BY <3>2, <3>4, <3>5 DEF k
  <2> HIDE DEF S
  <2>4. Nat \subseteq S
    BY <2>2, <2>3, NatSetInduction
  <2>5. (j - i) - 1 \in Nat /\ (j - i) - 1 < j - i /\ i + ((j - i) - 1) = j - 1
    BY <2>1
  <2>6. after[j - 1]
    BY <2>4, <2>5 DEF S
  <2>7. left[j] = RedactedAt(after, words, j)
    BY <1>3, <1>4
  <2> QED BY <2>6, <2>7 DEF RedactedAt
<1> QED BY <1>4, <1>5, <1>6, <1>7 DEF left

\* redact_secrets: whatever a text says, no token is left in it and of what
\* follows a bearer the first word is gone, however far away it is; what
\* follows a secret key is gone altogether; and a text that is redacted is
\* not changed when it is redacted again.
THEOREM RedactionIsDone ==
    ASSUME NEW Keys, NEW Words, NEW lines \in Seq([key : Keys, words : Seq(Words)])
    PROVE  LET once == RedactSecrets(lines)
           IN  /\ RedactSecrets(once) = once
               /\ \A n \in DOMAIN lines :
                      LET left == once[n].words
                      IN  /\ once[n].key = lines[n].key
                          /\ lines[n].key = "secret" => left = <<"<redacted>">>
                          /\ \A i \in 1..Len(left) : left[i] # "a token"
                          /\ \A i, j \in 1..Len(left) :
                                 left[i] = "bearer" /\ Follows(left, i, j)
                                     => left[j] \in {"", "<redacted>"}
<1> DEFINE once == RedactSecrets(lines)
<1>1. ASSUME NEW n \in DOMAIN lines
      PROVE  /\ once[n] = RedactLine(lines[n])
             /\ RedactLine(once[n]) = once[n]
             /\ once[n].key = lines[n].key
             /\ lines[n].key = "secret" => once[n].words = <<"<redacted>">>
             /\ \A i \in 1..Len(once[n].words) : once[n].words[i] # "a token"
             /\ \A i, j \in 1..Len(once[n].words) :
                    once[n].words[i] = "bearer" /\ Follows(once[n].words, i, j)
                        => once[n].words[j] \in {"", "<redacted>"}
  <2> DEFINE line == lines[n]
             left == once[n]
  <2>1. left = RedactLine(line) /\ line \in [key : Keys, words : Seq(Words)]
    <3> HIDE DEF line
    <3>1. line \in [key : Keys, words : Seq(Words)]
      <4>1. n \in 1..Len(lines)
        OBVIOUS
      <4> QED BY <4>1, ElementOfSeq DEF line
    <3> QED BY <3>1 DEF RedactSecrets, line
  <2> HIDE DEF line, left
  <2>2. CASE line.key = "secret"
    <3>1. left = [key |-> line.key, words |-> <<"<redacted>">>]
      BY <2>1, <2>2 DEF RedactLine
    <3>2. RedactLine(left) = left
      BY <2>2, <3>1 DEF RedactLine
    <3>3. left.key = line.key /\ left.words = <<"<redacted>">>
      BY <3>1
    <3>4. Len(<<"<redacted>">>) = 1 /\ <<"<redacted>">>[1] = "<redacted>"
      OBVIOUS
    <3> DEFINE words == left.words
    <3>5. Len(words) = 1 /\ words[1] = "<redacted>"
      BY <3>3, <3>4
    <3> HIDE DEF words
    <3>6. \A i \in 1..Len(words) : words[i] = "<redacted>"
      <4>1. \A i \in 1..1 : i = 1
        OBVIOUS
      <4> QED BY <3>5, <4>1
    <3>7. /\ \A i \in 1..Len(words) : words[i] # "a token"
          /\ \A i, j \in 1..Len(words) : words[j] \in {"", "<redacted>"}
      BY <3>6
    <3> QED BY <2>1, <3>2, <3>3, <3>7 DEF line, left, words
  <2>3. CASE line.key # "secret"
    <3> DEFINE words == line.words
    <3>1. left = [key |-> line.key, words |-> RedactWords(words)]
      BY <2>1, <2>3 DEF RedactLine
    <3>2. words \in Seq(Words)
      BY <2>1
    <3> HIDE DEF words
    <3> DEFINE redacted == RedactWords(words)
    <3>3. /\ RedactWords(redacted) = redacted
          /\ \A i \in 1..Len(redacted) : redacted[i] # "a token"
          /\ \A i, j \in 1..Len(redacted) :
                 redacted[i] = "bearer" /\ Follows(redacted, i, j)
                     => redacted[j] \in {"", "<redacted>"}
      BY <3>2, WordsAreRedacted
    <3> HIDE DEF redacted
    <3>4. left = [key |-> line.key, words |-> redacted]
      BY <3>1 DEF redacted
    <3>5. left.key = line.key /\ left.words = redacted
      BY <3>4
    <3>6. RedactLine(left) = [left EXCEPT !.words = redacted]
      BY <2>3, <3>3, <3>5 DEF RedactLine
    <3>7. RedactLine(left) = left
      BY <3>4, <3>6
    <3> QED BY <2>1, <2>3, <3>3, <3>5, <3>7 DEF line, left
  <2> QED BY <2>2, <2>3
<1>2. once = [n \in DOMAIN lines |-> RedactLine(lines[n])]
  BY DEF RedactSecrets
<1>3. RedactSecrets(once) = once
  <2> HIDE DEF once
  <2>1. DOMAIN once = DOMAIN lines
    BY <1>2
  <2>2. RedactSecrets(once) = [n \in DOMAIN lines |-> RedactLine(once[n])]
    BY <2>1 DEF RedactSecrets
  <2>3. once = [n \in DOMAIN lines |-> once[n]]
    BY <1>2
  <2> QED BY <1>1, <2>2, <2>3
<1> HIDE DEF once
<1> QED BY <1>1, <1>3 DEF once

-----------------------------------------------------------------------------
(* What a worker of pi did.                                                *)

PiLine(Texts, Claims) == [kind : LineKind, text : Texts, usage : Claims]

PiReader(Texts) ==
    [ stopped : BOOLEAN, ended : BOOLEAN, error : {"none", "eof", "malformed"}, tools : Nat,
      text : Texts \cup {""} ]

LEMMA ReadEventReads ==
    ASSUME NEW Texts, NEW Claims, NEW reader \in PiReader(Texts), NEW line \in PiLine(Texts, Claims)
    PROVE  LET next == ReadEvent(reader, line)
           IN  /\ next \in PiReader(Texts)
               /\ next.tools # reader.tools => line.kind = "tool"
               /\ next.ended # reader.ended => line.kind = "agent_end"
<1> USE DEF PiReader, PiLine
<1> DEFINE next == ReadEvent(reader, line)
<1>1. CASE reader.stopped \/ line.kind = "blank"
  BY <1>1 DEF ReadEvent
<1>2. CASE ~(reader.stopped \/ line.kind = "blank")
  <2>1. CASE line.kind = "truncated"
    <3>1. next = IF reader.ended THEN [reader EXCEPT !.stopped = TRUE]
                 ELSE [reader EXCEPT !.stopped = TRUE, !.error = "eof"]
      BY <1>2, <2>1 DEF ReadEvent
    <3> QED BY <3>1
  <2>2. CASE line.kind \in {"garbage", "untyped"}
    <3>1. next = [reader EXCEPT !.stopped = TRUE, !.error = "malformed"]
      BY <1>2, <2>2 DEF ReadEvent
    <3> QED BY <3>1
  <2>3. CASE line.kind = "tool"
    <3>1. next = [reader EXCEPT !.tools = @ + 1]
      BY <1>2, <2>3 DEF ReadEvent
    <3>2. next = [ stopped |-> reader.stopped, ended |-> reader.ended, error |-> reader.error,
                   tools |-> reader.tools + 1, text |-> reader.text ]
      BY <3>1
    <3> HIDE DEF next
    <3>3. /\ reader.stopped \in BOOLEAN /\ reader.ended \in BOOLEAN
          /\ reader.error \in {"none", "eof", "malformed"}
          /\ reader.text \in Texts \cup {""}
      OBVIOUS
    <3>4. reader.tools + 1 \in Nat
      <4>1. reader.tools \in Nat
        OBVIOUS
      <4> HIDE DEF PiReader, PiLine
      <4> QED BY <4>1
    <3>5. next \in PiReader(Texts)
      BY <3>2, <3>3, <3>4
    <3>6. next.ended = reader.ended
      BY <3>2
    <3> QED BY <2>3, <3>5, <3>6 DEF next
  <2>4. CASE line.kind = "agent_end"
    <3>1. next = [reader EXCEPT !.ended = TRUE, !.text = line.text]
      BY <1>2, <2>4 DEF ReadEvent
    <3> QED BY <2>4, <3>1
  <2>5. CASE line.kind = "other"
    <3>1. next = reader
      BY <1>2, <2>5 DEF ReadEvent
    <3> QED BY <3>1
  <2> QED BY <1>2, <2>1, <2>2, <2>3, <2>4, <2>5 DEF LineKind
<1> QED BY <1>1, <1>2

\* parse_pi_json_events: a tool that is counted was used, and what is parsed
\* without an error has an end.
LEMMA ParsedWasPrinted ==
    ASSUME NEW Texts, NEW Claims, NEW lines \in Seq(PiLine(Texts, Claims))
    PROVE  LET parsed == ParsePi(lines)
           IN  /\ parsed.error \in {"none", "eof", "malformed"}
               /\ parsed.tools # 0 => \E i \in DOMAIN lines : lines[i].kind = "tool"
               /\ parsed.error = "none" => \E i \in DOMAIN lines : lines[i].kind = "agent_end"
<1> DEFINE N == Len(lines)
           Readers == PiReader(Texts)
           start == [stopped |-> FALSE, ended |-> FALSE, error |-> "none", tools |-> 0, text |-> ""]
           def(f) == [i \in 0..N |-> IF i = 0 THEN start ELSE ReadEvent(f[i - 1], lines[i])]
           step == [x \in Readers \X (1..N) |-> ReadEvent(x[1], lines[x[2]])]
           read == CHOOSE f : f = def(f)
           end  == read[N]
<1>1. N \in Nat /\ DOMAIN lines = 1..N /\ \A i \in 1..N : lines[i] \in PiLine(Texts, Claims)
  <2>1. \A i \in 1..N : lines[i] \in PiLine(Texts, Claims)
    BY ElementOfSeq
  <2> QED BY <2>1
<1>2. start \in Readers
  BY DEF PiReader
<1> HIDE DEF Readers, start
<1>3. \A i \in 1..N, reader \in Readers : ReadEvent(reader, lines[i]) \in Readers
  BY <1>1, ReadEventReads DEF Readers
<1>4. \E f : f = def(f)
  <2>1. PICK f : IsRun(f, N, start, step)
    BY <1>1, RunExists
  <2>2. \A i \in 1..N, reader \in Readers : step[<<reader, i>>] = ReadEvent(reader, lines[i])
    OBVIOUS
  <2> HIDE DEF step
  <2>3. \A i \in 1..N, reader \in Readers : step[<<reader, i>>] \in Readers
    BY <1>3, <2>2
  <2>4. f \in [0..N -> Readers]
    BY <1>1, <1>2, <2>1, <2>3, RunStays
  <2>5. f = [i \in 0..N |-> IF i = 0 THEN start ELSE step[<<f[i - 1], i>>]]
    BY <2>1 DEF IsRun
  <2>6. ASSUME NEW i \in 0..N
        PROVE  f[i] = def(f)[i]
    <3>1. CASE i = 0
      BY <2>5, <3>1
    <3>2. CASE i # 0
      <4>1. i \in 1..N /\ i - 1 \in 0..N
        BY <1>1, <3>2
      <4>2. f[i - 1] \in Readers
        BY <2>4, <4>1
      <4>3. f[i] = step[<<f[i - 1], i>>]
        BY <2>5, <3>2
      <4>4. f[i] = ReadEvent(f[i - 1], lines[i])
        BY <2>2, <4>1, <4>2, <4>3
      <4> QED BY <3>2, <4>4
    <3> QED BY <3>1, <3>2
  <2>7. f = def(f)
    <3>1. f = [i \in 0..N |-> f[i]]
      BY <2>5
    <3> QED BY <2>6, <3>1
  <2> HIDE DEF def
  <2> QED BY <2>7
<1>5. read = def(read)
  <2> HIDE DEF def
  <2> QED BY <1>4
<1>6. ParsePi(lines) = [ error |-> IF end.error = "none" /\ (~end.ended \/ Blank(end.text))
                                   THEN "malformed" ELSE end.error,
                         tools |-> end.tools ]
  BY DEF ParsePi, start
<1> HIDE DEF read
<1>7. read[0] = start /\ \A i \in 1..N : read[i] = ReadEvent(read[i - 1], lines[i])
  <2> DEFINE all == def(read)
  <2>1. all[0] = start
    BY <1>1
  <2>2. ASSUME NEW i \in 1..N
        PROVE  all[i] = ReadEvent(read[i - 1], lines[i])
    <3>1. i \in 0..N /\ i # 0
      BY <1>1
    <3> QED BY <3>1
  <2> HIDE DEF all
  <2> QED BY <1>5, <2>1, <2>2 DEF all
<1> DEFINE used(n)  == \E i \in 1..n : lines[i].kind = "tool"
           ended(n) == \E i \in 1..n : lines[i].kind = "agent_end"
           S == {n \in Nat : n <= N => /\ read[n] \in Readers
                                       /\ read[n].tools # 0 => used(n)
                                       /\ read[n].ended => ended(n)}
<1>8. 0 \in S
  <2>1. start.tools = 0 /\ ~start.ended
    BY DEF start
  <2> QED BY <1>2, <1>7, <2>1
<1>9. ASSUME NEW n \in Nat, n \in S
      PROVE  n + 1 \in S
  <2> SUFFICES ASSUME n + 1 <= N
               PROVE  /\ read[n + 1] \in Readers
                      /\ read[n + 1].tools # 0 => used(n + 1)
                      /\ read[n + 1].ended => ended(n + 1)
    OBVIOUS
  <2> DEFINE before == read[n]
             line   == lines[n + 1]
             next   == read[n + 1]
  <2>1. n <= N /\ n + 1 \in 1..N /\ (n + 1) - 1 = n
    BY <1>1
  <2>2. before \in Readers /\ (before.tools # 0 => used(n)) /\ (before.ended => ended(n))
    BY <1>9, <2>1
  <2>3. next = ReadEvent(before, line)
    BY <1>7, <2>1
  <2>4. line \in PiLine(Texts, Claims)
    BY <1>1, <2>1
  <2>5. (used(n) => used(n + 1)) /\ (ended(n) => ended(n + 1))
        /\ (line.kind = "tool" => used(n + 1)) /\ (line.kind = "agent_end" => ended(n + 1))
    OBVIOUS
  <2> HIDE DEF before, line, next, used, ended
  <2>6. /\ next \in Readers
        /\ next.tools # before.tools => line.kind = "tool"
        /\ next.ended # before.ended => line.kind = "agent_end"
    BY <2>2, <2>3, <2>4, ReadEventReads DEF Readers
  <2>7. next.tools # 0 => used(n + 1)
    BY <2>2, <2>5, <2>6
  <2>8. next.ended => ended(n + 1)
    <3>1. next.ended \in BOOLEAN /\ before.ended \in BOOLEAN
      BY <2>2, <2>6 DEF Readers, PiReader
    <3> QED BY <2>2, <2>5, <2>6, <3>1
  <2> QED BY <2>6, <2>7, <2>8 DEF next
<1> HIDE DEF S
<1>10. N \in S
  BY <1>1, <1>8, <1>9, NatSetInduction
<1>11. end \in Readers /\ (end.tools # 0 => used(N)) /\ (end.ended => ended(N))
  BY <1>10, <1>1 DEF S
<1> HIDE DEF end
<1>12. end.error \in {"none", "eof", "malformed"}
  BY <1>11 DEF Readers, PiReader
<1> QED BY <1>1, <1>6, <1>11, <1>12

\* execute_live_worker_attempt: whatever pi prints and whatever becomes of it,
\* what is taken for a completed attempt did something - it changed files or
\* used a tool; an attempt without a result is reported as blocked or failed;
\* and one that was stopped for anything else than being slow is never taken
\* for a completed one, whatever it changed.
THEOREM CompletedAttemptsDidSomething ==
    ASSUME NEW Texts, NEW Claims, NEW spec, NEW pi, NEW world,
           world.stdout \in Seq(PiLine(Texts, Claims))
    PROVE  LET attempt == Attempt("pi", spec, pi, world)
           IN  /\ attempt.result = "ok" =>
                      \/ world.changed # {}
                      \/ \E i \in DOMAIN world.stdout : world.stdout[i].kind = "tool"
               /\ \A report \in attempt.report :
                      report.status \in IF attempt.result = "ok" THEN {"Completed", "Failed"}
                                        ELSE {"Blocked", "Failed"}
               /\ world.engine # "ok" /\ world.stop \notin {"timeout", "stall"} =>
                      attempt.result = "error"
<1> DEFINE attempt == Attempt("pi", spec, pi, world)
           parsed  == ParsePi(world.stdout)
           did     == \/ world.changed # {}
                      \/ \E i \in DOMAIN world.stdout : world.stdout[i].kind = "tool"
           Good(a) == /\ a.result = "ok" => did
                      /\ \A report \in a.report :
                             report.status \in IF a.result = "ok" THEN {"Completed", "Failed"}
                                               ELSE {"Blocked", "Failed"}
<1>1. /\ parsed.error \in {"none", "eof", "malformed"}
      /\ parsed.tools # 0 => \E i \in DOMAIN world.stdout : world.stdout[i].kind = "tool"
  BY ParsedWasPrinted
<1>2. PiBlocks(world) = {} => did
  <2> HIDE DEF parsed
  <2>1. CASE parsed.error = "none"
    <3>1. PiBlocks(world) = IF parsed.tools = 0 /\ world.changed = {}
                            THEN {"local_provider_no_tool_activity_or_changes"} ELSE {}
      BY <2>1 DEF PiBlocks, parsed
    <3> QED BY <1>1, <3>1
  <2>2. CASE parsed.error = "eof"
    <3>1. PiBlocks(world) = IF world.changed = {} THEN {OutputFailure(world.facts)} ELSE {}
      BY <2>2 DEF PiBlocks, parsed
    <3> QED BY <3>1
  <2>3. CASE parsed.error = "malformed"
    <3>1. PiBlocks(world) = {OutputFailure(world.facts)}
      BY <2>3 DEF PiBlocks, parsed
    <3> QED BY <3>1
  <2> QED BY <1>1, <2>1, <2>2, <2>3
<1> HIDE DEF did, parsed
<1>3. \A reason : Good(Blocked(reason)) /\ Blocked(reason).result = "error"
  BY DEF Blocked, Report
<1>4. Good(NoReport) /\ NoReport.result = "error"
  BY DEF NoReport
<1>5. \A reason, usage : \A status \in {"Completed", "Failed"} : did => Good(Done(status, reason, usage))
  BY DEF Done, Report
<1>6. Good(AfterExit("pi", spec, world))
  <2> HIDE DEF Good
  <2> DEFINE raw   == IF spec.output_capture = "stdout" THEN world.stdout ELSE world.outputFile
             usage == Usage(raw)
  <2>1. AfterExit("pi", spec, world) =
            IF ~world.listable THEN NoReport
            ELSE IF PiBlocks(world) # {} THEN Blocked(PiBlocks(world))
            ELSE IF ~usage.ok THEN NoReport
            ELSE IF world.exit = 0 THEN Done("Completed", {}, usage.entries)
            ELSE Done("Failed", {"exit"}, usage.entries)
    BY DEF AfterExit
  <2> HIDE DEF raw, usage
  <2>2. Good(Blocked(PiBlocks(world)))
    BY <1>3
  <2>3. did => Good(Done("Completed", {}, usage.entries)) /\ Good(Done("Failed", {"exit"}, usage.entries))
    <3> HIDE DEF Good
    <3> QED BY <1>5
  <2> QED BY <1>2, <1>4, <2>1, <2>2, <2>3
<1>7. Good(AfterEngineError("pi", pi, world))
  <2>1. CASE StopMayBeIgnored("pi", pi, world)
    <3>1. did /\ AfterEngineError("pi", pi, world) = Done("Completed", {}, {})
      BY <2>1 DEF StopMayBeIgnored, AfterEngineError, did
    <3> HIDE DEF Good
    <3>2. did => Good(Done("Completed", {}, {}))
      BY <1>5
    <3> QED BY <3>1, <3>2
  <2>2. CASE ~StopMayBeIgnored("pi", pi, world)
    BY <2>2 DEF AfterEngineError, Report
  <2> QED BY <2>1, <2>2
<1>8. world.stop \notin {"timeout", "stall"} => AfterEngineError("pi", pi, world).result = "error"
  BY DEF StopMayBeIgnored, AfterEngineError
<1>9. \/ attempt = Blocked({"route"})
      \/ attempt = Blocked({"local_provider_concurrency_wait_timeout"})
      \/ attempt = AfterExit("pi", spec, world) /\ world.engine = "ok"
      \/ attempt = AfterEngineError("pi", pi, world) /\ world.engine # "ok"
  BY DEF Attempt
<1> HIDE DEF attempt, Good
<1>10. Good(attempt)
  BY <1>3, <1>6, <1>7, <1>9
<1>11. world.engine # "ok" /\ world.stop \notin {"timeout", "stall"} => attempt.result = "error"
  BY <1>3, <1>8, <1>9
<1> QED BY <1>10, <1>11 DEF attempt, Good, did

-----------------------------------------------------------------------------
(* Which adapter is chosen.                                                *)

\* A local adapter of the registry that satisfies the rules for one.
IsLocalChoice(id, specs) ==
    id \in DOMAIN specs /\ SpecIsValid(specs[id]) /\ specs[id].cost_class = "local"

LEMMA ResolvedIsAllowed ==
    ASSUME NEW policy, NEW specs, PolicyIsValid(policy, specs),
           NEW capability, NEW id \in Resolve(policy, capability)
    PROVE  AdapterAllowed(id, policy, specs)
<1>1. AdapterAllowed(policy.default, policy, specs)
      /\ \A c \in DOMAIN policy.routes : AdapterAllowed(policy.routes[c], policy, specs)
  BY DEF PolicyIsValid
<1> HIDE DEF AdapterAllowed
<1>2. id = policy.default \/ \E c \in DOMAIN policy.routes : id = policy.routes[c]
  BY DEF Resolve
<1> QED BY <1>1, <1>2

LEMMA DecidedIsAllowed ==
    ASSUME NEW policy, NEW request, NEW specs, NEW choice \in Decide(policy, request, specs)
    PROVE  PolicyIsValid(policy, specs) /\ AdapterAllowed(choice.selected, policy, specs)
<1>1. PolicyIsValid(policy, specs) /\ RequestIsValid(request)
  BY DEF Decide
<1>2. CASE request.manager_override # {}
  <2>1. PICK override \in request.manager_override :
            /\ AdapterAllowed(override.adapter_id, policy, specs)
            /\ choice = [selected |-> override.adapter_id, source |-> "manager_override"]
    <3> HIDE DEF PolicyIsValid, RequestIsValid, AdapterAllowed
    <3> QED BY <1>1, <1>2 DEF Decide
  <2>2. choice.selected = override.adapter_id
    BY <2>1
  <2> QED BY <1>1, <2>1, <2>2
<1>3. CASE request.manager_override = {}
  <2>1. PICK id \in Resolve(policy, request.capability) :
            choice = [selected |-> id, source |-> IF request.capability = {} THEN "default"
                                                                           ELSE "capability"]
    <3> HIDE DEF PolicyIsValid, RequestIsValid, AdapterAllowed
    <3> QED BY <1>1, <1>3 DEF Decide
  <2>2. choice.selected = id
    BY <2>1
  <2> QED BY <1>1, <2>1, <2>2, ResolvedIsAllowed
<1> QED BY <1>2, <1>3

\* A project that is local-only stays local: neither the policy's routes nor a
\* manager's override nor a plan of two adapters ever gets it a worker that is
\* not in the registry, breaks its rules, or is paid for (decide_adapter,
\* resolve_adapter_spec, plan_design_spec_pipeline, require_adapter_allowed).
THEOREM LocalOnlyStaysLocal ==
    ASSUME NEW policy, policy.project_policy = "local-only", NEW specs
    PROVE  /\ \A request : \A choice \in Decide(policy, request, specs) :
                  IsLocalChoice(choice.selected, specs)
           /\ \A capability : \A spec \in ResolveSpec(policy, capability, specs) :
                  SpecIsValid(spec) /\ spec.cost_class = "local"
           /\ \A request : \A plan \in DesignPlan(policy, request, specs) :
                  /\ IsLocalChoice(plan.design, specs)
                  /\ IsLocalChoice(plan.implementation, specs)
<1>1. \A id : AdapterAllowed(id, policy, specs) => IsLocalChoice(id, specs)
  BY DEF AdapterAllowed, IsLocalChoice
<1>2. ASSUME NEW request, NEW choice \in Decide(policy, request, specs)
      PROVE  IsLocalChoice(choice.selected, specs)
  BY <1>1, DecidedIsAllowed
<1>3. ASSUME NEW capability, NEW spec \in ResolveSpec(policy, capability, specs)
      PROVE  SpecIsValid(spec) /\ spec.cost_class = "local"
  <2>1. PICK id \in Resolve(policy, capability) :
            PolicyIsValid(policy, specs) /\ spec = specs[id]
    BY <1>3 DEF ResolveSpec
  <2>2. IsLocalChoice(id, specs)
    BY <1>1, <2>1, ResolvedIsAllowed
  <2> QED BY <2>1, <2>2 DEF IsLocalChoice
<1>4. ASSUME NEW request, NEW plan \in DesignPlan(policy, request, specs)
      PROVE  IsLocalChoice(plan.design, specs) /\ IsLocalChoice(plan.implementation, specs)
  <2> DEFINE Ask(capability, override) ==
                 [ task_id |-> request.task_id, lane_id |-> request.lane_id,
                   capability |-> {capability}, manager_override |-> override ]
             designs == Decide(policy, Ask(request.design, request.design_override), specs)
             works   == Decide(policy, Ask(request.implementation,
                                           request.implementation_override), specs)
  <2>0. plan \in {[design |-> d.selected, implementation |-> i.selected] :
                      d \in designs, i \in works}
    <3> DEFINE plain == \/ ~ArePlain({request.task_id, request.lane_id, request.design.name,
                                      request.implementation.name, request.artifact_ref})
                        \/ request.artifact_ref \in {"/absolute", "../above"}
    <3>1. DesignPlan(policy, request, specs) =
              IF plain THEN {}
              ELSE {p \in {[design |-> d.selected, implementation |-> i.selected] :
                               d \in designs, i \in works} :
                        /\ WorksAs(p.design, request.design, specs)
                        /\ WorksAs(p.implementation, request.implementation, specs)}
      BY DEF DesignPlan
    <3> HIDE DEF plain, designs, works
    <3> QED BY <1>4, <3>1
  <2>1. PICK d \in designs, i \in works :
            plan = [design |-> d.selected, implementation |-> i.selected]
    <3> HIDE DEF designs, works
    <3> QED BY <2>0
  <2>2. plan.design = d.selected /\ plan.implementation = i.selected
    BY <2>1
  <2> QED BY <1>2, <2>1, <2>2
<1> QED BY <1>2, <1>3, <1>4

-----------------------------------------------------------------------------
(* The registry of adapters.                                               *)

IsDocument(document) ==
    document = [schema_version |-> document.schema_version, adapters |-> document.adapters]

\* The registry only ever changes from one valid document to another: what a
\* caller puts in is refused unless it is valid, taking an adapter out breaks
\* nothing, the adapter of a configuration goes in only if the whole is valid
\* then, and what is saved is a valid document or what was there before
\* (upsert, remove, load_from_config, save of registry.rs).
THEOREM RegistryStaysValid ==
    ASSUME NEW document, IsDocument(document), DocumentIsValid(document)
    PROVE  /\ \A spec : \A after \in Upsert(document, spec) :
                  /\ DocumentIsValid(after) /\ IsDocument(after)
                  /\ \A id \in DOMAIN document.adapters \ {spec.id} :
                        after.adapters[id] = document.adapters[id]
           /\ \A id : \A after \in Remove(document, id) :
                  DocumentIsValid(after) /\ IsDocument(after) /\ id \notin DOMAIN after.adapters
           /\ \A file, pi : \A after \in LoadFromConfig(file, pi) :
                  /\ DocumentIsValid(after)
                  /\ (\A read \in file : IsDocument(read)) => after.adapters["pi"] = PiSpec(pi)
           /\ \A any : Save(any, {document}) \subseteq {d \in {any, document} : DocumentIsValid(d)}
<1>1. /\ document.schema_version = 1
      /\ \A id \in DOMAIN document.adapters :
            document.adapters[id].id = id /\ SpecIsValid(document.adapters[id])
  BY DEF DocumentIsValid
<1>2. ASSUME NEW spec, NEW after \in Upsert(document, spec)
      PROVE  /\ DocumentIsValid(after) /\ IsDocument(after)
             /\ \A id \in DOMAIN document.adapters \ {spec.id} :
                   after.adapters[id] = document.adapters[id]
  <2>1. SpecIsValid(spec) /\ after = Insert(document, spec.id, spec)
    <3> HIDE DEF SpecIsValid, Insert
    <3> QED BY <1>2 DEF Upsert, IntoSpec
  <2> HIDE DEF SpecIsValid
  <2>2. /\ after.schema_version = 1
        /\ after.adapters = [other \in DOMAIN document.adapters \cup {spec.id} |->
                                IF other = spec.id THEN spec ELSE document.adapters[other]]
        /\ IsDocument(after)
    BY <1>1, <2>1 DEF Insert, IsDocument
  <2> QED BY <1>1, <2>1, <2>2 DEF DocumentIsValid
<1>3. ASSUME NEW id, NEW after \in Remove(document, id)
      PROVE  DocumentIsValid(after) /\ IsDocument(after) /\ id \notin DOMAIN after.adapters
  <2>1. /\ after.schema_version = 1
        /\ after.adapters = [other \in DOMAIN document.adapters \ {id} |->
                                document.adapters[other]]
        /\ IsDocument(after)
    BY <1>1, <1>3 DEF Remove, IsDocument
  <2> HIDE DEF SpecIsValid
  <2> QED BY <1>1, <2>1 DEF DocumentIsValid
<1>4. ASSUME NEW file, NEW pi, NEW after \in LoadFromConfig(file, pi)
      PROVE  /\ DocumentIsValid(after)
             /\ (\A read \in file : IsDocument(read)) => after.adapters["pi"] = PiSpec(pi)
  <2>1. PICK loaded \in Load(file) :
            DocumentIsValid(after) /\ after = Insert(loaded, "pi", PiSpec(pi))
    BY <1>4 DEF LoadFromConfig
  <2>2. ASSUME \A read \in file : IsDocument(read)
        PROVE  IsDocument(loaded)
    BY <2>1, <2>2 DEF Load, IsDocument
  <2>3. ASSUME IsDocument(loaded)
        PROVE  after.adapters["pi"] = PiSpec(pi)
    BY <2>1, <2>3 DEF Insert, IsDocument
  <2> QED BY <2>1, <2>2, <2>3
<1> QED BY <1>2, <1>3, <1>4 DEF Save

-----------------------------------------------------------------------------
(* The layers of a configuration.                                          *)
Settings == INSTANCE Configuration

SettingLines(Texts) == [form : Texts, key : Texts, value : Texts]

\* The line of the file that counts for a key.
IsLastFor(lines, key, i) ==
    /\ i \in DOMAIN lines /\ lines[i].key = key
    /\ \A j \in DOMAIN lines : lines[j].key = key => j <= i

LEMMA LastLineCounts ==
    ASSUME NEW Texts, NEW lines \in Seq(SettingLines(Texts)), NEW i, NEW key,
           IsLastFor(lines, key, i)
    PROVE  key \in DOMAIN Settings!DotenvValues(lines)
           /\ Settings!DotenvValues(lines)[key] = lines[i].value
<1>1. DOMAIN lines = 1..Len(lines) /\ Len(lines) \in Nat
  OBVIOUS
<1>2. \A j : IsLastFor(lines, key, j) => j = i
  BY <1>1 DEF IsLastFor
<1>3. (CHOOSE j \in DOMAIN lines :
          lines[j].key = key /\ \A k \in DOMAIN lines : lines[k].key = key => k <= j) = i
  BY <1>2 DEF IsLastFor
<1>4. key \in {lines[j].key : j \in DOMAIN lines}
  BY DEF IsLastFor
<1> QED BY <1>3, <1>4 DEF Settings!DotenvValues

LEMMA LastLineExists ==
    ASSUME NEW Texts, NEW lines \in Seq(SettingLines(Texts)), NEW n \in DOMAIN lines
    PROVE  \E i : IsLastFor(lines, lines[n].key, i)
<1> DEFINE key == lines[n].key
           places == {i \in DOMAIN lines : lines[i].key = key}
<1>1. DOMAIN lines = 1..Len(lines) /\ Len(lines) \in Nat
  OBVIOUS
<1>2. places \subseteq 0..Len(lines) /\ n \in places
  BY <1>1
<1>3. PICK i \in places : \A j \in places : j <= i
  <2> HIDE DEF places
  <2> QED BY <1>1, <1>2, LargestExists
<1> QED BY <1>3 DEF IsLastFor

LEMMA AppliedIsParsed ==
    ASSUME NEW config, NEW values, NEW after \in Settings!Apply(config, values)
    PROVE  /\ \A key \in Settings!Key :
                 IF key \in DOMAIN values
                 THEN /\ Settings!Parses(key, values[key])
                      /\ after[key] = Settings!Parsed(key, values[key])
                 ELSE after[key] = config[key]
           /\ Settings!Apply(config, values) = {after}
<1> DEFINE known == Settings!Key \cap DOMAIN values
           parsed == [key \in known |-> Settings!Parsed(key, values[key])]
<1>1. /\ \A key \in known : Settings!Parses(key, values[key])
      /\ after = Settings!Override(config, parsed)
      /\ Settings!Apply(config, values) = {after}
  <2> HIDE DEF Settings!Parses, Settings!Override
  <2> QED BY DEF Settings!Apply
<1>2. \A key \in Settings!Key :
         after[key] = IF key \in known THEN Settings!Parsed(key, values[key]) ELSE config[key]
  <2> HIDE DEF Settings!Key, Settings!Parsed
  <2> QED BY <1>1 DEF Settings!Override
<1> QED BY <1>1, <1>2

\* A value that is given in several places is the one of the last: an override
\* counts before the environment, the environment before the file, of the file
\* the last line, and the default if nobody gives it.  What is given but cannot
\* be read fails the command even where a later place gives another value
\* (parse_dotenv, apply_values, load, load_from_env_and_dotenv_file).
THEOREM LaterSettingsWin ==
    ASSUME NEW Texts, NEW lines \in Seq(SettingLines(Texts)), NEW environment, NEW overrides,
           NEW config \in Settings!Load({lines}, environment, overrides)
    PROVE  /\ Settings!IsValid(config)
           /\ \A key \in Settings!Key :
                 /\ key \in DOMAIN overrides => config[key] = overrides[key]
                 /\ key \in DOMAIN environment => Settings!Parses(key, environment[key])
                 /\ key \in DOMAIN environment \ DOMAIN overrides =>
                        config[key] = Settings!Parsed(key, environment[key])
                 /\ \A n \in DOMAIN lines : lines[n].key = key =>
                        \E i : /\ IsLastFor(lines, key, i)
                               /\ Settings!Parses(key, lines[i].value)
                               /\ key \notin DOMAIN overrides \cup DOMAIN environment =>
                                      config[key] = Settings!Parsed(key, lines[i].value)
                 /\ /\ key \notin DOMAIN overrides \cup DOMAIN environment
                    /\ \A n \in DOMAIN lines : lines[n].key # key
                    => config[key] = Settings!Default[key]
           /\ Settings!Load({lines}, environment, overrides) = {config}
<1> DEFINE values == Settings!DotenvValues(lines)
<1> HIDE DEF values
<1>1. PICK read, set :
          /\ Settings!DotenvParses(lines)
          /\ read \in Settings!Apply(Settings!Default, values)
          /\ set \in Settings!Apply(read, environment)
          /\ config = Settings!Override(set, overrides)
          /\ Settings!IsValid(config)
  BY DEF Settings!Load, values
<1>2. Settings!Apply(Settings!Default, values) = {read} /\ Settings!Apply(read, environment) = {set}
  BY <1>1, AppliedIsParsed
<1>3. Settings!Load({lines}, environment, overrides) = {config}
  <2>1. UNION {Settings!Apply(Settings!Default, Settings!DotenvValues(l)) :
                   l \in {l \in {lines} : Settings!DotenvParses(l)}} = {read}
    BY <1>1, <1>2 DEF values
  <2>2. UNION {Settings!Apply(c, environment) : c \in {read}} = {set}
    BY <1>2
  <2> QED BY <1>1, <2>1, <2>2 DEF Settings!Load
<1>4. \A key \in Settings!Key :
         config[key] = IF key \in DOMAIN overrides THEN overrides[key] ELSE set[key]
  BY <1>1 DEF Settings!Override
<1>5. \A key \in Settings!Key :
         IF key \in DOMAIN environment
         THEN /\ Settings!Parses(key, environment[key])
              /\ set[key] = Settings!Parsed(key, environment[key])
         ELSE set[key] = read[key]
  BY <1>1, AppliedIsParsed
<1>6. \A key \in Settings!Key :
         IF key \in DOMAIN values
         THEN Settings!Parses(key, values[key]) /\ read[key] = Settings!Parsed(key, values[key])
         ELSE read[key] = Settings!Default[key]
  BY <1>1, AppliedIsParsed
<1>7. ASSUME NEW key \in Settings!Key, NEW n \in DOMAIN lines, lines[n].key = key
      PROVE  \E i : /\ IsLastFor(lines, key, i)
                    /\ Settings!Parses(key, lines[i].value)
                    /\ key \notin DOMAIN overrides \cup DOMAIN environment =>
                           config[key] = Settings!Parsed(key, lines[i].value)
  <2>1. PICK i : IsLastFor(lines, key, i)
    BY <1>7, LastLineExists
  <2>2. key \in DOMAIN values /\ values[key] = lines[i].value
    BY <2>1, LastLineCounts DEF values
  <2> QED BY <1>4, <1>5, <1>6, <2>1, <2>2
<1>8. ASSUME NEW key \in Settings!Key, \A n \in DOMAIN lines : lines[n].key # key
      PROVE  key \notin DOMAIN values
  BY <1>8 DEF values, Settings!DotenvValues
<1> QED BY <1>1, <1>3, <1>4, <1>5, <1>6, <1>7, <1>8

-----------------------------------------------------------------------------
(* Where a lifecycle command of git is found.                              *)

\* The words from one place to another are options of git, with the values of
\* those that take one.
IsOptionRun(tokens, from, to) ==
    \E starts \in SUBSET (from..to) :
        LET values == {s + 1 : s \in {o \in starts : tokens[o] \in ValueOption}}
        IN  /\ starts \cup values = from..to
            /\ starts \cap values = {}
            /\ \A s \in starts : tokens[s] \in ValueOption \cup OtherOption

\* What a word does that is no option.
WordAction(tokens, i) ==
    IF tokens[i] = "worktree"
    THEN {w \in {"add", "remove"} : i < Len(tokens) /\ tokens[i + 1] = w}
    ELSE {tokens[i]} \cap GitAction

IsOption(token) == token \in ValueOption \cup OtherOption

LEMMA EmptyRun ==
    ASSUME NEW tokens, NEW i \in Nat
    PROVE  IsOptionRun(tokens, i, i - 1)
<1>1. i..(i - 1) = {}
  OBVIOUS
<1>2. {} \in SUBSET (i..(i - 1))
  OBVIOUS
<1> QED BY <1>1, <1>2 DEF IsOptionRun

\* A run of options starts with one, and goes on behind it and its value.
LEMMA RunGoesOn ==
    ASSUME NEW tokens, NEW i \in Nat, NEW a \in Nat, i < a
    PROVE  IsOptionRun(tokens, i, a - 1) <=>
               \/ /\ tokens[i] \in ValueOption
                  /\ i + 2 <= a /\ IsOptionRun(tokens, i + 2, a - 1)
               \/ tokens[i] \in OtherOption /\ IsOptionRun(tokens, i + 1, a - 1)
<1> DEFINE Values(starts) == {s + 1 : s \in {o \in starts : tokens[o] \in ValueOption}}
           Covers(starts, from) ==
               /\ starts \in SUBSET (from..(a - 1))
               /\ starts \cup Values(starts) = from..(a - 1)
               /\ starts \cap Values(starts) = {}
               /\ \A s \in starts : tokens[s] \in ValueOption \cup OtherOption
<1>0. \A from : IsOptionRun(tokens, from, a - 1) <=> \E starts : Covers(starts, from)
  BY DEF IsOptionRun
<1>1. \A x : ~(x \in ValueOption /\ x \in OtherOption)
  BY DEF ValueOption, OtherOption
<1>2. ASSUME NEW starts, Covers(starts, i)
      PROVE  \/ /\ tokens[i] \in ValueOption
                /\ i + 2 <= a /\ Covers(starts \ {i}, i + 2)
             \/ tokens[i] \in OtherOption /\ Covers(starts \ {i}, i + 1)
  <2> DEFINE rest == starts \ {i}
  <2>1. \A s \in starts : s \in Nat /\ s >= i /\ s < a
    BY <1>2
  <2>2. \A v : v \in Values(starts) <=>
               v - 1 \in starts /\ v \in Int /\ tokens[v - 1] \in ValueOption
    BY <2>1
  <2>3. \A v : v \in Values(rest) <=>
               v - 1 \in rest /\ v \in Int /\ tokens[v - 1] \in ValueOption
    BY <2>1
  <2>4. \A k : k \in starts \/ k \in Values(starts) <=> k \in i..(a - 1)
    BY <1>2
  <2>5. \A k \in starts : k \notin Values(starts) /\ tokens[k] \in ValueOption \cup OtherOption
    BY <1>2
  <2> HIDE DEF Values
  <2>6. i \in starts
    <3>1. i \in i..(a - 1) /\ i - 1 \notin starts
      BY <2>1
    <3> QED BY <2>2, <2>4, <3>1
  <2>7. i \notin Values(rest) /\ i + 1 \notin Values(rest)
    <3>1. i - 1 \notin rest /\ (i + 1) - 1 = i
      BY <2>1
    <3> QED BY <2>3, <3>1
  <2>8. CASE tokens[i] \in ValueOption
    <3>1. i + 1 \in Values(starts)
      BY <2>2, <2>6, <2>8
    <3>2. i + 1 <= a - 1 /\ i + 1 \notin starts
      BY <2>4, <2>5, <3>1
    <3>3. \A k : k \in rest \/ k \in Values(rest) <=> k \in (i + 2)..(a - 1)
      <4>1. ASSUME NEW k, k \in rest \/ k \in Values(rest)
            PROVE  k \in (i + 2)..(a - 1)
        <5>1. k \in starts \/ k \in Values(starts)
          BY <2>2, <2>3, <4>1
        <5>2. k \in i..(a - 1) /\ k # i /\ k # i + 1
          BY <2>4, <2>7, <3>2, <4>1, <5>1
        <5> QED BY <5>2
      <4>2. ASSUME NEW k \in (i + 2)..(a - 1)
            PROVE  k \in rest \/ k \in Values(rest)
        <5>1. k \in starts \/ k \in Values(starts)
          BY <2>4
        <5>2. k # i /\ k - 1 # i /\ k \in Int
          OBVIOUS
        <5> QED BY <2>2, <2>3, <5>1, <5>2
      <4> QED BY <4>1, <4>2
    <3>4. rest \cap Values(rest) = {}
      BY <2>2, <2>3, <2>5
    <3>5. Covers(rest, i + 2)
      BY <2>5, <3>3, <3>4
    <3>6. i + 2 <= a
      BY <3>2
    <3> QED BY <2>8, <3>5, <3>6
  <2>9. CASE tokens[i] \in OtherOption
    <3>1. i + 1 \notin Values(starts)
      BY <1>1, <2>2, <2>9
    <3>3. \A k : k \in rest \/ k \in Values(rest) <=> k \in (i + 1)..(a - 1)
      <4>1. ASSUME NEW k, k \in rest \/ k \in Values(rest)
            PROVE  k \in (i + 1)..(a - 1)
        <5>1. k \in starts \/ k \in Values(starts)
          BY <2>2, <2>3, <4>1
        <5>2. k \in i..(a - 1) /\ k # i
          BY <2>4, <2>7, <4>1, <5>1
        <5> QED BY <5>2
      <4>2. ASSUME NEW k \in (i + 1)..(a - 1)
            PROVE  k \in rest \/ k \in Values(rest)
        <5>1. k \in starts \/ k \in Values(starts)
          BY <2>4
        <5>2. k # i /\ (k - 1 = i => k = i + 1) /\ k \in Int
          OBVIOUS
        <5> QED BY <2>2, <2>3, <3>1, <5>1, <5>2
      <4> QED BY <4>1, <4>2
    <3>4. rest \cap Values(rest) = {}
      BY <2>2, <2>3, <2>5
    <3>5. Covers(rest, i + 1)
      BY <2>5, <3>3, <3>4
    <3> QED BY <2>9, <3>5
  <2> QED BY <2>5, <2>6, <2>8, <2>9
<1>3. ASSUME NEW next \in {i + 1, i + 2}, NEW rest, Covers(rest, next), next <= a,
             \/ next = i + 2 /\ tokens[i] \in ValueOption
             \/ next = i + 1 /\ tokens[i] \in OtherOption
      PROVE  Covers(rest \cup {i}, i)
  <2> DEFINE starts == rest \cup {i}
  <2>1. \A s \in rest : s \in Nat /\ s >= next /\ s < a
    BY <1>3
  <2>2. \A v : v \in Values(starts) <=>
               v - 1 \in starts /\ v \in Int /\ tokens[v - 1] \in ValueOption
    BY <2>1
  <2>3. \A v : v \in Values(rest) <=>
               v - 1 \in rest /\ v \in Int /\ tokens[v - 1] \in ValueOption
    BY <2>1
  <2>4. \A k : k \in rest \/ k \in Values(rest) <=> k \in next..(a - 1)
    BY <1>3
  <2>5. \A k \in rest : k \notin Values(rest) /\ tokens[k] \in ValueOption \cup OtherOption
    BY <1>3
  <2> HIDE DEF Values
  <2>6. i + 1 \in Values(starts) <=> next = i + 2
    <3>1. (i + 1) - 1 = i /\ i \in starts /\ i + 1 \in Int /\ i + 1 # i + 2
      OBVIOUS
    <3>2. tokens[i] \in ValueOption <=> next = i + 2
      BY <1>1, <1>3, <3>1
    <3>3. i + 1 \in Values(starts) <=> tokens[i] \in ValueOption
      <4> HIDE DEF starts
      <4> QED BY <2>2, <3>1
    <3> QED BY <3>2, <3>3
  <2>7. \A k : k \in Values(starts) <=> k \in Values(rest) \/ (k = i + 1 /\ next = i + 2)
    <3>1. \A k \in Int : k - 1 = i <=> k = i + 1
      OBVIOUS
    <3>2. \A k : k \in Values(starts) => k \in Int
      BY <2>2
    <3> QED BY <2>2, <2>3, <2>6, <3>1, <3>2
  <2>8. \A k : k \in starts \/ k \in Values(starts) <=> k \in i..(a - 1)
    <3>1. \A k : k \in i..(a - 1) <=> k = i \/ (k = i + 1 /\ next = i + 2) \/ k \in next..(a - 1)
      BY <1>3
    <3> QED BY <2>4, <2>7, <3>1
  <2>9. starts \cap Values(starts) = {}
    <3>1. i \notin Values(starts)
      <4>1. i - 1 \notin starts
        BY <2>1
      <4> QED BY <2>2, <4>1
    <3>2. ASSUME next = i + 2
          PROVE  i + 1 \notin starts
      BY <2>1, <3>2
    <3> QED BY <2>5, <2>7, <3>1, <3>2
  <2>10. \A s \in starts : tokens[s] \in ValueOption \cup OtherOption
    BY <1>3, <2>5
  <2>11. starts \in SUBSET (i..(a - 1))
    BY <2>8
  <2> QED BY <2>8, <2>9, <2>10, <2>11
<1> HIDE DEF Covers
<1>4. ASSUME tokens[i] \in ValueOption, i + 2 <= a, IsOptionRun(tokens, i + 2, a - 1)
      PROVE  IsOptionRun(tokens, i, a - 1)
  BY <1>0, <1>3, <1>4
<1>5. ASSUME tokens[i] \in OtherOption, IsOptionRun(tokens, i + 1, a - 1)
      PROVE  IsOptionRun(tokens, i, a - 1)
  <2>1. i + 1 <= a
    OBVIOUS
  <2> QED BY <1>0, <1>3, <1>5, <2>1
<1>6. ASSUME IsOptionRun(tokens, i, a - 1)
      PROVE  \/ /\ tokens[i] \in ValueOption
                /\ i + 2 <= a /\ IsOptionRun(tokens, i + 2, a - 1)
             \/ tokens[i] \in OtherOption /\ IsOptionRun(tokens, i + 1, a - 1)
  BY <1>0, <1>2, <1>6
<1> QED BY <1>4, <1>5, <1>6

\* What git_action_after makes of the words from a place on.
LEMMA ActionIsFound ==
    ASSUME NEW Words, NEW tokens \in Seq(Words), NEW start \in 1..(Len(tokens) + 1)
    PROVE  GitActionAfter(tokens, start) # {} <=>
               \E a \in start..Len(tokens) :
                   /\ IsOptionRun(tokens, start, a - 1) /\ ~IsOption(tokens[a])
                   /\ WordAction(tokens, a) # {}
<1> DEFINE N == Len(tokens)
           value(i) == tokens[i] \in ValueOption
           other(i) == tokens[i] \in OtherOption
           word(i)  == WordAction(tokens, i)
           def(f) == [i \in 1..(N + 2) |->
                         IF i > N THEN {}
                         ELSE IF value(i) THEN f[i + 2]
                         ELSE IF other(i) THEN f[i + 1] ELSE word(i)]
           found(i) == {w \in {"add", "remove"} \cup GitAction :
                           \E a \in i..N : /\ IsOptionRun(tokens, i, a - 1) /\ ~value(a) /\ ~other(a)
                                           /\ w \in word(a)}
           h == [i \in 1..(N + 2) |-> found(i)]
<1>0. N \in Nat
  OBVIOUS
<1>1. \A i \in 1..N : ~(value(i) /\ other(i))
  BY DEF ValueOption, OtherOption
<1>2. \A i : word(i) \subseteq {"add", "remove"} \cup GitAction
  BY DEF WordAction
<1> HIDE DEF word
<1>3. ASSUME NEW i \in 1..N
      PROVE  found(i) = IF value(i) THEN found(i + 2) ELSE IF other(i) THEN found(i + 1) ELSE word(i)
  <2>0. \A a \in i..N : a \in Nat /\ (a = i \/ i < a)
    OBVIOUS
  <2>1. IsOptionRun(tokens, i, i - 1)
    BY EmptyRun
  <2>2. \A a \in i..N : i < a =>
            (IsOptionRun(tokens, i, a - 1) <=>
               \/ value(i) /\ i + 2 <= a /\ IsOptionRun(tokens, i + 2, a - 1)
               \/ other(i) /\ IsOptionRun(tokens, i + 1, a - 1))
    BY <2>0, RunGoesOn
  <2>3. CASE value(i)
    <3>1. \A a \in i..N : (IsOptionRun(tokens, i, a - 1) /\ ~value(a)) <=>
                            (a \in (i + 2)..N /\ IsOptionRun(tokens, i + 2, a - 1) /\ ~value(a))
      BY <1>1, <2>0, <2>2, <2>3
    <3>2. (i + 2)..N \subseteq i..N
      OBVIOUS
    <3> HIDE DEF value, other
    <3>3. found(i) = found(i + 2)
      BY <3>1, <3>2
    <3> QED BY <2>3, <3>3
  <2>4. CASE other(i)
    <3>1. \A a \in i..N : (IsOptionRun(tokens, i, a - 1) /\ ~other(a)) <=>
                            (a \in (i + 1)..N /\ IsOptionRun(tokens, i + 1, a - 1) /\ ~other(a))
      BY <1>1, <2>0, <2>2, <2>4
    <3>2. (i + 1)..N \subseteq i..N
      OBVIOUS
    <3> HIDE DEF value, other
    <3>3. found(i) = found(i + 1)
      BY <3>1, <3>2
    <3> QED BY <1>1, <2>4, <3>3
  <2>5. CASE ~value(i) /\ ~other(i)
    <3>1. \A a \in i..N : IsOptionRun(tokens, i, a - 1) <=> a = i
      BY <2>0, <2>1, <2>2, <2>5
    <3> HIDE DEF value, other
    <3>2. found(i) = word(i)
      BY <1>2, <2>5, <3>1
    <3> QED BY <2>5, <3>2
  <2> QED BY <2>3, <2>4, <2>5
<1>4. ASSUME NEW i \in {N + 1, N + 2}
      PROVE  found(i) = {}
  BY <1>0
<1> HIDE DEF value, other, found
<1>5. h = def(h)
  <2>1. ASSUME NEW i \in 1..(N + 2)
        PROVE  h[i] = def(h)[i]
    <3>1. CASE i > N
      <4>1. i \in {N + 1, N + 2}
        BY <1>0, <3>1
      <4>2. found(i) = {}
        BY <1>4, <4>1
      <4> QED BY <3>1, <4>2
    <3>2. CASE ~(i > N)
      <4>1. i \in 1..N /\ i + 1 \in 1..(N + 2) /\ i + 2 \in 1..(N + 2)
        BY <1>0, <3>2
      <4>2. h[i] = found(i) /\ h[i + 1] = found(i + 1) /\ h[i + 2] = found(i + 2)
        BY <4>1
      <4>3. def(h)[i] = IF value(i) THEN h[i + 2] ELSE IF other(i) THEN h[i + 1] ELSE word(i)
        BY <3>2
      <4> QED BY <1>3, <4>1, <4>2, <4>3
    <3> QED BY <3>1, <3>2
  <2> QED BY <2>1
<1> DEFINE action == CHOOSE f : f = def(f)
<1> HIDE DEF h
<1>6. action = def(action)
  <2> HIDE DEF def
  <2> QED BY <1>5
<1>7. GitActionAfter(tokens, start) = action[start]
  BY DEF GitActionAfter, value, other, word, WordAction
<1> HIDE DEF action
<1>8. \A i \in 1..(N + 2) : action[i] = IF i > N THEN {}
                                        ELSE IF value(i) THEN action[i + 2]
                                        ELSE IF other(i) THEN action[i + 1] ELSE word(i)
  <2> DEFINE all == def(action)
  <2>1. \A i \in 1..(N + 2) : all[i] = IF i > N THEN {}
                                        ELSE IF value(i) THEN action[i + 2]
                                        ELSE IF other(i) THEN action[i + 1] ELSE word(i)
    OBVIOUS
  <2> HIDE DEF all
  <2> QED BY <1>6, <2>1 DEF all
<1> HIDE DEF def
<1> DEFINE S == {n \in Nat : \A i \in 1..(N + 2) : i >= (N + 2) - n => action[i] = found(i)}
<1>9. 0 \in S
  <2>1. \A i \in 1..(N + 2) : i >= (N + 2) - 0 => i = N + 2 /\ i > N
    BY <1>0
  <2> QED BY <1>4, <1>8, <2>1
<1>10. ASSUME NEW n \in Nat, n \in S
       PROVE  n + 1 \in S
  <2> SUFFICES ASSUME NEW i \in 1..(N + 2), i >= (N + 2) - (n + 1)
               PROVE  action[i] = found(i)
    OBVIOUS
  <2>1. CASE i > N
    <3>1. i \in {N + 1, N + 2}
      BY <1>0, <2>1
    <3> QED BY <1>4, <1>8, <2>1, <3>1
  <2>2. CASE ~(i > N)
    <3>1. /\ i \in 1..N /\ i + 1 \in 1..(N + 2) /\ i + 2 \in 1..(N + 2)
          /\ i + 1 >= (N + 2) - n /\ i + 2 >= (N + 2) - n
      BY <1>0, <2>2
    <3>2. action[i + 1] = found(i + 1) /\ action[i + 2] = found(i + 2)
      BY <1>10, <3>1
    <3> QED BY <1>3, <1>8, <2>2, <3>1, <3>2
  <2> QED BY <2>1, <2>2
<1> HIDE DEF S
<1>11. N + 2 \in S
  BY <1>0, <1>9, <1>10, NatSetInduction
<1>12. action[start] = found(start)
  <2>1. start \in 1..(N + 2) /\ start >= (N + 2) - (N + 2)
    BY <1>0
  <2> QED BY <1>11, <2>1 DEF S
<1>13. found(start) # {} <=> \E a \in start..N : /\ IsOptionRun(tokens, start, a - 1)
                                                /\ ~value(a) /\ ~other(a) /\ word(a) # {}
  BY <1>2 DEF found
<1> QED BY <1>7, <1>12, <1>13 DEF value, other, word, IsOption

\* However many options, with or without values, stand between git and its
\* action: a command is taken for a lifecycle command of git exactly if there is
\* such an action behind them, or if gh is asked to change a pull request
\* (detect_git_lifecycle_action, git_action_after).
THEOREM GitIsFoundBehindOptions ==
    ASSUME NEW Words, NEW tokens \in Seq(Words)
    PROVE  GitLifecycle(tokens) <=>
               \/ \E g, a \in DOMAIN tokens :
                      /\ g < a /\ tokens[g] = "git"
                      /\ IsOptionRun(tokens, g + 1, a - 1)
                      /\ \/ tokens[a] \in GitAction
                         \/ /\ tokens[a] = "worktree" /\ a < Len(tokens)
                            /\ tokens[a + 1] \in {"add", "remove"}
               \/ \E i \in 1..(Len(tokens) - 2) :
                      tokens[i] = "gh" /\ tokens[i + 1] = "pr" /\ tokens[i + 2] \in PrAction
<1>1. DOMAIN tokens = 1..Len(tokens) /\ Len(tokens) \in Nat
  OBVIOUS
<1> DEFINE Acts(a) == \/ tokens[a] \in GitAction
                      \/ /\ tokens[a] = "worktree" /\ a < Len(tokens)
                         /\ tokens[a + 1] \in {"add", "remove"}
<1>2. \A a : (~IsOption(tokens[a]) /\ WordAction(tokens, a) # {}) <=> Acts(a)
  <2>1. "worktree" \notin GitAction /\ ~IsOption("worktree") /\ \A t \in GitAction : ~IsOption(t)
    BY DEF GitAction, IsOption, ValueOption, OtherOption
  <2> QED BY <2>1 DEF WordAction
<1> HIDE DEF Acts
<1>3. ASSUME NEW g \in DOMAIN tokens
      PROVE  GitActionAfter(tokens, g + 1) # {} <=>
                 \E a \in DOMAIN tokens : g < a /\ IsOptionRun(tokens, g + 1, a - 1) /\ Acts(a)
  <2>1. g + 1 \in 1..(Len(tokens) + 1)
    BY <1>1
  <2>2. \A a : a \in (g + 1)..Len(tokens) <=> a \in DOMAIN tokens /\ g < a
    BY <1>1
  <2>3. GitActionAfter(tokens, g + 1) # {} <=>
            \E a \in (g + 1)..Len(tokens) :
                /\ IsOptionRun(tokens, g + 1, a - 1) /\ ~IsOption(tokens[a])
                /\ WordAction(tokens, a) # {}
    BY <2>1, ActionIsFound
  <2> QED BY <1>2, <2>2, <2>3
<1>4. GitLifecycle(tokens) <=>
          \/ \E g \in DOMAIN tokens : tokens[g] = "git" /\ GitActionAfter(tokens, g + 1) # {}
          \/ \E i \in DOMAIN tokens : /\ tokens[i] = "gh" /\ i + 2 <= Len(tokens)
                                      /\ tokens[i + 1] = "pr" /\ tokens[i + 2] \in PrAction
  BY DEF GitLifecycle
<1>5. \A i : i \in 1..(Len(tokens) - 2) <=> i \in DOMAIN tokens /\ i + 2 <= Len(tokens)
  BY <1>1
<1> QED BY <1>3, <1>4, <1>5 DEF Acts

-----------------------------------------------------------------------------
(* Commands that are made of templates.                                    *)

LEMMA FirstBraceIsFirst ==
    ASSUME NEW Words, NEW template \in Seq(Words), NEW brace, NEW i \in Nat \ {0}
    PROVE  LET at == FirstBrace(template, brace, i)
           IN  \/ at = 0 /\ \A j \in i..Len(template) : template[j] # brace
               \/ /\ at \in i..Len(template) /\ template[at] = brace
                  /\ \A j \in i..(at - 1) : template[j] # brace
<1> DEFINE found == {j \in i..Len(template) : template[j] = brace}
           least == CHOOSE j \in found : \A k \in found : j <= k
<1>1. FirstBrace(template, brace, i) = IF found = {} THEN 0 ELSE least
  BY DEF FirstBrace
<1>2. CASE found = {}
  BY <1>1, <1>2
<1>3. CASE found # {}
  <2>1. found \in SUBSET Nat
    OBVIOUS
  <2>2. least \in found /\ \A k \in found : least <= k
    <3> HIDE DEF found
    <3>1. \E j \in found : \A k \in found : j <= k
      BY <1>3, <2>1, LeastExists
    <3> QED BY <3>1
  <2> HIDE DEF least
  <2>3. least \in i..Len(template) /\ template[least] = brace
    BY <2>2
  <2>4. ASSUME NEW j \in i..(least - 1)
        PROVE  template[j] # brace
    BY <2>2, <2>3
  <2> QED BY <1>1, <1>3, <2>3, <2>4
<1> QED BY <1>2, <1>3

OpeningBrace == "{"
ClosingBrace == "}"

\* The rendering from each place on, which rests on those from later places.
RenderedFrom(template, context, render, i) ==
    LET open  == FirstBrace(template, OpeningBrace, i)
        close == FirstBrace(template, ClosingBrace, open + 1)
    IN  IF open = 0
        THEN IF FirstBrace(template, ClosingBrace, i) = 0
             THEN {SubSeq(template, i, Len(template))} ELSE {}
        ELSE IF close = open + 2 /\ template[open + 1] \in Placeholder
        THEN {SubSeq(template, i, open - 1) \o <<context[template[open + 1]]>> \o rest :
                  rest \in render[close + 1]}
        ELSE {}

LEMMA RenderLooksAhead ==
    ASSUME NEW Words, NEW template \in Seq(Words), NEW context, NEW f, NEW g,
           NEW i \in 1..(Len(template) + 1),
           \A j \in (i + 1)..(Len(template) + 1) : f[j] = g[j]
    PROVE  RenderedFrom(template, context, f, i) = RenderedFrom(template, context, g, i)
<1> DEFINE open  == FirstBrace(template, OpeningBrace, i)
           close == FirstBrace(template, ClosingBrace, open + 1)
<1>1. i \in Nat \ {0} /\ Len(template) \in Nat
  OBVIOUS
<1>2. open = 0 \/ open \in i..Len(template)
  BY <1>1, FirstBraceIsFirst
<1> HIDE DEF open
<1>3. CASE open # 0 /\ close = open + 2 /\ template[open + 1] \in Placeholder
  <2>1. open + 1 \in Nat \ {0}
    BY <1>1, <1>2
  <2>2. close = 0 \/ close \in (open + 1)..Len(template)
    BY <2>1, FirstBraceIsFirst
  <2> HIDE DEF close
  <2>3. close + 1 \in (i + 1)..(Len(template) + 1)
    BY <1>1, <1>2, <1>3, <2>2
  <2>4. f[close + 1] = g[close + 1]
    BY <2>3
  <2> QED BY <1>3, <2>4 DEF RenderedFrom, open, close
<1>4. CASE ~(open # 0 /\ close = open + 2 /\ template[open + 1] \in Placeholder)
  <2> HIDE DEF close
  <2> QED BY <1>4 DEF RenderedFrom, open, close
<1> QED BY <1>3, <1>4

IsRendering(template, context, render) ==
    render = [i \in 1..(Len(template) + 1) |-> RenderedFrom(template, context, render, i)]

LEMMA RenderingExists ==
    ASSUME NEW Words, NEW template \in Seq(Words), NEW context
    PROVE  \E render : IsRendering(template, context, render)
<1> DEFINE N == Len(template)
           at(f, i) == RenderedFrom(template, context, f, i)
           S == {n \in Nat : \E f : /\ f = [i \in 1..(N + 1) |-> f[i]]
                                    /\ \A i \in 1..(N + 1) : i > (N + 1) - n => f[i] = at(f, i)}
<1>0. N \in Nat
  OBVIOUS
<1>1. 0 \in S
  <2> DEFINE f == [i \in 1..(N + 1) |-> {}]
  <2>1. f = [i \in 1..(N + 1) |-> f[i]] /\ \A i \in 1..(N + 1) : ~(i > (N + 1) - 0)
    BY <1>0
  <2> HIDE DEF f, at
  <2> QED BY <2>1
<1>2. ASSUME NEW n \in Nat, n \in S
      PROVE  n + 1 \in S
  <2>1. PICK f : /\ f = [i \in 1..(N + 1) |-> f[i]]
                 /\ \A i \in 1..(N + 1) : i > (N + 1) - n => f[i] = at(f, i)
    BY <1>2
  <2> DEFINE here == (N + 1) - n
             g == [i \in 1..(N + 1) |-> IF i = here THEN at(f, i) ELSE f[i]]
  <2>2. g = [i \in 1..(N + 1) |-> g[i]]
    OBVIOUS
  <2>3. ASSUME NEW i \in 1..(N + 1), i > (N + 1) - (n + 1)
        PROVE  g[i] = at(g, i)
    <3>1. i >= here /\ here \in Int
      BY <1>0, <2>3
    <3>2. ASSUME NEW j \in (i + 1)..(N + 1)
          PROVE  f[j] = g[j]
      <4>1. j \in 1..(N + 1) /\ j # here
        BY <1>0, <3>1
      <4> QED BY <4>1
    <3>3. at(f, i) = at(g, i)
      <4> HIDE DEF g
      <4> QED BY <3>2, RenderLooksAhead
    <3>4. g[i] = at(f, i)
      <4> HIDE DEF at
      <4>1. CASE i = here
        BY <4>1
      <4>2. CASE i # here
        <5>1. i > (N + 1) - n
          BY <1>0, <3>1, <4>2
        <5> QED BY <2>1, <4>2, <5>1
      <4> QED BY <4>1, <4>2
    <3> QED BY <3>3, <3>4
  <2> HIDE DEF g, at
  <2> QED BY <2>2, <2>3
<1> HIDE DEF S
<1>3. N + 1 \in S
  BY <1>0, <1>1, <1>2, NatSetInduction
<1>4. PICK f : /\ f = [i \in 1..(N + 1) |-> f[i]]
               /\ \A i \in 1..(N + 1) : i > (N + 1) - (N + 1) => f[i] = at(f, i)
  BY <1>3 DEF S
<1>5. \A i \in 1..(N + 1) : f[i] = at(f, i)
  <2> HIDE DEF at
  <2>1. \A i \in 1..(N + 1) : i > (N + 1) - (N + 1)
    BY <1>0
  <2> QED BY <1>4, <2>1
<1>6. f = [i \in 1..(N + 1) |-> at(f, i)]
  <2> HIDE DEF at
  <2> QED BY <1>4, <1>5
<1> QED BY <1>6 DEF IsRendering

LEMMA RenderIsComputed ==
    ASSUME NEW Words, NEW template \in Seq(Words), NEW context
    PROVE  \E render : /\ Render(template, context) = render[1]
                       /\ \A i \in 1..(Len(template) + 1) :
                             render[i] = RenderedFrom(template, context, render, i)
<1> DEFINE def(f) == [i \in 1..(Len(template) + 1) |-> RenderedFrom(template, context, f, i)]
           render == CHOOSE f : f = def(f)
<1>1. render = def(render)
  <2>1. \E f : f = def(f)
    BY RenderingExists DEF IsRendering
  <2> HIDE DEF def
  <2> QED BY <2>1
<1>2. Render(template, context) = render[1]
  BY DEF Render, RenderedFrom, OpeningBrace, ClosingBrace
<1> HIDE DEF render
<1>3. \A i \in 1..(Len(template) + 1) : render[i] = RenderedFrom(template, context, render, i)
  <2> DEFINE all == def(render)
  <2>1. \A i \in 1..(Len(template) + 1) : all[i] = RenderedFrom(template, context, render, i)
    OBVIOUS
  <2> HIDE DEF all
  <2> QED BY <1>1, <2>1 DEF all
<1> QED BY <1>2, <1>3

\* A command template that was accepted when its adapter was registered can be
\* made a command for every lane, and one that was refused for none: whether it
\* can does not depend on what is put in.  The command is one only, consists of
\* the template's words and what was put in, and no placeholder is left in it
\* (render_command_template, validate_template_placeholders).
THEOREM ValidTemplatesRender ==
    ASSUME NEW Words, NEW template \in Seq(Words),
           NEW Values, OpeningBrace \notin Values, NEW context \in [Placeholder -> Values]
    PROVE  /\ TemplateIsValid(template) <=> Render(template, context) # {}
           /\ \A command \in Render(template, context) :
                 /\ Render(template, context) = {command}
                 /\ WordsOf(command) \subseteq (WordsOf(template) \ {OpeningBrace}) \cup Values
<1> DEFINE N   == Len(template)
           Out == (WordsOf(template) \ {OpeningBrace}) \cup Values
           own == [name \in Placeholder |-> name]
<1>0. N \in Nat /\ DOMAIN template = 1..N /\ \A i \in 1..N : template[i] \in WordsOf(template)
  BY DEF WordsOf
<1>1. PICK render : /\ Render(template, context) = render[1]
                    /\ \A i \in 1..(N + 1) :
                          render[i] = RenderedFrom(template, context, render, i)
  BY RenderIsComputed
<1>2. PICK plain : /\ Render(template, own) = plain[1]
                   /\ \A i \in 1..(N + 1) : plain[i] = RenderedFrom(template, own, plain, i)
  BY RenderIsComputed
<1> DEFINE Good(i) == /\ plain[i] = {} <=> render[i] = {}
                      /\ \A command \in render[i] : command \in Seq(Out) /\ render[i] = {command}
           S == {n \in Nat : \A i \in 1..(N + 1) : i > (N + 1) - n => Good(i)}
<1>3. ASSUME NEW i \in 1..(N + 1), \A j \in (i + 1)..(N + 1) : Good(j)
      PROVE  Good(i)
  <2> DEFINE open  == FirstBrace(template, OpeningBrace, i)
             close == FirstBrace(template, ClosingBrace, open + 1)
  <2>1. i \in Nat \ {0}
    BY <1>0
  <2>2. \/ open = 0 /\ \A j \in i..N : template[j] # OpeningBrace
        \/ open \in i..N /\ \A j \in i..(open - 1) : template[j] # OpeningBrace
    BY <2>1, FirstBraceIsFirst
  <2>3. CASE open = 0
    <3> DEFINE all == SubSeq(template, i, N)
    <3>1. all \in Seq(Out)
      <4>1. \A j \in i..N : template[j] \in Out
        BY <1>0, <2>2, <2>3
      <4>2. i \in Int /\ N \in Int
        BY <1>0
      <4> HIDE DEF Out
      <4> QED BY <4>1, <4>2, SubSeqProperties
    <3>2. /\ render[i] = IF FirstBrace(template, ClosingBrace, i) = 0 THEN {all} ELSE {}
          /\ plain[i] = IF FirstBrace(template, ClosingBrace, i) = 0 THEN {all} ELSE {}
      BY <1>1, <1>2, <2>3 DEF RenderedFrom
    <3> HIDE DEF all, Out
    <3> QED BY <3>1, <3>2
  <2>4. CASE open # 0 /\ close = open + 2 /\ template[open + 1] \in Placeholder
    <3> DEFINE head == SubSeq(template, i, open - 1)
               name == template[open + 1]
    <3>1. open \in i..N /\ open \in Int /\ \A j \in i..(open - 1) : template[j] # OpeningBrace
      BY <1>0, <2>2, <2>4
    <3>2. head \in Seq(Out)
      <4>1. \A j \in i..(open - 1) : template[j] \in Out
        <5> HIDE DEF open
        <5> QED BY <1>0, <2>1, <3>1
      <4>2. i \in Int /\ open - 1 \in Int
        BY <3>1
      <4> HIDE DEF Out, open
      <4> QED BY <4>1, <4>2, SubSeqProperties
    <3>3. <<context[name]>> \in Seq(Out)
      <4>1. context[name] \in Out
        BY <2>4
      <4> HIDE DEF Out, name
      <4> QED BY <4>1
    <3>4. close + 1 \in (i + 1)..(N + 1)
      <4>1. open + 1 \in Nat \ {0}
        <5> HIDE DEF open
        <5> QED BY <2>1, <3>1
      <4>2. close = 0 \/ close \in (open + 1)..N
        BY <4>1, FirstBraceIsFirst
      <4> HIDE DEF open, close
      <4> QED BY <1>0, <2>1, <2>4, <3>1, <4>2
    <3>5. Good(close + 1)
      BY <1>3, <3>4
    <3>6. /\ render[i] = {head \o <<context[name]>> \o rest : rest \in render[close + 1]}
          /\ plain[i] = {head \o <<own[name]>> \o rest : rest \in plain[close + 1]}
      BY <1>1, <1>2, <2>4 DEF RenderedFrom
    <3> HIDE DEF head, name, close, open, own
    <3>7. plain[i] = {} <=> render[i] = {}
      <4> DEFINE ours(rest)  == head \o <<context[name]>> \o rest
                 plains(rest) == head \o <<own[name]>> \o rest
      <4>1. /\ render[i] = {ours(rest) : rest \in render[close + 1]}
            /\ plain[i] = {plains(rest) : rest \in plain[close + 1]}
        BY <3>6
      <4> HIDE DEF ours, plains
      <4>2. plain[i] = {} <=> plain[close + 1] = {}
        BY <4>1
      <4>3. render[i] = {} <=> render[close + 1] = {}
        BY <4>1
      <4> QED BY <3>5, <4>2, <4>3
    <3>8. ASSUME NEW command \in render[i]
          PROVE  command \in Seq(Out) /\ render[i] = {command}
      <4>1. PICK rest \in render[close + 1] : command = head \o <<context[name]>> \o rest
        BY <3>6
      <4>2. rest \in Seq(Out) /\ render[close + 1] = {rest}
        BY <3>5
      <4> HIDE DEF Out
      <4>3. command \in Seq(Out)
        BY <3>2, <3>3, <4>1, <4>2
      <4>4. render[i] = {command}
        BY <3>6, <4>1, <4>2
      <4> QED BY <4>3, <4>4
    <3> QED BY <3>7, <3>8
  <2>5. CASE open # 0 /\ ~(close = open + 2 /\ template[open + 1] \in Placeholder)
    <3>1. render[i] = {} /\ plain[i] = {}
      BY <1>1, <1>2, <2>5 DEF RenderedFrom
    <3> QED BY <3>1
  <2> QED BY <2>3, <2>4, <2>5
<1> HIDE DEF Good
<1>4. 0 \in S
  BY <1>0
<1>5. ASSUME NEW n \in Nat, n \in S
      PROVE  n + 1 \in S
  <2> SUFFICES ASSUME NEW i \in 1..(N + 1), i > (N + 1) - (n + 1)
               PROVE  Good(i)
    OBVIOUS
  <2>1. \A j \in (i + 1)..(N + 1) : j \in 1..(N + 1) /\ j > (N + 1) - n
    BY <1>0
  <2> QED BY <1>3, <1>5, <2>1
<1> HIDE DEF S
<1>6. N + 1 \in S
  BY <1>0, <1>4, <1>5, NatSetInduction
<1>7. Good(1)
  <2>1. 1 \in 1..(N + 1) /\ 1 > (N + 1) - (N + 1)
    BY <1>0
  <2> QED BY <1>6, <2>1 DEF S
<1>8. TemplateIsValid(template) <=> plain[1] # {}
  BY <1>2 DEF TemplateIsValid
<1>9. ASSUME NEW command \in Render(template, context)
      PROVE  /\ Render(template, context) = {command}
             /\ WordsOf(command) \subseteq (WordsOf(template) \ {OpeningBrace}) \cup Values
  <2>1. command \in Seq(Out) /\ render[1] = {command}
    BY <1>1, <1>7 DEF Good
  <2>2. WordsOf(command) \subseteq Out
    <3> HIDE DEF Out
    <3> QED BY <2>1 DEF WordsOf
  <2> QED BY <1>1, <2>1, <2>2
<1> QED BY <1>1, <1>7, <1>8, <1>9 DEF Good

-----------------------------------------------------------------------------
(* Specifications that become tasks.                                       *)
Intake == INSTANCE TaskIntake

\* A set of positions has a last one.
LEMMA LastExists ==
    ASSUME NEW n \in Nat, NEW some \in SUBSET (1..n), some # {}
    PROVE  Intake!Max(some) \in some /\ \A k \in some : k <= Intake!Max(some)
<1> DEFINE rest == {n - k : k \in some}
<1>1. rest \in SUBSET Nat /\ rest # {}
  <2>1. \A k \in some : n - k \in Nat
    OBVIOUS
  <2> QED BY <2>1
<1> HIDE DEF rest
<1>2. PICK m \in rest : \A k \in rest : m <= k
  BY <1>1, LeastExists
<1>3. PICK last \in some : m = n - last
  BY DEF rest
<1>4. \A k \in some : n - k \in rest
  BY DEF rest
<1>5. \A k \in some : last >= k
  BY <1>2, <1>3, <1>4
<1>6. \E x \in some : \A y \in some : x >= y
  BY <1>5
<1> QED BY <1>6 DEF Intake!Max

\* What is left of a fold once its last element is taken.
LEMMA FirstOnesAreLeft ==
    ASSUME NEW n \in Nat, n # 0
    PROVE  Intake!Max(1..n) = n /\ (1..n) \ {n} = 1..(n - 1)
<1>1. n \in 1..n
  OBVIOUS
<1>2. Intake!Max(1..n) \in 1..n /\ n <= Intake!Max(1..n)
  BY <1>1, LastExists
<1> QED BY <1>2

\* The importer reads line by line.
LEMMA LinesAreRead ==
    ASSUME NEW Lines, NEW lines \in Seq(Lines)
    PROVE  \E reader :
              /\ reader[0] = Intake!StartOfSpec
              /\ \A i \in 1..Len(lines) : reader[i] = Intake!ReadLine(reader[i - 1], lines[i])
              /\ Intake!FoldLeft(Intake!ReadLine, Intake!StartOfSpec, lines) = reader[Len(lines)]
<1> DEFINE N == Len(lines)
           next(f, s) == IF s = {} THEN Intake!StartOfSpec
                         ELSE Intake!ReadLine(f[s \ {Intake!Max(s)}], lines[Intake!Max(s)])
           S == {n \in Nat : \E f : f = [s \in SUBSET (1..n) |-> next(f, s)]}
<1>1. 0 \in S
  <2> DEFINE f == [s \in SUBSET (1..0) |-> Intake!StartOfSpec]
  <2>1. \A s \in SUBSET (1..0) : next(f, s) = Intake!StartOfSpec
    OBVIOUS
  <2>2. f = [s \in SUBSET (1..0) |-> next(f, s)]
    BY <2>1
  <2> HIDE DEF f, next
  <2> QED BY <2>2
<1>2. ASSUME NEW n \in Nat, n \in S
      PROVE  n + 1 \in S
  <2>1. PICK f : f = [s \in SUBSET (1..n) |-> next(f, s)]
    BY <1>2
  <2> DEFINE g == [s \in SUBSET (1..(n + 1)) |->
                      IF n + 1 \in s
                      THEN Intake!ReadLine(f[s \ {n + 1}], lines[n + 1]) ELSE f[s]]
  <2>2. ASSUME NEW s \in SUBSET (1..(n + 1))
        PROVE  g[s] = next(g, s)
    <3>1. CASE n + 1 \in s
      <4>1. Intake!Max(s) = n + 1
        <5>1. n + 1 \in Nat /\ s # {}
          BY <3>1
        <5>2. Intake!Max(s) \in s /\ n + 1 <= Intake!Max(s)
          BY <3>1, <5>1, LastExists
        <5>3. Intake!Max(s) \in 1..(n + 1)
          BY <5>2
        <5> QED BY <5>2, <5>3
      <4>2. s \ {n + 1} \in SUBSET (1..(n + 1)) /\ n + 1 \notin s \ {n + 1}
        OBVIOUS
      <4>3. g[s \ {n + 1}] = f[s \ {n + 1}]
        BY <4>2
      <4>4. g[s] = Intake!ReadLine(f[s \ {n + 1}], lines[n + 1])
        BY <3>1
      <4>5. next(g, s) = Intake!ReadLine(g[s \ {n + 1}], lines[n + 1])
        <5> HIDE DEF g
        <5> QED BY <3>1, <4>1
      <4> HIDE DEF g, next
      <4> QED BY <4>3, <4>4, <4>5
    <3>2. CASE n + 1 \notin s
      <4>1. s \in SUBSET (1..n)
        BY <3>2
      <4>2. g[s] = f[s] /\ f[s] = next(f, s)
        <5>1. g[s] = f[s]
          BY <3>2
        <5> HIDE DEF g, next
        <5> QED BY <2>1, <4>1, <5>1
      <4>3. CASE s = {}
        <5>1. next(f, s) = next(g, s)
          BY <4>3
        <5> HIDE DEF g, next
        <5> QED BY <4>2, <5>1
      <4>4. CASE s # {}
        <5> DEFINE less == s \ {Intake!Max(s)}
        <5>1. less \in SUBSET (1..(n + 1)) /\ n + 1 \notin less
          BY <3>2
        <5> HIDE DEF less
        <5>2. g[less] = f[less]
          BY <5>1
        <5>3. next(f, s) = next(g, s)
          <6> HIDE DEF g
          <6> QED BY <5>2 DEF less
        <5> HIDE DEF g, next
        <5> QED BY <4>2, <5>3
      <4> QED BY <4>3, <4>4
    <3> QED BY <3>1, <3>2
  <2>3. g = [s \in SUBSET (1..(n + 1)) |-> next(g, s)]
    <3> DEFINE h == [s \in SUBSET (1..(n + 1)) |-> next(g, s)]
    <3>1. \A s \in SUBSET (1..(n + 1)) : g[s] = h[s]
      <4> HIDE DEF g, next
      <4> QED BY <2>2
    <3> HIDE DEF next
    <3> QED BY <3>1
  <2> HIDE DEF g, next
  <2> QED BY <2>3
<1> HIDE DEF S
<1>3. N \in S
  BY <1>1, <1>2, NatSetInduction
<1>4. \E f : f = [s \in SUBSET (1..N) |-> next(f, s)]
  BY <1>3 DEF S
<1> DEFINE fold   == CHOOSE f : f = [s \in SUBSET (1..N) |-> next(f, s)]
           reader == [i \in 0..N |-> fold[1..i]]
<1>5. fold = [s \in SUBSET (1..N) |-> next(fold, s)]
  <2> HIDE DEF next
  <2> QED BY <1>4
<1>6. Intake!FoldLeft(Intake!ReadLine, Intake!StartOfSpec, lines) = fold[1..N]
  <2>1. DOMAIN lines = 1..N
    OBVIOUS
  <2>2. Intake!FoldLeft(Intake!ReadLine, Intake!StartOfSpec, lines) =
            (CHOOSE f : f = [s \in SUBSET DOMAIN lines |->
                                IF s = {} THEN Intake!StartOfSpec
                                ELSE Intake!ReadLine(f[s \ {Intake!Max(s)}],
                                                     lines[Intake!Max(s)])])[DOMAIN lines]
    BY DEF Intake!FoldLeft, Intake!MapThenFoldSet
  <2>3. Intake!FoldLeft(Intake!ReadLine, Intake!StartOfSpec, lines) =
            (CHOOSE f : f = [s \in SUBSET (1..N) |->
                                IF s = {} THEN Intake!StartOfSpec
                                ELSE Intake!ReadLine(f[s \ {Intake!Max(s)}],
                                                     lines[Intake!Max(s)])])[1..N]
    BY <2>1, <2>2
  <2> QED BY <2>3
<1> HIDE DEF fold
<1>7. reader[0] = Intake!StartOfSpec
  <2>1. {} \in SUBSET (1..N) /\ 1..0 = {} /\ 0 \in 0..N
    OBVIOUS
  <2>2. fold[{}] = next(fold, {})
    <3> HIDE DEF next
    <3> QED BY <1>5, <2>1
  <2> QED BY <2>1, <2>2
<1>8. ASSUME NEW i \in 1..N
      PROVE  reader[i] = Intake!ReadLine(reader[i - 1], lines[i])
  <2>1. /\ Intake!Max(1..i) = i /\ (1..i) \ {i} = 1..(i - 1)
        /\ 1..i \in SUBSET (1..N) /\ 1..i # {} /\ i - 1 \in 0..N /\ i \in 0..N
    BY FirstOnesAreLeft
  <2>2. fold[1..i] = next(fold, 1..i)
    <3> HIDE DEF next
    <3> QED BY <1>5, <2>1
  <2>3. next(fold, 1..i) = Intake!ReadLine(fold[1..(i - 1)], lines[i])
    BY <2>1
  <2>4. reader[i] = fold[1..i] /\ reader[i - 1] = fold[1..(i - 1)]
    BY <2>1
  <2> QED BY <2>2, <2>3, <2>4
<1>9. reader[N] = fold[1..N]
  BY DEF reader
<1> HIDE DEF reader
<1> QED BY <1>6, <1>7, <1>8, <1>9

\* The lines of a specification.
SpecLine(Texts) ==
    [kind : {"project"}, value : Texts]
    \cup [kind : {"task"}, id : Texts, title : Texts]
    \cup [kind : {"section"}, section : Intake!Section]
    \cup [kind : {"item"}, text : Texts]

\* The last heading above a line, of a task or a section, is that section's.
IsUnder(lines, i, section) ==
    \E s \in 1..(i - 1) :
        /\ lines[s].kind = "section" /\ lines[s].section = section
        /\ \A k \in (s + 1)..(i - 1) : lines[k].kind \notin {"section", "task"}

ItemsUnder(lines, from, to, section) ==
    {lines[i].text : i \in {k \in from..to : /\ lines[k].kind = "item"
                                             /\ IsUnder(lines, k, section)}}

\* The project that was named last.
IsProjectAt(lines, i, project) ==
    \/ project = DefaultProject /\ \A k \in 1..i : lines[k].kind # "project"
    \/ \E k \in 1..i : /\ lines[k].kind = "project" /\ lines[k].value = project
                       /\ \A j \in (k + 1)..i : lines[j].kind # "project"

\* A task is made of the lines from its heading to the next.
IsTaskOf(task, lines, from, to) ==
    /\ task.id = lines[from].id /\ task.title = lines[from].title
    /\ IsProjectAt(lines, to, task.project)
    /\ task.status = "Draft"
    /\ task.readiness = IF task.questions = <<>> THEN "NotReady" ELSE "Blocked"
    /\ task.acceptance # <<>> \/ task.questions # <<>>
    /\ WordsOf(task.acceptance) = ItemsUnder(lines, from, to, "Acceptance")
    /\ WordsOf(task.validation) = ItemsUnder(lines, from, to, "Validation")
    /\ WordsOf(task.dependencies) = ItemsUnder(lines, from, to, "Dependencies")
    /\ WordsOf(task.questions) = ItemsUnder(lines, from, to, "Questions")

Draft(Texts) ==
    [ id : Texts, title : Texts, Description : Seq(Texts), Acceptance : Seq(Texts),
      Validation : Seq(Texts), Dependencies : Seq(Texts), Questions : Seq(Texts) ]

IsDraftOf(draft, lines, from, to) ==
    /\ draft.id = lines[from].id /\ draft.title = lines[from].title
    /\ \A section \in Intake!Section \ {"Description"} :
          WordsOf(draft[section]) = ItemsUnder(lines, from, to, section)

\* The lines of the headings, in order.
AreHeadings(heading, n, lines, i) ==
    /\ heading \in [1..n -> 1..i]
    /\ \A j, k \in 1..n : j < k => heading[j] < heading[k]
    /\ \A k \in 1..i : lines[k].kind = "task" <=> \E m \in 1..n : heading[m] = k

ImportedTask(Texts) ==
    {Intake!Finished(draft, project) : draft \in Draft(Texts), project \in Texts \cup {DefaultProject}}

Reader(Texts) ==
    [ ok : {TRUE}, project : Texts \cup {DefaultProject}, tasks : Seq(ImportedTask(Texts)),
      current : SUBSET Draft(Texts), section : Intake!Section ]

\* What the importer has when it has read the lines up to i: the tasks under the
\* headings but the last, and the draft of the last.
HasRead(reader, lines, i, Texts) ==
    /\ reader \in Reader(Texts)
    /\ \A section \in Intake!Section \ {"Description"} :
          reader.section = section <=> IsUnder(lines, i + 1, section)
    /\ IsProjectAt(lines, i, reader.project)
    /\ \/ /\ reader.current = {} /\ reader.tasks = <<>>
          /\ \A k \in 1..i : lines[k].kind # "task"
       \/ \E draft \in Draft(Texts) : \E heading :
             /\ reader.current = {draft}
             /\ AreHeadings(heading, Len(reader.tasks) + 1, lines, i)
             /\ IsDraftOf(draft, lines, heading[Len(reader.tasks) + 1], i)
             /\ \A n \in 1..Len(reader.tasks) :
                   IsTaskOf(reader.tasks[n], lines, heading[n], heading[n + 1] - 1)

\* What is known of one line more.
LEMMA OneLineMore ==
    ASSUME NEW lines, NEW i \in Nat
    PROVE  /\ \A section : IsUnder(lines, i + 2, section) <=>
                  IF lines[i + 1].kind = "section" THEN lines[i + 1].section = section
                  ELSE lines[i + 1].kind # "task" /\ IsUnder(lines, i + 1, section)
           /\ \A from \in 1..(i + 1) : \A section : ItemsUnder(lines, from, i + 1, section) =
                  ItemsUnder(lines, from, i, section) \cup
                      IF lines[i + 1].kind = "item" /\ IsUnder(lines, i + 1, section)
                      THEN {lines[i + 1].text} ELSE {}
           /\ \A project : IsProjectAt(lines, i + 1, project) <=>
                  IF lines[i + 1].kind = "project" THEN lines[i + 1].value = project
                  ELSE IsProjectAt(lines, i, project)
<1>1. ASSUME NEW section
      PROVE  IsUnder(lines, i + 2, section) <=>
                  IF lines[i + 1].kind = "section" THEN lines[i + 1].section = section
                  ELSE lines[i + 1].kind # "task" /\ IsUnder(lines, i + 1, section)
  <2>0. (i + 2) - 1 = i + 1 /\ (i + 1) - 1 = i /\ i + 1 \in 1..(i + 1) /\ (i + 2)..(i + 1) = {}
    OBVIOUS
  <2>1. IsUnder(lines, i + 2, section) <=>
            \E s \in 1..(i + 1) :
                /\ lines[s].kind = "section" /\ lines[s].section = section
                /\ \A k \in (s + 1)..(i + 1) : lines[k].kind \notin {"section", "task"}
    BY <2>0 DEF IsUnder
  <2>2. IsUnder(lines, i + 1, section) <=>
            \E s \in 1..i :
                /\ lines[s].kind = "section" /\ lines[s].section = section
                /\ \A k \in (s + 1)..i : lines[k].kind \notin {"section", "task"}
    BY <2>0 DEF IsUnder
  <2>3. CASE lines[i + 1].kind = "section"
    <3>1. ASSUME lines[i + 1].section = section
          PROVE  IsUnder(lines, i + 2, section)
      <4>1. \A k \in ((i + 1) + 1)..(i + 1) : FALSE
        OBVIOUS
      <4> QED BY <2>0, <2>1, <2>3, <3>1, <4>1
    <3>2. ASSUME IsUnder(lines, i + 2, section)
          PROVE  lines[i + 1].section = section
      <4>1. PICK s \in 1..(i + 1) :
                /\ lines[s].kind = "section" /\ lines[s].section = section
                /\ \A k \in (s + 1)..(i + 1) : lines[k].kind \notin {"section", "task"}
        BY <2>1, <3>2
      <4>2. s # i + 1 => i + 1 \in (s + 1)..(i + 1)
        OBVIOUS
      <4> QED BY <2>3, <4>1, <4>2
    <3> QED BY <2>3, <3>1, <3>2
  <2>4. CASE lines[i + 1].kind # "section"
    <3>1. ASSUME IsUnder(lines, i + 2, section)
          PROVE  lines[i + 1].kind # "task" /\ IsUnder(lines, i + 1, section)
      <4>1. PICK s \in 1..(i + 1) :
                /\ lines[s].kind = "section" /\ lines[s].section = section
                /\ \A k \in (s + 1)..(i + 1) : lines[k].kind \notin {"section", "task"}
        BY <2>1, <3>1
      <4>2. s \in 1..i /\ i + 1 \in (s + 1)..(i + 1) /\ (s + 1)..i \subseteq (s + 1)..(i + 1)
        <5>1. s # i + 1
          BY <2>4, <4>1
        <5> QED BY <5>1
      <4> QED BY <2>2, <4>1, <4>2
    <3>2. ASSUME lines[i + 1].kind # "task", IsUnder(lines, i + 1, section)
          PROVE  IsUnder(lines, i + 2, section)
      <4>1. PICK s \in 1..i :
                /\ lines[s].kind = "section" /\ lines[s].section = section
                /\ \A k \in (s + 1)..i : lines[k].kind \notin {"section", "task"}
        BY <2>2, <3>2
      <4>2. s \in 1..(i + 1) /\ \A k \in (s + 1)..(i + 1) : k = i + 1 \/ k \in (s + 1)..i
        OBVIOUS
      <4> QED BY <2>1, <2>4, <3>2, <4>1, <4>2
    <3> QED BY <2>4, <3>1, <3>2
  <2> QED BY <2>3, <2>4
<1>2. ASSUME NEW from \in 1..(i + 1), NEW section
      PROVE  ItemsUnder(lines, from, i + 1, section) =
                  ItemsUnder(lines, from, i, section) \cup
                      IF lines[i + 1].kind = "item" /\ IsUnder(lines, i + 1, section)
                      THEN {lines[i + 1].text} ELSE {}
  <2>1. from..(i + 1) = (from..i) \cup {i + 1}
    OBVIOUS
  <2> QED BY <2>1 DEF ItemsUnder
<1>3. ASSUME NEW project
      PROVE  IsProjectAt(lines, i + 1, project) <=>
                  IF lines[i + 1].kind = "project" THEN lines[i + 1].value = project
                  ELSE IsProjectAt(lines, i, project)
  <2>1. 1..(i + 1) = (1..i) \cup {i + 1} /\ i + 1 \notin 1..i
    OBVIOUS
  <2>2. \A k \in 1..i : (k + 1)..(i + 1) = ((k + 1)..i) \cup {i + 1}
    OBVIOUS
  <2>3. ((i + 1) + 1)..(i + 1) = {}
    OBVIOUS
  <2> QED BY <2>1, <2>2, <2>3 DEF IsProjectAt
<1> QED BY <1>1, <1>2, <1>3

\* The draft at hand becomes the task of the last heading.
LEMMA DraftIsClosed ==
    ASSUME NEW Texts, NEW lines, NEW i \in Nat, NEW reader \in Reader(Texts),
           NEW draft \in Draft(Texts), reader.current = {draft}, NEW from,
           IsDraftOf(draft, lines, from, i), IsProjectAt(lines, i, reader.project),
           Intake!CloseDraft(reader).ok # FALSE
    PROVE  /\ Intake!CloseDraft(reader) =
                  [reader EXCEPT !.tasks = Append(@, Intake!Finished(draft, reader.project)),
                                 !.current = {}]
           /\ Intake!Finished(draft, reader.project) \in ImportedTask(Texts)
           /\ IsTaskOf(Intake!Finished(draft, reader.project), lines, from, i)
<1> DEFINE task == Intake!Finished(draft, reader.project)
<1>1. (CHOOSE d \in reader.current : TRUE) = draft /\ reader.current # {}
  OBVIOUS
<1>2. /\ Intake!CanFinish(draft)
      /\ Intake!CloseDraft(reader) =
             [reader EXCEPT !.tasks = Append(@, task), !.current = {}]
  <2> HIDE DEF task
  <2>1. Intake!CloseDraft(reader) =
            IF Intake!CanFinish(draft)
            THEN [reader EXCEPT !.tasks = Append(@, task), !.current = {}]
            ELSE [reader EXCEPT !.ok = FALSE]
    BY <1>1 DEF Intake!CloseDraft, task
  <2>2. [reader EXCEPT !.ok = FALSE].ok = FALSE
    BY DEF Reader
  <2> QED BY <2>1, <2>2
<1>3. task \in ImportedTask(Texts)
  BY DEF ImportedTask, Reader
<1>4. {"Acceptance", "Validation", "Dependencies", "Questions"}
          \subseteq Intake!Section \ {"Description"}
  BY DEF Intake!Section
<1>5. IsTaskOf(task, lines, from, i)
  <2>1. /\ task.id = lines[from].id /\ task.title = lines[from].title
        /\ task.status = "Draft" /\ task.project = reader.project
        /\ task.readiness = IF task.questions = <<>> THEN "NotReady" ELSE "Blocked"
        /\ task.acceptance # <<>> \/ task.questions # <<>>
        /\ task.acceptance = draft["Acceptance"] /\ task.validation = draft["Validation"]
        /\ task.dependencies = draft["Dependencies"] /\ task.questions = draft["Questions"]
    BY <1>2 DEF Intake!Finished, Intake!CanFinish, IsDraftOf
  <2> HIDE DEF task
  <2> QED BY <1>4, <2>1 DEF IsTaskOf, IsDraftOf
<1> QED BY <1>2, <1>3, <1>5

\* One line, read.
LEMMA LineIsRead ==
    ASSUME NEW Texts, NEW lines \in Seq(SpecLine(Texts)), NEW i \in 0..(Len(lines) - 1),
           NEW reader, HasRead(reader, lines, i, Texts),
           Intake!ReadLine(reader, lines[i + 1]).ok # FALSE
    PROVE  HasRead(Intake!ReadLine(reader, lines[i + 1]), lines, i + 1, Texts)
<1> DEFINE line   == lines[i + 1]
           after  == Intake!ReadLine(reader, line)
           listed == Intake!Section \ {"Description"}
           count  == Len(reader.tasks)
           Tasks  == ImportedTask(Texts)
<1>1. line \in SpecLine(Texts) /\ i + 1 \in Nat /\ i \in Nat /\ (i + 1) + 1 = i + 2
  OBVIOUS
<1>2. line.kind \in {"project", "task", "section", "item"}
  BY <1>1 DEF SpecLine
<1>3. /\ reader \in Reader(Texts) /\ reader.ok = TRUE
      /\ \A section \in listed : reader.section = section <=> IsUnder(lines, i + 1, section)
      /\ IsProjectAt(lines, i, reader.project)
  BY DEF HasRead, Reader
<1>3a. count \in Nat /\ reader.tasks \in Seq(Tasks)
  BY <1>3 DEF Reader
<1>4. \A section : IsUnder(lines, i + 2, section) <=>
          IF line.kind = "section" THEN line.section = section
          ELSE line.kind # "task" /\ IsUnder(lines, i + 1, section)
  BY <1>1, OneLineMore
<1>5. \A from \in 1..(i + 1) : \A section : ItemsUnder(lines, from, i + 1, section) =
          ItemsUnder(lines, from, i, section) \cup
              IF line.kind = "item" /\ IsUnder(lines, i + 1, section) THEN {line.text} ELSE {}
  BY <1>1, OneLineMore
<1>6. \A project : IsProjectAt(lines, i + 1, project) <=>
          IF line.kind = "project" THEN line.value = project
          ELSE IsProjectAt(lines, i, project)
  BY <1>1, OneLineMore
<1>7. \A k \in 1..(i + 1) : k \in 1..i \/ k = i + 1
  OBVIOUS
<1>8. ASSUME line.kind # "task",
             after \in Reader(Texts), after.tasks = reader.tasks,
             \A section \in listed : after.section = section <=> IsUnder(lines, i + 2, section),
             IsProjectAt(lines, i + 1, after.project),
             reader.current = {} => after.current = {},
             \A draft \in Draft(Texts), from \in 1..i :
                 reader.current = {draft} /\ IsDraftOf(draft, lines, from, i) =>
                     \E d \in Draft(Texts) :
                         after.current = {d} /\ IsDraftOf(d, lines, from, i + 1)
      PROVE  HasRead(after, lines, i + 1, Texts)
  <2> HIDE DEF after, line
  <2>1. CASE /\ reader.current = {} /\ reader.tasks = <<>>
             /\ \A k \in 1..i : lines[k].kind # "task"
    <3>1. \A k \in 1..(i + 1) : lines[k].kind # "task"
      BY <1>7, <1>8, <2>1 DEF line
    <3> QED BY <1>1, <1>8, <2>1, <3>1 DEF HasRead
  <2>2. ASSUME NEW draft \in Draft(Texts), NEW heading,
               reader.current = {draft}, AreHeadings(heading, count + 1, lines, i),
               IsDraftOf(draft, lines, heading[count + 1], i),
               \A n \in 1..count : IsTaskOf(reader.tasks[n], lines, heading[n], heading[n + 1] - 1)
        PROVE  HasRead(after, lines, i + 1, Texts)
    <3>1. heading[count + 1] \in 1..i
      BY <1>3a, <2>2 DEF AreHeadings
    <3>2. PICK d \in Draft(Texts) :
              after.current = {d} /\ IsDraftOf(d, lines, heading[count + 1], i + 1)
      BY <1>8, <2>2, <3>1
    <3>3. AreHeadings(heading, count + 1, lines, i + 1)
      <4>1. heading \in [1..(count + 1) -> 1..(i + 1)]
        BY <2>2 DEF AreHeadings
      <4>2. \A m \in 1..(count + 1) : heading[m] # i + 1
        BY <2>2 DEF AreHeadings
      <4> QED BY <1>7, <1>8, <2>2, <4>1, <4>2 DEF AreHeadings, line
    <3> QED BY <1>1, <1>8, <2>2, <3>2, <3>3 DEF HasRead
  <2> QED BY <2>1, <2>2 DEF HasRead
<1>9. CASE line.kind = "project"
  <2>1. line.value \in Texts
    BY <1>1, <1>9 DEF SpecLine
  <2>2. after = [reader EXCEPT !.project = line.value]
    <3>1. after = IF line.value = "" THEN [reader EXCEPT !.ok = FALSE]
                  ELSE [reader EXCEPT !.project = line.value]
      <4> HIDE DEF line
      <4> QED BY <1>3, <1>9 DEF Intake!ReadLine, after
    <3>2. [reader EXCEPT !.ok = FALSE].ok = FALSE
      BY <1>3 DEF Reader
    <3> QED BY <3>1, <3>2
  <2> HIDE DEF after, line
  <2>3. /\ after \in Reader(Texts) /\ after.tasks = reader.tasks
        /\ after.current = reader.current /\ after.section = reader.section
        /\ after.project = line.value
    BY <1>3, <2>1, <2>2 DEF Reader
  <2>4. \A section \in listed : after.section = section <=> IsUnder(lines, i + 2, section)
    BY <1>3, <1>4, <1>9, <2>3
  <2>5. \A draft \in Draft(Texts), from \in 1..i :
            IsDraftOf(draft, lines, from, i) => IsDraftOf(draft, lines, from, i + 1)
    BY <1>5, <1>9 DEF IsDraftOf
  <2>6. IsProjectAt(lines, i + 1, after.project)
    BY <1>6, <2>3, <1>9
  <2>7. \A draft \in Draft(Texts), from \in 1..i :
            reader.current = {draft} /\ IsDraftOf(draft, lines, from, i) =>
                \E d \in Draft(Texts) : after.current = {d} /\ IsDraftOf(d, lines, from, i + 1)
    BY <2>3, <2>5
  <2>8. reader.current = {} => after.current = {}
    BY <2>3
  <2>9. HasRead(after, lines, i + 1, Texts)
    BY <1>8, <1>9, <2>3, <2>4, <2>6, <2>7, <2>8
  <2> QED BY <2>9 DEF after, line
<1>10. CASE line.kind = "section"
  <2>1. line.section \in Intake!Section
    BY <1>1, <1>10 DEF SpecLine
  <2>2. after = [reader EXCEPT !.section = line.section]
    <3> HIDE DEF line
    <3> QED BY <1>3, <1>10 DEF Intake!ReadLine, after
  <2> HIDE DEF after, line
  <2>3. /\ after \in Reader(Texts) /\ after.tasks = reader.tasks
        /\ after.current = reader.current /\ after.section = line.section
        /\ after.project = reader.project
    BY <1>3, <2>1, <2>2 DEF Reader
  <2>4. \A section \in listed : after.section = section <=> IsUnder(lines, i + 2, section)
    BY <1>4, <1>10, <2>3
  <2>5. \A draft \in Draft(Texts), from \in 1..i :
            IsDraftOf(draft, lines, from, i) => IsDraftOf(draft, lines, from, i + 1)
    BY <1>5, <1>10 DEF IsDraftOf
  <2>6. IsProjectAt(lines, i + 1, after.project)
    BY <1>3, <1>6, <2>3, <1>10
  <2>7. \A draft \in Draft(Texts), from \in 1..i :
            reader.current = {draft} /\ IsDraftOf(draft, lines, from, i) =>
                \E d \in Draft(Texts) : after.current = {d} /\ IsDraftOf(d, lines, from, i + 1)
    BY <2>3, <2>5
  <2>8. reader.current = {} => after.current = {}
    BY <2>3
  <2>9. HasRead(after, lines, i + 1, Texts)
    BY <1>8, <1>10, <2>3, <2>4, <2>6, <2>7, <2>8
  <2> QED BY <2>9 DEF after, line
<1>11. CASE line.kind = "item"
  <2>1. line.text \in Texts
    BY <1>1, <1>11 DEF SpecLine
  <2> DEFINE said(draft) == [draft EXCEPT ![reader.section] = Append(@, line.text)]
  <2>2. after = [reader EXCEPT !.current = {said(draft) : draft \in @}]
    <3> HIDE DEF line
    <3> QED BY <1>3, <1>11 DEF Intake!ReadLine, after
  <2> HIDE DEF after, line
  <2>3. ASSUME NEW draft \in Draft(Texts)
        PROVE  /\ said(draft) \in Draft(Texts)
               /\ said(draft).id = draft.id /\ said(draft).title = draft.title
               /\ \A section \in Intake!Section :
                     WordsOf(said(draft)[section]) = WordsOf(draft[section]) \cup
                         IF section = reader.section THEN {line.text} ELSE {}
    <3>1. reader.section \in Intake!Section
      BY <1>3 DEF Reader
    <3>2. \A section \in Intake!Section : draft[section] \in Seq(Texts)
      BY DEF Draft, Intake!Section
    <3>3. \A section \in Intake!Section :
              /\ Append(draft[section], line.text) \in Seq(Texts)
              /\ WordsOf(Append(draft[section], line.text)) = WordsOf(draft[section]) \cup {line.text}
      <4>1. TAKE section \in Intake!Section
      <4> DEFINE list == draft[section]
      <4>2. list \in Seq(Texts)
        BY <3>2
      <4> HIDE DEF list
      <4>3. DOMAIN Append(list, line.text) = 1..(Len(list) + 1) /\ DOMAIN list = 1..Len(list)
        BY <2>1, <4>2
      <4>4. /\ Append(list, line.text)[Len(list) + 1] = line.text
            /\ \A k \in 1..Len(list) : Append(list, line.text)[k] = list[k]
        BY <2>1, <4>2
      <4>5. 1..(Len(list) + 1) = (1..Len(list)) \cup {Len(list) + 1}
        BY <4>2
      <4>6. Append(list, line.text) \in Seq(Texts)
        BY <2>1, <4>2
      <4>7. WordsOf(Append(list, line.text)) = WordsOf(list) \cup {line.text}
        BY <4>3, <4>4, <4>5 DEF WordsOf
      <4> QED BY <4>6, <4>7 DEF list
    <3>4. \A section \in Intake!Section : said(draft)[section] =
              IF section = reader.section THEN Append(draft[section], line.text) ELSE draft[section]
      BY <3>1 DEF Draft, Intake!Section
    <3>5. said(draft).id = draft.id /\ said(draft).title = draft.title
      BY <3>1 DEF Draft, Intake!Section
    <3>6. said(draft) \in Draft(Texts)
      BY <3>1, <3>3 DEF Draft, Intake!Section
    <3> HIDE DEF said
    <3> QED BY <3>3, <3>4, <3>5, <3>6
  <2> HIDE DEF said
  <2>4. /\ after \in Reader(Texts) /\ after.tasks = reader.tasks
        /\ after.section = reader.section /\ after.project = reader.project
        /\ after.current = {said(draft) : draft \in reader.current}
    <3>1. {said(draft) : draft \in reader.current} \in SUBSET Draft(Texts)
      BY <1>3, <2>3 DEF Reader
    <3> QED BY <1>3, <2>2, <3>1 DEF Reader
  <2>5. \A section \in listed : after.section = section <=> IsUnder(lines, i + 2, section)
    BY <1>3, <1>4, <1>11, <2>4
  <2>6. ASSUME NEW draft \in Draft(Texts), NEW from \in 1..i, IsDraftOf(draft, lines, from, i)
        PROVE  IsDraftOf(said(draft), lines, from, i + 1)
    <3>1. ASSUME NEW section \in listed
          PROVE  WordsOf(said(draft)[section]) = ItemsUnder(lines, from, i + 1, section)
      <4>1. WordsOf(draft[section]) = ItemsUnder(lines, from, i, section)
        BY <2>6 DEF IsDraftOf
      <4>2. section = reader.section <=> IsUnder(lines, i + 1, section)
        BY <1>3
      <4>3. from \in 1..(i + 1) /\ section \in Intake!Section
        OBVIOUS
      <4>4. ItemsUnder(lines, from, i + 1, section) =
                ItemsUnder(lines, from, i, section) \cup
                    IF IsUnder(lines, i + 1, section) THEN {line.text} ELSE {}
        BY <1>5, <1>11, <4>3
      <4>5. WordsOf(said(draft)[section]) = WordsOf(draft[section]) \cup
                IF section = reader.section THEN {line.text} ELSE {}
        BY <2>3, <4>3
      <4> QED BY <4>1, <4>2, <4>4, <4>5
    <3> QED BY <2>3, <2>6, <3>1 DEF IsDraftOf
  <2>7. IsProjectAt(lines, i + 1, after.project)
    BY <1>3, <1>6, <1>11, <2>4
  <2>8. \A draft \in Draft(Texts), from \in 1..i :
            reader.current = {draft} /\ IsDraftOf(draft, lines, from, i) =>
                \E d \in Draft(Texts) : after.current = {d} /\ IsDraftOf(d, lines, from, i + 1)
    <3>1. TAKE draft \in Draft(Texts), from \in 1..i
    <3>2. HAVE reader.current = {draft} /\ IsDraftOf(draft, lines, from, i)
    <3>3. after.current = {said(draft)}
      BY <2>4, <3>2
    <3> QED BY <2>3, <2>6, <3>2, <3>3
  <2>9. reader.current = {} => after.current = {}
    BY <2>4
  <2>10. HasRead(after, lines, i + 1, Texts)
    BY <1>8, <1>11, <2>4, <2>5, <2>7, <2>8, <2>9
  <2> QED BY <2>10 DEF after, line
<1>12. CASE line.kind = "task"
  <2>1. line.id \in Texts /\ line.title \in Texts
    BY <1>1, <1>12 DEF SpecLine
  <2> DEFINE closed == Intake!CloseDraft(reader)
             draft2 == Intake!NewDraft(line.id, line.title)
  <2>2. after = IF closed.ok /\ line.id # "" /\ line.title # ""
                THEN [closed EXCEPT !.current = {draft2}, !.section = "Description"]
                ELSE [closed EXCEPT !.ok = FALSE]
    <3> HIDE DEF line
    <3> QED BY <1>3, <1>12 DEF Intake!ReadLine, after
  <2>3. /\ draft2 \in Draft(Texts) /\ draft2.id = line.id /\ draft2.title = line.title
        /\ \A section \in listed : WordsOf(draft2[section]) = {}
    BY <2>1 DEF Intake!NewDraft, Draft, Intake!Section, WordsOf
  <2>4. \A section : ItemsUnder(lines, i + 1, i + 1, section) = {}
    <3>1. ASSUME NEW section PROVE ItemsUnder(lines, i + 1, i, section) = {}
      BY DEF ItemsUnder
    <3>2. i + 1 \in 1..(i + 1)
      OBVIOUS
    <3> HIDE DEF line
    <3> QED BY <1>5, <1>12, <3>1, <3>2
  <2> HIDE DEF draft2
  <2>5. IsDraftOf(draft2, lines, i + 1, i + 1)
    BY <2>3, <2>4 DEF IsDraftOf
  <2>6. /\ "Description" \in Intake!Section
        /\ \A section \in listed : "Description" = section <=> IsUnder(lines, i + 2, section)
    <3> HIDE DEF line
    <3> QED BY <1>4, <1>12 DEF Intake!Section
  <2>7. CASE /\ reader.current = {} /\ reader.tasks = <<>>
             /\ \A k \in 1..i : lines[k].kind # "task"
    <3>1. closed = reader
      BY <2>7 DEF Intake!CloseDraft
    <3>2. after = [reader EXCEPT !.current = {draft2}, !.section = "Description"]
      <4>1. [reader EXCEPT !.ok = FALSE].ok = FALSE
        BY <1>3 DEF Reader
      <4> HIDE DEF closed, line
      <4> QED BY <2>2, <3>1, <4>1 DEF after, line
    <3> HIDE DEF after
    <3>3. /\ after \in Reader(Texts) /\ after.tasks = <<>> /\ after.current = {draft2}
          /\ after.section = "Description" /\ after.project = reader.project
      BY <1>3, <2>3, <2>6, <2>7, <3>2 DEF Reader
    <3> DEFINE heading == [m \in 1..1 |-> i + 1]
    <3>4. AreHeadings(heading, 1, lines, i + 1) /\ heading[1] = i + 1
      BY <1>7, <1>12, <2>7 DEF AreHeadings
    <3> HIDE DEF heading, line
    <3>5. Len(after.tasks) = 0
      BY <3>3
    <3>6. \A n \in 1..0 : FALSE
      OBVIOUS
    <3>7. IsProjectAt(lines, i + 1, after.project)
      BY <1>3, <1>6, <1>12, <3>3
    <3>8. \A section \in listed : after.section = section <=> IsUnder(lines, (i + 1) + 1, section)
      BY <1>1, <2>6, <3>3
    <3>9. 0 + 1 = 1
      OBVIOUS
    <3>10. /\ AreHeadings(heading, Len(after.tasks) + 1, lines, i + 1)
           /\ IsDraftOf(draft2, lines, heading[Len(after.tasks) + 1], i + 1)
           /\ \A n \in 1..Len(after.tasks) :
                 IsTaskOf(after.tasks[n], lines, heading[n], heading[n + 1] - 1)
      BY <2>5, <3>4, <3>5, <3>6, <3>9
    <3>11. HasRead(after, lines, i + 1, Texts)
      BY <2>3, <3>3, <3>7, <3>8, <3>10 DEF HasRead
    <3> QED BY <3>11 DEF after, line
  <2>8. ASSUME NEW draft \in Draft(Texts), NEW heading,
               reader.current = {draft}, AreHeadings(heading, count + 1, lines, i),
               IsDraftOf(draft, lines, heading[count + 1], i),
               \A n \in 1..count : IsTaskOf(reader.tasks[n], lines, heading[n], heading[n + 1] - 1)
        PROVE  HasRead(after, lines, i + 1, Texts)
    <3>0. closed.ok # FALSE
      <4>1. closed.ok = FALSE => [closed EXCEPT !.ok = FALSE].ok = FALSE
        <5>1. CASE closed = [reader EXCEPT !.ok = FALSE]
          BY <1>3, <5>1 DEF Reader
        <5>2. CASE closed # [reader EXCEPT !.ok = FALSE]
          <6>1. PICK d : closed = [reader EXCEPT !.tasks = Append(@, d), !.current = {}]
            BY <2>8, <5>2 DEF Intake!CloseDraft
          <6>2. closed.ok = TRUE
            BY <1>3, <6>1 DEF Reader
          <6> QED BY <6>2
        <5> QED BY <5>1, <5>2
      <4> HIDE DEF closed, line
      <4> QED BY <2>2, <4>1 DEF after, line
    <3> DEFINE task == Intake!Finished(draft, reader.project)
    <3>1. /\ closed = [reader EXCEPT !.tasks = Append(@, task), !.current = {}]
          /\ task \in Tasks
          /\ IsTaskOf(task, lines, heading[count + 1], i)
      BY <1>1, <1>3, <2>8, <3>0, DraftIsClosed
    <3> HIDE DEF task, closed
    <3>2. /\ closed \in Reader(Texts) /\ closed.ok = TRUE /\ closed.tasks = Append(reader.tasks, task)
          /\ closed.project = reader.project
      <4>1. Append(reader.tasks, task) \in Seq(Tasks)
        BY <1>3a, <3>1
      <4> HIDE DEF Tasks
      <4>2. \A tasks \in Seq(ImportedTask(Texts)) :
                [reader EXCEPT !.tasks = tasks, !.current = {}] \in Reader(Texts)
        BY <1>3 DEF Reader
      <4>3. closed \in Reader(Texts)
        BY <3>1, <4>1, <4>2 DEF Tasks
      <4> QED BY <1>3, <3>1, <4>3 DEF Reader
    <3>3. after = [closed EXCEPT !.current = {draft2}, !.section = "Description"]
      <4>1. [closed EXCEPT !.ok = FALSE].ok = FALSE
        BY <3>2 DEF Reader
      <4> HIDE DEF line
      <4> QED BY <2>2, <4>1 DEF after, line
    <3> HIDE DEF after
    <3>4. /\ after \in Reader(Texts) /\ after.tasks = Append(reader.tasks, task)
          /\ after.current = {draft2} /\ after.section = "Description"
          /\ after.project = reader.project
      BY <2>3, <2>6, <3>2, <3>3 DEF Reader
    <3> DEFINE more == [m \in 1..(count + 2) |-> IF m = count + 2 THEN i + 1 ELSE heading[m]]
    <3>5. /\ more[count + 2] = i + 1 /\ \A m \in 1..(count + 1) : more[m] = heading[m]
          /\ \A m \in 1..(count + 1) : heading[m] \in 1..i
          /\ \A m \in 1..(count + 2) : m \in 1..(count + 1) \/ m = count + 2
          /\ count + 2 \in 1..(count + 2)
      BY <1>3a, <2>8 DEF AreHeadings
    <3>6. AreHeadings(more, count + 2, lines, i + 1)
      <4>1. more \in [1..(count + 2) -> 1..(i + 1)]
        BY <3>5
      <4>2. ASSUME NEW j \in 1..(count + 2), NEW k \in 1..(count + 2), j < k
            PROVE  more[j] < more[k]
        <5> HIDE DEF more
        <5>1. CASE k = count + 2
          <6>1. j \in 1..(count + 1)
            BY <1>3a, <4>2, <5>1
          <6> QED BY <3>5, <5>1, <6>1
        <5>2. CASE k # count + 2
          <6>1. j \in 1..(count + 1) /\ k \in 1..(count + 1)
            BY <1>3a, <4>2, <5>2
          <6> QED BY <2>8, <3>5, <4>2, <6>1 DEF AreHeadings
        <5> QED BY <5>1, <5>2
      <4>3. ASSUME NEW k \in 1..(i + 1)
            PROVE  lines[k].kind = "task" <=> \E m \in 1..(count + 2) : more[m] = k
        <5> HIDE DEF more
        <5>1. CASE k = i + 1
          BY <1>12, <3>5, <5>1
        <5>2. CASE k \in 1..i
          <6>1. lines[k].kind = "task" <=> \E m \in 1..(count + 1) : heading[m] = k
            BY <2>8, <5>2 DEF AreHeadings
          <6>2. (\E m \in 1..(count + 1) : heading[m] = k) <=> \E m \in 1..(count + 2) : more[m] = k
            <7>1. 1..(count + 1) \subseteq 1..(count + 2) /\ k # i + 1
              BY <1>3a, <5>2
            <7> QED BY <3>5, <7>1
          <6> QED BY <6>1, <6>2
        <5> QED BY <1>7, <5>1, <5>2
      <4> HIDE DEF more
      <4> QED BY <4>1, <4>2, <4>3 DEF AreHeadings
    <3> HIDE DEF more
    <3>7. /\ Len(after.tasks) = count + 1
          /\ after.tasks[count + 1] = task
          /\ \A n \in 1..count : after.tasks[n] = reader.tasks[n]
      BY <1>3a, <3>1, <3>4
    <3>8. ASSUME NEW n \in 1..(count + 1)
          PROVE  IsTaskOf(after.tasks[n], lines, more[n], more[n + 1] - 1)
      <4>1. CASE n = count + 1
        <5>1. more[n] = heading[count + 1] /\ n + 1 = count + 2 /\ (i + 1) - 1 = i
          BY <1>3a, <3>5, <4>1
        <5> QED BY <3>1, <3>5, <3>7, <4>1, <5>1
      <4>2. CASE n # count + 1
        <5>1. n \in 1..count /\ n \in 1..(count + 1) /\ n + 1 \in 1..(count + 1)
          BY <1>3a, <4>2
        <5> QED BY <2>8, <3>5, <3>7, <5>1
      <4> QED BY <4>1, <4>2
    <3> HIDE DEF line
    <3>9. IsProjectAt(lines, i + 1, after.project)
      BY <1>3, <1>6, <1>12, <3>4
    <3>10. \A section \in listed : after.section = section <=> IsUnder(lines, (i + 1) + 1, section)
      BY <1>1, <2>6, <3>4
    <3>11. (count + 1) + 1 = count + 2
      BY <1>3a
    <3>12. IsDraftOf(draft2, lines, more[count + 2], i + 1)
      BY <2>5, <3>5
    <3> QED BY <2>3, <3>4, <3>6, <3>7, <3>8, <3>9, <3>10, <3>11, <3>12 DEF HasRead
  <2> QED BY <2>7, <2>8 DEF HasRead
<1> QED BY <1>2, <1>9, <1>10, <1>11, <1>12

HasFailed(reader) == "ok" \in DOMAIN reader /\ reader.ok = FALSE

LEMMA FlagIsKept ==
    ASSUME NEW Texts, NEW reader \in Reader(Texts), NEW line \in SpecLine(Texts)
    PROVE  "ok" \in DOMAIN Intake!ReadLine(reader, line)
<1>1. "ok" \in DOMAIN reader /\ reader.ok = TRUE
  BY DEF Reader
<1>2. "ok" \in DOMAIN Intake!CloseDraft(reader)
  BY <1>1 DEF Intake!CloseDraft
<1> DEFINE closed == Intake!CloseDraft(reader)
<1> HIDE DEF closed
<1>3. /\ \A x : "ok" \in DOMAIN [reader EXCEPT !.project = x]
      /\ \A x : "ok" \in DOMAIN [reader EXCEPT !.section = x]
      /\ \A x : "ok" \in DOMAIN [reader EXCEPT !.current = x]
      /\ \A x : "ok" \in DOMAIN [reader EXCEPT !.ok = x]
  BY <1>1
<1>4. /\ \A x : "ok" \in DOMAIN [closed EXCEPT !.current = x, !.section = "Description"]
      /\ "ok" \in DOMAIN [closed EXCEPT !.ok = FALSE]
  BY <1>2 DEF closed
<1>5. line.kind \in {"project", "task", "section", "item"}
  BY DEF SpecLine
<1>6. CASE line.kind = "project"
  BY <1>1, <1>3, <1>6 DEF Intake!ReadLine
<1>7. CASE line.kind = "section"
  BY <1>1, <1>3, <1>7 DEF Intake!ReadLine
<1>8. CASE line.kind = "item"
  BY <1>1, <1>3, <1>8 DEF Intake!ReadLine
<1>9. CASE line.kind = "task"
  <2>1. Intake!ReadLine(reader, line) =
            IF closed.ok /\ line.id # "" /\ line.title # ""
            THEN [closed EXCEPT !.current = {Intake!NewDraft(line.id, line.title)},
                                !.section = "Description"]
            ELSE [closed EXCEPT !.ok = FALSE]
    BY <1>1, <1>9 DEF Intake!ReadLine, closed
  <2> QED BY <1>4, <2>1
<1> QED BY <1>5, <1>6, <1>7, <1>8, <1>9

\* A specification that is imported becomes one draft for each heading of a task,
\* in order.  None is ready, each says what would be accepted or asks, and each
\* is of the project named last before the next heading.  What it lists is what
\* stands under its own headings: no item is lost and none is another task's
\* (import_markdown_spec, TaskBuilder).
THEOREM SpecsBecomeDrafts ==
    ASSUME NEW Texts, NEW lines \in Seq(SpecLine(Texts)), Intake!ImportedSpec(lines).ok
    PROVE  LET tasks == Intake!ImportedSpec(lines).tasks
           IN  \E heading :
                  /\ AreHeadings(heading, Len(tasks), lines, Len(lines))
                  /\ \A n \in 1..Len(tasks) :
                        IsTaskOf(tasks[n], lines, heading[n],
                                 IF n = Len(tasks) THEN Len(lines) ELSE heading[n + 1] - 1)
<1> DEFINE N == Len(lines)
           spec == Intake!ImportedSpec(lines)
<1>0. N \in Nat
  OBVIOUS
<1>1. PICK reader : /\ reader[0] = Intake!StartOfSpec
                    /\ \A i \in 1..N : reader[i] = Intake!ReadLine(reader[i - 1], lines[i])
                    /\ Intake!FoldLeft(Intake!ReadLine, Intake!StartOfSpec, lines) = reader[N]
  BY LinesAreRead
<1> DEFINE S == {i \in Nat : i <= N => HasFailed(reader[i]) \/ HasRead(reader[i], lines, i, Texts)}
<1>2. 0 \in S
  <2> DEFINE start == Intake!StartOfSpec
  <2>1. start \in Reader(Texts) /\ start.project = DefaultProject /\ start.current = {}
        /\ start.tasks = <<>> /\ start.section = "Description"
    BY DEF Intake!StartOfSpec, Reader, Intake!Section
  <2> HIDE DEF start
  <2>2. \A section : ~IsUnder(lines, 0 + 1, section)
    BY DEF IsUnder
  <2>3. IsProjectAt(lines, 0, start.project)
    BY <2>1 DEF IsProjectAt
  <2>4. HasRead(start, lines, 0, Texts)
    BY <2>1, <2>2, <2>3 DEF HasRead
  <2> QED BY <1>1, <2>4 DEF start
<1>3. ASSUME NEW i \in Nat, i \in S
      PROVE  i + 1 \in S
  <2> SUFFICES ASSUME i + 1 <= N
               PROVE  HasFailed(reader[i + 1]) \/ HasRead(reader[i + 1], lines, i + 1, Texts)
    OBVIOUS
  <2>1. i \in 0..(N - 1) /\ i + 1 \in 1..N /\ (i + 1) - 1 = i /\ i <= N
    BY <1>0
  <2>2. reader[i + 1] = Intake!ReadLine(reader[i], lines[i + 1])
    BY <1>1, <2>1
  <2>3. HasFailed(reader[i]) \/ HasRead(reader[i], lines, i, Texts)
    BY <1>3, <2>1
  <2>4. CASE HasFailed(reader[i])
    <3>1. reader[i + 1] = reader[i]
      BY <2>2, <2>4 DEF Intake!ReadLine, HasFailed
    <3> QED BY <2>4, <3>1
  <2>5. CASE HasRead(reader[i], lines, i, Texts)
    <3>1. reader[i] \in Reader(Texts)
      BY <2>5 DEF HasRead
    <3>2. reader[i + 1].ok = FALSE => HasFailed(reader[i + 1])
      <4>1. lines[i + 1] \in SpecLine(Texts)
        BY <2>1
      <4> QED BY <2>2, <3>1, <4>1, FlagIsKept DEF HasFailed
    <3>3. reader[i + 1].ok # FALSE => HasRead(reader[i + 1], lines, i + 1, Texts)
      BY <2>1, <2>2, <2>5, LineIsRead
    <3> QED BY <3>2, <3>3
  <2> QED BY <2>3, <2>4, <2>5
<1>4. HasFailed(reader[N]) \/ HasRead(reader[N], lines, N, Texts)
  <2> HIDE DEF S
  <2>1. Nat \subseteq S
    BY <1>2, <1>3, NatSetInduction
  <2> QED BY <1>0, <2>1 DEF S
<1> DEFINE last   == reader[N]
           closed == Intake!CloseDraft(last)
<1>5. closed.ok /\ closed.tasks # <<>> /\ spec.tasks = closed.tasks
  <2> HIDE DEF closed
  <2>1. spec = IF closed.ok /\ closed.tasks # <<>>
               THEN [ok |-> TRUE, project |-> closed.project, tasks |-> closed.tasks]
               ELSE [ok |-> FALSE, project |-> closed.project, tasks |-> <<>>]
    BY <1>1 DEF Intake!ImportedSpec, closed
  <2> HIDE DEF spec
  <2>2. spec.ok
    BY DEF spec
  <2> QED BY <2>1, <2>2
<1>6. HasRead(last, lines, N, Texts)
  <2>1. ASSUME HasFailed(last)
        PROVE  closed.ok = FALSE
    BY <2>1 DEF HasFailed, Intake!CloseDraft
  <2> HIDE DEF closed, spec
  <2> QED BY <1>4, <1>5, <2>1
<1> DEFINE count == Len(last.tasks)
<1>7. count \in Nat /\ last.tasks \in Seq(ImportedTask(Texts)) /\ last \in Reader(Texts)
      /\ IsProjectAt(lines, N, last.project)
  <2> HIDE DEF closed, spec, last
  <2>1. last \in Reader(Texts) /\ IsProjectAt(lines, N, last.project)
    BY <1>6 DEF HasRead
  <2>2. last.tasks \in Seq(ImportedTask(Texts))
    BY <2>1 DEF Reader
  <2> QED BY <2>1, <2>2
<1>8. PICK draft \in Draft(Texts) : \E heading :
          /\ last.current = {draft}
          /\ AreHeadings(heading, count + 1, lines, N)
          /\ IsDraftOf(draft, lines, heading[count + 1], N)
          /\ \A n \in 1..count : IsTaskOf(last.tasks[n], lines, heading[n], heading[n + 1] - 1)
  <2>1. ~(last.current = {} /\ last.tasks = <<>>)
    <3>1. last.current = {} => closed = last
      BY DEF Intake!CloseDraft
    <3> HIDE DEF closed, spec, last
    <3> QED BY <1>5, <3>1
  <2> HIDE DEF closed, spec, last
  <2> QED BY <1>6, <2>1 DEF HasRead
<1>9. PICK heading :
          /\ last.current = {draft}
          /\ AreHeadings(heading, count + 1, lines, N)
          /\ IsDraftOf(draft, lines, heading[count + 1], N)
          /\ \A n \in 1..count : IsTaskOf(last.tasks[n], lines, heading[n], heading[n + 1] - 1)
  BY <1>8
<1> DEFINE task == Intake!Finished(draft, last.project)
<1>10. /\ closed = [last EXCEPT !.tasks = Append(@, task), !.current = {}]
       /\ task \in ImportedTask(Texts)
       /\ IsTaskOf(task, lines, heading[count + 1], N)
  <2>1. closed.ok # FALSE
    <3> HIDE DEF closed, spec
    <3> QED BY <1>5
  <2> HIDE DEF last
  <2> QED BY <1>0, <1>7, <1>9, <2>1, DraftIsClosed
<1> HIDE DEF closed, task, last, spec
<1>11. spec.tasks = Append(last.tasks, task)
  BY <1>5, <1>7, <1>10 DEF Reader
<1>12. /\ Len(spec.tasks) = count + 1
       /\ spec.tasks[count + 1] = task
       /\ \A n \in 1..count : spec.tasks[n] = last.tasks[n]
  BY <1>7, <1>10, <1>11
<1>13. ASSUME NEW n \in 1..(count + 1)
       PROVE  IsTaskOf(spec.tasks[n], lines, heading[n],
                       IF n = count + 1 THEN N ELSE heading[n + 1] - 1)
  <2>1. CASE n = count + 1
    BY <1>10, <1>12, <2>1
  <2>2. CASE n # count + 1
    <3>1. n \in 1..count
      BY <1>7, <2>2
    <3> QED BY <1>9, <1>12, <2>2, <3>1
  <2> QED BY <2>1, <2>2
<1> QED BY <1>9, <1>12, <1>13 DEF spec
=================================================================================
