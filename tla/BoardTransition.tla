--------------------------- MODULE BoardTransition ---------------------------
(***************************************************************************)
(* crates/hepa-kanban/src/transition.rs: what HEPA answers when somebody   *)
(* moves a card.  Pure: the decision carries the record the task would     *)
(* get, and whoever asked is to store it.                                  *)
(***************************************************************************)
EXTENDS HepaContracts, Sequences

\* The lane states whose gates a card must not get around.
GatedLaneState == {"Validating", "Reviewing", "Staging", "PrCreated",
                   "ReadyForHuman", "Completed"}

BypassesGates(action, lanes) ==
    /\ action.type \in {"MarkReady", "Resume"}
    /\ \E lane \in lanes : lane.state \in GatedLaneState

\* Single-line fields that say something; dependencies are listed once.
RequestIsValid(request) ==
    /\ request.fieldsArePlain
    /\ request.action.type \in {"Block", "Cancel"} => request.action.reasonIsPlain
    /\ request.action.type = "SetDependencies" =>
           \A i, j \in DOMAIN request.action.dependencies :
               request.action.dependencies[i] = request.action.dependencies[j] => i = j

Accepted(task) == [status |-> "Accepted", updated |-> {task}]
Rejected       == [status |-> "Rejected", updated |-> {}]

\* transition_status: a task may be told to be what it is already.
StatusDecision(task, next) ==
    IF task.status = next \/ CanTaskTransition(task.status, next)
    THEN Accepted([task EXCEPT !.status = next])
    ELSE Rejected

ResumedStatus(task) == IF task.readiness = "Ready" THEN "Ready" ELSE "Queued"

\* evaluate_board_transition_with_lanes, of a valid request.  Blocking and
\* marking ready change the readiness along with the status; cancelling and
\* resuming leave it.
Decision(task, lanes, request) ==
    LET action == request.action
    IN  IF task.id # request.task \/ BypassesGates(action, lanes) THEN Rejected
        ELSE
        CASE action.type = "SetPriority" ->
                 Accepted([task EXCEPT !.priority = action.priority])
          [] action.type = "MarkReady" ->
                 StatusDecision([task EXCEPT !.readiness = "Ready"], "Ready")
          [] action.type = "Block" ->
                 StatusDecision([task EXCEPT !.readiness = "Blocked"], "Blocked")
          [] action.type = "Cancel" -> StatusDecision(task, "Cancelled")
          [] action.type = "Resume" -> StatusDecision(task, ResumedStatus(task))
          [] action.type = "SetDependencies" ->
                 IF \E i \in DOMAIN action.dependencies : action.dependencies[i] = task.id
                 THEN Rejected
                 ELSE Accepted([task EXCEPT !.dependencies = action.dependencies])

\* evaluate_board_transition: without the lanes no request is seen to get
\* around their gates.
DecisionWithoutLanes(task, request) == Decision(task, {}, request)

\* to_card_response: the reason the card shows says accepted or rejected.
CardResponse(request, decision) ==
    [request |-> request.id, task |-> request.task, visible |-> decision.status]
=============================================================================
