---------------------------- MODULE HepaContracts ----------------------------
(***************************************************************************)
(* The status vocabularies of crates/hepa-core/src/contracts.rs and the    *)
(* transition tables every other component consults.  Pure definitions.    *)
(***************************************************************************)

TaskStatus == {"Draft", "Queued", "Ready", "Running", "Blocked", "Cancelled",
               "Completed"}

\* HepaTaskStatus::can_transition_to, as the successors of each status.
TaskSuccessors ==
    [ Draft     |-> {"Queued", "Blocked", "Cancelled"},
      Queued    |-> {"Ready", "Blocked", "Cancelled"},
      Ready     |-> {"Running", "Blocked", "Cancelled"},
      Running   |-> {"Blocked", "Completed", "Cancelled"},
      Blocked   |-> {"Queued", "Ready", "Cancelled"},
      Cancelled |-> {},
      Completed |-> {} ]

CanTaskTransition(from, to) == to \in TaskSuccessors[from]

TerminalTaskStatus == {"Completed", "Cancelled"}

ReadinessState == {"NotReady", "Ready", "DraftReady", "Blocked"}

LaneState == {"DraftSpec", "Ready", "Allocated", "Starting", "Running",
              "Validating", "Reviewing", "Repairing", "Staging", "PrCreated",
              "ReadyForHuman", "Blocked", "Failed", "Cancelled", "Completed",
              "Cleaned"}

\* HepaLaneState::can_transition_to.
LaneSuccessors ==
    [ DraftSpec     |-> {"Ready", "Blocked", "Cancelled", "Cleaned"},
      Ready         |-> {"Allocated", "Blocked", "Cancelled", "Cleaned"},
      Allocated     |-> {"Starting", "Blocked", "Failed", "Cancelled", "Cleaned"},
      Starting      |-> {"Running", "Blocked", "Failed", "Cleaned"},
      Running       |-> {"Validating", "Blocked", "Failed", "Cleaned"},
      Validating    |-> {"Reviewing", "Repairing", "Blocked", "Failed", "Cleaned"},
      Reviewing     |-> {"Repairing", "Staging", "Blocked", "Failed", "Cleaned"},
      Repairing     |-> {"Running", "Validating", "Blocked", "Failed", "Cleaned"},
      Staging       |-> {"PrCreated", "Blocked", "Failed", "Cleaned"},
      PrCreated     |-> {"ReadyForHuman", "Completed", "Blocked", "Failed", "Cleaned"},
      ReadyForHuman |-> {"Completed", "Blocked", "Failed", "Cleaned"},
      Blocked       |-> {"Running", "Repairing", "Cleaned"},
      Failed        |-> {"Repairing", "Cleaned"},
      Cancelled     |-> {"Cleaned"},
      Completed     |-> {"Cleaned"},
      Cleaned       |-> {} ]

\* lane_state.rs: the states a lane leaves only on an explicit resume.
TerminalLaneState == {"Completed", "Failed", "Cancelled", "Cleaned"}

\* lane_state.rs transition_lane without explicit_resume (the only form the
\* run pipeline uses): re-entering the current state is accepted and changes
\* nothing, a terminal state is never left, otherwise the table decides.
CanLaneTransition(from, to) ==
    \/ to = from
    \/ /\ from \notin TerminalLaneState
       /\ to \in LaneSuccessors[from]
=============================================================================
