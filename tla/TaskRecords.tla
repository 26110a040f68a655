----------------------------- MODULE TaskRecords -----------------------------
(***************************************************************************)
(* The fleet task record (HepaFleetTask) and what each operation of        *)
(* HepaFleetRegistry does to ONE record: a test on the record read, and    *)
(* the record to write.  How reading and writing interleave is the         *)
(* business of the modules that use this one.                              *)
(*                                                                         *)
(* Abstracted: titles, descriptions, timestamps.  lane_ids is a vector in  *)
(* the code, but the only writers are the creators (empty) and the claim   *)
(* (one element), so it is a lane or NoLane here.                          *)
(***************************************************************************)
EXTENDS HepaContracts

CONSTANTS
    Lanes,        \* lane ids
    NoLane,       \* an empty lane_ids
    Priorities    \* scheduling priorities

ASSUME NoLaneIsNoLane == NoLane \notin Lanes

TaskRecord == [ status    : TaskStatus,
                readiness : ReadinessState,
                lane      : Lanes \cup {NoLane},
                priority  : Priorities ]

\* Mutant of NewRecord: the creator assigns a lane.
NewRecordInLane(status, readiness, priority) ==
    [ status |-> status, readiness |-> readiness,
      lane |-> CHOOSE lane \in Lanes : TRUE, priority |-> priority ]

\* The records the creators write: `task create`, `hermes ingest-spec` (with
\* and without open questions) and `hermes run-dashboard-card`.
NewRecord(status, readiness, priority) ==
    [ status |-> status, readiness |-> readiness, lane |-> NoLane,
      priority |-> priority ]

NewTaskRecords ==
    {NewRecord("Queued", "NotReady", p)  : p \in Priorities} \cup
    {NewRecord("Ready", "Ready", p)      : p \in Priorities} \cup
    {NewRecord("Blocked", "Blocked", p)  : p \in Priorities}

-----------------------------------------------------------------------------
\* Mutant of CanSetStatus: any change of status is let through.
CanSetAnyStatus(record, status) == record.status # status

\* Mutant of WithStatus: every change of status gives the lane back.
WithStatusUnassigned(record, status) ==
    [record EXCEPT !.status = status, !.lane = NoLane]

\* set_task_status (block, cancel, resume) and complete_task
CanSetStatus(record, status) == CanTaskTransition(record.status, status)
WithStatus(record, status)   == [record EXCEPT !.status = status]

\* Mutant of CanClaim: a lane id in the record is no obstacle.
CanClaimAgain(record) == record.status = "Ready"

\* claim_task_into_lane
CanClaim(record)        == record.status = "Ready" /\ record.lane = NoLane
Claimed(record, lane)   == [record EXCEPT !.status = "Running", !.lane = lane]

\* Mutant of MarkedReady: the readiness is copied from the status.
MarkedReadySwapped(record) ==
    [record EXCEPT !.status = "Ready", !.readiness = record.status]

\* mark_task_ready
CanMarkReady(record) == record.status = "Queued"
MarkedReady(record)  == [record EXCEPT !.status = "Ready", !.readiness = "Ready"]

\* prioritize_task
CanPrioritize(record)          == record.status \notin TerminalTaskStatus
WithPriority(record, priority) == [record EXCEPT !.priority = priority]

\* set_task_readiness
WithReadiness(record, readiness) == [record EXCEPT !.readiness = readiness]
=============================================================================
