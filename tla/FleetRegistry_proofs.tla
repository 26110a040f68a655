------------------------ MODULE FleetRegistry_proofs -------------------------
(***************************************************************************)
(* Theorems of FleetRegistry, for any number of processes, tasks, lanes    *)
(* and any bounds.                                                         *)
(***************************************************************************)
EXTENDS FleetRegistry, TLAPS

-----------------------------------------------------------------------------
\* What the operations write: every record an operation makes from a record is
\* a record, and only Running has Completed as a successor.
LEMMA NewRecordsAreRecords ==
    ASSUME NEW record \in NewTaskRecords
    PROVE  /\ record \in TaskRecord
           /\ record.lane = NoLane
           /\ record.status \in {"Queued", "Ready", "Blocked"}
  BY DEF NewTaskRecords, NewRecord, TaskRecord, TaskStatus, ReadinessState

LEMMA WrittenRecordsAreRecords ==
    ASSUME NEW record \in TaskRecord
    PROVE  /\ \A status \in TaskStatus : WithStatus(record, status) \in TaskRecord
           /\ \A priority \in Priorities : WithPriority(record, priority) \in TaskRecord
           /\ \A readiness \in ReadinessState :
                 WithReadiness(record, readiness) \in TaskRecord
           /\ MarkedReady(record) \in TaskRecord
           /\ \A lane \in Lanes : Claimed(record, lane) \in TaskRecord
  BY DEF TaskRecord, WithStatus, WithPriority, WithReadiness, MarkedReady, Claimed,
         TaskStatus, ReadinessState

LEMMA OnlyRunningIsCompleted ==
    ASSUME NEW status \in TaskStatus, "Completed" \in TaskSuccessors[status]
    PROVE  status = "Running"
  BY DEF TaskStatus, TaskSuccessors

LEMMA ReadableIsRecord ==
    ASSUME TypeOK, NEW t \in Tasks, Readable(t)
    PROVE  files[t] \in TaskRecord
  BY DEF TypeOK, Readable
-----------------------------------------------------------------------------
\* The operations that open an edit do one thing: they fix, for an idle process,
\* a record to write.  Opened(p, t, record, kind) says which records those are.
Opened(p, t, record, kind) ==
    /\ record \in TaskRecord
    /\ \/ /\ kind = "create"
          /\ record.lane = NoLane
          /\ record.status \in {"Queued", "Ready", "Blocked"}
       \/ /\ kind = "claim"
          /\ Readable(t)
          /\ files[t].status = "Ready" /\ files[t].lane = NoLane
          /\ record.status = "Running" /\ record.lane \in Lanes
       \/ /\ kind = "update"
          /\ Readable(t)
          /\ record.lane = files[t].lane
          /\ \/ record.status = files[t].status
             \/ record.status \in TaskSuccessors[files[t].status] \ {"Running"}

LEMMA OperationsOpenEdits ==
    ASSUME TypeOK, NEW p \in Procs, NEW t \in Tasks,
           \/ \E record \in NewTaskRecords : CreateTask(p, t, record)
           \/ BlockTask(p, t) \/ CancelTask(p, t) \/ ResumeTask(p, t) \/ CompleteTask(p, t)
           \/ \E priority \in Priorities : PrioritizeTask(p, t, priority)
           \/ \E readiness \in ReadinessState : SetTaskReadiness(p, t, readiness)
           \/ MarkTaskReady(p, t)
           \/ \E lane \in Lanes : ClaimTaskIntoLane(p, t, lane)
    PROVE  /\ Idle(p)
           /\ \E record, kind :
                 Opened(p, t, record, kind) /\ WillWrite(p, t, record, kind)
<1>1. ASSUME NEW record \in NewTaskRecords, CreateTask(p, t, record)
      PROVE  Idle(p) /\ Opened(p, t, record, "create") /\ WillWrite(p, t, record, "create")
  BY <1>1, NewRecordsAreRecords DEF CreateTask, Opened
<1>2. ASSUME NEW status \in {"Blocked", "Cancelled", "Queued", "Completed"},
             SetTaskStatus(p, t, status)
      PROVE  /\ Idle(p) /\ Opened(p, t, WithStatus(files[t], status), "update")
             /\ WillWrite(p, t, WithStatus(files[t], status), "update")
  <2>1. Idle(p) /\ Readable(t) /\ status \in TaskSuccessors[files[t].status]
        /\ WillWrite(p, t, WithStatus(files[t], status), "update")
    BY <1>2 DEF SetTaskStatus, CanSetStatus, CanTaskTransition
  <2>2. files[t] \in TaskRecord
    BY <2>1, ReadableIsRecord
  <2>3. WithStatus(files[t], status) \in TaskRecord
    BY <2>2, WrittenRecordsAreRecords DEF TaskStatus
  <2>4. /\ WithStatus(files[t], status).lane = files[t].lane
        /\ WithStatus(files[t], status).status = status
    BY <2>2 DEF WithStatus, TaskRecord
  <2> QED BY <2>1, <2>3, <2>4 DEF Opened
<1>3. ASSUME NEW priority \in Priorities, PrioritizeTask(p, t, priority)
      PROVE  /\ Idle(p) /\ Opened(p, t, WithPriority(files[t], priority), "update")
             /\ WillWrite(p, t, WithPriority(files[t], priority), "update")
  <2>1. Readable(t) /\ files[t] \in TaskRecord
    BY <1>3, ReadableIsRecord DEF PrioritizeTask
  <2>2. /\ WithPriority(files[t], priority).lane = files[t].lane
        /\ WithPriority(files[t], priority).status = files[t].status
    BY <2>1 DEF WithPriority, TaskRecord
  <2> QED BY <1>3, <2>1, <2>2, WrittenRecordsAreRecords DEF PrioritizeTask, Opened
<1>4. ASSUME NEW readiness \in ReadinessState, SetTaskReadiness(p, t, readiness)
      PROVE  /\ Idle(p) /\ Opened(p, t, WithReadiness(files[t], readiness), "update")
             /\ WillWrite(p, t, WithReadiness(files[t], readiness), "update")
  <2>1. Readable(t) /\ files[t] \in TaskRecord
    BY <1>4, ReadableIsRecord DEF SetTaskReadiness
  <2>2. /\ WithReadiness(files[t], readiness).lane = files[t].lane
        /\ WithReadiness(files[t], readiness).status = files[t].status
    BY <2>1 DEF WithReadiness, TaskRecord
  <2> QED BY <1>4, <2>1, <2>2, WrittenRecordsAreRecords DEF SetTaskReadiness, Opened
<1>5. ASSUME MarkTaskReady(p, t)
      PROVE  /\ Idle(p) /\ Opened(p, t, MarkedReady(files[t]), "update")
             /\ WillWrite(p, t, MarkedReady(files[t]), "update")
  <2>1. Readable(t) /\ files[t] \in TaskRecord
    BY <1>5, ReadableIsRecord DEF MarkTaskReady
  <2>2. /\ MarkedReady(files[t]).lane = files[t].lane
        /\ MarkedReady(files[t]).status = "Ready"
        /\ "Ready" \in TaskSuccessors[files[t].status] \ {"Running"}
    BY <1>5, <2>1 DEF MarkTaskReady, CanMarkReady, MarkedReady, TaskRecord, TaskSuccessors
  <2> QED BY <1>5, <2>1, <2>2, WrittenRecordsAreRecords DEF MarkTaskReady, Opened
<1>6. ASSUME NEW lane \in Lanes, ClaimTaskIntoLane(p, t, lane)
      PROVE  /\ Idle(p) /\ Opened(p, t, Claimed(files[t], lane), "claim")
             /\ WillWrite(p, t, Claimed(files[t], lane), "claim")
  <2>1. /\ Readable(t) /\ files[t] \in TaskRecord
        /\ files[t].status = "Ready" /\ files[t].lane = NoLane
    BY <1>6, ReadableIsRecord DEF ClaimTaskIntoLane, CanClaim
  <2>2. Claimed(files[t], lane).lane = lane /\ Claimed(files[t], lane).status = "Running"
    BY <2>1 DEF Claimed, TaskRecord
  <2> QED BY <1>6, <2>1, <2>2, WrittenRecordsAreRecords DEF ClaimTaskIntoLane, Opened
<1> QED BY <1>1, <1>2, <1>3, <1>4, <1>5, <1>6
        DEF BlockTask, CancelTask, ResumeTask, CompleteTask

\* A case analysis of Next for every proof below: an operation opens an edit, or
\* a process takes the next step of the edit it has open, or it dies.
LEMMA NextCases ==
    ASSUME TypeOK, Next
    PROVE  \E p \in Procs :
              \/ \E t \in Tasks : \E record, kind :
                    Idle(p) /\ Opened(p, t, record, kind) /\ WillWrite(p, t, record, kind)
              \/ TruncateFile(p)
              \/ FillFile(p)
              \/ Crash(p)
  BY OperationsOpenEdits DEF Next

LEMMA OpenEditIsEdit ==
    ASSUME TypeOK, NEW p \in Procs, ~Idle(p)
    PROVE  edit[p] \in Edit
  BY DEF TypeOK, Idle

LEMMA OpenedKinds ==
    ASSUME NEW p, NEW t, NEW record, NEW kind, Opened(p, t, record, kind)
    PROVE  record \in TaskRecord /\ kind \in {"create", "claim", "update"}
  BY DEF Opened
-----------------------------------------------------------------------------
\* Type correctness: whatever the processes interleave, a task file is absent,
\* unreadable or a task record, and an open edit holds a task record.
LEMMA TypeStep ==
    ASSUME TypeOK, [Next]_vars
    PROVE  TypeOK'
<1>1. CASE UNCHANGED vars
  BY <1>1 DEF TypeOK, vars
<1>2. ASSUME NEW p \in Procs, NEW t \in Tasks, NEW record, NEW kind,
             Opened(p, t, record, kind), WillWrite(p, t, record, kind)
      PROVE  TypeOK'
  <2>1. [task |-> t, record |-> record, kind |-> kind, stage |-> "checked"] \in Edit
    BY <1>2, OpenedKinds DEF Edit
  <2> QED BY <1>2, <2>1 DEF WillWrite, TypeOK
<1>3. ASSUME NEW p \in Procs, TruncateFile(p)
      PROVE  TypeOK'
  <2>1. edit[p] \in Edit
    BY <1>3, OpenEditIsEdit DEF TruncateFile
  <2>2. [edit[p] EXCEPT !.stage = "truncated"] \in Edit
    BY <2>1 DEF Edit
  <2>3. files' \in [Tasks -> TaskRecord \cup Unreadable]
    BY <1>3 DEF TruncateFile, TypeOK, Unreadable
  <2>4. edit' \in [Procs -> Edit \cup {NoEdit}]
    BY <1>3, <2>2 DEF TruncateFile, TypeOK
  <2> QED BY <1>3, <2>3, <2>4 DEF TruncateFile, TypeOK
<1>4. ASSUME NEW p \in Procs, FillFile(p)
      PROVE  TypeOK'
  <2>1. edit[p].task \in Tasks /\ edit[p].record \in TaskRecord
    BY <1>4, OpenEditIsEdit DEF FillFile, Edit
  <2>2. files' \in [Tasks -> TaskRecord \cup Unreadable]
    BY <1>4, <2>1 DEF FillFile, TypeOK, Unreadable
  <2>3. edit' \in [Procs -> Edit \cup {NoEdit}]
    BY <1>4 DEF FillFile, TypeOK
  <2>4. grants' \in [Tasks -> Nat] /\ creates' \in [Tasks -> Nat]
    BY <1>4, <2>1 DEF FillFile, TypeOK
  <2> QED BY <1>4, <2>2, <2>3, <2>4 DEF FillFile, TypeOK
<1>5. ASSUME NEW p \in Procs, Crash(p)
      PROVE  TypeOK'
  BY <1>5 DEF Crash, TypeOK
<1> QED BY <1>1, <1>2, <1>3, <1>4, <1>5, NextCases

THEOREM TypeCorrect == Spec => []TypeOK
<1>1. Init => TypeOK
  BY DEF Init, TypeOK, Unreadable
<1> QED BY <1>1, TypeStep, PTL DEF Spec
-----------------------------------------------------------------------------
\* RunningTaskHoldsLane is not inductive: a record that is about to be written
\* must satisfy it as well.
LaneKept(record) == record.status \in {"Running", "Completed"} => record.lane # NoLane

LaneInv ==
    /\ \A t \in Tasks : Readable(t) => LaneKept(files[t])
    /\ \A p \in Procs : ~Idle(p) => LaneKept(edit[p].record)

LEMMA LaneStep ==
    ASSUME TypeOK, LaneInv, [Next]_vars
    PROVE  LaneInv'
<1>1. CASE UNCHANGED vars
  BY <1>1 DEF LaneInv, vars, Readable, Idle
<1>2. ASSUME NEW p \in Procs, NEW t \in Tasks, NEW record, NEW kind,
             Opened(p, t, record, kind), WillWrite(p, t, record, kind)
      PROVE  LaneInv'
  <2>1. LaneKept(record)
    <3>1. CASE kind = "update"
      <4>1. record \in TaskRecord /\ files[t] \in TaskRecord /\ Readable(t)
        BY <1>2, <3>1, ReadableIsRecord DEF Opened
      <4>2. record.status \in {"Running", "Completed"}
               => files[t].status \in {"Running", "Completed"}
        BY <1>2, <3>1, <4>1, OnlyRunningIsCompleted DEF Opened, TaskRecord
      <4>3. record.lane = files[t].lane
        BY <1>2, <3>1 DEF Opened
      <4> QED BY <4>1, <4>2, <4>3 DEF LaneInv, LaneKept
    <3> QED BY <1>2, <3>1, NoLaneIsNoLane DEF Opened, LaneKept
  <2>2. ASSUME NEW q \in Procs, ~Idle(q)'
        PROVE  LaneKept(edit'[q].record)
    BY <1>2, <2>1, <2>2 DEF WillWrite, LaneInv, Idle, TypeOK
  <2> QED BY <1>2, <2>2 DEF WillWrite, LaneInv, Readable, LaneKept
<1>3. ASSUME NEW p \in Procs, TruncateFile(p)
      PROVE  LaneInv'
  <2>1. ASSUME NEW q \in Procs, ~Idle(q)'
        PROVE  ~Idle(q) /\ edit'[q].record = edit[q].record
    <3>1. edit[p] \in Edit
      BY <1>3, OpenEditIsEdit DEF TruncateFile
    <3> QED BY <1>3, <2>1, <3>1 DEF TruncateFile, Idle, TypeOK, Edit
  <2>2. ASSUME NEW t \in Tasks, Readable(t)'
        PROVE  Readable(t) /\ files'[t] = files[t]
    BY <1>3, <2>2 DEF TruncateFile, TypeOK, Readable, Unreadable
  <2> QED BY <2>1, <2>2 DEF LaneInv, LaneKept
<1>4. ASSUME NEW p \in Procs, FillFile(p)
      PROVE  LaneInv'
  <2>1. ASSUME NEW q \in Procs, ~Idle(q)'
        PROVE  ~Idle(q) /\ edit'[q] = edit[q]
    BY <1>4, <2>1 DEF FillFile, Idle, TypeOK
  <2>2. ASSUME NEW t \in Tasks, Readable(t)'
        PROVE  \/ Readable(t) /\ files'[t] = files[t]
               \/ files'[t] = edit[p].record
    BY <1>4, <2>2 DEF FillFile, TypeOK, Readable, Unreadable
  <2>3. LaneKept(edit[p].record)
    BY <1>4 DEF FillFile, LaneInv
  <2> QED BY <2>1, <2>2, <2>3 DEF LaneInv, LaneKept
<1>5. ASSUME NEW p \in Procs, Crash(p)
      PROVE  LaneInv'
  BY <1>5 DEF Crash, LaneInv, Idle, Readable, LaneKept, TypeOK
<1> QED BY <1>1, <1>2, <1>3, <1>4, <1>5, NextCases

\* A running or completed task is in a lane, for any number of processes that
\* overlap in any way and crash anywhere.
THEOREM RunningTaskHoldsLaneAlways == Spec => []RunningTaskHoldsLane
<1>1. Init => LaneInv
  BY DEF Init, LaneInv, Readable, Unreadable, Idle
<1>2. LaneInv => RunningTaskHoldsLane
  BY DEF LaneInv, LaneKept, RunningTaskHoldsLane
<1> QED BY <1>1, <1>2, LaneStep, TypeCorrect, PTL DEF Spec
-----------------------------------------------------------------------------
\* LaneWasGranted needs the stale copies in the open edits: a copy with a lane,
\* unless it is the claim itself, was made after the claim was granted.
GrantInv ==
    /\ LaneWasGranted
    /\ \A p \in Procs :
          ~Idle(p) /\ edit[p].kind # "claim" /\ edit[p].record.lane # NoLane
              => grants[edit[p].task] > 0

LEMMA GrantStep ==
    ASSUME TypeOK, GrantInv, [Next]_vars
    PROVE  GrantInv'
<1>1. CASE UNCHANGED vars
  BY <1>1 DEF GrantInv, LaneWasGranted, vars, Readable, Idle
<1>2. ASSUME NEW p \in Procs, NEW t \in Tasks, NEW record, NEW kind,
             Opened(p, t, record, kind), WillWrite(p, t, record, kind)
      PROVE  GrantInv'
  <2>1. kind # "claim" /\ record.lane # NoLane => grants[t] > 0
    BY <1>2 DEF Opened, GrantInv, LaneWasGranted
  <2>2. ASSUME NEW q \in Procs, ~Idle(q)', edit'[q].kind # "claim",
               edit'[q].record.lane # NoLane
        PROVE  grants[edit'[q].task] > 0
    BY <1>2, <2>1, <2>2 DEF WillWrite, GrantInv, Idle, TypeOK
  <2> QED BY <1>2, <2>2 DEF WillWrite, GrantInv, LaneWasGranted, Readable
<1>3. ASSUME NEW p \in Procs, TruncateFile(p)
      PROVE  GrantInv'
  <2>1. ASSUME NEW q \in Procs, ~Idle(q)'
        PROVE  /\ ~Idle(q)
               /\ edit'[q].record = edit[q].record
               /\ edit'[q].kind = edit[q].kind
               /\ edit'[q].task = edit[q].task
    <3>1. edit[p] \in Edit
      BY <1>3, OpenEditIsEdit DEF TruncateFile
    <3> QED BY <1>3, <2>1, <3>1 DEF TruncateFile, Idle, TypeOK, Edit
  <2>2. ASSUME NEW t \in Tasks, Readable(t)'
        PROVE  Readable(t) /\ files'[t] = files[t]
    BY <1>3, <2>2 DEF TruncateFile, TypeOK, Readable, Unreadable
  <2>3. grants' = grants
    BY <1>3 DEF TruncateFile
  <2> QED BY <2>1, <2>2, <2>3 DEF GrantInv, LaneWasGranted
<1>4. ASSUME NEW p \in Procs, FillFile(p)
      PROVE  GrantInv'
  <2>1. edit[p].task \in Tasks /\ edit[p].kind \in {"create", "claim", "update"}
    BY <1>4, OpenEditIsEdit DEF FillFile, Edit
  <2>2. \A t \in Tasks : grants[t] > 0 => grants'[t] > 0
    BY <1>4, <2>1 DEF FillFile, TypeOK
  <2>3. edit[p].kind = "claim" => grants'[edit[p].task] > 0
    BY <1>4, <2>1 DEF FillFile, TypeOK
  <2>4. edit[p].record.lane # NoLane => grants'[edit[p].task] > 0
    BY <1>4, <2>1, <2>2, <2>3 DEF FillFile, GrantInv
  <2>5. ASSUME NEW q \in Procs, ~Idle(q)'
        PROVE  ~Idle(q) /\ edit'[q] = edit[q] /\ edit[q].task \in Tasks
    <3>1. ~Idle(q) /\ edit'[q] = edit[q]
      BY <1>4, <2>5 DEF FillFile, Idle, TypeOK
    <3> QED BY <3>1, OpenEditIsEdit DEF Edit
  <2>6. ASSUME NEW t \in Tasks, Readable(t)'
        PROVE  \/ Readable(t) /\ files'[t] = files[t]
               \/ t = edit[p].task /\ files'[t] = edit[p].record
    BY <1>4, <2>6 DEF FillFile, TypeOK, Readable, Unreadable
  <2>7. LaneWasGranted'
    BY <2>2, <2>4, <2>6 DEF GrantInv, LaneWasGranted
  <2> QED BY <2>2, <2>5, <2>7 DEF GrantInv
<1>5. ASSUME NEW p \in Procs, Crash(p)
      PROVE  GrantInv'
  BY <1>5 DEF Crash, GrantInv, LaneWasGranted, Idle, Readable, TypeOK
<1> QED BY <1>1, <1>2, <1>3, <1>4, <1>5, NextCases

\* A lane in a task file was given out by a claim that returned Ok, for any
\* number of overlapping and crashing processes.
THEOREM LaneWasGrantedAlways == Spec => []LaneWasGranted
<1>1. Init => GrantInv
  BY DEF Init, GrantInv, LaneWasGranted, Readable, Unreadable, Idle
<1>2. GrantInv => LaneWasGranted
  BY DEF GrantInv
<1> QED BY <1>1, <1>2, GrantStep, TypeCorrect, PTL DEF Spec
-----------------------------------------------------------------------------
\* EmptyFileHasWriter is inductive.
LEMMA EmptyFileStep ==
    ASSUME TypeOK, EmptyFileHasWriter, [Next]_vars
    PROVE  EmptyFileHasWriter'
<1>1. CASE UNCHANGED vars
  BY <1>1 DEF EmptyFileHasWriter, vars, Idle
<1>2. ASSUME NEW p \in Procs, NEW t \in Tasks, NEW record, NEW kind, Idle(p),
             WillWrite(p, t, record, kind)
      PROVE  EmptyFileHasWriter'
  <2>1. \A q \in Procs : ~Idle(q) => edit'[q] = edit[q]
    BY <1>2 DEF WillWrite, TypeOK, Idle
  <2> QED BY <1>2, <2>1 DEF WillWrite, EmptyFileHasWriter, Idle
<1>3. ASSUME NEW p \in Procs, TruncateFile(p)
      PROVE  EmptyFileHasWriter'
  <2>1. edit[p] \in Edit
    BY <1>3, OpenEditIsEdit DEF TruncateFile
  <2>2. /\ edit'[p].task = edit[p].task /\ edit'[p].stage = "truncated"
        /\ edit'[p] \in Edit
    BY <1>3, <2>1 DEF TruncateFile, TypeOK, Edit
  <2>3. ~Idle(p)'
    BY <2>2, NoEditIsNoEdit DEF Idle
  <2>4. \A q \in Procs \ {p} : edit'[q] = edit[q]
    BY <1>3 DEF TruncateFile, TypeOK
  <2>5. ASSUME NEW t \in Tasks, files'[t] = Truncated, t # edit[p].task
        PROVE  \/ crashes' > 0
               \/ \E q \in Procs : ~Idle(q)' /\ edit'[q].task = t /\ edit'[q].stage = "truncated"
    <3>1. files[t] = Truncated /\ crashes' = crashes
      BY <1>3, <2>5 DEF TruncateFile, TypeOK
    <3>2. CASE crashes > 0
      BY <3>1, <3>2
    <3>3. ASSUME NEW q \in Procs, ~Idle(q), edit[q].task = t, edit[q].stage = "truncated"
          PROVE  ~Idle(q)' /\ edit'[q].task = t /\ edit'[q].stage = "truncated"
      BY <2>4, <2>5, <3>3 DEF Idle
    <3> QED BY <3>1, <3>2, <3>3 DEF EmptyFileHasWriter
  <2> QED BY <2>2, <2>3, <2>5 DEF EmptyFileHasWriter
<1>4. ASSUME NEW p \in Procs, FillFile(p)
      PROVE  EmptyFileHasWriter'
  <2>1. edit[p].record \in TaskRecord /\ edit[p].task \in Tasks
    BY <1>4, OpenEditIsEdit DEF FillFile, Edit
  <2>2. files'[edit[p].task] # Truncated
    BY <1>4, <2>1, FilesAreDistinct DEF FillFile, TypeOK
  <2>3. \A t \in Tasks : t # edit[p].task => files'[t] = files[t]
    BY <1>4, <2>1 DEF FillFile, TypeOK
  <2>4. \A q \in Procs \ {p} : edit'[q] = edit[q]
    BY <1>4 DEF FillFile, TypeOK
  <2>5. crashes' = crashes
    BY <1>4 DEF FillFile
  <2> QED BY <2>2, <2>3, <2>4, <2>5 DEF EmptyFileHasWriter, Idle
<1>5. ASSUME NEW p \in Procs, Crash(p)
      PROVE  EmptyFileHasWriter'
  BY <1>5 DEF Crash, EmptyFileHasWriter, TypeOK
<1> QED BY <1>1, <1>2, <1>3, <1>4, <1>5, NextCases

\* An empty task file always has a process that is about to fill it, or a
\* process died over it.
THEOREM EmptyFileHasWriterAlways == Spec => []EmptyFileHasWriter
<1>1. Init => EmptyFileHasWriter
  BY FilesAreDistinct DEF Init, EmptyFileHasWriter
<1> QED BY <1>1, EmptyFileStep, TypeCorrect, PTL DEF Spec
-----------------------------------------------------------------------------
\* One process at a time: no edit is open while another is made.  Then an edit
\* still knows the truth about the file it is going to replace: as long as a
\* claim is pending, or the record on disk or in an update has no lane, a claim
\* is still to be granted for the record.
OneProcess == \A p, q \in Procs : p = q

Unclaimed(t) == grants[t] < creates[t]

NothingGarbled == \A t \in Tasks : files[t] # Garbled

SerialInv ==
    /\ NeverDoubleClaimed
    /\ NothingGarbled
    /\ \A t \in Tasks : Readable(t) /\ files[t].lane = NoLane => Unclaimed(t)
    /\ \A p \in Procs : ~Idle(p) =>
          /\ edit[p].stage = "truncated" => files[edit[p].task] = Truncated
          /\ edit[p].kind = "claim" =>
                Unclaimed(edit[p].task) /\ edit[p].record.lane # NoLane
          /\ edit[p].kind = "update" /\ edit[p].record.lane = NoLane =>
                Unclaimed(edit[p].task)

LEMMA SerialStep ==
    ASSUME OneProcess, TypeOK, SerialInv, [Next]_vars
    PROVE  SerialInv'
<1>1. CASE UNCHANGED vars
  BY <1>1 DEF SerialInv, NeverDoubleClaimed, NothingGarbled, vars, Readable, Idle, Unclaimed
<1>2. ASSUME NEW p \in Procs, NEW t \in Tasks, NEW record, NEW kind, Idle(p),
             Opened(p, t, record, kind), WillWrite(p, t, record, kind)
      PROVE  SerialInv'
  <2>1. edit'[p] = [task |-> t, record |-> record, kind |-> kind, stage |-> "checked"]
    BY <1>2 DEF WillWrite, TypeOK
  <2>2. kind = "claim" => Unclaimed(t) /\ record.lane # NoLane
    BY <1>2, NoLaneIsNoLane DEF Opened, SerialInv
  <2>3. kind = "update" /\ record.lane = NoLane => Unclaimed(t)
    BY <1>2 DEF Opened, SerialInv
  <2>4. \A q \in Procs : q = p
    BY DEF OneProcess
  <2> QED
    BY <1>2, <2>1, <2>2, <2>3, <2>4
    DEF WillWrite, SerialInv, NeverDoubleClaimed, NothingGarbled, Readable, Unclaimed
<1>3. ASSUME NEW p \in Procs, TruncateFile(p)
      PROVE  SerialInv'
  <2>1. edit[p] \in Edit /\ ~Idle(p)
    BY <1>3, OpenEditIsEdit DEF TruncateFile
  <2>2. /\ edit'[p].task = edit[p].task /\ edit'[p].record = edit[p].record
        /\ edit'[p].kind = edit[p].kind
    BY <1>3, <2>1 DEF TruncateFile, TypeOK, Edit
  <2>3. /\ files'[edit[p].task] = Truncated
        /\ \A t \in Tasks : t # edit[p].task => files'[t] = files[t]
        /\ edit[p].task \in Tasks
    BY <1>3, <2>1 DEF TruncateFile, TypeOK, Edit
  <2>4. \A q \in Procs : q = p
    BY DEF OneProcess
  <2>5. grants' = grants /\ creates' = creates
    BY <1>3 DEF TruncateFile
  <2>6. NeverDoubleClaimed' /\ NothingGarbled'
    BY <2>3, <2>5, FilesAreDistinct DEF SerialInv, NeverDoubleClaimed, NothingGarbled
  <2>7. ASSUME NEW t \in Tasks, Readable(t)', files'[t].lane = NoLane
        PROVE  Unclaimed(t)'
    BY <2>3, <2>5, <2>7 DEF SerialInv, Readable, Unreadable, Unclaimed
  <2> QED BY <2>1, <2>2, <2>3, <2>4, <2>5, <2>6, <2>7 DEF SerialInv, Unclaimed
<1>4. ASSUME NEW p \in Procs, FillFile(p)
      PROVE  SerialInv'
  <2>1. edit[p] \in Edit /\ ~Idle(p)
    BY <1>4, OpenEditIsEdit DEF FillFile
  <2>0. PICK t0 \in Tasks : t0 = edit[p].task
    BY <2>1 DEF Edit
  <2>2. /\ t0 \in Tasks /\ edit[p].record \in TaskRecord
        /\ edit[p].kind \in {"create", "claim", "update"}
    BY <2>1 DEF Edit
  <2>3. files[t0] = Truncated
    BY <1>4, <2>0, <2>1 DEF FillFile, SerialInv
  <2>4. files' = [files EXCEPT ![t0] = edit[p].record]
    BY <1>4, <2>0, <2>3 DEF FillFile
  <2>5. \A q \in Procs : Idle(q)'
    <3>1. Idle(p)'
      BY <1>4 DEF FillFile, Idle, TypeOK
    <3> QED BY <3>1 DEF OneProcess
  <2>6. /\ grants' = IF edit[p].kind = "claim" THEN [grants EXCEPT ![t0] = @ + 1] ELSE grants
        /\ creates' = IF edit[p].kind = "create" THEN [creates EXCEPT ![t0] = @ + 1]
                                                 ELSE creates
    BY <1>4, <2>0 DEF FillFile
  <2>7. \A t \in Tasks \ {t0} : grants'[t] = grants[t] /\ creates'[t] = creates[t]
    BY <2>6 DEF TypeOK
  <2>8. /\ grants'[t0] <= creates'[t0]
        /\ edit[p].record.lane = NoLane => Unclaimed(t0)'
    <3>0. grants[t0] \in Nat /\ creates[t0] \in Nat /\ grants[t0] <= creates[t0]
      BY <2>2 DEF TypeOK, SerialInv, NeverDoubleClaimed
    <3>1. CASE edit[p].kind = "claim"
      <4>1. grants'[t0] = grants[t0] + 1 /\ creates'[t0] = creates[t0]
        BY <2>2, <2>6, <3>1 DEF TypeOK
      <4>2. grants[t0] < creates[t0] /\ edit[p].record.lane # NoLane
        BY <2>0, <2>1, <3>1 DEF SerialInv, Unclaimed
      <4> QED BY <3>0, <4>1, <4>2
    <3>2. CASE edit[p].kind = "create"
      <4>1. grants'[t0] = grants[t0] /\ creates'[t0] = creates[t0] + 1
        BY <2>2, <2>6, <3>2 DEF TypeOK
      <4> QED BY <3>0, <4>1 DEF Unclaimed
    <3>3. CASE edit[p].kind = "update"
      <4>1. grants'[t0] = grants[t0] /\ creates'[t0] = creates[t0]
        BY <2>2, <2>6, <3>3
      <4>2. edit[p].record.lane = NoLane => Unclaimed(t0)
        BY <2>0, <2>1, <3>3 DEF SerialInv
      <4> QED BY <3>0, <4>1, <4>2 DEF Unclaimed
    <3> QED BY <2>2, <3>1, <3>2, <3>3
  <2>9. NeverDoubleClaimed'
    BY <2>7, <2>8 DEF SerialInv, NeverDoubleClaimed
  <2>10. NothingGarbled'
    BY <2>2, <2>4, FilesAreDistinct DEF SerialInv, NothingGarbled, TypeOK
  <2>11. ASSUME NEW t \in Tasks, Readable(t)', files'[t].lane = NoLane
         PROVE  Unclaimed(t)'
    <3>1. CASE t = t0
      BY <2>2, <2>4, <2>8, <2>11, <3>1 DEF TypeOK
    <3>2. CASE t # t0
      BY <2>4, <2>7, <2>11, <3>2 DEF SerialInv, Readable, TypeOK, Unclaimed
    <3> QED BY <3>1, <3>2
  <2> QED BY <2>5, <2>9, <2>10, <2>11 DEF SerialInv
<1>5. ASSUME NEW p \in Procs, Crash(p)
      PROVE  SerialInv'
  <2>1. \A q \in Procs : Idle(q)'
    <3>1. Idle(p)'
      BY <1>5 DEF Crash, Idle, TypeOK
    <3> QED BY <3>1 DEF OneProcess
  <2> QED BY <1>5, <2>1
          DEF Crash, SerialInv, NeverDoubleClaimed, NothingGarbled, Readable, Unclaimed
<1> QED BY <1>1, <1>2, <1>3, <1>4, <1>5, NextCases

LEMMA SerialInvariant == ASSUME OneProcess PROVE Spec => []SerialInv
<1>1. Init => SerialInv
  BY FilesAreDistinct
  DEF Init, SerialInv, NeverDoubleClaimed, NothingGarbled, Readable, Unreadable, Idle
<1>2. TypeOK /\ SerialInv /\ [Next]_vars => SerialInv'
  BY SerialStep
<1> QED BY <1>1, <1>2, TypeCorrect, PTL DEF Spec

\* Used by one process at a time, the registry never grants two claims for one
\* record, crashes in the middle of an operation included.
THEOREM NeverDoubleClaimedAlone == ASSUME OneProcess PROVE Spec => []NeverDoubleClaimed
<1>1. SerialInv => NeverDoubleClaimed
  BY DEF SerialInv
<1> QED BY <1>1, SerialInvariant, PTL
-----------------------------------------------------------------------------
\* The registry implements the ledger when one process at a time uses it.  What
\* it takes, beyond SerialInv: an operation that has been checked is still right
\* about the file it is going to replace.
EditsAreCurrent ==
    \A p \in Procs :
        ~Idle(p) /\ edit[p].stage = "checked"
            => Opened(p, edit[p].task, edit[p].record, edit[p].kind)

LEMMA CurrentStep ==
    ASSUME OneProcess, TypeOK, EditsAreCurrent, [Next]_vars
    PROVE  EditsAreCurrent'
<1>1. CASE UNCHANGED vars
  BY <1>1 DEF EditsAreCurrent, vars, Readable, Idle, Opened
<1>2. ASSUME NEW p \in Procs, NEW t \in Tasks, NEW record, NEW kind, Idle(p),
             Opened(p, t, record, kind), WillWrite(p, t, record, kind)
      PROVE  EditsAreCurrent'
  <2>1. edit'[p] = [task |-> t, record |-> record, kind |-> kind, stage |-> "checked"]
    BY <1>2 DEF WillWrite, TypeOK
  <2>2. \A q \in Procs : q = p
    BY DEF OneProcess
  <2>3. files' = files
    BY <1>2 DEF WillWrite
  <2> QED BY <1>2, <2>1, <2>2, <2>3 DEF EditsAreCurrent, Opened, Readable
<1>3. ASSUME NEW p \in Procs, TruncateFile(p)
      PROVE  EditsAreCurrent'
  <2>1. edit'[p].stage = "truncated"
    <3>1. edit[p] \in Edit
      BY <1>3, OpenEditIsEdit DEF TruncateFile
    <3> QED BY <1>3, <3>1 DEF TruncateFile, TypeOK, Edit
  <2>2. \A q \in Procs : q = p
    BY DEF OneProcess
  <2> QED BY <2>1, <2>2 DEF EditsAreCurrent
<1>4. ASSUME NEW p \in Procs, FillFile(p) \/ Crash(p)
      PROVE  EditsAreCurrent'
  <2>1. Idle(p)'
    BY <1>4 DEF FillFile, Crash, Idle, TypeOK
  <2>2. \A q \in Procs : q = p
    BY DEF OneProcess
  <2> QED BY <2>1, <2>2 DEF EditsAreCurrent
<1> QED BY <1>1, <1>2, <1>3, <1>4, NextCases

\* The entries the ledger sees.
LedgerNow == [t \in Tasks |-> LedgerEntry(t)]

LEMMA EntriesAreEntered ==
    ASSUME NEW record \in TaskRecord
    PROVE  /\ EntryOf(record) \notin Unreadable
           /\ EntryOf(record).status = record.status /\ EntryOf(record).lane = record.lane
           /\ record \notin Unreadable
  BY EntriesAreNotFiles, FilesAreDistinct DEF EntryOf, TaskRecord, Unreadable

\* Without an edit between truncation and fill the ledger is what is on disk ...
LEMMA QuietEntry ==
    ASSUME NEW t \in Tasks, \A p \in Procs : Idle(p) \/ edit[p].stage # "truncated"
    PROVE  LedgerEntry(t) = IF files[t] \in Unreadable THEN files[t] ELSE EntryOf(files[t])
  BY DEF LedgerEntry, WriterOf

\* ... and with one it is that, except for the record on its way.
LEMMA PendingEntry ==
    ASSUME OneProcess, NEW p \in Procs, NEW t \in Tasks, ~Idle(p),
           edit[p].stage = "truncated"
    PROVE  LedgerEntry(t) =
              IF t = edit[p].task THEN EntryOf(edit[p].record)
              ELSE IF files[t] \in Unreadable THEN files[t] ELSE EntryOf(files[t])
<1>1. \A q \in Procs : q = p
  BY DEF OneProcess
<1>2. CASE t = edit[p].task
  <2>1. WriterOf(t) = {p}
    BY <1>1, <1>2 DEF WriterOf
  <2>2. (CHOOSE q \in WriterOf(t) : TRUE) = p
    BY <2>1
  <2> QED BY <1>2, <2>1, <2>2 DEF LedgerEntry
<1>3. CASE t # edit[p].task
  <2>1. WriterOf(t) = {}
    BY <1>1, <1>3 DEF WriterOf
  <2> QED BY <1>3, <2>1 DEF LedgerEntry
<1> QED BY <1>2, <1>3

LEMMA LedgerStep ==
    ASSUME OneProcess, TypeOK, SerialInv, EditsAreCurrent, [Next]_vars
    PROVE  Ledger!LedgerNext \/ LedgerNow' = LedgerNow
<1> USE DEF LedgerNow
<1>1. CASE UNCHANGED vars
  BY <1>1 DEF vars, LedgerEntry, WriterOf, Idle
<1>2. ASSUME NEW p \in Procs, NEW t \in Tasks, NEW record, NEW kind, Idle(p),
             WillWrite(p, t, record, kind)
      PROVE  LedgerNow' = LedgerNow
  <2>1. \A q \in Procs : q = p
    BY DEF OneProcess
  <2>2. edit'[p].stage = "checked" /\ files' = files
    BY <1>2 DEF WillWrite, TypeOK
  <2>3. \A u \in Tasks : WriterOf(u) = {} /\ WriterOf(u)' = {}
    BY <1>2, <2>1, <2>2 DEF WriterOf, Idle
  <2> QED BY <2>2, <2>3 DEF LedgerEntry
<1>3. ASSUME NEW p \in Procs, TruncateFile(p)
      PROVE  Ledger!LedgerNext \/ LedgerNow' = LedgerNow
  <2>0. PICK t \in Tasks : t = edit[p].task
    BY <1>3, OpenEditIsEdit DEF TruncateFile, Edit
  <2> DEFINE record == edit[p].record
  <2>1. edit[p] \in Edit /\ ~Idle(p) /\ edit[p].stage = "checked"
    BY <1>3, OpenEditIsEdit DEF TruncateFile
  <2>2. /\ edit'[p].task = t /\ edit'[p].record = record /\ edit'[p].stage = "truncated"
        /\ edit'[p] \in Edit
        /\ \A u \in Tasks : u # t => files'[u] = files[u]
    BY <1>3, <2>0, <2>1 DEF TruncateFile, TypeOK, Edit
  <2>3. \A q \in Procs : q = p
    BY DEF OneProcess
  <2>4. \A u \in Tasks :
           LedgerEntry(u) = IF files[u] \in Unreadable THEN files[u] ELSE EntryOf(files[u])
    BY <2>1, <2>3, QuietEntry
  <2>5. WriterOf(t)' = {p} /\ \A u \in Tasks : u # t => WriterOf(u)' = {}
    BY <2>2, <2>3, NoEditIsNoEdit DEF WriterOf, Idle
  <2>6. LedgerEntry(t)' = EntryOf(record)
    <3>1. (CHOOSE q \in WriterOf(t)' : TRUE) = p
      BY <2>5
    <3> QED BY <2>2, <2>5, <3>1 DEF LedgerEntry, EntryOf
  <2>7. \A u \in Tasks : u # t => LedgerEntry(u)' = LedgerEntry(u)
    BY <2>2, <2>4, <2>5 DEF LedgerEntry, EntryOf
  <2>8. LedgerNow' = [LedgerNow EXCEPT ![t] = EntryOf(record)]
    BY <2>6, <2>7
  <2>9. record \in TaskRecord
    BY <2>1 DEF Edit
  <2>10. Opened(p, t, record, edit[p].kind)
    BY <2>0, <2>1 DEF EditsAreCurrent
  <2>11. ASSUME Readable(t)
         PROVE  /\ files[t] \in TaskRecord
                /\ LedgerNow[t] = EntryOf(files[t])
                /\ EntryOf(files[t]) \notin Unreadable
    <3>1. files[t] \in TaskRecord
      BY <2>11, ReadableIsRecord
    <3> QED BY <2>4, <2>11, <3>1, EntriesAreEntered DEF Readable
  <2>12. CASE record.status \in {"Queued", "Ready", "Blocked"} /\ record.lane = NoLane
    BY <2>8, <2>12 DEF Ledger!LedgerNext, Ledger!Enter, EntryOf
  <2>13. CASE /\ Readable(t)
              /\ files[t].status = "Ready" /\ files[t].lane = NoLane
              /\ record.status = "Running" /\ record.lane \in Lanes
    <3>1. LedgerNow[t] = [status |-> "Ready", lane |-> NoLane]
      BY <2>11, <2>13 DEF EntryOf
    <3>2. EntryOf(record) = [status |-> "Running", lane |-> record.lane]
      BY <2>13 DEF EntryOf
    <3>3. Ledger!Claim(t)
      BY <2>8, <2>13, <3>1, <3>2 DEF Ledger!Claim
    <3> QED BY <3>3 DEF Ledger!LedgerNext
  <2>14. CASE /\ Readable(t)
              /\ record.lane = files[t].lane
              /\ record.status = files[t].status
    <3>1. EntryOf(record) = LedgerNow[t]
      BY <2>11, <2>14 DEF EntryOf
    <3> QED BY <2>8, <3>1
  <2>15. CASE /\ Readable(t)
              /\ record.lane = files[t].lane
              /\ record.status \in TaskSuccessors[files[t].status] \ {"Running"}
    <3>1. /\ LedgerNow[t].status = files[t].status
          /\ LedgerNow[t].lane = files[t].lane
          /\ Ledger!Entered(t)
      BY <2>11, <2>15, EntriesAreEntered DEF EntryOf, Ledger!Entered, Unreadable
    <3>2. EntryOf(record) = [status |-> record.status, lane |-> LedgerNow[t].lane]
      BY <2>15, <3>1 DEF EntryOf
    <3>3. Ledger!Move(t)
      BY <2>8, <2>15, <3>1, <3>2 DEF Ledger!Move, TaskSuccessors, Ledger!TaskSuccessors
    <3> QED BY <3>3 DEF Ledger!LedgerNext
  <2> QED BY <2>10, <2>12, <2>13, <2>14, <2>15 DEF Opened
<1>4. ASSUME NEW p \in Procs, FillFile(p)
      PROVE  LedgerNow' = LedgerNow
  <2>0. PICK t \in Tasks : t = edit[p].task
    BY <1>4, OpenEditIsEdit DEF FillFile, Edit
  <2>1. edit[p] \in Edit /\ ~Idle(p) /\ edit[p].stage = "truncated"
    BY <1>4, OpenEditIsEdit DEF FillFile
  <2>2. files[t] = Truncated
    BY <2>0, <2>1 DEF SerialInv
  <2>3. files' = [files EXCEPT ![t] = edit[p].record]
    BY <1>4, <2>0, <2>2 DEF FillFile
  <2>4. \A q \in Procs : q = p
    BY DEF OneProcess
  <2>5. \A u \in Tasks : WriterOf(u)' = {}
    <3>1. Idle(p)'
      BY <1>4 DEF FillFile, Idle, TypeOK
    <3> QED BY <2>4, <3>1 DEF WriterOf
  <2>6. \A u \in Tasks :
           LedgerEntry(u) = IF u = t THEN EntryOf(edit[p].record)
                            ELSE IF files[u] \in Unreadable THEN files[u]
                            ELSE EntryOf(files[u])
    BY <2>0, <2>1, PendingEntry
  <2>7. edit[p].record \in TaskRecord
    BY <2>1 DEF Edit
  <2>8. \A u \in Tasks : LedgerEntry(u)' = LedgerEntry(u)
    BY <2>3, <2>5, <2>6, <2>7, EntriesAreEntered DEF LedgerEntry, EntryOf, TypeOK, Unreadable
  <2> QED BY <2>8
<1>5. ASSUME NEW p \in Procs, Crash(p)
      PROVE  Ledger!LedgerNext \/ LedgerNow' = LedgerNow
  <2>0. PICK t \in Tasks : t = edit[p].task
    BY <1>5, OpenEditIsEdit DEF Crash, Edit
  <2>1. edit[p] \in Edit /\ ~Idle(p) /\ files' = files
    BY <1>5, OpenEditIsEdit DEF Crash
  <2>2. \A q \in Procs : q = p
    BY DEF OneProcess
  <2>3. \A u \in Tasks : WriterOf(u)' = {}
    <3>1. Idle(p)'
      BY <1>5 DEF Crash, Idle, TypeOK
    <3> QED BY <2>2, <3>1 DEF WriterOf
  <2>4. \A u \in Tasks :
           LedgerEntry(u)' = IF files[u] \in Unreadable THEN files[u] ELSE EntryOf(files[u])
    BY <2>1, <2>3 DEF LedgerEntry, EntryOf
  <2>5. CASE edit[p].stage # "truncated"
    <3>1. \A u \in Tasks :
             LedgerEntry(u) = IF files[u] \in Unreadable THEN files[u] ELSE EntryOf(files[u])
      BY <2>2, <2>5, QuietEntry
    <3> QED BY <2>4, <3>1
  <2>6. CASE edit[p].stage = "truncated"
    <3>1. \A u \in Tasks :
             LedgerEntry(u) = IF u = t THEN EntryOf(edit[p].record)
                              ELSE IF files[u] \in Unreadable THEN files[u]
                              ELSE EntryOf(files[u])
      BY <2>0, <2>1, <2>6, PendingEntry
    <3>2. files[t] = Truncated
      BY <2>0, <2>1, <2>6 DEF SerialInv
    <3>3. LedgerNow' = [LedgerNow EXCEPT ![t] = Truncated]
      BY <2>4, <3>1, <3>2 DEF Unreadable
    <3>4. Ledger!Entered(t)
      BY <2>1, <3>1, EntriesAreEntered DEF Ledger!Entered, Edit, Unreadable
    <3>5. Ledger!Lose(t)
      BY <3>3, <3>4 DEF Ledger!Lose
    <3> QED BY <3>5 DEF Ledger!LedgerNext
  <2> QED BY <2>5, <2>6
<1> QED BY <1>1, <1>2, <1>3, <1>4, <1>5, NextCases

\* Used by one process at a time, the three steps of an operation look like one
\* step of the ledger, and a crash loses at most the entry under the pen.
THEOREM RegistryImplementsLedger == ASSUME OneProcess PROVE Spec => ImplementsLedger
<1>1. Init => EditsAreCurrent
  BY DEF Init, EditsAreCurrent, Idle
<1>2. Init => Ledger!LedgerInit
  BY DEF Init, Ledger!LedgerInit, LedgerEntry, WriterOf, Idle, Unreadable
<1>3. TypeOK /\ EditsAreCurrent /\ [Next]_vars => EditsAreCurrent'
  BY CurrentStep
<1>4. TypeOK /\ SerialInv /\ EditsAreCurrent /\ [Next]_vars
        => [Ledger!LedgerNext]_([t \in Tasks |-> LedgerEntry(t)])
  BY LedgerStep DEF LedgerNow
<1> QED BY <1>1, <1>2, <1>3, <1>4, TypeCorrect, SerialInvariant, PTL
        DEF Spec, ImplementsLedger, Ledger!LedgerSpec
=============================================================================
