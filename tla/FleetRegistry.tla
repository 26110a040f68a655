---------------------------- MODULE FleetRegistry ----------------------------
(***************************************************************************)
(* HepaFleetRegistry: one JSON file per task, shared by every hepa process *)
(* on the machine and guarded by no lock.  Each operation reads the file,  *)
(* tests the record it read, and writes a record back; the write is        *)
(* fs::write, which truncates the file and then fills it.  So an operation *)
(* is three steps of its process: a check (which fixes the record that     *)
(* will be written), a truncation and a fill.                              *)
(*                                                                         *)
(* Claims granted and records created are counted in history variables, to *)
(* state what "a task can never be double-claimed" means.                  *)
(***************************************************************************)
EXTENDS TaskRecords, Naturals

CONSTANTS
    Procs,       \* hepa processes that may hold an operation open
    Tasks,       \* task ids
    Absent,      \* no file
    Truncated,   \* an empty file: opened by fs::write, not yet filled
    Garbled,     \* the remains of two overlapping writes
    NoEdit,      \* the process has no operation open
    MaxClaims,   \* bound: claims granted per task
    MaxCreates,  \* bound: records created per task
    MaxCrashes   \* bound: processes lost between two of their steps

ASSUME FilesAreDistinct ==
    /\ {Absent, Truncated, Garbled} \cap TaskRecord = {}
    /\ Absent # Truncated /\ Absent # Garbled /\ Truncated # Garbled

ASSUME BoundsAreNats == MaxClaims \in Nat /\ MaxCreates \in Nat /\ MaxCrashes \in Nat

VARIABLES
    files,    \* the task files
    edit,     \* the operation each process has open
    grants,   \* history: claims that returned Ok, per task
    creates,  \* history: records created, per task
    crashes   \* history: processes lost

vars == <<files, edit, grants, creates, crashes>>

Unreadable == {Absent, Truncated, Garbled}
Readable(t) == files[t] \notin Unreadable

Edit == [ task : Tasks, record : TaskRecord, kind : {"create", "claim", "update"},
          stage : {"checked", "truncated"} ]

ASSUME NoEditIsNoEdit == NoEdit \notin Edit

ASSUME EntriesAreNotFiles ==
    Unreadable \cap [status : TaskStatus, lane : Lanes \cup {NoLane}] = {}

TypeOK ==
    /\ files \in [Tasks -> TaskRecord \cup Unreadable]
    /\ edit \in [Procs -> Edit \cup {NoEdit}]
    /\ grants \in [Tasks -> Nat]
    /\ creates \in [Tasks -> Nat]
    /\ crashes \in Nat

Init ==
    /\ files = [t \in Tasks |-> Absent]
    /\ edit = [p \in Procs |-> NoEdit]
    /\ grants = [t \in Tasks |-> 0]
    /\ creates = [t \in Tasks |-> 0]
    /\ crashes = 0

Idle(p) == edit[p] = NoEdit

\* Process p has read and tested task t's record and will write `record`.
WillWrite(p, t, record, kind) ==
    /\ edit' = [edit EXCEPT ![p] =
                  [task |-> t, record |-> record, kind |-> kind, stage |-> "checked"]]
    /\ UNCHANGED <<files, grants, creates, crashes>>
-----------------------------------------------------------------------------
\* create_task reads nothing: it replaces whatever record is there.
CreateTask(p, t, record) ==
    /\ Idle(p)
    /\ creates[t] < MaxCreates
    /\ WillWrite(p, t, record, "create")

\* require_task on an unreadable file is an error and leaves no trace.
SetTaskStatus(p, t, status) ==
    /\ Idle(p)
    /\ Readable(t)
    /\ CanSetStatus(files[t], status)
    /\ WillWrite(p, t, WithStatus(files[t], status), "update")

BlockTask(p, t)    == SetTaskStatus(p, t, "Blocked")
CancelTask(p, t)   == SetTaskStatus(p, t, "Cancelled")
ResumeTask(p, t)   == SetTaskStatus(p, t, "Queued")
CompleteTask(p, t) == SetTaskStatus(p, t, "Completed")

PrioritizeTask(p, t, priority) ==
    /\ Idle(p)
    /\ Readable(t)
    /\ CanPrioritize(files[t])
    /\ WillWrite(p, t, WithPriority(files[t], priority), "update")

SetTaskReadiness(p, t, readiness) ==
    /\ Idle(p)
    /\ Readable(t)
    /\ WillWrite(p, t, WithReadiness(files[t], readiness), "update")

MarkTaskReady(p, t) ==
    /\ Idle(p)
    /\ Readable(t)
    /\ CanMarkReady(files[t])
    /\ WillWrite(p, t, MarkedReady(files[t]), "update")

ClaimTaskIntoLane(p, t, lane) ==
    /\ Idle(p)
    /\ grants[t] < MaxClaims
    /\ Readable(t)
    /\ CanClaim(files[t])
    /\ WillWrite(p, t, Claimed(files[t], lane), "claim")
-----------------------------------------------------------------------------
\* fs::write opens the file with truncation ...
TruncateFile(p) ==
    /\ ~Idle(p)
    /\ edit[p].stage = "checked"
    /\ files' = [files EXCEPT ![edit[p].task] = Truncated]
    /\ edit' = [edit EXCEPT ![p].stage = "truncated"]
    /\ UNCHANGED <<grants, creates, crashes>>

\* Mutant of FillFile: a write that fails is taken for one that succeeded.
FillOrIgnore(p) ==
    /\ ~Idle(p)
    /\ edit[p].stage = "truncated"
    /\ \E content \in {edit[p].record, Truncated} :
          files' = [files EXCEPT ![edit[p].task] = content]
    /\ edit' = [edit EXCEPT ![p] = NoEdit]
    /\ UNCHANGED <<grants, creates, crashes>>

\* ... and fills it from offset zero.  If another process filled the file
\* since, the result is the new record when it is the longer text, and the new
\* record followed by the tail of the old one when it is the shorter.
FillFile(p) ==
    /\ ~Idle(p)
    /\ edit[p].stage = "truncated"
    /\ LET t == edit[p].task IN
       /\ \E content \in IF files[t] = Truncated THEN {edit[p].record}
                                                  ELSE {edit[p].record, Garbled} :
             files' = [files EXCEPT ![t] = content]
       /\ grants' = IF edit[p].kind = "claim" THEN [grants EXCEPT ![t] = @ + 1]
                                              ELSE grants
       /\ creates' = IF edit[p].kind = "create" THEN [creates EXCEPT ![t] = @ + 1]
                                                ELSE creates
    /\ edit' = [edit EXCEPT ![p] = NoEdit]
    /\ UNCHANGED crashes

\* The process dies, or the write fails, with an operation open.
Crash(p) ==
    /\ ~Idle(p)
    /\ crashes < MaxCrashes
    /\ edit' = [edit EXCEPT ![p] = NoEdit]
    /\ crashes' = crashes + 1
    /\ UNCHANGED <<files, grants, creates>>

Next ==
    \E p \in Procs :
        \/ \E t \in Tasks :
              \/ \E record \in NewTaskRecords : CreateTask(p, t, record)
              \/ BlockTask(p, t)
              \/ CancelTask(p, t)
              \/ ResumeTask(p, t)
              \/ CompleteTask(p, t)
              \/ \E priority \in Priorities : PrioritizeTask(p, t, priority)
              \/ \E readiness \in ReadinessState : SetTaskReadiness(p, t, readiness)
              \/ MarkTaskReady(p, t)
              \/ \E lane \in Lanes : ClaimTaskIntoLane(p, t, lane)
        \/ TruncateFile(p)
        \/ FillFile(p)
        \/ Crash(p)

Spec == Init /\ [][Next]_vars
-----------------------------------------------------------------------------
\* A running or completed task is in a lane, whatever order the operations
\* of the processes take: no interleaving of read, test and write loses the
\* lane and keeps the status (claim_task_into_lane, complete_task).
RunningTaskHoldsLane ==
    \A t \in Tasks :
        Readable(t) /\ files[t].status \in {"Running", "Completed"}
            => files[t].lane # NoLane

\* A lane on disk was given out by a claim that returned Ok: no operation but
\* claim_task_into_lane invents one, even when it writes a stale record back.
LaneWasGranted ==
    \A t \in Tasks : Readable(t) /\ files[t].lane # NoLane => grants[t] > 0

\* An empty task file is one that some process is about to fill, or one that a
\* process died on (write_stable_json); it is never the result of an operation.
EmptyFileHasWriter ==
    \A t \in Tasks :
        files[t] = Truncated =>
            \/ crashes > 0
            \/ \E p \in Procs : /\ ~Idle(p)
                                /\ edit[p].task = t
                                /\ edit[p].stage = "truncated"

\* "the second claim attempt fails, so a task can never be double-claimed"
\* (claim_task_into_lane): each record created is claimed at most once.
NeverDoubleClaimed == \A t \in Tasks : grants[t] <= creates[t]

\* One process at a time: what the registry promises then is TaskLedger.  The
\* entry of a task changes when its file is truncated: from then on the old
\* record is gone and the new one is on its way.
EntryOf(record) == [status |-> record.status, lane |-> record.lane]

WriterOf(t) == {p \in Procs : /\ ~Idle(p)
                              /\ edit[p].task = t
                              /\ edit[p].stage = "truncated"}

LedgerEntry(t) ==
    IF WriterOf(t) # {} THEN EntryOf(edit[CHOOSE p \in WriterOf(t) : TRUE].record)
    ELSE IF files[t] \in Unreadable THEN files[t]
    ELSE EntryOf(files[t])

Ledger == INSTANCE TaskLedger WITH
              ledger <- [t \in Tasks |-> LedgerEntry(t)],
              Lost   <- Truncated

\* The registry used by one process at a time implements the ledger: terminal
\* entries stay, a claim needs a ready entry without a lane, a lane is kept.
ImplementsLedger == Ledger!LedgerSpec
=============================================================================
