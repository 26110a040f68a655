------------------------------ MODULE Worktrees -------------------------------
(***************************************************************************)
(* HepaWorktreeAllocator: the worktrees of the lanes of one repository.    *)
(* A lane has a directory, a branch hepa/manager/<lane> and, inside the    *)
(* directory, a metadata file.  Runs allocate a lane, let a worker work in *)
(* it and clean it up; a janitor marks lanes stale and prunes them.        *)
(* Every git command and every effect of fs::write is a step, and any of   *)
(* them may fail.                                                          *)
(*                                                                         *)
(* The runs are `hepa run`, `run-interactive`, live and stress runs.  No   *)
(* command marks or prunes yet: the janitor is whoever calls the two       *)
(* methods, and is taken to know, as the fleet monitor would, which lanes  *)
(* have a run at work.                                                     *)
(*                                                                         *)
(* Abstracted: what a tree holds, the base commit, timestamps (whether a   *)
(* stale lane is due is decided when prune asks), lane ids that are no     *)
(* file names.                                                             *)
(***************************************************************************)
EXTENDS Naturals

CONSTANTS
    Lanes,        \* lane ids
    NoLane,       \* a process that is at no lane
    Runs,         \* processes that allocate lanes
    Janitors,     \* processes that mark and prune
    MaxFailures   \* bound: calls that fail, processes that are killed

ASSUME NoLaneIsNoLane == NoLane \notin Lanes
ASSUME RunsAreNoJanitors == Runs \cap Janitors = {}
ASSUME MaxFailuresIsNat == MaxFailures \in Nat

VARIABLES
    repo,     \* the user's checkout: clean or dirty
    branch,   \* the lanes whose branch exists
    tree,     \* the directory of each lane
    meta,     \* its metadata file
    op,       \* what each process is doing
    failures

vars == <<repo, branch, tree, meta, op, failures>>

CleanupStatus == {"Active", "Stale", "Cleaned"}

Step == {"idle", "status", "add", "write", "fill", "working",   \* allocate, work
         "read", "check", "clean", "cleaned", "remove", "delete",   \* clean up
         "mark", "marked", "prune"}

Op == [step : Step, lane : Lanes \cup {NoLane}, rest : SUBSET Lanes]

TypeOK ==
    /\ repo \in {"clean", "dirty"}
    /\ branch \subseteq Lanes
    /\ tree \in [Lanes -> {"absent", "clean", "dirty"}]
    /\ meta \in [Lanes -> {"none", "torn"} \cup CleanupStatus]
    /\ op \in [Runs \cup Janitors -> Op]
    /\ failures \in Nat

Idle == [step |-> "idle", lane |-> NoLane, rest |-> {}]

Init ==
    /\ repo = "clean"
    /\ branch = {}
    /\ tree = [l \in Lanes |-> "absent"]
    /\ meta = [l \in Lanes |-> "none"]
    /\ op = [p \in Runs \cup Janitors |-> Idle]
    /\ failures = 0
-----------------------------------------------------------------------------
At(p, step, l) == op[p].step = step /\ op[p].lane = l

GoTo(p, step) == op' = [op EXCEPT ![p].step = step]

Return(p) == op' = [op EXCEPT ![p] = Idle]

\* A call within prune_stale_leases that went well is followed by the next lane.
Done(p) ==
    op' = [op EXCEPT ![p] =
              IF @.rest = {} THEN Idle
                             ELSE [step |-> "prune", lane |-> NoLane, rest |-> @.rest]]

DiskUnchanged == UNCHANGED <<repo, branch, tree, meta>>

\* fs::write to the metadata file: the file is emptied, then filled.  It needs
\* the directory, but once it is open it does not miss it.
OpenMeta(p, l, next) ==
    IF tree[l] = "absent"
    THEN Return(p) /\ UNCHANGED meta
    ELSE meta' = [meta EXCEPT ![l] = "torn"] /\ GoTo(p, next)
FillMeta(l, status) ==
    meta' = IF tree[l] = "absent" THEN meta ELSE [meta EXCEPT ![l] = status]

Readable(l) == meta[l] \in CleanupStatus
-----------------------------------------------------------------------------
\* allocate_lane_with_metadata

\* worktree_path.exists()
CheckPath(p, l) ==
    /\ op[p].step = "idle"
    /\ tree[l] = "absent"
    /\ op' = [op EXCEPT ![p] = [step |-> "status", lane |-> l, rest |-> {}]]
    /\ DiskUnchanged /\ UNCHANGED failures

\* require_clean_tree
RequireCleanTree(p, l) ==
    /\ At(p, "status", l)
    /\ IF repo = "clean" THEN GoTo(p, "add") ELSE Return(p)
    /\ DiskUnchanged /\ UNCHANGED failures

\* Mutant of AddWorktree: the branch of the lane is made anew if it exists (-B).
AddWorktreeForced(p, l) ==
    /\ At(p, "add", l)
    /\ branch' = branch \cup {l}
    /\ tree' = [tree EXCEPT ![l] = "clean"]
    /\ GoTo(p, "write")
    /\ UNCHANGED <<repo, meta, failures>>

\* git worktree add -b: refused when the branch or the directory exists.
AddWorktree(p, l) ==
    /\ At(p, "add", l)
    /\ IF l \notin branch /\ tree[l] = "absent"
       THEN /\ branch' = branch \cup {l}
            /\ tree' = [tree EXCEPT ![l] = "clean"]
            /\ GoTo(p, "write")
       ELSE Return(p) /\ UNCHANGED <<branch, tree>>
    /\ UNCHANGED <<repo, meta, failures>>

\* git worktree add -b fails after it has made the branch: the branch is left
\* behind, without a worktree.
AddBranchOnly(p, l) ==
    /\ At(p, "add", l)
    /\ l \notin branch /\ tree[l] = "absent"
    /\ failures < MaxFailures
    /\ failures' = failures + 1
    /\ branch' = branch \cup {l}
    /\ Return(p)
    /\ UNCHANGED <<repo, tree, meta>>

\* write_metadata
WriteMetadata(p, l) ==
    /\ \/ At(p, "write", l) /\ OpenMeta(p, l, "fill")
       \/ At(p, "fill", l) /\ FillMeta(l, "Active") /\ GoTo(p, "working")
    /\ UNCHANGED <<repo, branch, tree, failures>>

\* The worker edits the tree; the manager commits, or cleans it.
Work(p, l) ==
    /\ At(p, "working", l)
    /\ tree[l] # "absent"
    /\ tree' = [tree EXCEPT ![l] = IF @ = "clean" THEN "dirty" ELSE "clean"]
    /\ UNCHANGED <<repo, branch, meta, op, failures>>

\* The run returns and leaves its worktree, as run-interactive always does.
LeaveWorktree(p, l) ==
    /\ At(p, "working", l)
    /\ Return(p)
    /\ DiskUnchanged /\ UNCHANGED failures
-----------------------------------------------------------------------------
\* cleanup_lane

StartCleanup(p, l) ==
    /\ At(p, "working", l)
    /\ GoTo(p, "read")
    /\ DiskUnchanged /\ UNCHANGED failures

ReadMetadata(p, l) ==
    /\ At(p, "read", l)
    /\ IF Readable(l) THEN GoTo(p, "check") ELSE Return(p)
    /\ DiskUnchanged /\ UNCHANGED failures

\* Mutant of CheckClean: the worktree is removed whatever it holds.
CheckPresent(p, l) ==
    /\ At(p, "check", l)
    /\ IF tree[l] # "absent" THEN GoTo(p, "clean") ELSE Return(p)
    /\ DiskUnchanged /\ UNCHANGED failures

\* Mutant of CheckClean: the refusal to clean is recorded in the metadata.
CheckAndRecord(p, l) ==
    /\ At(p, "check", l)
    /\ \/ tree[l] = "clean"  /\ GoTo(p, "clean") /\ UNCHANGED meta
       \/ tree[l] = "dirty"  /\ Done(p) /\ meta' = [meta EXCEPT ![l] = "PreservedDirty"]
       \/ tree[l] = "absent" /\ Return(p) /\ UNCHANGED meta
    /\ UNCHANGED <<repo, branch, tree, failures>>

\* worktree_is_clean_except_metadata; a dirty tree is preserved.
CheckClean(p, l) ==
    /\ At(p, "check", l)
    /\ IF tree[l] = "clean" THEN GoTo(p, "clean")
       ELSE IF tree[l] = "dirty" THEN Done(p) ELSE Return(p)
    /\ DiskUnchanged /\ UNCHANGED failures

WriteCleaned(p, l) ==
    /\ \/ At(p, "clean", l) /\ OpenMeta(p, l, "cleaned")
       \/ At(p, "cleaned", l) /\ FillMeta(l, "Cleaned") /\ GoTo(p, "remove")
    /\ UNCHANGED <<repo, branch, tree, failures>>

\* Mutant of RemoveWorktree: without --force git keeps a worktree that has an
\* untracked file, and the metadata file is one.
RemoveUnforced(p, l) ==
    /\ At(p, "remove", l)
    /\ Return(p)
    /\ DiskUnchanged /\ UNCHANGED failures

\* git worktree remove --force
RemoveWorktree(p, l) ==
    /\ At(p, "remove", l)
    /\ IF tree[l] # "absent"
       THEN /\ tree' = [tree EXCEPT ![l] = "absent"]
            /\ meta' = [meta EXCEPT ![l] = "none"]
            /\ GoTo(p, "delete")
       ELSE Return(p) /\ UNCHANGED <<tree, meta>>
    /\ UNCHANGED <<repo, branch, failures>>

\* git branch -D: refused for the branch of a worktree.
DeleteBranch(p, l) ==
    /\ At(p, "delete", l)
    /\ IF l \in branch /\ tree[l] = "absent"
       THEN branch' = branch \ {l} /\ Done(p)
       ELSE Return(p) /\ UNCHANGED branch
    /\ UNCHANGED <<repo, tree, meta, failures>>
-----------------------------------------------------------------------------
\* The runs at work on a lane: from `worktree add` to the end of their cleanup.
Holds(p, l) ==
    /\ op[p].lane = l
    /\ op[p].step \notin {"idle", "status", "add"}

Holders(l) == {r \in Runs : Holds(r, l)}

\* mark_lane_stale
MarkLaneStale(p, l) ==
    /\ \/ /\ op[p].step = "idle"
          /\ tree[l] # "absent" /\ Holders(l) = {}
          /\ Readable(l)
          /\ op' = [op EXCEPT ![p] = [step |-> "mark", lane |-> l, rest |-> {}]]
          /\ UNCHANGED meta
       \/ At(p, "mark", l) /\ OpenMeta(p, l, "marked")
       \/ At(p, "marked", l) /\ FillMeta(l, "Stale") /\ Return(p)
    /\ UNCHANGED <<repo, branch, tree, failures>>

\* prune_stale_leases: the directories there are, in no particular order
StartPrune(p) ==
    /\ op[p].step = "idle"
    /\ LET present == {l \in Lanes : tree[l] # "absent"} IN
       /\ present # {}
       /\ op' = [op EXCEPT ![p] = [step |-> "prune", lane |-> NoLane, rest |-> present]]
    /\ DiskUnchanged /\ UNCHANGED failures

Visited(p, l) == op[p].rest \ {l}

\* Mutant of PruneNext: any lane with readable metadata is prunable.
PruneAny(p, l) ==
    /\ op[p].step = "prune" /\ l \in op[p].rest
    /\ \/ /\ Readable(l)
          /\ op' = [op EXCEPT ![p] = [step |-> "read", lane |-> l, rest |-> Visited(p, l)]]
       \/ /\ meta[l] # "torn"
          /\ op' = [op EXCEPT ![p] = IF Visited(p, l) = {} THEN Idle
                                     ELSE [@ EXCEPT !.rest = Visited(p, l)]]
       \/ meta[l] = "torn" /\ Return(p)
    /\ DiskUnchanged /\ UNCHANGED failures

\* A lane without metadata is skipped, one whose metadata cannot be read ends
\* the call, one that is stale and due is cleaned up.
PruneNext(p, l) ==
    /\ op[p].step = "prune" /\ l \in op[p].rest
    /\ \/ /\ meta[l] = "Stale"
          /\ op' = [op EXCEPT ![p] = [step |-> "read", lane |-> l, rest |-> Visited(p, l)]]
       \/ /\ meta[l] # "torn"
          /\ op' = [op EXCEPT ![p] = IF Visited(p, l) = {} THEN Idle
                                     ELSE [@ EXCEPT !.rest = Visited(p, l)]]
       \/ meta[l] = "torn" /\ Return(p)
    /\ DiskUnchanged /\ UNCHANGED failures
-----------------------------------------------------------------------------
\* A call fails, or the process is killed: what it was doing ends there.
Fail(p) ==
    /\ op[p].step # "idle"
    /\ failures < MaxFailures
    /\ failures' = failures + 1
    /\ Return(p)
    /\ DiskUnchanged

UserEdits ==
    /\ repo' = IF repo = "clean" THEN "dirty" ELSE "clean"
    /\ UNCHANGED <<branch, tree, meta, op, failures>>

CleanupLane(p, l) ==
    \/ ReadMetadata(p, l) \/ CheckClean(p, l) \/ WriteCleaned(p, l)
    \/ RemoveWorktree(p, l) \/ DeleteBranch(p, l)

RunStep(p, l) ==
    \/ CheckPath(p, l) \/ RequireCleanTree(p, l)
    \/ AddWorktree(p, l) \/ AddBranchOnly(p, l) \/ WriteMetadata(p, l)
    \/ Work(p, l) \/ LeaveWorktree(p, l) \/ StartCleanup(p, l) \/ CleanupLane(p, l)

JanitorStep(p, l) == MarkLaneStale(p, l) \/ PruneNext(p, l) \/ CleanupLane(p, l)

Next ==
    \/ \E p \in Runs, l \in Lanes : RunStep(p, l)
    \/ \E p \in Janitors : StartPrune(p) \/ \E l \in Lanes : JanitorStep(p, l)
    \/ \E p \in Runs \cup Janitors : Fail(p)
    \/ UserEdits

Spec == Init /\ [][Next]_vars
-----------------------------------------------------------------------------
\* A lane has one run at work at most, and its branch and directory are taken
\* together, but for the branch of an allocation that failed: the allocator behaves as LaneLease, whatever fails on the way
\* (allocate_lane_with_metadata, cleanup_lane).
Lease == INSTANCE LaneLease WITH taken <- branch, holders <- [l \in Lanes |-> Holders(l)]

ImplementsLease == Lease!LeaseSpec

\* Work that is not committed outlives every cleanup and every prune
\* (PreservedDirty).
NoWorkDestroyed ==
    [][\A l \in Lanes : tree[l] = "dirty" => tree'[l] # "absent"]_vars

\* Nobody else touches the metadata of a lane whose worker is at work: it stays
\* active until the run itself cleans up, so no prune takes it
\* (prune_stale_leases, is_prunable_at).
LiveLaneIsActive ==
    \A p \in Runs, l \in Lanes : At(p, "working", l) => meta[l] = "Active"

\* What a run leaves, or a cleanup ends with, can be used again unless a call has
\* failed: a directory has metadata that a later cleanup or prune accepts, and
\* without a directory there is no branch to refuse the next allocation
\* (write_metadata; cleanup_lane: mark, remove, branch -D).
LeftLaneIsRecoverable ==
    failures = 0 =>
        \A l \in Lanes :
            (\A p \in Runs \cup Janitors : op[p].lane # l) =>
                IF tree[l] = "absent" THEN l \notin branch
                                      ELSE meta[l] \in {"Active", "Stale"}
=============================================================================
