------------------------------ MODULE LaneLease -------------------------------
(***************************************************************************)
(* What the worktree allocator promises the runs: a lane is taken by one   *)
(* run at a time.  The run gives it back, or leaves it behind taken, and a *)
(* lane that was left can only be reclaimed, never taken over.  A lane     *)
(* that nobody could acquire may be lost: taken, and in nobody's hands.    *)
(***************************************************************************)
CONSTANTS Lanes, Runs

VARIABLES
    taken,    \* the lanes nobody can acquire
    holders   \* the runs that have each lane

lease == <<taken, holders>>

LeaseInit == taken = {} /\ holders = [l \in Lanes |-> {}]

Acquire(r, l) ==
    /\ l \notin taken
    /\ taken' = taken \cup {l}
    /\ holders' = [holders EXCEPT ![l] = {r}]

Lose(l) ==
    /\ l \notin taken
    /\ taken' = taken \cup {l}
    /\ UNCHANGED holders

GiveBack(l) ==
    /\ holders[l] # {}
    /\ taken' = taken \ {l}
    /\ holders' = [holders EXCEPT ![l] = {}]

Leave(l) ==
    /\ holders[l] # {}
    /\ holders' = [holders EXCEPT ![l] = {}]
    /\ UNCHANGED taken

Reclaim(l) ==
    /\ l \in taken /\ holders[l] = {}
    /\ taken' = taken \ {l}
    /\ UNCHANGED holders

LeaseNext ==
    \E l \in Lanes :
        \/ Lose(l) \/ GiveBack(l) \/ Leave(l) \/ Reclaim(l)
        \/ \E r \in Runs : Acquire(r, l)

LeaseSpec == LeaseInit /\ [][LeaseNext]_lease
=============================================================================
