--------------------------- MODULE MCFleetRegistry ---------------------------
(* Model values and symmetry for the runs of FleetRegistry. *)
EXTENDS FleetRegistry, TLC

CONSTANTS p1, p2, t1, t2, l1, l2

ProcSymmetry == Permutations(Procs) \cup Permutations(Lanes)
=============================================================================
