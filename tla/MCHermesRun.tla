----------------------------- MODULE MCHermesRun -----------------------------
(* Instances of HermesRun: two tasks, the second depending on the first; run  *)
(* by priority (run-ready) or asked for by card (run-cards).                  *)
EXTENDS HermesRun, TLC

CONSTANTS t1, t2

SecondNeedsFirst == [t \in Tasks |-> IF t = t2 THEN {t1} ELSE {}]
Independent      == [t \in Tasks |-> {}]
ReadyOrBoth      == {{}, Tasks}

RunSymmetry == Permutations(Runs) \cup Permutations(Lanes)
=============================================================================
