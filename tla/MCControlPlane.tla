---------------------------- MODULE MCControlPlane ----------------------------
(* An instance of ControlPlane: three projects with a task each, ingested, the *)
(* second depending on the first.  One task may not exist at first; what is    *)
(* queued comes from the operator.  The limits of a stress run are one smaller *)
(* than in the code, so that its third lane is refused if all three tasks      *)
(* exist.  The rules that decide without a state are checked along with it, as *)
(* the assumptions of the last two modules.                                    *)
EXTENDS ControlPlane, AdapterChecks, TaskChecks, TLC

CONSTANTS t1, t2, t3, p1, p2, p3, lane1, lane10, issue

ThreeProjects == <<p1, p2, p3>>
RankInOrder  == t1 :> 1 @@ t2 :> 2 @@ t3 :> 3
OneTaskEach  == t1 :> p1 @@ t2 :> p2 @@ t3 :> p3
SecondNeedsFirst == [t \in Tasks |-> IF t = t2 THEN {t1} ELSE {}]
SomeTitles   == [t \in Tasks |-> IF t = t1 THEN {"word", "secret_path"}
                                 ELSE IF t = t2 THEN {"email", "word"} ELSE {"word"}]
OneCallerCard == [t \in Tasks |-> IF t = t3 THEN {{issue}} ELSE {}]
ReadyOnly    == {NewRecord("Ready", "Ready", 1)}
StressSymmetry == Permutations(StressRuns)
OnePrefix    == {<<lane1, lane10>>}

ASSUME IdsDifferHere == BoardIdsDiffer
=============================================================================
