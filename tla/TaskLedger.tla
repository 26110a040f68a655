----------------------------- MODULE TaskLedger ------------------------------
(***************************************************************************)
(* What the fleet registry promises its callers: a ledger with one entry   *)
(* per task whose status moves along the task lifecycle, whose lane is set *)
(* by exactly one claim and kept from then on.  An entry starts afresh     *)
(* only when its task is entered again, and can be lost (the file of a     *)
(* task does not survive a crash in the middle of its rewriting).          *)
(***************************************************************************)
EXTENDS HepaContracts

CONSTANTS Tasks, Lanes, NoLane, Absent, Lost

VARIABLE ledger

Entry == [status : TaskStatus, lane : Lanes \cup {NoLane}]

Entered(t) == ledger[t] \notin {Absent, Lost}

LedgerInit == ledger = [t \in Tasks |-> Absent]

Enter(t) ==
    \E status \in {"Queued", "Ready", "Blocked"} :
        ledger' = [ledger EXCEPT ![t] = [status |-> status, lane |-> NoLane]]

\* The only way into a lane, and into Running.
Claim(t) ==
    /\ ledger[t] = [status |-> "Ready", lane |-> NoLane]
    /\ \E lane \in Lanes :
          ledger' = [ledger EXCEPT ![t] = [status |-> "Running", lane |-> lane]]

\* Every other change of status: along the lifecycle, in the same lane.  A
\* terminal status has no successor.
Move(t) ==
    /\ Entered(t)
    /\ \E status \in TaskSuccessors[ledger[t].status] \ {"Running"} :
          ledger' = [ledger EXCEPT ![t] =
                        [status |-> status, lane |-> ledger[t].lane]]

Lose(t) ==
    /\ Entered(t)
    /\ ledger' = [ledger EXCEPT ![t] = Lost]

LedgerNext == \E t \in Tasks : Enter(t) \/ Claim(t) \/ Move(t) \/ Lose(t)

LedgerSpec == LedgerInit /\ [][LedgerNext]_ledger
=============================================================================
