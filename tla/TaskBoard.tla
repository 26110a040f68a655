------------------------------ MODULE TaskBoard -------------------------------
(***************************************************************************)
(* What the sync engine promises the board's readers: a task has one card, *)
(* which it keeps, and what a card says changes only to what is the case.  *)
(***************************************************************************)
CONSTANTS BoardTasks, CardIds

VARIABLES
    status,   \* the status of each task
    shown     \* the cards of each task, as [id, says]

board == <<status, shown>>

BoardInit == shown = [t \in BoardTasks |-> {}]

\* Tasks move without the board being told.
TasksMove == UNCHANGED shown

\* Some cards are brought up to date, or made.
CardsAreShown ==
    /\ UNCHANGED status
    /\ \A t \in BoardTasks :
          \/ shown'[t] = shown[t]
          \/ \E id \in CardIds :
                /\ shown'[t] = {[id |-> id, says |-> status[t]]}
                /\ \A card \in shown[t] : card.id = id

BoardNext == TasksMove \/ CardsAreShown

BoardSpec == BoardInit /\ [][BoardNext]_board
=============================================================================
