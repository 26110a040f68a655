------------------------------- MODULE CardSync -------------------------------
(***************************************************************************)
(* crates/hepa-kanban/src/sync.rs: the sync engine, which writes the cards *)
(* of a list of tasks to a store, and the three stores.  A store is        *)
(* [available, cards, next]: cards maps the ids in use to their card.      *)
(***************************************************************************)
EXTENDS CardMapping, Naturals

\* The ids the memory store makes up, hermes-card-1 and so on: an id is a text,
\* the number stands for the word.
GeneratedId(n) == {n}

\* payload_task_id: the text a card shows as its task, after redaction.
ShownTask(card) == card.fields.task_id

Stored(store, id, card) ==
    [store EXCEPT !.cards = [i \in DOMAIN @ \cup {id} |-> IF i = id THEN card ELSE @[i]]]

\* Mutant of Upsert: a card without an id is always made anew.
UpsertAnew(store, existing, card) ==
    IF existing # {} THEN
        LET id == CHOOSE i \in existing : TRUE
        IN  [ok |-> TRUE, id |-> id, action |-> "Updated", store |-> Stored(store, id, card)]
    ELSE LET id == GeneratedId(store.next + 1)
         IN  [ ok |-> TRUE, id |-> id, action |-> "Created",
               store |-> [Stored(store, id, card) EXCEPT !.next = @ + 1] ]

\* HepaMemoryHermesCardStore::upsert_card.  An id the caller names is written
\* whether it exists or not, and reported as updated; otherwise the card that
\* shows the same task id is replaced; otherwise the next id is used, which
\* may be taken by a caller's id (an error, with the counter moved on).
Upsert(store, existing, card) ==
    LET same == {id \in DOMAIN store.cards : ShownTask(store.cards[id]) = ShownTask(card)}
        new  == GeneratedId(store.next + 1)
        done(id, action, after) ==
            [ok |-> TRUE, id |-> id, action |-> action, store |-> Stored(after, id, card)]
    IN  IF existing # {} THEN done(CHOOSE i \in existing : TRUE, "Updated", store)
        ELSE IF same # {} THEN done(CHOOSE i \in same : TRUE, "Updated", store)
        ELSE IF new \in DOMAIN store.cards
             THEN [ok |-> FALSE, id |-> new, action |-> "none",
                   store |-> [store EXCEPT !.next = @ + 1]]
             ELSE done(new, "Created", [store EXCEPT !.next = @ + 1])

\* HepaNullHermesCardStore keeps nothing and says what it would have done.
NullUpsert(store, existing) ==
    [ ok     |-> TRUE,
      id     |-> IF existing # {} THEN CHOOSE i \in existing : TRUE ELSE "none",
      action |-> IF existing # {} THEN "Updated" ELSE "Created",
      store  |-> store ]

\* HepaUnavailableHermesCardStore, if it is called at all.
UnavailableUpsert(store) == [ok |-> FALSE, id |-> "none", action |-> "none", store |-> store]

-----------------------------------------------------------------------------
EmptySummary == [status |-> "Synced", created |-> 0, updated |-> 0, skipped |-> 0]

\* One task of sync_tasks.  A card that cannot be mapped or stored ends the
\* sync with an error; what was stored before stays.
SyncOne(sync, in) ==
    IF ~sync.ok THEN sync
    ELSE IF CardsOf(in) = {} THEN [sync EXCEPT !.ok = FALSE]
    ELSE LET card == CHOOSE c \in CardsOf(in) : TRUE
             put  == Upsert(sync.store, in.task.externalCard, card)
         IN  [ ok      |-> put.ok,
               store   |-> put.store,
               summary |-> CASE put.action = "Created" -> [sync.summary EXCEPT !.created = @ + 1]
                             [] put.action = "Updated" -> [sync.summary EXCEPT !.updated = @ + 1]
                             [] OTHER -> sync.summary ]

\* sync_tasks: a store that is not available is left alone, and the tasks are
\* counted as skipped.
SyncTasks(store, tasks) ==
    LET sync[n \in 0..Len(tasks)] ==       \* how the first n tasks went
            IF n = 0 THEN [ok |-> TRUE, store |-> store, summary |-> EmptySummary]
            ELSE SyncOne(sync[n - 1], tasks[n])
    IN  IF store.available THEN sync[Len(tasks)]
        ELSE [ ok |-> TRUE, store |-> store,
               summary |-> [EmptySummary EXCEPT !.status = "Degraded", !.skipped = Len(tasks)] ]

\* sync_lane_transition: the lane replaces the one of the same id or is added,
\* and the task lists it, then the task is synced as any other.
WithLane(in, lane) ==
    [in EXCEPT !.lanes = {l \in @ : l.id # lane.id} \cup {lane},
               !.task.lanes = @ \cup {lane.id}]

SyncLaneTransition(store, in, lane) == SyncTasks(store, <<WithLane(in, lane)>>)

\* reconcile_card_with_hepa_state: HEPA's state wins over the board's.
Reconciliation(in, boardCard) ==
    {[drift |-> card # boardCard, card |-> card] : card \in CardsOf(in)}
=============================================================================
