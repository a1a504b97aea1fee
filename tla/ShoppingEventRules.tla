------------------------- MODULE ShoppingEventRules -------------------------
(***************************************************************************)
(* Rows of shopping_events_v2 and the trigger every UPDATE OF state runs   *)
(* through, enforce_shopping_event_v2_transition (migration 079).          *)
(***************************************************************************)
EXTENDS Naturals

\* state_order: the position of each state in the forward sequence.
Ordinal == [EVENT |-> 1, PACKET |-> 2, SOW |-> 3, SHOP_ASSIGNED |-> 4,
            DISPO_TO_SHOP |-> 5, ENROUTE |-> 6, ARRIVED |-> 7,
            ESTIMATE_RECEIVED |-> 8, ESTIMATE_APPROVED |-> 9,
            WORK_IN_PROGRESS |-> 10, FINAL_ESTIMATE_RECEIVED |-> 11,
            FINAL_APPROVED |-> 12, DISPO_TO_DESTINATION |-> 13, CLOSED |-> 14]

ForwardStates == DOMAIN Ordinal
States == ForwardStates \cup {"CANCELLED"}
Terminal == {"CLOSED", "CANCELLED"}
\* States outside the partial index idx_se_v2_one_active_per_car.
Unindexed == Terminal \cup {"DISPO_TO_DESTINATION"}

Null == "null"
Dispositions == {"to_customer", "to_storage", "to_another_shop", "to_scrap"}

(***************************************************************************)
(* A row: next is disposition_reference_id when it names an event (0 for   *)
(* NULL and for the id of anything else); approved says final_approved_at  *)
(* IS NOT NULL.  The other timestamps and version, which nothing reads,    *)
(* are left out.  chained is no column: it says that setDisposition wrote  *)
(* next for a chain of its own, which the table does not tell from an id   *)
(* a client sent.                                                          *)
(***************************************************************************)
Row(cars, types) ==
    [car: cars, type: types, state: States,
     dispo: Dispositions \cup {Null}, next: Nat, chained: BOOLEAN, approved: BOOLEAN]

IsReviewLoop(from, to) ==
    \/ from = "ESTIMATE_APPROVED" /\ to = "ESTIMATE_RECEIVED"
    \/ from = "FINAL_APPROVED" /\ to = "FINAL_ESTIMATE_RECEIVED"

\* NEW.shopping_type_code != 'MRU' is NULL, hence no RAISE, for an untyped event.
TypeForbidsShortcut(type) == type \notin {"MRU", Null}

\* Mutant: every event may skip the disposition.
MayCloseAnyType(from, type) == from \in {"DISPO_TO_DESTINATION", "FINAL_APPROVED"}

MayClose(from, type) ==
    \/ from = "DISPO_TO_DESTINATION"
    \/ from = "FINAL_APPROVED" /\ ~TypeForbidsShortcut(type)

\* Mutants: backward moves are let through; the gate of rule 3 is missing.
ForwardOrBackAllowed(from, to, type) ==
    /\ to = "DISPO_TO_DESTINATION" => from = "FINAL_APPROVED"
    /\ to = "CLOSED" => MayClose(from, type)
ForwardUngatedAllowed(from, to, type) ==
    /\ Ordinal[to] > Ordinal[from]
    /\ to = "CLOSED" => MayClose(from, type)

ForwardAllowed(from, to, type) ==
    /\ Ordinal[to] > Ordinal[from]
    /\ to = "DISPO_TO_DESTINATION" => from = "FINAL_APPROVED"
    /\ to = "CLOSED" => MayClose(from, type)

\* Mutant: rule 6 is missing.
TriggerAcceptsFromTerminal(from, to, type) ==
    \/ from = to
    \/ to = "CANCELLED"
    \/ IsReviewLoop(from, to)
    \/ from \in ForwardStates /\ to \in ForwardStates /\ ForwardAllowed(from, to, type)

\* The trigger does not RAISE.
TriggerAccepts(from, to, type) ==
    \/ from = to
    \/ /\ from \notin Terminal
       /\ \/ to = "CANCELLED"
          \/ IsReviewLoop(from, to)
          \/ to \in ForwardStates /\ ForwardAllowed(from, to, type)

\* The row the trigger hands to the UPDATE that sets state to `to`.
Triggered(row, to) ==
    [row EXCEPT !.state = to,
                !.approved = IF to = "FINAL_APPROVED" THEN TRUE ELSE @]
=============================================================================
