------------------------------- MODULE Ledger -------------------------------
(***************************************************************************)
(* What the invoices of a customer promise: they are entered one by one,   *)
(* each with the next number of its period and with adjustments that no    *)
(* invoice of the period bills, and an entry stays as it is but for its    *)
(* standing, which goes forward and ends void.                             *)
(*                                                                         *)
(* Nothing is said of who enters what, or of entries that do not come off. *)
(***************************************************************************)
EXTENDS Naturals, Sequences

CONSTANTS
    Periods,
    Adjustments

VARIABLE
    posted  \* the invoices, in the order in which they were entered

Init == posted = <<>>

Of(per) == {n \in DOMAIN posted : posted[n].period = per}
BilledIn(per) == UNION {posted[n].adjustments : n \in Of(per)}

Entry(per, num, adj) ==
    [period |-> per, number |-> num, adjustments |-> adj, standing |-> "draft"]

Post(per, num, adj) ==
    /\ {posted[n].number : n \in Of(per)} = 1..(num - 1)
    /\ adj \cap BilledIn(per) = {}
    /\ posted' = Append(posted, Entry(per, num, adj))

Forward == {<<"draft", "approved">>, <<"approved", "sent">>,
            <<"draft", "void">>, <<"approved", "void">>, <<"sent", "void">>}

Settle(n, s) ==
    /\ <<posted[n].standing, s>> \in Forward
    /\ posted' = [posted EXCEPT ![n].standing = s]

Next ==
    \/ \E per \in Periods, num \in 1..(Len(posted) + 1), adj \in SUBSET Adjustments :
          Post(per, num, adj)
    \/ \E n \in DOMAIN posted, s \in {"approved", "sent", "void"} : Settle(n, s)

Spec == Init /\ [][Next]_posted
=============================================================================
