------------------------------- MODULE Custody -------------------------------
(***************************************************************************)
(* What the lease, release and transfer services together promise of a     *)
(* car: it is with one rider at most, a rental goes from deciding through  *)
(* preparing, renting and releasing, a rented car leaves its rider from    *)
(* releasing only, and changes hands in one step.                          *)
(*                                                                         *)
(* Every car moves by itself; a deactivation ends several rentals at once. *)
(***************************************************************************)
CONSTANTS
    Cars,
    Riders

VARIABLE
    custody  \* the rental of each car: none, or its rider and how far it is

Stages == {"decided", "prep_required", "on_rent", "releasing"}
Rental(r, s) == {[rider |-> r, status |-> s]}

Init == custody = [c \in Cars |-> {}]

Take(c, r) ==
    /\ custody[c] = {}
    /\ custody'[c] = Rental(r, "decided")

\* A release may be cancelled: the car is on rent again.
Onward == {<<"decided", "prep_required">>, <<"decided", "on_rent">>,
           <<"prep_required", "on_rent">>, <<"on_rent", "releasing">>, <<"releasing", "on_rent">>}
Advance(c, r, s, t) ==
    /\ custody[c] = Rental(r, s)
    /\ <<s, t>> \in Onward
    /\ custody'[c] = Rental(r, t)

End(c, r, s) ==
    /\ custody[c] = Rental(r, s)
    /\ s # "on_rent"
    /\ custody'[c] = {}

HandOver(c, r, to) ==
    /\ custody[c] = Rental(r, "releasing")
    /\ r # to
    /\ custody'[c] = Rental(to, "decided")

CarStep(c) ==
    \/ custody'[c] = custody[c]
    \/ \E r \in Riders : Take(c, r)
    \/ \E r \in Riders, s, t \in Stages : Advance(c, r, s, t)
    \/ \E r \in Riders, s \in Stages : End(c, r, s)
    \/ \E r, to \in Riders : HandOver(c, r, to)

Next ==
    /\ custody' \in [Cars -> SUBSET [rider: Riders, status: Stages]]
    /\ \A c \in Cars : CarStep(c)

Spec == Init /\ [][Next]_custody
=============================================================================
