------------------------------ MODULE Disposal ------------------------------
(***************************************************************************)
(* What the scrap workflow promises about disposed cars, whatever its      *)
(* stages, requests and transactions: a piece of scrap work is planned,    *)
(* then either dropped or begun; begun work can only be finished; and a    *)
(* car is gone from the fleet in the very step that finishes its work.     *)
(***************************************************************************)
EXTENDS Naturals, Sequences

CONSTANT Cars

VARIABLES
    work,  \* pieces of scrap work: [car, stage]
    gone   \* cars out of the fleet for good

dispVars == <<work, gone>>

Init == work = <<>> /\ gone = {}

Plan(c) ==
    /\ work' = Append(work, [car |-> c, stage |-> "planned"])
    /\ UNCHANGED gone

Advance(k, from, to) ==
    /\ work[k].stage = from
    /\ work' = [work EXCEPT ![k].stage = to]

Drop(k) == Advance(k, "planned", "dropped") /\ UNCHANGED gone
Begin(k) == Advance(k, "planned", "begun") /\ UNCHANGED gone
Finish(k) == Advance(k, "begun", "finished") /\ gone' = gone \cup {work[k].car}

Next ==
    \/ \E c \in Cars : Plan(c)
    \/ \E k \in DOMAIN work : Drop(k) \/ Begin(k) \/ Finish(k)

Spec == Init /\ [][Next]_dispVars
=============================================================================
