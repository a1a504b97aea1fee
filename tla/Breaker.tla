------------------------------ MODULE Breaker ------------------------------
(***************************************************************************)
(* What a circuit breaker promises its callers, whatever states it keeps:  *)
(* once Threshold calls in a row have failed, no call goes through until   *)
(* a cooldown has passed since the last failure.                           *)
(***************************************************************************)
EXTENDS Naturals

CONSTANTS Callers, Threshold

VARIABLES
    failures, \* failures since the last success, up to Threshold
    rested,   \* no cooldown is under way
    inside    \* callers whose call went through and is not over

breakerVars == <<failures, rested, inside>>

Init == failures = 0 /\ rested = TRUE /\ inside = {}

Enter(c) ==
    /\ c \notin inside
    /\ failures < Threshold \/ rested
    /\ inside' = inside \cup {c}
    /\ UNCHANGED <<failures, rested>>

Succeed(c) ==
    /\ c \in inside
    /\ failures' = 0
    /\ inside' = inside \ {c}
    /\ UNCHANGED rested

Fail(c) ==
    /\ c \in inside
    /\ failures' = IF failures < Threshold THEN failures + 1 ELSE failures
    /\ rested' = (failures' < Threshold)
    /\ inside' = inside \ {c}

\* A call that ends without its outcome being recorded.
Leave(c) == c \in inside /\ inside' = inside \ {c} /\ UNCHANGED <<failures, rested>>

Rest == rested' = TRUE /\ UNCHANGED <<failures, inside>>

\* The breaker lives in the memory of the process.
Restart == failures' = 0 /\ rested' = TRUE /\ inside' = {}

Next ==
    \/ \E c \in Callers : Enter(c) \/ Succeed(c) \/ Fail(c) \/ Leave(c)
    \/ Rest
    \/ Restart

Spec == Init /\ [][Next]_breakerVars
=============================================================================
