--------------------------- MODULE CircuitBreaker ---------------------------
(***************************************************************************)
(* The two breakers of the integrations, as operators on a record: class   *)
(* CircuitBreaker (circuit-breaker.ts), which a call runs through, and the *)
(* circuits of retry-queue.service.ts, which its caller asks and informs.  *)
(* Both keep the same state and move alike.                                *)
(*                                                                         *)
(* The count of failures is only ever compared with the threshold, so it   *)
(* stops there.  `cooled` is FALSE until the cooldown has passed since the *)
(* last failure of an open circuit, whose clock nothing else reads.        *)
(***************************************************************************)
EXTENDS Naturals

CONSTANT Threshold \* failureThreshold, CIRCUIT_FAILURE_THRESHOLD

ASSUME ThresholdAssumption == Threshold \in Nat \ {0}

CircuitStates == {"CLOSED", "OPEN", "HALF_OPEN"}
Circuit == [state: CircuitStates, failures: 0..Threshold, cooled: BOOLEAN]

NewCircuit == [state |-> "CLOSED", failures |-> 0, cooled |-> TRUE]

Admits(b) == b.state = "OPEN" => b.cooled

\* An open circuit that admits a call has become half-open.
Admitted(b) == [b EXCEPT !.state = IF b.state = "OPEN" THEN "HALF_OPEN" ELSE b.state]

Succeeded(b) == [b EXCEPT !.state = "CLOSED", !.failures = 0]

CountFailure(b) == IF b.failures < Threshold THEN b.failures + 1 ELSE b.failures

\* Mutant: only a closed circuit opens, a failed probe leaves it half-open.
FailedOpensClosed(b) ==
    [state |-> IF b.state = "CLOSED" /\ CountFailure(b) = Threshold THEN "OPEN" ELSE b.state,
     failures |-> CountFailure(b),
     cooled |-> CountFailure(b) < Threshold]

Failed(b) ==
    [state |-> IF CountFailure(b) = Threshold THEN "OPEN" ELSE b.state,
     failures |-> CountFailure(b),
     cooled |-> CountFailure(b) < Threshold]

Cooled(b) == [b EXCEPT !.cooled = TRUE]
=============================================================================
