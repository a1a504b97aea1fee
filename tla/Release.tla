------------------------------- MODULE Release -------------------------------
(***************************************************************************)
(* release.service.ts over car_releases, and through it over rider_cars.   *)
(*                                                                         *)
(* A release call is a process of its own statements (`relCalls`).  Where  *)
(* it calls transitionRiderCar it goes on as a call of LeaseHierarchy: the *)
(* release service has nothing left to do then but to log.  The            *)
(* transaction of completeRelease holds the release from its UPDATE to its *)
(* COMMIT and the rider cars it takes off rent (a call at "held").         *)
(* Assignments, lease transitions and shopping events it completes on the  *)
(* way are tables of other components.                                     *)
(***************************************************************************)
EXTENDS LeaseHierarchy

CONSTANTS
    ReleaseRequests, \* statuses clients ask a release to take
    MaxReleases      \* bound: rows of car_releases

ReleaseStatuses == {"INITIATED", "APPROVED", "EXECUTING", "COMPLETED", "CANCELLED"}

ASSUME ReleaseAssumption ==
    /\ ReleaseRequests \subseteq ReleaseStatuses
    /\ MaxReleases \in Nat

VARIABLES
    releases, \* rows of car_releases, in order of creation
    relCalls  \* the statement each release call runs next

relVars == <<lhVars, releases, relCalls>>

ReleaseRow == [rider: Riders, car: Cars, status: ReleaseStatuses]
RelPCs == {"none", "check", "insert", "transition", "advance", "complete", "offRent",
           "commit", "promises", "cancel", "revert"}
\* release, row: the rows of car_releases and rider_cars the call works on.
RelCall == [pc: RelPCs, release: Nat, row: Nat, to: CarStatuses \cup ReleaseStatuses]
NoRelCall == [pc |-> "none", release |-> 0, row |-> 0, to |-> "decided"]

RelTypeOK ==
    /\ LHTypeOK
    /\ releases \in Seq(ReleaseRow)
    /\ relCalls \in [LeaseProcs -> RelCall]

RelInit ==
    /\ LHInit
    /\ releases = <<>>
    /\ relCalls = [p \in LeaseProcs |-> NoRelCall]

Finished == {"COMPLETED", "CANCELLED"}
Pending(k) == releases[k].status \notin Finished
PendingOf(c) == {k \in DOMAIN releases : releases[k].car = c /\ Pending(k)}

\* Mutant: the trigger is left to the tests of the service.
PermitsAny(from, to) == TRUE

\* enforce_car_release_transition
Permits(from, to) ==
    \/ from = to
    \/ from = "INITIATED" /\ to \in {"APPROVED", "CANCELLED"}
    \/ from = "APPROVED" /\ to \in {"EXECUTING", "CANCELLED"}
    \/ from = "EXECUTING" /\ to \in {"COMPLETED", "CANCELLED"}

\* The release a completion has updated and not committed.
HoldsRelease(p, k) == relCalls[p].pc \in {"offRent", "commit"} /\ relCalls[p].release = k
ReleaseFree(k) == \A q \in LeaseProcs : ~HoldsRelease(q, k)

Proceed(p, pc) == relCalls' = [relCalls EXCEPT ![p].pc = pc]
EndRelease(p) == relCalls' = [relCalls EXCEPT ![p] = NoRelCall]
BeginRelease(p, call) ==
    /\ calls[p].pc = "none"
    /\ relCalls[p].pc = "none"
    /\ relCalls' = [relCalls EXCEPT ![p] = call]
SetStatus(k, s) == releases' = [releases EXCEPT ![k].status = s]

-----------------------------------------------------------------------------
(* initiateRelease.                                                        *)

\* SELECT the car on rent on the rider.
Initiate(p, n) ==
    /\ "INITIATED" \in ReleaseRequests
    /\ Len(releases) < MaxReleases
    /\ riderCars[n].status = "on_rent"
    /\ BeginRelease(p, [NoRelCall EXCEPT !.pc = "check", !.row = n])
    /\ UNCHANGED <<lhVars, releases>>

\* SELECT a release of the car that is not terminal.
CheckDuplicate(p) ==
    /\ relCalls[p].pc = "check"
    /\ IF PendingOf(riderCars[relCalls[p].row].car) = {}
       THEN Proceed(p, "insert")
       ELSE EndRelease(p)
    /\ UNCHANGED <<lhVars, releases>>

\* Mutant: the row starts under a status the table does not know.
InsertReleasePending(p) ==
    LET row == riderCars[relCalls[p].row] IN
    /\ relCalls[p].pc = "insert"
    /\ releases' = Append(releases, [rider |-> row.rider, car |-> row.car, status |-> "PENDING"])
    /\ relCalls' = [relCalls EXCEPT ![p].pc = "transition", ![p].to = "releasing"]
    /\ UNCHANGED lhVars

\* INSERT INTO car_releases: no index looks for a second release.
InsertRelease(p) ==
    LET row == riderCars[relCalls[p].row] IN
    /\ relCalls[p].pc = "insert"
    /\ releases' = Append(releases, [rider |-> row.rider, car |-> row.car, status |-> "INITIATED"])
    /\ relCalls' = [relCalls EXCEPT ![p].pc = "transition", ![p].to = "releasing"]
    /\ UNCHANGED lhVars

\* transitionRiderCar starts: SELECT the row, nothing to do when it has the status.
CallTransition(p) ==
    LET n == relCalls[p].row
        to == relCalls[p].to
    IN
    /\ relCalls[p].pc = "transition"
    /\ IF riderCars[n].status = to THEN UNCHANGED calls ELSE Become(p, TransitionCall(n, to))
    /\ EndRelease(p)
    /\ UNCHANGED <<sideVars, leaseTables, releases>>

-----------------------------------------------------------------------------
(* approveRelease, executeRelease.                                         *)

Before == [APPROVED |-> "INITIATED", EXECUTING |-> "APPROVED"]

\* SELECT the release and test its status.
Advance(p, k, to) ==
    /\ to \in ReleaseRequests
    /\ releases[k].status = Before[to]
    /\ BeginRelease(p, [NoRelCall EXCEPT !.pc = "advance", !.release = k, !.to = to])
    /\ UNCHANGED <<lhVars, releases>>

\* UPDATE ... WHERE id, through the trigger.
AdvanceRelease(p) ==
    LET k == relCalls[p].release
        to == relCalls[p].to
    IN
    /\ relCalls[p].pc = "advance"
    /\ ReleaseFree(k)
    /\ IF Permits(releases[k].status, to) THEN SetStatus(k, to) ELSE UNCHANGED releases
    /\ EndRelease(p)
    /\ UNCHANGED lhVars

-----------------------------------------------------------------------------
(* completeRelease.                                                        *)

Complete(p, k) ==
    /\ "COMPLETED" \in ReleaseRequests
    /\ releases[k].status = "EXECUTING"
    /\ BeginRelease(p, [NoRelCall EXCEPT !.pc = "complete", !.release = k])
    /\ UNCHANGED <<lhVars, releases>>

\* BEGIN; UPDATE car_releases ...
CompleteRelease(p) ==
    LET k == relCalls[p].release IN
    /\ relCalls[p].pc = "complete"
    /\ ReleaseFree(k)
    /\ IF Permits(releases[k].status, "COMPLETED") THEN Proceed(p, "offRent") ELSE EndRelease(p)
    /\ UNCHANGED <<lhVars, releases>>

RowsOf(k, status) ==
    {n \in DOMAIN riderCars :
        /\ riderCars[n].rider = releases[k].rider
        /\ riderCars[n].car = releases[k].car
        /\ riderCars[n].status = status}

\* Mutant: the UPDATE does not name the status it expects.
TakeOffRentAnyStatus(p) ==
    LET rows == UNION {RowsOf(relCalls[p].release, s) : s \in {"on_rent", "releasing"}} IN
    /\ relCalls[p].pc = "offRent"
    /\ \A n \in rows : RowFree(n)
    /\ Become(p, [NoLeaseCall EXCEPT !.pc = "held", !.rows = rows])
    /\ Proceed(p, "commit")
    /\ UNCHANGED <<sideVars, leaseTables, releases>>

\* ... UPDATE rider_cars SET status = 'off_rent' ... WHERE status = 'releasing' ...
TakeOffRent(p) ==
    LET rows == RowsOf(relCalls[p].release, "releasing") IN
    /\ relCalls[p].pc = "offRent"
    /\ \A n \in rows : RowFree(n)
    /\ Become(p, [NoLeaseCall EXCEPT !.pc = "held", !.rows = rows])
    /\ Proceed(p, "commit")
    /\ UNCHANGED <<sideVars, leaseTables, releases>>

\* ... COMMIT.
CommitRelease(p) ==
    /\ relCalls[p].pc = "commit"
    /\ SetStatus(relCalls[p].release, "COMPLETED")
    /\ riderCars' = [n \in DOMAIN riderCars |->
                       IF n \in calls[p].rows THEN [riderCars[n] EXCEPT !.status = "off_rent"]
                                              ELSE riderCars[n]]
    /\ Finish(p)
    /\ Proceed(p, "promises")
    /\ UNCHANGED <<sideVars, leases, riders, ready>>

ReleaseTask(kind, k) ==
    [kind |-> kind, car |-> releases[k].car, from |-> "car_releases", src |-> k]

\* SELECT the car, then the promises of a car off rent (S8).
StartPromises(p) ==
    /\ relCalls[p].pc = "promises"
    /\ tasks' = tasks \cup {ReleaseTask(kind, relCalls[p].release) :
                              kind \in {"openIdle", "createTriage"}}
    /\ EndRelease(p)
    /\ UNCHANGED <<disposed, idle, triage, resolving, leaseTables, calls, releases>>

-----------------------------------------------------------------------------
(* cancelRelease.                                                          *)

Cancel(p, k) ==
    /\ "CANCELLED" \in ReleaseRequests
    /\ Pending(k)
    /\ BeginRelease(p, [NoRelCall EXCEPT !.pc = "cancel", !.release = k])
    /\ UNCHANGED <<lhVars, releases>>

CancelRelease(p) ==
    LET k == relCalls[p].release IN
    /\ relCalls[p].pc = "cancel"
    /\ ReleaseFree(k)
    /\ IF Permits(releases[k].status, "CANCELLED")
       THEN SetStatus(k, "CANCELLED") /\ Proceed(p, "revert")
       ELSE EndRelease(p) /\ UNCHANGED releases
    /\ UNCHANGED lhVars

\* SELECT the row that is releasing, if any, to put it back on rent.
FindReleasing(p) ==
    LET rows == RowsOf(relCalls[p].release, "releasing") IN
    /\ relCalls[p].pc = "revert"
    /\ \/ rows = {} /\ EndRelease(p)
       \/ \E n \in rows :
             relCalls' = [relCalls EXCEPT ![p].pc = "transition", ![p].row = n, ![p].to = "on_rent"]
    /\ UNCHANGED <<lhVars, releases>>

-----------------------------------------------------------------------------
RelCrash ==
    /\ LHCrash
    /\ relCalls' = [p \in LeaseProcs |-> NoRelCall]
    /\ UNCHANGED releases

ReleaseStep(p) ==
    \/ CheckDuplicate(p) \/ InsertRelease(p) \/ CallTransition(p)
    \/ AdvanceRelease(p)
    \/ CompleteRelease(p) \/ TakeOffRent(p) \/ CommitRelease(p) \/ StartPromises(p)
    \/ CancelRelease(p) \/ FindReleasing(p)

StartRelease(p) ==
    \/ \E n \in DOMAIN riderCars : Initiate(p, n)
    \/ \E k \in DOMAIN releases, to \in DOMAIN Before : Advance(p, k, to)
    \/ \E k \in DOMAIN releases : Complete(p, k) \/ Cancel(p, k)

\* The lease service goes on; a process runs one request at a time.
LeaseStep ==
    /\ \/ \E p \in LeaseProcs : CallStep(p) \/ (relCalls[p].pc = "none" /\ StartCall(p))
       \/ \E l \in Leases, s \in LeaseStatuses : UpdateLease(l, s)
       \/ \E c \in Cars : ReadyToLoad(c)
       \/ LHSideStep
    /\ UNCHANGED <<releases, relCalls>>

RelNext ==
    \/ \E p \in LeaseProcs : ReleaseStep(p) \/ StartRelease(p)
    \/ LeaseStep
    \/ RelCrash

RelSpec == RelInit /\ [][RelNext]_relVars

-----------------------------------------------------------------------------
(***************************************************************************)
(* A release ends once: a finished release keeps its status, and completed *)
(* is only what was executing, although approvals, executions, completions *)
(* and cancellations each decide on a status they read a statement or a    *)
(* lock wait earlier.                                                      *)
(***************************************************************************)
ReleaseEndsOnce ==
    [][\A k \in DOMAIN releases :
          /\ ~Pending(k) => releases'[k] = releases[k]
          /\ releases'[k].status = "COMPLETED" => releases[k].status \in {"EXECUTING", "COMPLETED"}]_releases
=============================================================================
