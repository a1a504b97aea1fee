--------------------------- MODULE LeaseHierarchy ---------------------------
(***************************************************************************)
(* contracts.service.ts over master_leases, lease_riders and rider_cars,   *)
(* with the triggers of migrations 078 and 081.  The columns updated_by    *)
(* and is_on_rent the code writes are taken to exist.                      *)
(*                                                                         *)
(* A handler is a process (`calls`).  Its transaction is modelled by what  *)
(* READ COMMITTED gives the others: what it has written so far stays in    *)
(* its record until the commit step, and the rows it wrote are locked.  An *)
(* UPDATE of a locked row waits; a SELECT, also one inside a trigger,      *)
(* reads what is committed.  A rejected statement rolls the transaction    *)
(* back, which is the same as the call returning.                          *)
(***************************************************************************)
EXTENDS CarSideEffects

CONSTANTS
    Leases,            \* rows of master_leases
    Riders,            \* values of lease_riders.rider_id
    LeaseOf,           \* master_lease_id of each rider
    LeaseProcs,        \* concurrent calls
    Requests,          \* endpoints clients use
    RequestedStatuses, \* target statuses they ask a rider car to take
    MaxRiderCars       \* bound: rows of rider_cars

LeaseStatuses == {"Active", "Expired", "Terminated"}
RiderStatuses == {"none", "Active", "Expired"}   \* none: not inserted yet
CarStatuses == {"decided", "prep_required", "on_rent", "releasing", "off_rent", "cancelled"}
Endpoints == {"updateLease", "deactivateLease", "createRider", "deactivateRider",
              "addCar", "removeCar", "transition", "assignToRider"}

ASSUME LeaseAssumption ==
    /\ LeaseOf \in [Riders -> Leases]
    /\ Requests \subseteq Endpoints
    /\ RequestedStatuses \subseteq CarStatuses \ {"decided"}
    /\ MaxRiderCars \in Nat

VARIABLES
    leases,    \* status of each lease
    riders,    \* status of each rider
    riderCars, \* rows of rider_cars, in order of creation
    ready,     \* cars with ready_to_load
    calls      \* the call each process executes

leaseTables == <<leases, riders, riderCars, ready>>
lhVars == <<sideVars, leaseTables, calls>>

RiderCar == [rider: Riders, car: Cars, status: CarStatuses]

PCs == {"none", "insertRider", "expireRiders", "removeCars", "commit", "insertCar",
        "countCar", "assign", "removeCar", "removed", "update", "history", "count", "held"}
\* The rows a call works on; whether it holds them depends on its pc.  "held": the
\* transaction of another service has taken the rows off rent (module Release).
Call == [pc: PCs, leases: SUBSET Leases, riders: SUBSET Riders, cars: SUBSET Cars,
         rows: SUBSET Nat, to: CarStatuses]
NoLeaseCall == [pc |-> "none", leases |-> {}, riders |-> {}, cars |-> {}, rows |-> {},
                to |-> "decided"]

LHTypeOK ==
    /\ SideTypeOK
    /\ leases \in [Leases -> LeaseStatuses]
    /\ riders \in [Riders -> RiderStatuses]
    /\ riderCars \in Seq(RiderCar)
    /\ ready \subseteq Cars
    /\ calls \in [LeaseProcs -> Call]

LHInit ==
    /\ SideInit
    /\ leases = [l \in Leases |-> "Active"]
    /\ riders \in [Riders -> {"none", "Active"}]
    /\ riderCars = <<>>
    /\ ready = {}
    /\ calls = [p \in LeaseProcs |-> NoLeaseCall]

Ended == {"off_rent", "cancelled"}
Rented == {"on_rent", "releasing"}
IsActive(n) == riderCars[n].status \notin Ended
ActiveRows(rs) == {n \in DOMAIN riderCars : riderCars[n].rider \in rs /\ IsActive(n)}
Carries(c) == \E n \in DOMAIN riderCars : riderCars[n].car = c /\ IsActive(n)
HasRented(r) == \E n \in DOMAIN riderCars :
                   riderCars[n].rider = r /\ riderCars[n].status \in Rented
RidersOf(l) == {r \in Riders : LeaseOf[r] = l}

-----------------------------------------------------------------------------
(* Locks.                                                                  *)

HoldsLease(p, l) == calls[p].pc \in {"expireRiders", "removeCars", "commit"} /\ l \in calls[p].leases

\* Mutant: addCarToRider locks the rider before it inserts the row.
HoldsRiderWhileAdding(p, r) ==
    calls[p].pc \in {"insertCar", "removeCars", "commit"} /\ r \in calls[p].riders

HoldsRider(p, r) == calls[p].pc \in {"removeCars", "commit"} /\ r \in calls[p].riders
HoldsRow(p, n) == calls[p].pc \in {"removed", "commit", "held"} /\ n \in calls[p].rows
\* The row a call has inserted for the car and not committed.
HoldsCar(p, c) == calls[p].pc = "countCar" /\ c \in calls[p].cars

LeaseFree(l) == \A q \in LeaseProcs : ~HoldsLease(q, l)
RiderFree(r) == \A q \in LeaseProcs : ~HoldsRider(q, r)
RowFree(n) == \A q \in LeaseProcs : ~HoldsRow(q, n)
\* An INSERT that may conflict in idx_one_active_rider_per_car waits.
CarFree(c) ==
    /\ \A q \in LeaseProcs : ~HoldsCar(q, c)
    /\ \A n \in DOMAIN riderCars : riderCars[n].car = c /\ IsActive(n) => RowFree(n)

Become(p, call) == calls' = [calls EXCEPT ![p] = call]
AdvanceTo(p, pc) == calls' = [calls EXCEPT ![p].pc = pc]
Finish(p) == Become(p, NoLeaseCall)
MayCall(p, endpoint) == calls[p].pc = "none" /\ endpoint \in Requests

-----------------------------------------------------------------------------
(* Master leases and riders.                                               *)

\* enforce_master_lease_transition
LeaseTransition(l, s) ==
    /\ \/ leases[l] = "Active" /\ s \in {"Expired", "Terminated"}
       \/ leases[l] = "Expired" /\ s \in {"Active", "Terminated"}
    /\ s = "Terminated" => ActiveRows(RidersOf(l)) = {}

\* PUT status on a master lease: updateMasterLease is one UPDATE.
UpdateLease(l, s) ==
    /\ "updateLease" \in Requests
    /\ LeaseFree(l)
    /\ LeaseTransition(l, s)
    /\ leases' = [leases EXCEPT ![l] = s]
    /\ UNCHANGED <<sideVars, riders, riderCars, ready, calls>>

\* createLeaseRider reads the lease, then inserts the rider.
CreateRider(p, r) ==
    /\ MayCall(p, "createRider")
    /\ riders[r] = "none"
    /\ leases[LeaseOf[r]] = "Active"
    /\ Become(p, [NoLeaseCall EXCEPT !.pc = "insertRider", !.riders = {r}])
    /\ UNCHANGED <<sideVars, leaseTables>>

InsertRider(p) ==
    /\ calls[p].pc = "insertRider"
    /\ riders' = [r \in Riders |->
                    IF r \in calls[p].riders /\ riders[r] = "none" THEN "Active" ELSE riders[r]]
    /\ Finish(p)
    /\ UNCHANGED <<sideVars, leases, riderCars, ready>>

\* deactivateRider: UPDATE lease_riders; the trigger rejects rented cars (R19).
DeactivateRider(p, r) ==
    /\ MayCall(p, "deactivateRider")
    /\ RiderFree(r)
    /\ riders[r] = "Active"
    /\ ~HasRented(r)
    /\ Become(p, [NoLeaseCall EXCEPT !.pc = "removeCars", !.riders = {r}])
    /\ UNCHANGED <<sideVars, leaseTables>>

\* deactivateLease: UPDATE master_leases ...
DeactivateLease(p, l) ==
    /\ MayCall(p, "deactivateLease")
    /\ LeaseFree(l)
    /\ leases[l] # "Terminated"
    /\ Become(p, [NoLeaseCall EXCEPT !.pc = "expireRiders", !.leases = {l}])
    /\ UNCHANGED <<sideVars, leaseTables>>

\* ... then UPDATE lease_riders: all its active riders, or the trigger rejects.
ExpireRiders(p) ==
    LET expiring == {r \in Riders : LeaseOf[r] \in calls[p].leases /\ riders[r] = "Active"} IN
    /\ calls[p].pc = "expireRiders"
    /\ \A r \in expiring : RiderFree(r)
    /\ IF \E r \in expiring : HasRented(r)
       THEN Finish(p)
       ELSE Become(p, [calls[p] EXCEPT
                         !.pc = IF expiring = {} THEN "commit" ELSE "removeCars",
                         !.riders = expiring])
    /\ UNCHANGED <<sideVars, leaseTables>>

\* Both: UPDATE every active rider_cars row to off_rent.  The trigger admits that
\* from 'releasing' only, so any other active row aborts the transaction.
RemoveCars(p) ==
    LET rows == ActiveRows(calls[p].riders) IN
    /\ calls[p].pc = "removeCars"
    /\ \A n \in rows : RowFree(n)
    /\ IF \E n \in rows : riderCars[n].status # "releasing"
       THEN Finish(p)
       ELSE Become(p, [calls[p] EXCEPT !.pc = "commit", !.rows = rows])
    /\ UNCHANGED <<sideVars, leaseTables>>

\* History entries (FALSE), car_count and COMMIT.
CommitDeactivation(p) ==
    LET call == calls[p] IN
    /\ call.pc = "commit"
    /\ leases' = [l \in Leases |-> IF l \in call.leases THEN "Expired" ELSE leases[l]]
    /\ riders' = [r \in Riders |-> IF r \in call.riders THEN "Expired" ELSE riders[r]]
    /\ riderCars' = [n \in DOMAIN riderCars |->
                       IF n \in call.rows THEN [riderCars[n] EXCEPT !.status = "off_rent"]
                                          ELSE riderCars[n]]
    /\ Finish(p)
    /\ UNCHANGED <<sideVars, ready>>

-----------------------------------------------------------------------------
(* Putting a car on a rider and taking it off.                             *)

\* An insertion may start while the table has room (the bound of the model).
RiderCarRoom == Len(riderCars) < MaxRiderCars

\* Mutant: the row starts under the name of the dropped boolean.
AppendIsActive(r, c) == riderCars' = Append(riderCars, [rider |-> r, car |-> c, status |-> "is_active"])

AppendDecided(r, c) == riderCars' = Append(riderCars, [rider |-> r, car |-> c, status |-> "decided"])

RiderCarTask(kind, n) ==
    [kind |-> kind, car |-> riderCars[n].car, from |-> "rider_cars", src |-> n]

\* addCarToRider, its SELECTs: the status of the lease is not among them.
AddCar(p, r, c) ==
    /\ MayCall(p, "addCar")
    /\ RiderCarRoom
    /\ riders[r] = "Active"
    /\ ~Carries(c)
    /\ Become(p, [NoLeaseCall EXCEPT !.pc = "insertCar", !.riders = {r}, !.cars = {c}])
    /\ UNCHANGED <<sideVars, leaseTables>>

\* UNIQUE(rider_id, car_number, added_date): the pair was added that day already.
MayBeSameDay(r, c) == \E n \in DOMAIN riderCars : riderCars[n].rider = r /\ riderCars[n].car = c

\* INSERT as 'decided', unless that or idx_one_active_rider_per_car rejects it.
InsertCar(p) ==
    /\ calls[p].pc = "insertCar"
    /\ \E r \in calls[p].riders, c \in calls[p].cars :
          /\ CarFree(c)
          /\ \/ (Carries(c) \/ MayBeSameDay(r, c)) /\ Finish(p)
             \/ ~Carries(c) /\ AdvanceTo(p, "countCar")
    /\ UNCHANGED <<sideVars, leaseTables>>

\* Mutant: car_count is left to a trigger or a report.
CountCarNoLock(p) ==
    /\ calls[p].pc = "countCar"
    /\ \E r \in calls[p].riders, c \in calls[p].cars : AppendDecided(r, c)
    /\ Finish(p)
    /\ UNCHANGED <<sideVars, leases, riders, ready>>

\* UPDATE lease_riders SET car_count, which waits for the rider, and COMMIT.
CountCar(p) ==
    /\ calls[p].pc = "countCar"
    /\ \E r \in calls[p].riders, c \in calls[p].cars : RiderFree(r) /\ AppendDecided(r, c)
    /\ Finish(p)
    /\ UNCHANGED <<sideVars, leases, riders, ready>>

\* PUT ready-to-load; events and scraps, which it also asks about, are not
\* known here.
ReadyToLoad(c) ==
    /\ "assignToRider" \in Requests
    /\ c \notin disposed \cup ready
    /\ OpenEntries(c) = {}
    /\ ready' = ready \cup {c}
    /\ UNCHANGED <<sideVars, leases, riders, riderCars, calls>>

\* PUT assign-to-rider: its SELECTs ...
AssignToRider(p, r, c) ==
    /\ MayCall(p, "assignToRider")
    /\ RiderCarRoom
    /\ c \in ready \ disposed
    /\ riders[r] = "Active"
    /\ Become(p, [NoLeaseCall EXCEPT !.pc = "assign", !.riders = {r}, !.cars = {c}])
    /\ UNCHANGED <<sideVars, leaseTables>>

\* ... and INSERT .. ON CONFLICT DO NOTHING, UPDATE cars, COMMIT, without a
\* car_count.  ON CONFLICT names idx_one_active_rider_per_car only.
InsertAssigned(p) ==
    /\ calls[p].pc = "assign"
    /\ \E r \in calls[p].riders, c \in calls[p].cars :
          /\ CarFree(c)
          /\ \/ /\ IF Carries(c) THEN UNCHANGED riderCars ELSE AppendDecided(r, c)
                /\ ready' = ready \ {c}
                /\ tasks' = tasks \cup {[kind |-> "closeIdle", car |-> c,
                                         from |-> "rider_cars", src |-> Len(riderCars')]}
             \/ MayBeSameDay(r, c) /\ ~Carries(c) /\ UNCHANGED <<riderCars, ready, tasks>>
    /\ Finish(p)
    /\ UNCHANGED <<disposed, idle, triage, resolving, leases, riders>>

\* enforce_rider_car_transition
Allowed(from, to) ==
    \/ from = to
    \/ from = "decided" /\ to \in {"prep_required", "on_rent", "cancelled"}
    \/ from = "prep_required" /\ to \in {"on_rent", "cancelled"}
    \/ from = "on_rent" /\ to = "releasing"
    \/ from = "releasing" /\ to \in {"off_rent", "on_rent"}

\* removeCarFromRider: SELECT the row, choose the target from what was read.
RemoveCar(p, n) ==
    /\ MayCall(p, "removeCar")
    /\ IsActive(n)
    /\ Become(p, [NoLeaseCall EXCEPT
                    !.pc = "removeCar", !.rows = {n},
                    !.to = IF riderCars[n].status \in Rented THEN "off_rent" ELSE "cancelled"])
    /\ UNCHANGED <<sideVars, leaseTables>>

\* UPDATE rider_cars, through the trigger.
UpdateRemoved(p) ==
    /\ calls[p].pc = "removeCar"
    /\ \A n \in calls[p].rows : RowFree(n)
    /\ IF \A n \in calls[p].rows : Allowed(riderCars[n].status, calls[p].to)
       THEN AdvanceTo(p, "removed")
       ELSE Finish(p)
    /\ UNCHANGED <<sideVars, leaseTables>>

\* History entry, car_count (waits for the rider) and COMMIT.
CommitRemoval(p) ==
    /\ calls[p].pc = "removed"
    /\ \E n \in calls[p].rows :
          /\ RiderFree(riderCars[n].rider)
          /\ riderCars' = [riderCars EXCEPT ![n].status = calls[p].to]
    /\ Finish(p)
    /\ UNCHANGED <<sideVars, leases, riders, ready>>

-----------------------------------------------------------------------------
(* transitionRiderCar: every statement commits by itself.                  *)

TransitionCall(n, to) == [NoLeaseCall EXCEPT !.pc = "update", !.rows = {n}, !.to = to]

\* SELECT the row; nothing to do when it has the status already.
StartTransition(p, n, to) ==
    /\ MayCall(p, "transition")
    /\ riderCars[n].status # to
    /\ Become(p, TransitionCall(n, to))
    /\ UNCHANGED <<sideVars, leaseTables>>

\* guard_rider_car_parent
ParentsActive(n) ==
    LET r == riderCars[n].rider IN riders[r] = "Active" /\ leases[LeaseOf[r]] = "Active"

Accepted(n, to) ==
    /\ Allowed(riderCars[n].status, to)
    /\ to = "on_rent" /\ riderCars[n].status # "on_rent" => ParentsActive(n)

UpdateStatus(p) ==
    LET to == calls[p].to IN
    /\ calls[p].pc = "update"
    /\ \E n \in calls[p].rows :
          /\ RowFree(n)
          /\ IF Accepted(n, to)
             THEN /\ riderCars' = [riderCars EXCEPT ![n].status = to]
                  /\ IF to \in {"on_rent", "off_rent"} THEN AdvanceTo(p, "history") ELSE Finish(p)
             ELSE Finish(p) /\ UNCHANGED riderCars
    /\ UNCHANGED <<sideVars, leases, riders, ready>>

\* INSERT INTO on_rent_history, which no rule reads; going on rent also closes the
\* idle period.
LogHistory(p) ==
    LET on == calls[p].to = "on_rent" IN
    /\ calls[p].pc = "history"
    /\ tasks' = IF on THEN tasks \cup {RiderCarTask("closeIdle", n) : n \in calls[p].rows} ELSE tasks
    /\ IF on THEN Finish(p) ELSE AdvanceTo(p, "count")
    /\ UNCHANGED <<disposed, idle, triage, resolving, leaseTables>>

\* Mutant: the idle period opens, nobody is told.
CountReturnedNoTriage(p) ==
    /\ calls[p].pc = "count"
    /\ \E n \in calls[p].rows :
          /\ RiderFree(riderCars[n].rider)
          /\ tasks' = tasks \cup {RiderCarTask("openIdle", n)}
    /\ Finish(p)
    /\ UNCHANGED <<disposed, idle, triage, resolving, leaseTables>>

\* car_count (waits for the rider), then the promises of a car off rent (S8).
CountReturned(p) ==
    /\ calls[p].pc = "count"
    /\ \E n \in calls[p].rows :
          /\ RiderFree(riderCars[n].rider)
          /\ tasks' = tasks \cup {RiderCarTask(k, n) : k \in {"openIdle", "createTriage"}}
    /\ Finish(p)
    /\ UNCHANGED <<disposed, idle, triage, resolving, leaseTables>>

-----------------------------------------------------------------------------
\* Call p waits for a row or rider that call q holds.
WaitsFor(p, q) ==
    /\ p # q
    /\ \/ /\ calls[p].pc = "removed"
          /\ \E n \in calls[p].rows : HoldsRider(q, riderCars[n].rider)
       \/ /\ calls[p].pc = "removeCars"
          /\ \E n \in ActiveRows(calls[p].riders) : HoldsRow(q, n)

\* Mutant: nobody breaks a cycle.
DeadlockStays(p) == FALSE

\* PostgreSQL aborts one transaction of a cycle.
DeadlockAbort(p) ==
    /\ \E q \in LeaseProcs : WaitsFor(p, q) /\ WaitsFor(q, p)
    /\ Finish(p)
    /\ UNCHANGED <<sideVars, leaseTables>>

LHCrash ==
    /\ Faults
    /\ tasks' = {}
    /\ resolving' = {}
    /\ calls' = [p \in LeaseProcs |-> NoLeaseCall]
    /\ UNCHANGED <<disposed, idle, triage, leaseTables>>

CallStep(p) ==
    \/ InsertRider(p) \/ ExpireRiders(p) \/ RemoveCars(p) \/ CommitDeactivation(p)
    \/ InsertCar(p) \/ CountCar(p) \/ InsertAssigned(p)
    \/ UpdateRemoved(p) \/ CommitRemoval(p)
    \/ UpdateStatus(p) \/ LogHistory(p) \/ CountReturned(p)
    \/ DeadlockAbort(p)

StartCall(p) ==
    \/ \E r \in Riders : CreateRider(p, r) \/ DeactivateRider(p, r)
    \/ \E l \in Leases : DeactivateLease(p, l)
    \/ \E r \in Riders, c \in Cars : AddCar(p, r, c) \/ AssignToRider(p, r, c)
    \/ \E n \in DOMAIN riderCars : RemoveCar(p, n)
    \/ \E n \in DOMAIN riderCars, to \in RequestedStatuses : StartTransition(p, n, to)

LHSideStep == (RunPromise \/ PromiseRejects \/ PlannerStep) /\ UNCHANGED <<leaseTables, calls>>

LHNext ==
    \/ \E p \in LeaseProcs : CallStep(p) \/ StartCall(p)
    \/ \E l \in Leases, s \in LeaseStatuses : UpdateLease(l, s)
    \/ \E c \in Cars : ReadyToLoad(c)
    \/ LHSideStep
    \/ LHCrash

LHSpec == LHInit /\ [][LHNext]_lhVars

-----------------------------------------------------------------------------
(***************************************************************************)
(* R15: a car is active on one rider at most.  addCarToRider looks first,  *)
(* but several calls may look before any of them inserts.                  *)
(***************************************************************************)
OneActiveRider ==
    \A m, n \in DOMAIN riderCars :
        riderCars[m].car = riderCars[n].car /\ IsActive(m) /\ IsActive(n) => m = n

(***************************************************************************)
(* R19 as a state: an expired rider has no car on rent or releasing.  The  *)
(* triggers test it when a rider expires and when a car goes on rent, each *)
(* against what is committed; a car added between the UPDATE of rider_cars *)
(* and the COMMIT of a deactivation is seen by neither.                    *)
(***************************************************************************)
ExpiredRiderHasNoRentedCar ==
    \A n \in DOMAIN riderCars :
        riders[riderCars[n].rider] = "Expired" => riderCars[n].status \notin Rented

(***************************************************************************)
(* R16 and R23 over the life of a row: rented cars end through releasing,  *)
(* cars never rented end as cancelled, and an ended row stays as it is,    *)
(* whoever writes it: three services update the status from what they read *)
(* some statements ago.                                                    *)
(***************************************************************************)
RentalEndsThroughRelease ==
    [][\A n \in DOMAIN riderCars :
          /\ riderCars'[n].status = "off_rent" => riderCars[n].status \in {"releasing", "off_rent"}
          /\ riderCars'[n].status = "cancelled" => riderCars[n].status \notin Rented
          /\ ~IsActive(n) => riderCars'[n] = riderCars[n]]_riderCars

(***************************************************************************)
(* Deadlock.  AsksRow, AsksRider and AsksCar are what the next statement   *)
(* of a call has to lock; a set of calls that wait for each other goes on  *)
(* only by an abort.  The abort the model knows (WaitsFor) is enough:      *)
(* every such set holds a removal and a deactivation that wait for each    *)
(* other; no other order of locks in this service can stop the calls.      *)
(***************************************************************************)
AsksRow(p, n) ==
    \/ calls[p].pc = "removeCars" /\ n \in ActiveRows(calls[p].riders)
    \/ calls[p].pc \in {"removeCar", "update"} /\ n \in calls[p].rows
    \/ /\ calls[p].pc \in {"insertCar", "assign"}
       /\ riderCars[n].car \in calls[p].cars
       /\ IsActive(n)
AsksRider(p, r) ==
    \/ /\ calls[p].pc = "expireRiders"
       /\ LeaseOf[r] \in calls[p].leases
       /\ riders[r] = "Active"
    \/ calls[p].pc = "countCar" /\ r \in calls[p].riders
    \/ calls[p].pc \in {"removed", "count"} /\ \E n \in calls[p].rows : riderCars[n].rider = r
AsksCar(p, c) == calls[p].pc \in {"insertCar", "assign"} /\ c \in calls[p].cars
Waits(p, q) ==
    /\ p # q
    /\ \/ \E n \in DOMAIN riderCars : AsksRow(p, n) /\ HoldsRow(q, n)
       \/ \E r \in Riders : AsksRider(p, r) /\ HoldsRider(q, r)
       \/ \E c \in Cars : AsksCar(p, c) /\ HoldsCar(q, c)
BreaksCycle(S) == \E p, q \in S : WaitsFor(p, q) /\ WaitsFor(q, p)
CyclesAreBroken ==
    \A S \in (SUBSET LeaseProcs) \ {{}} :
        (\A p \in S : \E q \in S : Waits(p, q)) => BreaksCycle(S)

(***************************************************************************)
(* Every call ends although deactivation locks the rider before its cars   *)
(* and removal a car before its rider: PostgreSQL breaks the cycle.  A     *)
(* waiting statement is granted its lock when it is free time and again.   *)
(***************************************************************************)
LHFairSpec == LHSpec /\ \A p \in LeaseProcs : SF_lhVars(CallStep(p))
CallsEnd == \A p \in LeaseProcs : calls[p].pc # "none" ~> calls[p].pc = "none"

(***************************************************************************)
(* A return that transitionRiderCar owes the planners, by a call on its    *)
(* way or by a pending promise, stays owed until a step after which the    *)
(* car has an open triage entry, though the rider may be locked, the row   *)
(* may change hands and other calls write the same promises.               *)
(***************************************************************************)
TakenOffRent(p, n) == calls[p].pc = "history" /\ calls[p].to = "off_rent" /\ n \in calls[p].rows
OwesReturn(n) ==
    \/ \E p \in LeaseProcs :
          /\ calls[p].pc \in {"history", "count"}
          /\ calls[p].to = "off_rent"
          /\ n \in calls[p].rows
    \/ RiderCarTask("createTriage", n) \in tasks
ReturnStaysOwed ==
    [][\A n \in DOMAIN riderCars :
          OwesReturn(n) => OwesReturn(n)' \/ OpenEntries(riderCars[n].car)' # {}]_lhVars

(***************************************************************************)
(* S8 for transitionRiderCar: after it has taken a car off rent, the car   *)
(* has an open triage entry, its own or one that stood in its way, when    *)
(* nothing fails, although three more statements and two promises come in  *)
(* between.                                                                *)
(***************************************************************************)
RunLeaseTask(k, c, n) ==
    LET t == [kind |-> k, car |-> c, from |-> "rider_cars", src |-> n] IN
    (RunOpenIdle(t) \/ RunCloseIdle(t) \/ RunCreateTriage(t)) /\ UNCHANGED <<leaseTables, calls>>
LHPromiseFairSpec ==
    /\ LHFairSpec
    /\ \A k \in TaskKinds, c \in Cars, n \in 1..MaxRiderCars : WF_lhVars(RunLeaseTask(k, c, n))
RentEndIsTriaged ==
    /\ ReturnStaysOwed
    /\ \A p \in LeaseProcs, n \in 1..MaxRiderCars :
          TakenOffRent(p, n) ~>
              n \in DOMAIN riderCars /\ OpenEntries(riderCars[n].car) # {}
=============================================================================
