------------------------------- MODULE Transfer -------------------------------
(***************************************************************************)
(* transfer.service.ts over car_lease_transitions: a car goes from one     *)
(* rider to another without a release of its own.  It runs beside the      *)
(* lease and the release service (module Release): all three write         *)
(* rider_cars, and a release completes the transfer it is linked to.       *)
(*                                                                         *)
(* A transfer call is a process of its own statements (`trCalls`).  The    *)
(* transaction of completeTransfer has taken the rows of the source off    *)
(* rent, as a lease call at "held", when it inserts the destination's row. *)
(* The INSERT, the UPDATE of the transfer and the COMMIT are one step: no  *)
(* other transaction meets it in between.                                  *)
(***************************************************************************)
EXTENDS Release

CONSTANTS
    TransferRequests, \* endpoints of transfers clients use
    MaxTransfers      \* bound: rows of car_lease_transitions

TransferStatuses == {"Pending", "InProgress", "Complete", "Cancelled"}

ASSUME TransferAssumption ==
    /\ TransferRequests \subseteq {"initiate", "confirm", "complete", "cancel"}
    /\ MaxTransfers \in Nat

VARIABLES
    transfers, \* rows of car_lease_transitions, in order of creation
    trCalls    \* the statement each transfer call runs next

trVars == <<relVars, transfers, trCalls>>

TransferRow == [from: Riders, to: Riders, car: Cars, status: TransferStatuses]
TrPCs == {"none", "destination", "existing", "released", "insert", "confirm", "take",
          "commit", "cancel"}
\* transfer, row: the rows of car_lease_transitions and rider_cars the call works on;
\* to: the destination, in a set.
TrCall == [pc: TrPCs, transfer: Nat, row: Nat, to: SUBSET Riders]
NoTrCall == [pc |-> "none", transfer |-> 0, row |-> 0, to |-> {}]

TrTypeOK ==
    /\ RelTypeOK
    /\ transfers \in Seq(TransferRow)
    /\ trCalls \in [LeaseProcs -> TrCall]

TrInit ==
    /\ RelInit
    /\ transfers = <<>>
    /\ trCalls = [p \in LeaseProcs |-> NoTrCall]

Terminal == {"Complete", "Cancelled"}
OpenTransfers == {k \in DOMAIN transfers : transfers[k].status \notin Terminal}

Goto(p, pc) == trCalls' = [trCalls EXCEPT ![p].pc = pc]
EndTransfer(p) == trCalls' = [trCalls EXCEPT ![p] = NoTrCall]
BeginTransfer(p, endpoint, call) ==
    /\ endpoint \in TransferRequests
    /\ calls[p].pc = "none"
    /\ relCalls[p].pc = "none"
    /\ trCalls[p].pc = "none"
    /\ trCalls' = [trCalls EXCEPT ![p] = call]
    /\ UNCHANGED <<relVars, transfers>>
Mark(k, s) == transfers' = [transfers EXCEPT ![k].status = s]

-----------------------------------------------------------------------------
(* initiateTransfer: the SELECTs of validateTransferPrerequisites, each of *)
(* which may refuse, and the INSERT.                                       *)

\* The car is active on the source, and the destination is another rider.
InitiateTransfer(p, n, r) ==
    /\ Len(transfers) < MaxTransfers
    /\ IsActive(n)
    /\ r # riderCars[n].rider
    /\ BeginTransfer(p, "initiate", [NoTrCall EXCEPT !.pc = "destination", !.row = n, !.to = {r}])

\* A SELECT that refuses unless it finds what it wants.
Validate(p, pc, ok, next) ==
    /\ trCalls[p].pc = pc
    /\ IF ok THEN Goto(p, next) ELSE EndTransfer(p)
    /\ UNCHANGED <<relVars, transfers>>

CheckDestination(p) ==
    Validate(p, "destination", \A r \in trCalls[p].to : riders[r] = "Active", "existing")

CheckTransfers(p) ==
    Validate(p, "existing",
             \A k \in OpenTransfers : transfers[k].car # riderCars[trCalls[p].row].car, "released")

CheckReleases(p) ==
    Validate(p, "released", PendingOf(riderCars[trCalls[p].row].car) = {}, "insert")

\* Mutant: the row starts under a status of the lease service.
InsertTransferDecided(p) ==
    LET row == riderCars[trCalls[p].row] IN
    /\ trCalls[p].pc = "insert"
    /\ \E r \in trCalls[p].to :
          transfers' = Append(transfers, [from |-> row.rider, to |-> r, car |-> row.car,
                                          status |-> "decided"])
    /\ EndTransfer(p)
    /\ UNCHANGED relVars

\* INSERT INTO car_lease_transitions: no index and no trigger repeats a test.
InsertTransfer(p) ==
    LET row == riderCars[trCalls[p].row] IN
    /\ trCalls[p].pc = "insert"
    /\ \E r \in trCalls[p].to :
          transfers' = Append(transfers, [from |-> row.rider, to |-> r, car |-> row.car,
                                          status |-> "Pending"])
    /\ EndTransfer(p)
    /\ UNCHANGED relVars

-----------------------------------------------------------------------------
(* confirmTransfer, cancelTransfer: the SELECT and its test, then an       *)
(* UPDATE that names the id only.                                          *)

StartConfirm(p, k) ==
    /\ transfers[k].status = "Pending"
    /\ BeginTransfer(p, "confirm", [NoTrCall EXCEPT !.pc = "confirm", !.transfer = k])

StartCancel(p, k) ==
    /\ k \in OpenTransfers
    /\ BeginTransfer(p, "cancel", [NoTrCall EXCEPT !.pc = "cancel", !.transfer = k])

Update(p, pc, s) ==
    /\ trCalls[p].pc = pc
    /\ Mark(trCalls[p].transfer, s)
    /\ EndTransfer(p)
    /\ UNCHANGED relVars

ConfirmTransfer(p) == Update(p, "confirm", "InProgress")
CancelTransfer(p) == Update(p, "cancel", "Cancelled")

-----------------------------------------------------------------------------
(* completeTransfer.                                                       *)

StartComplete(p, k) ==
    /\ transfers[k].status = "InProgress"
    /\ BeginTransfer(p, "complete", [NoTrCall EXCEPT !.pc = "take", !.transfer = k])

\* The rows of the source that are not ended.
SourceRows(k) ==
    {n \in DOMAIN riderCars :
        riderCars[n].rider = transfers[k].from /\ riderCars[n].car = transfers[k].car /\ IsActive(n)}

\* Mutant: the trigger lets a transfer end what is on rent.
TakeFromSourceOnRent(p) ==
    LET rows == SourceRows(trCalls[p].transfer) IN
    /\ trCalls[p].pc = "take"
    /\ \A n \in rows : RowFree(n)
    /\ Become(p, [NoLeaseCall EXCEPT !.pc = "held", !.rows = rows])
    /\ Goto(p, "commit")
    /\ UNCHANGED <<sideVars, leaseTables, releases, relCalls, transfers>>

\* BEGIN; UPDATE rider_cars SET status = 'off_rent' ...  The trigger admits that from
\* 'releasing' only: any other row aborts.
TakeFromSource(p) ==
    LET rows == SourceRows(trCalls[p].transfer) IN
    /\ trCalls[p].pc = "take"
    /\ \A n \in rows : RowFree(n)
    /\ IF \E n \in rows : riderCars[n].status # "releasing"
       THEN EndTransfer(p) /\ UNCHANGED calls
       ELSE Become(p, [NoLeaseCall EXCEPT !.pc = "held", !.rows = rows]) /\ Goto(p, "commit")
    /\ UNCHANGED <<sideVars, leaseTables, releases, relCalls, transfers>>

\* The active rows of the car but those the transaction has ended itself.
OtherRows(p, c) ==
    {n \in DOMAIN riderCars \ calls[p].rows : riderCars[n].car = c /\ IsActive(n)}

\* rider_cars with the rows the transaction has taken.
Taken(p) ==
    [n \in DOMAIN riderCars |->
       IF n \in calls[p].rows THEN [riderCars[n] EXCEPT !.status = "off_rent"] ELSE riderCars[n]]

Commit(p) ==
    /\ Mark(trCalls[p].transfer, "Complete")
    /\ Finish(p)
    /\ EndTransfer(p)
    /\ UNCHANGED <<sideVars, leases, riders, ready, releases, relCalls>>

Decided(r, c) == [rider |-> r, car |-> c, status |-> "decided"]

\* Mutant: the row of the destination is inserted before the source's is ended.
CommitInsertFirst(p) ==
    LET t == transfers[trCalls[p].transfer] IN
    /\ trCalls[p].pc = "commit"
    /\ \A q \in LeaseProcs : ~HoldsCar(q, t.car)
    /\ \A n \in OtherRows(p, t.car) : RowFree(n)
    /\ \/ ~Carries(t.car) /\ riderCars' = Append(Taken(p), Decided(t.to, t.car))
       \/ (Carries(t.car) \/ MayBeSameDay(t.to, t.car)) /\ riderCars' = Taken(p)
    /\ Commit(p)

\* Mutant: the INSERT is not told what to do on a conflict, and no index finds one.
CommitNoConflict(p) ==
    LET t == transfers[trCalls[p].transfer] IN
    /\ trCalls[p].pc = "commit"
    /\ \A q \in LeaseProcs : ~HoldsCar(q, t.car)
    /\ \A n \in OtherRows(p, t.car) : RowFree(n)
    /\ riderCars' = Append(Taken(p), Decided(t.to, t.car))
    /\ Commit(p)

\* ... INSERT INTO rider_cars ... ON CONFLICT DO NOTHING, for each of the two unique
\* indexes, UPDATE car_lease_transitions, which names the id only, COMMIT.
CommitTransfer(p) ==
    LET t == transfers[trCalls[p].transfer] IN
    /\ trCalls[p].pc = "commit"
    /\ \A q \in LeaseProcs : ~HoldsCar(q, t.car)
    /\ \A n \in OtherRows(p, t.car) : RowFree(n)
    /\ \/ OtherRows(p, t.car) = {} /\ riderCars' = Append(Taken(p), Decided(t.to, t.car))
       \/ /\ OtherRows(p, t.car) # {} \/ MayBeSameDay(t.to, t.car)
          /\ riderCars' = Taken(p)
    /\ Commit(p)

-----------------------------------------------------------------------------
TransferStep(p) ==
    \/ CheckDestination(p) \/ CheckTransfers(p) \/ CheckReleases(p) \/ InsertTransfer(p)
    \/ ConfirmTransfer(p) \/ CancelTransfer(p)
    \/ TakeFromSource(p) \/ CommitTransfer(p)

StartTransfer(p) ==
    \/ \E n \in DOMAIN riderCars, r \in Riders : InitiateTransfer(p, n, r)
    \/ \E k \in DOMAIN transfers : StartConfirm(p, k) \/ StartCancel(p, k) \/ StartComplete(p, k)

\* completeRelease marks the transfer its release names, if any and still open, in its
\* transaction; clients choose the link when they initiate the release.
CompleteLinked == UNCHANGED transfers \/ \E k \in OpenTransfers : Mark(k, "Complete")

\* The release service goes on.
ReleaseServes(p) ==
    /\ ReleaseStep(p) \/ (trCalls[p].pc = "none" /\ StartRelease(p))
    /\ IF relCalls[p].pc = "commit" THEN CompleteLinked ELSE UNCHANGED transfers
    /\ UNCHANGED trCalls

\* The lease service goes on; a process runs one request at a time.
LeaseServes ==
    /\ LeaseStep
    /\ \A p \in LeaseProcs : trCalls[p].pc # "none" => UNCHANGED calls[p]
    /\ UNCHANGED <<transfers, trCalls>>

TrCrash ==
    /\ RelCrash
    /\ trCalls' = [p \in LeaseProcs |-> NoTrCall]
    /\ UNCHANGED transfers

TrNext ==
    \/ \E p \in LeaseProcs : TransferStep(p) \/ StartTransfer(p)
    \/ \E p \in LeaseProcs : ReleaseServes(p)
    \/ LeaseServes
    \/ TrCrash

TrSpec == TrInit /\ [][TrNext]_trVars

-----------------------------------------------------------------------------
(***************************************************************************)
(* A completed transfer leaves its car on a rider: the destination's row   *)
(* is inserted when the source's has ended, or the car is on another rider *)
(* already.  The one exception is the index of the same day, which         *)
(* ON CONFLICT DO NOTHING passes over in silence: the row of the source    *)
(* ends and the destination gets none.                                     *)
(***************************************************************************)
CompletionKeepsCar ==
    [][\A p \in LeaseProcs :
          LET t == transfers[trCalls[p].transfer] IN
          /\ trCalls[p].pc = "commit"
          /\ transfers'[trCalls[p].transfer].status = "Complete"
          /\ trCalls'[p].pc = "none"
          => \/ \E n \in DOMAIN riderCars' :
                   riderCars'[n].car = t.car /\ riderCars'[n].status \notin Ended
             \/ MayBeSameDay(t.to, t.car)]_transfers

(***************************************************************************)
(* The three services implement Custody: whoever writes rider_cars, a car  *)
(* has one rental at most, which moves, ends and changes hands as Custody  *)
(* says, although a transfer writes two rows where Custody takes a step.   *)
(***************************************************************************)
RentalOf(n) == [rider |-> riderCars[n].rider, status |-> riderCars[n].status]
Rentals ==
    [c \in Cars |-> {RentalOf(n) : n \in {m \in DOMAIN riderCars : riderCars[m].car = c /\ IsActive(m)}}]
CustodyOfCars == INSTANCE Custody WITH custody <- Rentals
CustodyKept == CustodyOfCars!Spec

(***************************************************************************)
(* Deadlock with the three services at work: a release locks its release   *)
(* and then rows, a transfer takes rows and then inserts one for their     *)
(* car.  Neither adds a cycle to those of the lease service.               *)
(***************************************************************************)
TrAsksRow(p, n) ==
    \/ AsksRow(p, n)
    \/ relCalls[p].pc = "offRent" /\ n \in RowsOf(relCalls[p].release, "releasing")
    \/ trCalls[p].pc = "take" /\ n \in SourceRows(trCalls[p].transfer)
    \/ trCalls[p].pc = "commit" /\ n \in OtherRows(p, transfers[trCalls[p].transfer].car)
TrAsksCar(p, c) ==
    \/ AsksCar(p, c)
    \/ trCalls[p].pc = "commit" /\ c = transfers[trCalls[p].transfer].car
AsksRelease(p, k) ==
    relCalls[p].pc \in {"advance", "complete", "cancel"} /\ k = relCalls[p].release
TrWaits(p, q) ==
    /\ p # q
    /\ \/ \E n \in DOMAIN riderCars : TrAsksRow(p, n) /\ HoldsRow(q, n)
       \/ \E r \in Riders : AsksRider(p, r) /\ HoldsRider(q, r)
       \/ \E c \in Cars : TrAsksCar(p, c) /\ HoldsCar(q, c)
       \/ \E k \in DOMAIN releases : AsksRelease(p, k) /\ HoldsRelease(q, k)
TrCyclesAreBroken ==
    \A S \in (SUBSET LeaseProcs) \ {{}} :
        (\A p \in S : \E q \in S : TrWaits(p, q)) => BreaksCycle(S)
=============================================================================
