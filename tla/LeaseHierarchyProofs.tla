------------------------ MODULE LeaseHierarchyProofs ------------------------
(***************************************************************************)
(* Proofs about LeaseHierarchy, for any sets of leases, riders, cars and   *)
(* calls, any requests and any bounds.                                     *)
(***************************************************************************)
EXTENDS LeaseHierarchy, CarSideEffectsProofs

-----------------------------------------------------------------------------
(* The record of a call.                                                   *)

LEMMA NoLeaseCallType == NoLeaseCall \in Call
BY DEF NoLeaseCall, Call, PCs, CarStatuses

LEMMA Becomes ==
    ASSUME calls \in [LeaseProcs -> Call], NEW p \in LeaseProcs, NEW call \in Call,
           Become(p, call)
    PROVE  /\ calls' \in [LeaseProcs -> Call]
           /\ calls'[p] = call
           /\ \A q \in LeaseProcs : q # p => calls'[q] = calls[q]
BY DEF Become

LEMMA Advances ==
    ASSUME calls \in [LeaseProcs -> Call], NEW p \in LeaseProcs, NEW pc \in PCs,
           AdvanceTo(p, pc)
    PROVE  /\ calls' \in [LeaseProcs -> Call]
           /\ calls'[p].pc = pc
           /\ calls'[p].leases = calls[p].leases
           /\ calls'[p].riders = calls[p].riders
           /\ calls'[p].cars = calls[p].cars
           /\ calls'[p].rows = calls[p].rows
           /\ calls'[p].to = calls[p].to
           /\ \A q \in LeaseProcs : q # p => calls'[q] = calls[q]
BY DEF AdvanceTo, Call

LEMMA Finishes ==
    ASSUME calls \in [LeaseProcs -> Call], NEW p \in LeaseProcs, Finish(p)
    PROVE  /\ calls' \in [LeaseProcs -> Call]
           /\ calls'[p] = NoLeaseCall
           /\ \A q \in LeaseProcs : q # p => calls'[q] = calls[q]
BY NoLeaseCallType, Becomes DEF Finish

\* What a call has in its record when it starts.
Started(call) ==
    \/ call.pc \in {"insertRider", "expireRiders"} /\ call.rows = {}
    \/ /\ call.pc = "removeCars"
       /\ \E r \in Riders : call.riders = {r} /\ RiderFree(r)
    \/ /\ call.pc \in {"insertCar", "assign"}
       /\ call.pc = "assign" => "assignToRider" \in Requests
       /\ \E r \in Riders, c \in Cars : call.riders = {r} /\ call.cars = {c}
    \/ /\ call.pc \in {"removeCar", "update"}
       /\ call.pc = "removeCar" => call.to \in Ended
       /\ \E n \in DOMAIN riderCars : call.rows = {n}

LEMMA Starts ==
    ASSUME LHTypeOK, NEW p \in LeaseProcs, StartCall(p)
    PROVE  /\ \E call \in Call : Become(p, call) /\ Started(call)
           /\ UNCHANGED <<sideVars, leaseTables>>
<1>0. DOMAIN riderCars \subseteq Nat
  BY LenProperties DEF LHTypeOK
<1>1. ASSUME NEW r \in Riders, CreateRider(p, r)
      PROVE  \E call \in Call : Become(p, call) /\ Started(call)
  <2> DEFINE call == [NoLeaseCall EXCEPT !.pc = "insertRider", !.riders = {r}]
  <2>1. call \in Call
    BY <1>1 DEF NoLeaseCall, Call, PCs, CarStatuses
  <2>2. Started(call)
    BY <2>1 DEF Started, NoLeaseCall
  <2>3. Become(p, call)
    BY <1>1 DEF CreateRider
  <2> HIDE DEF call
  <2> QED
    BY <2>1, <2>2, <2>3
<1>2. ASSUME NEW r \in Riders, DeactivateRider(p, r)
      PROVE  \E call \in Call : Become(p, call) /\ Started(call)
  <2> DEFINE call == [NoLeaseCall EXCEPT !.pc = "removeCars", !.riders = {r}]
  <2>1. call \in Call
    BY <1>2 DEF NoLeaseCall, Call, PCs, CarStatuses
  <2>2. Started(call)
    BY <1>2 DEF Started, DeactivateRider, NoLeaseCall
  <2>3. Become(p, call)
    BY <1>2 DEF DeactivateRider
  <2> HIDE DEF call
  <2> QED
    BY <2>1, <2>2, <2>3
<1>3. ASSUME NEW l \in Leases, DeactivateLease(p, l)
      PROVE  \E call \in Call : Become(p, call) /\ Started(call)
  <2> DEFINE call == [NoLeaseCall EXCEPT !.pc = "expireRiders", !.leases = {l}]
  <2>1. call \in Call
    BY <1>3 DEF NoLeaseCall, Call, PCs, CarStatuses
  <2>2. Started(call)
    BY <1>3 DEF Started, NoLeaseCall
  <2>3. Become(p, call)
    BY <1>3 DEF DeactivateLease
  <2> HIDE DEF call
  <2> QED
    BY <2>1, <2>2, <2>3
<1>4. ASSUME NEW r \in Riders, NEW c \in Cars, AddCar(p, r, c)
      PROVE  \E call \in Call : Become(p, call) /\ Started(call)
  <2> DEFINE call == [NoLeaseCall EXCEPT !.pc = "insertCar", !.riders = {r}, !.cars = {c}]
  <2>1. call \in Call
    BY <1>4 DEF NoLeaseCall, Call, PCs, CarStatuses
  <2>2. Started(call)
    BY <1>4 DEF Started, NoLeaseCall
  <2>3. Become(p, call)
    BY <1>4 DEF AddCar
  <2> HIDE DEF call
  <2> QED
    BY <2>1, <2>2, <2>3
<1>5. ASSUME NEW r \in Riders, NEW c \in Cars, AssignToRider(p, r, c)
      PROVE  \E call \in Call : Become(p, call) /\ Started(call)
  <2> DEFINE call == [NoLeaseCall EXCEPT !.pc = "assign", !.riders = {r}, !.cars = {c}]
  <2>1. call \in Call
    BY <1>5 DEF NoLeaseCall, Call, PCs, CarStatuses
  <2>2. Started(call)
    BY <1>5 DEF Started, AssignToRider, MayCall, NoLeaseCall
  <2>3. Become(p, call)
    BY <1>5 DEF AssignToRider
  <2> HIDE DEF call
  <2> QED
    BY <2>1, <2>2, <2>3
<1>6. ASSUME NEW n \in DOMAIN riderCars, RemoveCar(p, n)
      PROVE  \E call \in Call : Become(p, call) /\ Started(call)
  <2> DEFINE call == [NoLeaseCall EXCEPT
                    !.pc = "removeCar", !.rows = {n},
                    !.to = IF riderCars[n].status \in Rented THEN "off_rent" ELSE "cancelled"]
  <2>1. call \in Call
    <3>1. {n} \in SUBSET Nat
      BY <1>0
    <3>2. (IF riderCars[n].status \in Rented THEN "off_rent" ELSE "cancelled") \in CarStatuses
      BY DEF CarStatuses
    <3> QED
      BY <3>1, <3>2 DEF NoLeaseCall, Call, PCs
  <2>2. Started(call)
    BY <1>6 DEF Started, Ended, NoLeaseCall
  <2>3. Become(p, call)
    BY <1>6 DEF RemoveCar
  <2> HIDE DEF call
  <2> QED
    BY <2>1, <2>2, <2>3
<1>7. ASSUME NEW n \in DOMAIN riderCars, NEW to \in RequestedStatuses, StartTransition(p, n, to)
      PROVE  \E call \in Call : Become(p, call) /\ Started(call)
  <2> DEFINE call == [NoLeaseCall EXCEPT !.pc = "update", !.rows = {n}, !.to = to]
  <2>1. call \in Call
    BY <1>0, <1>7, LeaseAssumption DEF NoLeaseCall, Call, PCs, CarStatuses
  <2>2. Started(call)
    BY <1>7 DEF Started, NoLeaseCall
  <2>3. Become(p, call)
    BY <1>7 DEF StartTransition, TransitionCall
  <2> HIDE DEF call
  <2> QED
    BY <2>1, <2>2, <2>3
<1>8. UNCHANGED <<sideVars, leaseTables>>
  BY DEF StartCall, CreateRider, DeactivateRider, DeactivateLease, AddCar, AssignToRider,
         RemoveCar, StartTransition
<1>9. \E call \in Call : Become(p, call) /\ Started(call)
  BY <1>1, <1>2, <1>3, <1>4, <1>5, <1>6, <1>7, ZenonT(60) DEF StartCall
<1> QED
  BY <1>8, <1>9

-----------------------------------------------------------------------------
(* Type correctness.                                                       *)

LEMMA RiderCarType ==
    ASSUME riderCars \in Seq(RiderCar)
    PROVE  /\ DOMAIN riderCars \subseteq Nat
           /\ \A n \in DOMAIN riderCars : /\ riderCars[n] \in RiderCar
                                          /\ riderCars[n].rider \in Riders
                                          /\ riderCars[n].car \in Cars
                                          /\ riderCars[n].status \in CarStatuses
<1>1. DOMAIN riderCars \subseteq Nat
  BY LenProperties
<1>2. \A n \in DOMAIN riderCars : riderCars[n] \in RiderCar
  OBVIOUS
<1> QED
  BY <1>1, <1>2 DEF RiderCar

LEMMA StatusType ==
    ASSUME riderCars \in Seq(RiderCar), NEW n \in DOMAIN riderCars, NEW to \in CarStatuses
    PROVE  [riderCars EXCEPT ![n].status = to] \in Seq(RiderCar)
<1>1. [riderCars[n] EXCEPT !.status = to] \in RiderCar
  BY RiderCarType DEF RiderCar
<1>2. [riderCars EXCEPT ![n] = [riderCars[n] EXCEPT !.status = to]] \in Seq(RiderCar)
  BY <1>1, ExceptSeq, LenProperties
<1> QED
  BY <1>2

LEMMA DecidedType ==
    ASSUME riderCars \in Seq(RiderCar), NEW r \in Riders, NEW c \in Cars, AppendDecided(r, c)
    PROVE  riderCars' \in Seq(RiderCar)
<1>1. [rider |-> r, car |-> c, status |-> "decided"] \in RiderCar
  BY DEF RiderCar, CarStatuses
<1> QED
  BY <1>1, AppendProperties DEF AppendDecided

LEMMA TaskType ==
    ASSUME riderCars \in Seq(RiderCar), NEW n \in DOMAIN riderCars, NEW k \in TaskKinds
    PROVE  RiderCarTask(k, n) \in Task
BY RiderCarType DEF RiderCarTask, Task, Sources

(***************************************************************************)
(* The shape of a call: what its record holds at each statement.  D is the *)
(* set of the rows there are.                                              *)
(***************************************************************************)
Shaped(call, D) ==
    /\ call.pc \in {"insertCar", "countCar", "assign"} =>
          \E r \in Riders, c \in Cars : call.riders = {r} /\ call.cars = {c}
    /\ call.pc = "assign" => "assignToRider" \in Requests
    /\ call.pc \in {"removeCar", "removed", "update", "history", "count"} =>
          \E n \in D : call.rows = {n}
    /\ call.pc \in {"removeCar", "removed"} => call.to \in Ended
    /\ call.pc = "expireRiders" => call.rows = {}
    /\ call.pc \in {"commit", "held"} => call.rows \subseteq D
Shape == \A p \in LeaseProcs : Shaped(calls[p], DOMAIN riderCars)
LHTyped == LHTypeOK /\ Shape

LEMMA ShapedGrows ==
    ASSUME NEW call, NEW D, NEW E, D \subseteq E, Shaped(call, D)
    PROVE  Shaped(call, E)
BY DEF Shaped

LEMMA ShapedNone == \A D : Shaped(NoLeaseCall, D)
BY DEF Shaped, NoLeaseCall

LEMMA ShapedStart ==
    ASSUME NEW call \in Call, Started(call)
    PROVE  Shaped(call, DOMAIN riderCars)
BY DEF Shaped, Started

LEMMA BecomeShape ==
    ASSUME LHTyped, DOMAIN riderCars \subseteq DOMAIN riderCars',
           NEW p \in LeaseProcs, NEW call \in Call, Become(p, call),
           Shaped(call, DOMAIN riderCars')
    PROVE  calls' \in [LeaseProcs -> Call] /\ Shape'
<1>1. /\ calls' \in [LeaseProcs -> Call]
      /\ calls'[p] = call
      /\ \A q \in LeaseProcs : q # p => calls'[q] = calls[q]
  BY Becomes DEF LHTyped, LHTypeOK
<1>2. \A q \in LeaseProcs : Shaped(calls[q], DOMAIN riderCars')
  BY ShapedGrows DEF LHTyped, Shape
<1> QED
  BY <1>1, <1>2 DEF Shape

LEMMA FinishShape ==
    ASSUME LHTyped, DOMAIN riderCars \subseteq DOMAIN riderCars',
           NEW p \in LeaseProcs, Finish(p)
    PROVE  calls' \in [LeaseProcs -> Call] /\ Shape'
BY NoLeaseCallType, ShapedNone, BecomeShape DEF Finish

LEMMA AdvanceShape ==
    ASSUME LHTyped, DOMAIN riderCars \subseteq DOMAIN riderCars',
           NEW p \in LeaseProcs, NEW pc \in PCs, AdvanceTo(p, pc),
           Shaped([calls[p] EXCEPT !.pc = pc], DOMAIN riderCars)
    PROVE  calls' \in [LeaseProcs -> Call] /\ Shape'
<1> DEFINE call == [calls[p] EXCEPT !.pc = pc]
<1>1. call \in Call
  BY DEF LHTyped, LHTypeOK, Call
<1>2. Become(p, call)
  BY DEF AdvanceTo, Become
<1>3. Shaped(call, DOMAIN riderCars')
  BY ShapedGrows
<1> QED
  BY <1>1, <1>2, <1>3, BecomeShape

LEMMA AppendGrows ==
    ASSUME riderCars \in Seq(RiderCar), NEW r \in Riders, NEW c \in Cars, AppendDecided(r, c)
    PROVE  /\ riderCars' \in Seq(RiderCar)
           /\ DOMAIN riderCars' = DOMAIN riderCars \cup {Len(riderCars) + 1}
           /\ Len(riderCars) + 1 \notin DOMAIN riderCars
           /\ riderCars'[Len(riderCars) + 1].rider = r
           /\ riderCars'[Len(riderCars) + 1].car = c
           /\ riderCars'[Len(riderCars) + 1].status = "decided"
           /\ \A n \in DOMAIN riderCars : riderCars'[n] = riderCars[n]
           /\ Len(riderCars') \in Nat
<1> DEFINE row == [rider |-> r, car |-> c, status |-> "decided"]
<1>1. row \in RiderCar
  BY DEF RiderCar, CarStatuses
<1>2. riderCars' = Append(riderCars, row)
  BY DEF AppendDecided
<1>3. Len(riderCars) \in Nat /\ DOMAIN riderCars = 1..Len(riderCars)
  BY LenProperties
<1> HIDE DEF row
<1>4. /\ riderCars' \in Seq(RiderCar)
      /\ Len(riderCars') = Len(riderCars) + 1
      /\ \A n \in 1..Len(riderCars) : riderCars'[n] = riderCars[n]
      /\ riderCars'[Len(riderCars) + 1] = row
  BY <1>1, <1>2, AppendProperties
<1>5. DOMAIN riderCars' = 1..Len(riderCars')
  BY <1>4, LenProperties
<1>6. row.rider = r /\ row.car = c /\ row.status = "decided"
  BY DEF row
<1> QED
  BY <1>3, <1>4, <1>5, <1>6

\* Every statement of a call keeps the types and leaves the next call well formed.
LEMMA CallStepTypes ==
    ASSUME LHTyped, NEW p \in LeaseProcs, CallStep(p)
    PROVE  LHTyped'
<1> USE DEF LHTyped
<1>0. /\ LHTypeOK /\ calls[p] \in Call /\ Shaped(calls[p], DOMAIN riderCars)
      /\ DOMAIN riderCars \subseteq Nat
  BY RiderCarType DEF LHTypeOK, Shape
<1>1. ASSUME Finish(p), DOMAIN riderCars \subseteq DOMAIN riderCars'
      PROVE  calls' \in [LeaseProcs -> Call] /\ Shape'
  BY <1>1, FinishShape
<1>2. CASE InsertRider(p)
  <2>1. riders' \in [Riders -> RiderStatuses]
    BY <1>2 DEF InsertRider, LHTypeOK, RiderStatuses
  <2> QED
    BY <2>1, <1>1, <1>2 DEF InsertRider, LHTypeOK, SideTypeOK, sideVars
<1>3. CASE ExpireRiders(p)
  <2> DEFINE expiring == {r \in Riders : LeaseOf[r] \in calls[p].leases /\ riders[r] = "Active"}
             call == [calls[p] EXCEPT !.pc = IF expiring = {} THEN "commit" ELSE "removeCars",
                                      !.riders = expiring]
  <2>1. Finish(p) \/ Become(p, call)
    BY <1>3 DEF ExpireRiders
  <2>2. UNCHANGED <<sideVars, leaseTables>>
    BY <1>3 DEF ExpireRiders
  <2>3. call \in Call /\ call.pc \in {"commit", "removeCars"} /\ call.rows = calls[p].rows
    BY <1>0 DEF Call, PCs
  <2>4. calls[p].rows = {}
    BY <1>0, <1>3 DEF ExpireRiders, Shaped
  <2> HIDE DEF call
  <2>5. Shaped(call, DOMAIN riderCars')
    BY <2>3, <2>4 DEF Shaped
  <2>6. calls' \in [LeaseProcs -> Call] /\ Shape'
    BY <1>1, <2>1, <2>2, <2>3, <2>5, BecomeShape DEF leaseTables
  <2> QED
    BY <1>0, <2>2, <2>6 DEF LHTypeOK, SideTypeOK, sideVars, leaseTables
<1>4. CASE RemoveCars(p)
  <2> DEFINE rows == ActiveRows(calls[p].riders)
             call == [calls[p] EXCEPT !.pc = "commit", !.rows = rows]
  <2>1. Finish(p) \/ Become(p, call)
    BY <1>4 DEF RemoveCars
  <2>2. UNCHANGED <<sideVars, leaseTables>>
    BY <1>4 DEF RemoveCars
  <2>3. rows \subseteq DOMAIN riderCars
    BY DEF ActiveRows
  <2>4. call \in Call /\ call.pc = "commit" /\ call.rows = rows
    BY <1>0, <2>3 DEF Call, PCs
  <2> HIDE DEF call, rows
  <2>5. Shaped(call, DOMAIN riderCars')
    BY <2>2, <2>3, <2>4 DEF Shaped, leaseTables
  <2>6. calls' \in [LeaseProcs -> Call] /\ Shape'
    BY <1>1, <2>1, <2>2, <2>4, <2>5, BecomeShape DEF leaseTables
  <2> QED
    BY <1>0, <2>2, <2>6 DEF LHTypeOK, SideTypeOK, sideVars, leaseTables
<1>5. CASE CommitDeactivation(p)
  <2>1. /\ leases' \in [Leases -> LeaseStatuses]
        /\ riders' \in [Riders -> RiderStatuses]
    BY <1>0, <1>5 DEF CommitDeactivation, LHTypeOK, LeaseStatuses, RiderStatuses
  <2>2. DOMAIN riderCars' = DOMAIN riderCars /\ riderCars' \in Seq(RiderCar)
    <3>1. \A n \in DOMAIN riderCars : [riderCars[n] EXCEPT !.status = "off_rent"] \in RiderCar
      BY <1>0, RiderCarType DEF LHTypeOK, RiderCar, CarStatuses
    <3>2. DOMAIN riderCars = 1..Len(riderCars) /\ Len(riderCars) \in Nat
      BY <1>0, LenProperties DEF LHTypeOK
    <3>3. riderCars' \in [1..Len(riderCars) -> RiderCar]
      BY <1>0, <1>5, <3>1, <3>2, RiderCarType DEF CommitDeactivation, LHTypeOK
    <3> QED
      BY <3>2, <3>3, SeqDef
  <2>3. UNCHANGED <<sideVars, ready>> /\ Finish(p)
    BY <1>5 DEF CommitDeactivation
  <2> QED
    BY <1>0, <1>1, <2>1, <2>2, <2>3 DEF LHTypeOK, SideTypeOK, sideVars
<1>6. CASE InsertCar(p)
  <2>1. Finish(p) \/ AdvanceTo(p, "countCar")
    BY <1>6 DEF InsertCar
  <2>2. UNCHANGED <<sideVars, leaseTables>>
    BY <1>6 DEF InsertCar
  <2>3. Shaped([calls[p] EXCEPT !.pc = "countCar"], DOMAIN riderCars)
    BY <1>0, <1>6 DEF Shaped, InsertCar, Call
  <2>4. calls' \in [LeaseProcs -> Call] /\ Shape'
    BY <1>1, <2>1, <2>2, <2>3, AdvanceShape DEF leaseTables, PCs
  <2> QED
    BY <1>0, <2>2, <2>4 DEF LHTypeOK, SideTypeOK, sideVars, leaseTables
<1>7. CASE CountCar(p)
  <2>1. PICK r \in Riders, c \in Cars : AppendDecided(r, c)
    BY <1>0, <1>7 DEF CountCar, Call
  <2>2. riderCars' \in Seq(RiderCar) /\ DOMAIN riderCars \subseteq DOMAIN riderCars'
    BY <1>0, <2>1, AppendGrows DEF LHTypeOK
  <2> QED
    BY <1>0, <1>1, <1>7, <2>2 DEF CountCar, LHTypeOK, SideTypeOK, sideVars
<1>8. CASE InsertAssigned(p)
  <2>1. PICK r \in Riders, c \in Cars : calls[p].riders = {r} /\ calls[p].cars = {c}
    BY <1>0, <1>8 DEF InsertAssigned, Shaped
  <2>2. \/ AppendDecided(r, c)
        \/ UNCHANGED riderCars
    BY <1>8, <2>1 DEF InsertAssigned
  <2>3. /\ riderCars' \in Seq(RiderCar)
        /\ DOMAIN riderCars \subseteq DOMAIN riderCars'
        /\ Len(riderCars') \in Nat
    BY <1>0, <2>2, AppendGrows, LenProperties DEF LHTypeOK
  <2>4. ready' \subseteq Cars
    BY <1>0, <1>8 DEF InsertAssigned, LHTypeOK
  <2> DEFINE task == [kind |-> "closeIdle", car |-> c, from |-> "rider_cars", src |-> Len(riderCars')]
  <2>5. task \in Task
    BY <2>3 DEF Task, TaskKinds, Sources
  <2>6. tasks' = tasks \cup {task} \/ UNCHANGED tasks
    BY <1>8, <2>1 DEF InsertAssigned
  <2> HIDE DEF task
  <2>7. tasks' \subseteq Task
    BY <1>0, <2>5, <2>6 DEF LHTypeOK, SideTypeOK
  <2>8. UNCHANGED <<disposed, idle, triage, resolving, leases, riders>> /\ Finish(p)
    BY <1>8 DEF InsertAssigned
  <2> QED
    BY <1>0, <1>1, <2>3, <2>4, <2>7, <2>8 DEF LHTypeOK, SideTypeOK
<1>9. CASE UpdateRemoved(p)
  <2>1. Finish(p) \/ AdvanceTo(p, "removed")
    BY <1>9 DEF UpdateRemoved
  <2>2. UNCHANGED <<sideVars, leaseTables>>
    BY <1>9 DEF UpdateRemoved
  <2>3. Shaped([calls[p] EXCEPT !.pc = "removed"], DOMAIN riderCars)
    BY <1>0, <1>9 DEF Shaped, UpdateRemoved, Call
  <2>4. calls' \in [LeaseProcs -> Call] /\ Shape'
    BY <1>1, <2>1, <2>2, <2>3, AdvanceShape DEF leaseTables, PCs
  <2> QED
    BY <1>0, <2>2, <2>4 DEF LHTypeOK, SideTypeOK, sideVars, leaseTables
<1>10. CASE CommitRemoval(p)
  <2>1. PICK n \in DOMAIN riderCars : calls[p].rows = {n}
    BY <1>0, <1>10 DEF CommitRemoval, Shaped
  <2>2. riderCars' = [riderCars EXCEPT ![n].status = calls[p].to]
    BY <1>10, <2>1 DEF CommitRemoval
  <2>3. riderCars' \in Seq(RiderCar) /\ DOMAIN riderCars' = DOMAIN riderCars
    BY <1>0, <2>2, StatusType DEF LHTypeOK, Call
  <2> QED
    BY <1>0, <1>1, <1>10, <2>3 DEF CommitRemoval, LHTypeOK, SideTypeOK, sideVars
<1>11. CASE UpdateStatus(p)
  <2>1. PICK n \in DOMAIN riderCars : calls[p].rows = {n}
    BY <1>0, <1>11 DEF UpdateStatus, Shaped
  <2>2. \/ riderCars' = [riderCars EXCEPT ![n].status = calls[p].to]
        \/ UNCHANGED riderCars
    BY <1>11, <2>1 DEF UpdateStatus
  <2>3. riderCars' \in Seq(RiderCar) /\ DOMAIN riderCars' = DOMAIN riderCars
    <3>1. riderCars \in Seq(RiderCar)
      BY <1>0 DEF LHTypeOK
    <3>2. calls[p].to \in CarStatuses
      BY <1>0 DEF LHTypeOK, Call
    <3> QED
      BY <2>2, <3>1, <3>2, StatusType
  <2>4. Finish(p) \/ AdvanceTo(p, "history")
    BY <1>11 DEF UpdateStatus
  <2>5. Shaped([calls[p] EXCEPT !.pc = "history"], DOMAIN riderCars)
    BY <1>0, <1>11 DEF Shaped, UpdateStatus, Call
  <2>6. calls' \in [LeaseProcs -> Call] /\ Shape'
    BY <1>1, <2>3, <2>4, <2>5, AdvanceShape DEF PCs
  <2> QED
    BY <1>0, <1>11, <2>3, <2>6 DEF UpdateStatus, LHTypeOK, SideTypeOK, sideVars
<1>12. CASE LogHistory(p)
  <2>1. PICK n \in DOMAIN riderCars : calls[p].rows = {n}
    BY <1>0, <1>12 DEF LogHistory, Shaped
  <2>2. RiderCarTask("closeIdle", n) \in Task
    BY <1>0, TaskType DEF LHTypeOK, TaskKinds
  <2>4. tasks' \subseteq Task
    <3>1. tasks' = tasks \cup {RiderCarTask("closeIdle", n)} \/ UNCHANGED tasks
      BY <1>12, <2>1 DEF LogHistory
    <3> QED
      BY <1>0, <2>2, <3>1 DEF LHTypeOK, SideTypeOK
  <2>5. Finish(p) \/ AdvanceTo(p, "count")
    BY <1>12 DEF LogHistory
  <2>6. Shaped([calls[p] EXCEPT !.pc = "count"], DOMAIN riderCars)
    BY <1>0, <1>12 DEF Shaped, LogHistory, Call
  <2>7. UNCHANGED <<disposed, idle, triage, resolving, leaseTables>>
    BY <1>12 DEF LogHistory
  <2>8. calls' \in [LeaseProcs -> Call] /\ Shape'
    BY <1>1, <2>5, <2>6, <2>7, AdvanceShape DEF PCs, leaseTables
  <2> QED
    BY <1>0, <2>4, <2>7, <2>8 DEF LHTypeOK, SideTypeOK, leaseTables
<1>13. CASE CountReturned(p)
  <2>1. PICK n \in DOMAIN riderCars : calls[p].rows = {n}
    BY <1>0, <1>13 DEF CountReturned, Shaped
  <2>2. \A k \in TaskKinds : RiderCarTask(k, n) \in Task
    BY <1>0, TaskType DEF LHTypeOK
  <2>3. tasks' \subseteq Task
    BY <1>0, <1>13, <2>1, <2>2 DEF CountReturned, LHTypeOK, SideTypeOK, TaskKinds
  <2> QED
    BY <1>0, <1>1, <1>13, <2>3 DEF CountReturned, LHTypeOK, SideTypeOK, leaseTables
<1>14. CASE DeadlockAbort(p)
  BY <1>0, <1>1, <1>14 DEF DeadlockAbort, LHTypeOK, SideTypeOK, sideVars, leaseTables
<1> QED
  BY <1>2, <1>3, <1>4, <1>5, <1>6, <1>7, <1>8, <1>9, <1>10, <1>11, <1>12, <1>13, <1>14 DEF CallStep

LEMMA LHTypedStep ==
    LHTyped /\ [LHNext]_lhVars => LHTyped'
<1> SUFFICES ASSUME LHTyped, [LHNext]_lhVars
             PROVE  LHTyped'
  OBVIOUS
<1> USE DEF LHTyped
<1>1. ASSUME NEW p \in LeaseProcs, CallStep(p)
      PROVE  LHTyped'
  BY <1>1, CallStepTypes
<1>2. ASSUME NEW p \in LeaseProcs, StartCall(p)
      PROVE  LHTyped'
  <2>1. UNCHANGED <<sideVars, leaseTables>>
    BY <1>2, Starts
  <2>2. PICK call \in Call : Become(p, call) /\ Started(call)
    BY <1>2, Starts
  <2>3. Shaped(call, DOMAIN riderCars')
    BY <2>1, <2>2, ShapedStart DEF leaseTables
  <2>4. calls' \in [LeaseProcs -> Call] /\ Shape'
    BY <2>1, <2>2, <2>3, BecomeShape DEF leaseTables
  <2> QED
    BY <2>1, <2>4 DEF LHTypeOK, SideTypeOK, sideVars, leaseTables
<1>3. ASSUME NEW l \in Leases, NEW s \in LeaseStatuses, UpdateLease(l, s)
      PROVE  LHTyped'
  <2>1. leases' \in [Leases -> LeaseStatuses]
    BY <1>3 DEF UpdateLease, LHTypeOK
  <2> QED
    BY <1>3, <2>1 DEF UpdateLease, LHTypeOK, SideTypeOK, sideVars, Shape
<1>4. ASSUME NEW c \in Cars, ReadyToLoad(c)
      PROVE  LHTyped'
  BY <1>4 DEF ReadyToLoad, LHTypeOK, SideTypeOK, sideVars, Shape
<1>5. CASE LHSideStep
  BY <1>5, PromiseTypes DEF LHSideStep, LHTypeOK, leaseTables, Shape
<1>6. CASE LHCrash
  <2>1. calls' \in [LeaseProcs -> Call] /\ Shape'
    BY <1>6, NoLeaseCallType, ShapedNone DEF LHCrash, Shape, leaseTables
  <2> QED
    BY <1>6, <2>1 DEF LHCrash, LHTypeOK, SideTypeOK, leaseTables
<1>7. CASE UNCHANGED lhVars
  BY <1>7 DEF lhVars, LHTypeOK, SideTypeOK, sideVars, leaseTables, Shape
<1> QED
  BY <1>1, <1>2, <1>3, <1>4, <1>5, <1>6, <1>7 DEF LHNext

LEMMA LHTypedInit == LHInit => LHTyped
<1> SUFFICES ASSUME LHInit
             PROVE  LHTyped
  OBVIOUS
<1>1. /\ triage \in Seq(TriageRow) /\ riderCars \in Seq(RiderCar)
  BY EmptySeq DEF LHInit, SideInit
<1>2. SideTypeOK
  BY <1>1 DEF LHInit, SideInit, SideTypeOK
<1>3. calls \in [LeaseProcs -> Call] /\ Shape
  BY NoLeaseCallType, ShapedNone DEF LHInit, Shape
<1>4. leases \in [Leases -> LeaseStatuses] /\ riders \in [Riders -> RiderStatuses]
  BY DEF LHInit, LeaseStatuses, RiderStatuses
<1> QED
  BY <1>1, <1>2, <1>3, <1>4 DEF LHTyped, LHTypeOK, LHInit

LEMMA AlwaysLHTyped == LHSpec => []LHTyped
BY LHTypedInit, LHTypedStep, PTL DEF LHSpec

(***************************************************************************)
(* Type correctness of the lease hierarchy.                                *)
(***************************************************************************)
THEOREM LHTypeCorrect == LHSpec => []LHTypeOK
<1>1. LHTyped => LHTypeOK
  BY DEF LHTyped
<1> QED
  BY <1>1, AlwaysLHTyped, PTL

-----------------------------------------------------------------------------
(* Locks.                                                                  *)

\* What a call that holds a row, a rider or a car after its step found.
TookRow(p, n) ==
    /\ RowFree(n)
    /\ calls'[p].pc \in {"commit", "held"} => riderCars[n].status = "releasing"
    /\ calls'[p].pc = "removed" => Allowed(riderCars[n].status, calls'[p].to)
TookRider(p, r) ==
    /\ calls'[p].pc = "removeCars" => RiderFree(r)
    /\ calls'[p].pc = "commit" => /\ HoldsRider(p, r)
                                  /\ ActiveRows({r}) \subseteq calls'[p].rows
TookCar(c) == CarFree(c) /\ ~Carries(c)
Holding(p) ==
    /\ \A n \in DOMAIN riderCars : HoldsRow(p, n)' => TookRow(p, n)
    /\ \A r \in Riders : HoldsRider(p, r)' => TookRider(p, r)
    /\ \A c \in Cars : HoldsCar(p, c)' => TookCar(c)
    /\ calls'[p].pc \in {"removed", "removeCars", "commit", "countCar", "held"} =>
          UNCHANGED <<riderCars, riders>>

\* A pc at which a call holds nothing that the invariants speak of.
LEMMA HoldsNothing ==
    ASSUME NEW p \in LeaseProcs,
           calls'[p].pc \notin {"removed", "removeCars", "commit", "countCar", "held"}
    PROVE  Holding(p)
BY DEF Holding, HoldsRow, HoldsRider, HoldsCar

LEMMA FinishHolds ==
    ASSUME LHTyped, NEW p \in LeaseProcs, Finish(p)
    PROVE  Holding(p) /\ \A q \in LeaseProcs : q # p => calls'[q] = calls[q]
BY Finishes, HoldsNothing DEF LHTyped, LHTypeOK, NoLeaseCall

(***************************************************************************)
(* A call never takes what another one holds.                              *)
(***************************************************************************)
LEMMA CallHolds ==
    ASSUME LHTyped, NEW p \in LeaseProcs, CallStep(p)
    PROVE  Holding(p) /\ \A q \in LeaseProcs : q # p => calls'[q] = calls[q]
<1> DEFINE Goal == Holding(p) /\ \A q \in LeaseProcs : q # p => calls'[q] = calls[q]
<1>0. /\ calls \in [LeaseProcs -> Call] /\ calls[p] \in Call /\ Shaped(calls[p], DOMAIN riderCars)
      /\ DOMAIN riderCars \subseteq Nat
  BY RiderCarType DEF LHTyped, LHTypeOK, Shape
<1>1. CASE Finish(p)
  BY <1>1, FinishHolds
<1>2. ASSUME NEW pc \in PCs \ {"removed", "removeCars", "commit", "countCar", "held"}, AdvanceTo(p, pc)
      PROVE  Goal
  BY <1>0, <1>2, Advances, HoldsNothing
<1>3. CASE ExpireRiders(p) /\ ~Finish(p)
  <2> DEFINE expiring == {r \in Riders : LeaseOf[r] \in calls[p].leases /\ riders[r] = "Active"}
             call == [calls[p] EXCEPT !.pc = IF expiring = {} THEN "commit" ELSE "removeCars",
                                      !.riders = expiring]
  <2>1. Become(p, call) /\ UNCHANGED <<riderCars, riders>>
    BY <1>3 DEF ExpireRiders, leaseTables
  <2>2. /\ call \in Call /\ call.riders = expiring /\ call.rows = calls[p].rows
        /\ call.pc = "commit" => expiring = {}
        /\ call.pc \in {"commit", "removeCars"}
    BY <1>0 DEF Call, PCs
  <2>3. calls[p].rows = {}
    BY <1>0, <1>3 DEF ExpireRiders, Shaped
  <2>4. \A r \in expiring : RiderFree(r)
    BY <1>3 DEF ExpireRiders
  <2> HIDE DEF call, expiring
  <2>5. calls'[p] = call /\ \A q \in LeaseProcs : q # p => calls'[q] = calls[q]
    BY <1>0, <2>1, <2>2, Becomes
  <2> QED
    BY <2>1, <2>2, <2>3, <2>4, <2>5 DEF Holding, HoldsRow, HoldsRider, HoldsCar, TookRider
<1>4. CASE RemoveCars(p) /\ ~Finish(p)
  <2> DEFINE rows == ActiveRows(calls[p].riders)
             call == [calls[p] EXCEPT !.pc = "commit", !.rows = rows]
  <2>1. Become(p, call) /\ UNCHANGED <<riderCars, riders>>
    BY <1>4 DEF RemoveCars, leaseTables
  <2>2. rows \subseteq DOMAIN riderCars
    BY DEF ActiveRows
  <2>3. call \in Call /\ call.pc = "commit" /\ call.rows = rows /\ call.riders = calls[p].riders
    BY <1>0, <2>2 DEF Call, PCs
  <2>4. \A n \in rows : RowFree(n) /\ riderCars[n].status = "releasing"
    BY <1>4 DEF RemoveCars
  <2>5. \A r \in calls[p].riders : ActiveRows({r}) \subseteq rows
    BY DEF ActiveRows
  <2> HIDE DEF call, rows
  <2>6. calls'[p] = call /\ \A q \in LeaseProcs : q # p => calls'[q] = calls[q]
    BY <1>0, <2>1, <2>3, Becomes
  <2> QED
    BY <1>4, <2>1, <2>3, <2>4, <2>5, <2>6
    DEF Holding, HoldsRow, HoldsRider, HoldsCar, TookRow, TookRider, RemoveCars
<1>5. CASE InsertCar(p) /\ ~Finish(p)
  <2>1. PICK c \in Cars : calls[p].cars = {c}
    BY <1>0, <1>5 DEF InsertCar, Shaped
  <2>2. TookCar(c) /\ AdvanceTo(p, "countCar") /\ UNCHANGED <<riderCars, riders>>
    BY <1>5, <2>1 DEF InsertCar, TookCar, leaseTables
  <2>3. calls'[p].pc = "countCar" /\ calls'[p].cars = {c}
    BY <1>0, <2>1, <2>2, Advances DEF PCs
  <2>4. \A q \in LeaseProcs : q # p => calls'[q] = calls[q]
    BY <1>0, <2>2, Advances DEF PCs
  <2> QED
    BY <2>2, <2>3, <2>4 DEF Holding, HoldsRow, HoldsRider, HoldsCar
<1>6. CASE UpdateRemoved(p) /\ ~Finish(p)
  <2>1. /\ AdvanceTo(p, "removed") /\ UNCHANGED <<riderCars, riders>>
        /\ \A n \in calls[p].rows : RowFree(n) /\ Allowed(riderCars[n].status, calls[p].to)
    BY <1>6 DEF UpdateRemoved, leaseTables
  <2>2. /\ calls'[p].pc = "removed" /\ calls'[p].rows = calls[p].rows /\ calls'[p].to = calls[p].to
        /\ \A q \in LeaseProcs : q # p => calls'[q] = calls[q]
    BY <1>0, <2>1, Advances DEF PCs
  <2> QED
    BY <2>1, <2>2 DEF Holding, HoldsRow, HoldsRider, HoldsCar, TookRow
<1>7. CASE UpdateStatus(p) /\ ~Finish(p)
  BY <1>2, <1>7 DEF UpdateStatus, PCs
<1>8. CASE LogHistory(p) /\ ~Finish(p)
  BY <1>2, <1>8 DEF LogHistory, PCs
<1>9. InsertRider(p) \/ CommitDeactivation(p) \/ CountCar(p) \/ InsertAssigned(p) \/ CommitRemoval(p)
         \/ CountReturned(p) \/ DeadlockAbort(p) => Finish(p)
  BY DEF InsertRider, CommitDeactivation, CountCar, InsertAssigned, CommitRemoval, CountReturned,
         DeadlockAbort
<1> QED
  BY <1>1, <1>3, <1>4, <1>5, <1>6, <1>7, <1>8, <1>9 DEF CallStep

LEMMA StartHolds ==
    ASSUME LHTyped, NEW p \in LeaseProcs, StartCall(p)
    PROVE  Holding(p) /\ \A q \in LeaseProcs : q # p => calls'[q] = calls[q]
<1>1. PICK call \in Call : Become(p, call) /\ Started(call)
  BY Starts DEF LHTyped
<1>2. calls'[p] = call /\ \A q \in LeaseProcs : q # p => calls'[q] = calls[q]
  BY <1>1, Becomes DEF LHTyped, LHTypeOK
<1>3. UNCHANGED <<riderCars, riders>>
  BY Starts DEF LHTyped, leaseTables
<1> QED
  BY <1>1, <1>2, <1>3 DEF Holding, HoldsRow, HoldsRider, HoldsCar, TookRider, Started

\* Rows are locked by one call at a time, which found what its COMMIT relies on.
Locks ==
    /\ \A p, q \in LeaseProcs : \A n \in DOMAIN riderCars :
          HoldsRow(p, n) /\ HoldsRow(q, n) => p = q
    /\ \A p \in LeaseProcs : \A n \in DOMAIN riderCars :
          HoldsRow(p, n) =>
             /\ calls[p].pc \in {"commit", "held"} => riderCars[n].status = "releasing"
             /\ calls[p].pc = "removed" => Allowed(riderCars[n].status, calls[p].to)

-----------------------------------------------------------------------------
(* What a step does to rider_cars.                                         *)

\* A status changes along the graph; a car goes on rent under an active rider.
MovedRow(n) ==
    /\ riderCars'[n] = [riderCars[n] EXCEPT !.status = riderCars'[n].status]
    /\ riderCars'[n].status \in CarStatuses
    /\ Allowed(riderCars[n].status, riderCars'[n].status)
    /\ riderCars'[n].status = "on_rent" /\ riderCars[n].status # "on_rent" =>
          riders[riderCars[n].rider] = "Active"
MovedBy(p) ==
    /\ DOMAIN riderCars' = DOMAIN riderCars
    /\ \A n \in DOMAIN riderCars :
          \/ riderCars'[n] = riderCars[n]
          \/ MovedRow(n) /\ \A q \in LeaseProcs : q # p => ~HoldsRow(q, n)

\* A row is added by one of the two calls that add cars.
Adds(p, r, c) ==
    \/ /\ calls[p].pc = "countCar"
       /\ calls[p].cars = {c}
       /\ RiderFree(r)
    \/ /\ "assignToRider" \in Requests
       /\ CarFree(c)
       /\ ~Carries(c)
AddedBy(p) ==
    /\ \E r \in Riders, c \in Cars : AppendDecided(r, c) /\ Adds(p, r, c)
    /\ UNCHANGED riders
    /\ Finish(p)

LEMMA RowsStep ==
    ASSUME LHTyped, Locks, NEW p \in LeaseProcs, CallStep(p)
    PROVE  MovedBy(p) \/ AddedBy(p)
<1>0. /\ calls \in [LeaseProcs -> Call] /\ calls[p] \in Call /\ Shaped(calls[p], DOMAIN riderCars)
      /\ DOMAIN riderCars \subseteq Nat
      /\ riderCars \in Seq(RiderCar)
      /\ \A n \in DOMAIN riderCars : riderCars[n] \in RiderCar
  BY RiderCarType DEF LHTyped, LHTypeOK, Shape
<1>1. CASE UNCHANGED riderCars
  BY <1>1 DEF MovedBy
<1>2. CASE CommitDeactivation(p)
  <2>1. DOMAIN riderCars' = DOMAIN riderCars
    BY <1>2 DEF CommitDeactivation
  <2>2. ASSUME NEW n \in DOMAIN riderCars, n \in calls[p].rows
        PROVE  MovedRow(n) /\ \A q \in LeaseProcs : q # p => ~HoldsRow(q, n)
    <3>1. HoldsRow(p, n)
      BY <1>2, <2>2 DEF HoldsRow, CommitDeactivation
    <3>2. riderCars[n].status = "releasing"
      BY <3>1, <1>2 DEF Locks, CommitDeactivation
    <3>3. riderCars'[n] = [riderCars[n] EXCEPT !.status = "off_rent"]
      BY <1>2, <2>2 DEF CommitDeactivation
    <3>4. riderCars'[n].status = "off_rent"
      BY <1>0, <3>3 DEF RiderCar
    <3> QED
      BY <3>1, <3>2, <3>3, <3>4 DEF Locks, MovedRow, Allowed, CarStatuses
  <2>3. ASSUME NEW n \in DOMAIN riderCars, n \notin calls[p].rows
        PROVE  riderCars'[n] = riderCars[n]
    BY <1>2, <2>3 DEF CommitDeactivation
  <2> QED
    BY <2>1, <2>2, <2>3 DEF MovedBy
<1>3. CASE CommitRemoval(p)
  <2>1. PICK n \in DOMAIN riderCars : calls[p].rows = {n}
    BY <1>0, <1>3 DEF CommitRemoval, Shaped
  <2>2. riderCars' = [riderCars EXCEPT ![n].status = calls[p].to]
    BY <1>3, <2>1 DEF CommitRemoval
  <2>3. HoldsRow(p, n) /\ calls[p].pc = "removed"
    BY <1>3, <2>1 DEF HoldsRow, CommitRemoval
  <2>4. calls[p].to \in Ended
    BY <1>0, <2>3 DEF Shaped
  <2>5. riderCars'[n].status = calls[p].to
    BY <1>0, <2>2 DEF RiderCar
  <2>6. MovedRow(n)
    BY <1>0, <2>2, <2>3, <2>4, <2>5 DEF MovedRow, Locks, Ended, CarStatuses
  <2> QED
    BY <2>2, <2>3, <2>6 DEF MovedBy, Locks
<1>4. CASE UpdateStatus(p) /\ ~UNCHANGED riderCars
  <2>1. PICK n \in DOMAIN riderCars : calls[p].rows = {n}
    BY <1>0, <1>4 DEF UpdateStatus, Shaped
  <2>2. /\ riderCars' = [riderCars EXCEPT ![n].status = calls[p].to]
        /\ RowFree(n)
        /\ Accepted(n, calls[p].to)
    BY <1>4, <2>1 DEF UpdateStatus
  <2>3. riderCars'[n].status = calls[p].to /\ calls[p].to \in CarStatuses
    BY <1>0, <2>2 DEF RiderCar, Call
  <2>4. MovedRow(n)
    BY <2>2, <2>3 DEF MovedRow, Accepted, ParentsActive
  <2> QED
    BY <2>2, <2>4 DEF MovedBy, RowFree
<1>5. CASE CountCar(p)
  <2>1. PICK r \in Riders, c \in Cars : calls[p].riders = {r} /\ calls[p].cars = {c}
    BY <1>0, <1>5 DEF CountCar, Shaped
  <2> QED
    BY <1>5, <2>1 DEF CountCar, AddedBy, Adds
<1>6. CASE InsertAssigned(p) /\ ~UNCHANGED riderCars
  <2>1. PICK r \in Riders, c \in Cars : calls[p].riders = {r} /\ calls[p].cars = {c}
    BY <1>0, <1>6 DEF InsertAssigned, Shaped
  <2>2. "assignToRider" \in Requests
    BY <1>0, <1>6 DEF InsertAssigned, Shaped
  <2> QED
    BY <1>6, <2>1, <2>2 DEF InsertAssigned, AddedBy, Adds
<1>7. InsertRider(p) \/ ExpireRiders(p) \/ RemoveCars(p) \/ InsertCar(p) \/ UpdateRemoved(p)
         \/ LogHistory(p) \/ CountReturned(p) \/ DeadlockAbort(p) => UNCHANGED riderCars
  BY DEF InsertRider, ExpireRiders, RemoveCars, InsertCar, UpdateRemoved, LogHistory,
         CountReturned, DeadlockAbort, leaseTables
<1> QED
  BY <1>1, <1>2, <1>3, <1>4, <1>5, <1>6, <1>7 DEF CallStep

\* The other steps leave the rows alone, and the calls unless the server exits.
Quiet ==
    /\ UNCHANGED <<riderCars, riders>>
    /\ UNCHANGED calls \/ \A p \in LeaseProcs : calls'[p] = NoLeaseCall
LEMMA OtherSteps ==
    ASSUME [LHNext]_lhVars, \A p \in LeaseProcs : ~CallStep(p) /\ ~StartCall(p)
    PROVE  Quiet
BY DEF LHNext, Quiet, UpdateLease, ReadyToLoad, LHSideStep, LHCrash, lhVars, leaseTables

\* One summary of every step, for the invariants below.
CallMoves(p) ==
    /\ Holding(p)
    /\ \A q \in LeaseProcs : q # p => calls'[q] = calls[q]
    /\ MovedBy(p) \/ AddedBy(p)
LEMMA Steps ==
    ASSUME LHTyped, Locks, [LHNext]_lhVars
    PROVE  (\E p \in LeaseProcs : CallMoves(p)) \/ Quiet
<1>1. ASSUME NEW p \in LeaseProcs, CallStep(p)
      PROVE  CallMoves(p)
  BY <1>1, CallHolds, RowsStep DEF CallMoves
<1>2. ASSUME NEW p \in LeaseProcs, StartCall(p)
      PROVE  CallMoves(p)
  BY <1>2, StartHolds, Starts DEF CallMoves, MovedBy, LHTyped, leaseTables
<1> QED
  BY <1>1, <1>2, OtherSteps

LEMMA NobodyHolds ==
    ASSUME NEW p \in LeaseProcs, calls'[p] = NoLeaseCall
    PROVE  /\ \A n : ~HoldsRow(p, n)'
           /\ \A r : ~HoldsRider(p, r)'
           /\ \A c : ~HoldsCar(p, c)'
BY DEF HoldsRow, HoldsRider, HoldsCar, NoLeaseCall

LEMMA OthersHold ==
    ASSUME NEW q \in LeaseProcs, calls'[q] = calls[q]
    PROVE  /\ \A n : HoldsRow(q, n)' <=> HoldsRow(q, n)
           /\ \A r : HoldsRider(q, r)' <=> HoldsRider(q, r)
           /\ \A c : HoldsCar(q, c)' <=> HoldsCar(q, c)
BY DEF HoldsRow, HoldsRider, HoldsCar

\* What every call keeps, of this service or of another: rows are never removed, they
\* change along the graph, and a row that another call holds does not change.
Keeps(p) ==
    /\ Holding(p)
    /\ \A q \in LeaseProcs : q # p => calls'[q] = calls[q]
    /\ DOMAIN riderCars \subseteq DOMAIN riderCars'
    /\ \A n \in DOMAIN riderCars : riderCars'[n] = riderCars[n] \/ MovedRow(n)
    /\ \A q \in LeaseProcs : \A n \in DOMAIN riderCars :
          q # p /\ HoldsRow(q, n) => riderCars'[n] = riderCars[n]
LEMMA RowsKept ==
    ASSUME LHTyped, NEW p \in LeaseProcs, CallMoves(p)
    PROVE  Keeps(p)
<1>1. CASE MovedBy(p)
  BY <1>1 DEF MovedBy, Keeps, CallMoves
<1>2. CASE AddedBy(p)
  <2>1. /\ DOMAIN riderCars \subseteq DOMAIN riderCars'
        /\ \A n \in DOMAIN riderCars : riderCars'[n] = riderCars[n]
    BY <1>2, AppendGrows DEF AddedBy, LHTyped, LHTypeOK
  <2> QED
    BY <2>1 DEF Keeps, CallMoves
<1> QED
  BY <1>1, <1>2 DEF CallMoves

\* Whatever the step is, of this service or of another.
LEMMA LocksKept ==
    ASSUME LHTyped, Locks, LHTyped', (\E p \in LeaseProcs : Keeps(p)) \/ Quiet
    PROVE  Locks'
<1>1. ASSUME NEW p \in LeaseProcs, Keeps(p)
      PROVE  Locks'
  <2>1. ASSUME NEW q \in LeaseProcs, NEW n \in DOMAIN riderCars', HoldsRow(q, n)'
        PROVE  n \in DOMAIN riderCars
    <3>1. CASE q = p
      <4>1. UNCHANGED riderCars
        BY <1>1, <2>1, <3>1 DEF Keeps, Holding, HoldsRow
      <4> QED
        BY <4>1
    <3>2. CASE q # p
      <4>1. HoldsRow(q, n)
        BY <1>1, <2>1, <3>2, OthersHold DEF Keeps
      <4> QED
        BY <4>1 DEF LHTyped, Shape, Shaped, HoldsRow
    <3> QED
      BY <3>1, <3>2
  <2>2. ASSUME NEW q1 \in LeaseProcs, NEW q2 \in LeaseProcs, NEW n \in DOMAIN riderCars',
               HoldsRow(q1, n)', HoldsRow(q2, n)'
        PROVE  q1 = q2
    <3>1. n \in DOMAIN riderCars
      BY <2>1, <2>2
    <3>2. \A q \in LeaseProcs : q # p => (HoldsRow(q, n)' <=> HoldsRow(q, n))
      BY <1>1, OthersHold DEF Keeps
    <3>3. HoldsRow(p, n)' => RowFree(n)
      BY <1>1, <3>1 DEF Keeps, Holding, TookRow
    <3> QED
      BY <2>2, <3>1, <3>2, <3>3 DEF Locks, RowFree
  <2>3. ASSUME NEW q \in LeaseProcs, NEW n \in DOMAIN riderCars', HoldsRow(q, n)'
        PROVE  /\ calls'[q].pc \in {"commit", "held"} => riderCars'[n].status = "releasing"
               /\ calls'[q].pc = "removed" => Allowed(riderCars'[n].status, calls'[q].to)
    <3>1. n \in DOMAIN riderCars
      BY <2>1, <2>3
    <3>2. CASE q = p
      <4>1. TookRow(p, n) /\ UNCHANGED riderCars
        BY <1>1, <2>3, <3>1, <3>2 DEF Keeps, Holding, HoldsRow
      <4> QED
        BY <3>2, <4>1 DEF TookRow
    <3>3. CASE q # p
      <4>1. calls'[q] = calls[q] /\ HoldsRow(q, n)
        BY <1>1, <2>3, <3>3, OthersHold DEF Keeps
      <4>2. riderCars'[n] = riderCars[n]
        BY <1>1, <3>1, <3>3, <4>1 DEF Keeps
      <4> QED
        BY <3>1, <4>1, <4>2 DEF Locks
    <3> QED
      BY <3>2, <3>3
  <2> QED
    BY <2>2, <2>3 DEF Locks
<1>2. CASE Quiet
  <2>1. CASE UNCHANGED calls
    BY <1>2, <2>1 DEF Quiet, Locks, HoldsRow
  <2>2. CASE \A p \in LeaseProcs : calls'[p] = NoLeaseCall
    BY <1>2, <2>2, NobodyHolds DEF Locks
  <2> QED
    BY <1>2, <2>1, <2>2 DEF Quiet
<1> QED
  BY <1>1, <1>2

LEMMA LocksStep ==
    LHTyped /\ Locks /\ [LHNext]_lhVars => Locks'
BY LHTypedStep, Steps, RowsKept, LocksKept

LHLocked == LHTyped /\ Locks
LEMMA AlwaysLHLocked == LHSpec => []LHLocked
<1>1. LHInit => LHLocked
  BY LHTypedInit DEF LHInit, LHLocked, Locks, HoldsRow, NoLeaseCall
<1>2. LHLocked /\ [LHNext]_lhVars => LHLocked'
  BY LHTypedStep, LocksStep DEF LHLocked
<1> QED
  BY <1>1, <1>2, PTL DEF LHSpec

-----------------------------------------------------------------------------
(* The theorems.                                                           *)

\* What a step owes to a row: the body of RentalEndsThroughRelease.
EndsThroughRelease ==
    \A n \in DOMAIN riderCars :
       /\ riderCars'[n].status = "off_rent" => riderCars[n].status \in {"releasing", "off_rent"}
       /\ riderCars'[n].status = "cancelled" => riderCars[n].status \notin Rented
       /\ ~IsActive(n) => riderCars'[n] = riderCars[n]

LEMMA StepEndsThroughRelease ==
    ASSUME LHTyped, (\E p \in LeaseProcs : Keeps(p)) \/ Quiet
    PROVE  [EndsThroughRelease]_riderCars
<1>1. ASSUME NEW n \in DOMAIN riderCars, riderCars'[n] = riderCars[n] \/ MovedRow(n)
      PROVE  /\ riderCars'[n].status = "off_rent" => riderCars[n].status \in {"releasing", "off_rent"}
             /\ riderCars'[n].status = "cancelled" => riderCars[n].status \notin Rented
             /\ ~IsActive(n) => riderCars'[n] = riderCars[n]
  <2>1. riderCars[n] \in RiderCar
    BY RiderCarType DEF LHTyped, LHTypeOK
  <2>2. riderCars'[n] = [riderCars[n] EXCEPT !.status = riderCars[n].status] <=>
        riderCars'[n] = riderCars[n]
    BY <2>1 DEF RiderCar
  <2> QED
    BY <1>1, <2>1, <2>2 DEF MovedRow, Allowed, IsActive, Ended, Rented
<1>2. CASE Quiet
  BY <1>2 DEF Quiet
<1>3. ASSUME NEW p \in LeaseProcs, Keeps(p)
      PROVE  EndsThroughRelease
  BY <1>1, <1>3 DEF EndsThroughRelease, Keeps
<1> QED
  BY <1>2, <1>3

(***************************************************************************)
(* R16: whoever writes the status of a rider car, rentals end through      *)
(* releasing and ended rows stay as they are.                              *)
(***************************************************************************)
THEOREM RentalsEndThroughRelease == LHSpec => RentalEndsThroughRelease
<1>1. ASSUME LHLocked, [LHNext]_lhVars
      PROVE  [EndsThroughRelease]_riderCars
  BY <1>1, Steps, RowsKept, StepEndsThroughRelease DEF LHLocked
<1>2. LHSpec => [][EndsThroughRelease]_riderCars
  BY <1>1, AlwaysLHLocked, PTL DEF LHSpec
<1> QED
  BY <1>2 DEF RentalEndsThroughRelease, EndsThroughRelease

\* What a moved row keeps: its rider and car, and an end.
LEMMA MovedKeeps ==
    ASSUME LHTyped, NEW n \in DOMAIN riderCars, riderCars'[n] = riderCars[n] \/ MovedRow(n)
    PROVE  /\ riderCars'[n].rider = riderCars[n].rider
           /\ riderCars'[n].car = riderCars[n].car
           /\ ~IsActive(n) => riderCars'[n].status = riderCars[n].status
           /\ riderCars'[n].status \in Rented /\ riderCars[n].status \notin Rented =>
                 riders[riderCars[n].rider] = "Active"
<1>1. riderCars[n] \in RiderCar
  BY RiderCarType DEF LHTyped, LHTypeOK
<1>2. CASE riderCars'[n] = riderCars[n]
  BY <1>2
<1>3. CASE MovedRow(n)
  <2>1. riderCars'[n].rider = riderCars[n].rider /\ riderCars'[n].car = riderCars[n].car
    BY <1>1, <1>3 DEF MovedRow, RiderCar
  <2> QED
    BY <2>1, <1>3 DEF MovedRow, Allowed, IsActive, Ended, Rented
<1> QED
  BY <1>2, <1>3

(***************************************************************************)
(* R15: a car is active on one rider at most.  A call that has inserted a  *)
(* row and not committed it keeps every other insertion for the car out.   *)
(***************************************************************************)
OneRiderInv ==
    /\ OneActiveRider
    /\ \A p \in LeaseProcs, c \in Cars : HoldsCar(p, c) => ~Carries(c)
    /\ \A p, q \in LeaseProcs, c \in Cars : HoldsCar(p, c) /\ HoldsCar(q, c) => p = q

\* Also for the steps of another service.
LEMMA OneRiderKept ==
    ASSUME LHLocked, OneRiderInv, (\E p \in LeaseProcs : CallMoves(p)) \/ Quiet
    PROVE  OneRiderInv'
<1> USE DEF LHLocked
<1>1. ASSUME NEW p \in LeaseProcs, CallMoves(p)
      PROVE  OneRiderInv'
  <2>0. \A q \in LeaseProcs, c \in Cars : q # p => (HoldsCar(q, c)' <=> HoldsCar(q, c))
    BY <1>1, OthersHold DEF CallMoves
  <2>1. CASE MovedBy(p)
    <3>1. DOMAIN riderCars' = DOMAIN riderCars
      BY <2>1 DEF MovedBy
    <3>2. \A n \in DOMAIN riderCars : riderCars'[n].car = riderCars[n].car /\ (IsActive(n)' => IsActive(n))
      BY <2>1, MovedKeeps DEF MovedBy, IsActive
    <3>3. OneActiveRider' /\ \A c \in Cars : Carries(c)' => Carries(c)
      BY <3>1, <3>2 DEF OneRiderInv, OneActiveRider, Carries
    <3>4. \A c \in Cars : HoldsCar(p, c)' => CarFree(c) /\ ~Carries(c)
      BY <1>1 DEF CallMoves, Holding, TookCar
    <3> QED
      BY <2>0, <3>3, <3>4 DEF OneRiderInv, CarFree
  <2>2. CASE AddedBy(p)
    <3>1. PICK r \in Riders, c \in Cars : AppendDecided(r, c) /\ Adds(p, r, c)
      BY <2>2 DEF AddedBy
    <3>2. ~Carries(c) /\ \A q \in LeaseProcs : q # p => ~HoldsCar(q, c)
      <4>1. CASE calls[p].pc = "countCar" /\ calls[p].cars = {c}
        BY <4>1 DEF HoldsCar, OneRiderInv
      <4>2. CASE CarFree(c) /\ ~Carries(c)
        BY <4>2 DEF CarFree
      <4> QED
        BY <3>1, <4>1, <4>2 DEF Adds
    <3>3. \A d \in Cars : ~HoldsCar(p, d)'
      BY <2>2, FinishHolds, Finishes, NobodyHolds DEF AddedBy, LHTyped, LHTypeOK
    <3>0. riderCars \in Seq(RiderCar)
      BY DEF LHTyped, LHTypeOK
    <3> DEFINE new == Len(riderCars) + 1
    <3>4. /\ DOMAIN riderCars' = DOMAIN riderCars \cup {new}
          /\ riderCars'[new].car = c
          /\ \A n \in DOMAIN riderCars : riderCars'[n] = riderCars[n]
      BY <3>0, <3>1, AppendGrows
    <3> HIDE DEF new
    <3>5. OneActiveRider' /\ \A d \in Cars : Carries(d)' => Carries(d) \/ d = c
      BY <3>2, <3>4 DEF OneRiderInv, OneActiveRider, Carries, IsActive
    <3> QED
      BY <2>0, <3>2, <3>3, <3>5 DEF OneRiderInv
  <2> QED
    BY <1>1, <2>1, <2>2 DEF CallMoves
<1>2. CASE Quiet
  <2>1. CASE UNCHANGED calls
    BY <1>2, <2>1 DEF Quiet, OneRiderInv, OneActiveRider, Carries, IsActive, HoldsCar
  <2>2. CASE \A p \in LeaseProcs : calls'[p] = NoLeaseCall
    BY <1>2, <2>2, NobodyHolds DEF Quiet, OneRiderInv, OneActiveRider, Carries, IsActive
  <2> QED
    BY <1>2, <2>1, <2>2 DEF Quiet
<1> QED
  BY <1>1, <1>2

LEMMA OneRiderStep ==
    LHLocked /\ OneRiderInv /\ [LHNext]_lhVars => OneRiderInv'
BY Steps, OneRiderKept DEF LHLocked

THEOREM OneActiveRiderHolds == LHSpec => []OneActiveRider
<1>1. LHInit => OneRiderInv
  BY DEF LHInit, OneRiderInv, OneActiveRider, HoldsCar, NoLeaseCall
<1>2. OneRiderInv => OneActiveRider
  BY DEF OneRiderInv
<1> QED
  BY <1>1, <1>2, OneRiderStep, AlwaysLHLocked, PTL DEF LHSpec

-----------------------------------------------------------------------------
(* Deadlock.                                                               *)

\* A rider is locked by one call at a time.
RiderLocks ==
    \A p, q \in LeaseProcs, r \in Riders : HoldsRider(p, r) /\ HoldsRider(q, r) => p = q

\* Also for the steps of another service.
LEMMA RiderLocksKept ==
    ASSUME RiderLocks, (\E p \in LeaseProcs : Keeps(p)) \/ Quiet
    PROVE  RiderLocks'
<1>1. ASSUME NEW p \in LeaseProcs, Keeps(p)
      PROVE  RiderLocks'
  <2>1. \A q \in LeaseProcs, r \in Riders : q # p => (HoldsRider(q, r)' <=> HoldsRider(q, r))
    BY <1>1, OthersHold DEF Keeps
  <2>2. \A r \in Riders : HoldsRider(p, r)' => RiderFree(r) \/ HoldsRider(p, r)
    BY <1>1 DEF Keeps, Holding, TookRider, HoldsRider
  <2> QED
    BY <2>1, <2>2 DEF RiderLocks, RiderFree
<1>2. CASE Quiet
  <2>1. CASE UNCHANGED calls
    BY <2>1 DEF RiderLocks, HoldsRider
  <2>2. CASE \A p \in LeaseProcs : calls'[p] = NoLeaseCall
    BY <2>2, NobodyHolds DEF RiderLocks
  <2> QED
    BY <1>2, <2>1, <2>2 DEF Quiet
<1> QED
  BY <1>1, <1>2

LEMMA RiderLocksStep ==
    LHLocked /\ RiderLocks /\ [LHNext]_lhVars => RiderLocks'
BY Steps, RowsKept, RiderLocksKept DEF LHLocked

\* The heart of the argument, for any set of calls in which a removal that has its row
\* waits for a rider and a deactivation that has its riders waits for a row: the call
\* a waiting deactivation waits for is a removal under its own rider.
LEMMA RemovalMeetsDeactivation ==
    ASSUME LHTyped, RiderLocks, NEW S \in SUBSET LeaseProcs,
           \E p \in S : calls[p].pc = "removed",
           \A p \in S : calls[p].pc = "removed" =>
              \E q \in S, r \in Riders :
                 q # p /\ AsksRider(p, r) /\ HoldsRider(q, r) /\ calls[q].pc = "removeCars",
           \A p \in S : calls[p].pc = "removeCars" =>
              \E q \in S, n \in DOMAIN riderCars :
                 q # p /\ AsksRow(p, n) /\ HoldsRow(q, n) /\ calls[q].pc = "removed"
    PROVE  BreaksCycle(S)
<1>1. PICK a \in S, b \in S, r \in Riders :
         calls[a].pc = "removed" /\ AsksRider(a, r) /\ HoldsRider(b, r) /\ calls[b].pc = "removeCars"
  OBVIOUS
<1>2. PICK d \in S, m \in DOMAIN riderCars :
         d # b /\ AsksRow(b, m) /\ HoldsRow(d, m) /\ calls[d].pc = "removed"
  BY <1>1
<1>3. m \in ActiveRows(calls[b].riders) /\ HoldsRider(b, riderCars[m].rider)
  BY <1>1, <1>2 DEF AsksRow, ActiveRows, HoldsRider
<1>4. PICK e \in S, s \in Riders : AsksRider(d, s) /\ HoldsRider(e, s)
  BY <1>2
<1>5. calls[d].rows = {m}
  BY <1>2 DEF LHTyped, Shape, Shaped, HoldsRow
<1>6. s = riderCars[m].rider
  BY <1>2, <1>4, <1>5 DEF AsksRider
<1>7. e = b
  BY <1>3, <1>4, <1>6 DEF RiderLocks
<1> QED
  BY <1>1, <1>2, <1>3, <1>5 DEF BreaksCycle, WaitsFor

\* Who may wait for what, and where the other one has got to.
LEMMA WaitsAt ==
    ASSUME NEW p \in LeaseProcs, NEW q \in LeaseProcs, Waits(p, q)
    PROVE  /\ p # q
           /\ calls[p].pc = "removed" =>
                 \E r \in Riders : AsksRider(p, r) /\ HoldsRider(q, r)
           /\ calls[p].pc = "countCar" =>
                 \E r \in Riders : AsksRider(p, r) /\ HoldsRider(q, r)
           /\ calls[p].pc = "removeCars" =>
                 \E n \in DOMAIN riderCars : AsksRow(p, n) /\ HoldsRow(q, n)
           /\ calls[p].pc \notin {"none", "commit", "held"}
           /\ calls[q].pc \in {"removeCars", "commit", "removed", "held", "countCar"}
           /\ (\E n : HoldsRow(q, n)) => calls[q].pc \in {"removed", "commit", "held"}
           /\ (\E r : HoldsRider(q, r)) => calls[q].pc \in {"removeCars", "commit"}
BY DEF Waits, AsksRow, AsksRider, AsksCar, HoldsRow, HoldsRider, HoldsCar

\* Every set of calls that wait for each other holds a removal that has its row.
LEMMA WaitersBreak ==
    ASSUME LHTyped, RiderLocks, NEW S \in SUBSET LeaseProcs, S # {},
           \A p \in S : \E q \in S : Waits(p, q)
    PROVE  BreaksCycle(S)
<1>1. \A p \in S : calls[p].pc \notin {"none", "commit", "held"}
  BY WaitsAt
<1>2. ASSUME NEW p \in S, calls[p].pc = "removed"
      PROVE  \E q \in S, r \in Riders :
                q # p /\ AsksRider(p, r) /\ HoldsRider(q, r) /\ calls[q].pc = "removeCars"
  BY <1>1, <1>2, WaitsAt
<1>3. ASSUME NEW p \in S, calls[p].pc = "removeCars"
      PROVE  \E q \in S, n \in DOMAIN riderCars :
                q # p /\ AsksRow(p, n) /\ HoldsRow(q, n) /\ calls[q].pc = "removed"
  BY <1>1, <1>3, WaitsAt
<1>4. ASSUME NEW p \in S, calls[p].pc = "countCar"
      PROVE  \E q \in S : calls[q].pc = "removeCars"
  BY <1>1, <1>4, WaitsAt
<1>5. \E p \in S : calls[p].pc = "removed"
  BY <1>1, <1>3, <1>4, WaitsAt
<1> QED
  BY <1>2, <1>3, <1>5, RemovalMeetsDeactivation

(***************************************************************************)
(* Calls of the lease service that wait for each other, however many and   *)
(* for whatever rows, riders and cars, hold a removal and a deactivation   *)
(* that wait for each other: PostgreSQL's abort of one of the two is the   *)
(* only one the service needs.                                             *)
(***************************************************************************)
THEOREM CyclesAreBrokenHolds == LHSpec => []CyclesAreBroken
<1>1. LHInit => RiderLocks
  BY DEF LHInit, RiderLocks, HoldsRider, NoLeaseCall
<1>2. LHLocked /\ RiderLocks => CyclesAreBroken
  BY WaitersBreak DEF LHLocked, CyclesAreBroken
<1> QED
  BY <1>1, <1>2, RiderLocksStep, AlwaysLHLocked, PTL DEF LHSpec

-----------------------------------------------------------------------------
(***************************************************************************)
(* R19: while cars are added through addCarToRider only, an expired rider  *)
(* has no rented car.  A deactivation about to commit has every active row *)
(* of its riders in hand, and its lock on the rider keeps new ones out.    *)
(***************************************************************************)
ExpiredInv ==
    /\ ExpiredRiderHasNoRentedCar
    /\ RiderLocks
    /\ \A p \in LeaseProcs, r \in Riders :
          HoldsRider(p, r) /\ calls[p].pc = "commit" => ActiveRows({r}) \subseteq calls[p].rows

\* A rider expires by the COMMIT of a deactivation.
LEMMA RiderExpires ==
    ASSUME LHTyped, [LHNext]_lhVars, NEW r \in Riders, riders'[r] = "Expired"
    PROVE  \/ riders[r] = "Expired"
           \/ \E p \in LeaseProcs : CommitDeactivation(p) /\ HoldsRider(p, r)
<1>1. CASE UNCHANGED riders
  BY <1>1
<1>2. ASSUME NEW p \in LeaseProcs, InsertRider(p)
      PROVE  riders[r] = "Expired"
  BY <1>2 DEF InsertRider
<1>3. ASSUME NEW p \in LeaseProcs, CommitDeactivation(p)
      PROVE  riders[r] = "Expired" \/ HoldsRider(p, r)
  BY <1>3 DEF CommitDeactivation, HoldsRider
<1>4. ASSUME NEW p \in LeaseProcs, CallStep(p), ~InsertRider(p), ~CommitDeactivation(p)
      PROVE  UNCHANGED riders
  BY <1>4 DEF CallStep, ExpireRiders, RemoveCars, InsertCar, CountCar, InsertAssigned,
       UpdateRemoved, CommitRemoval, UpdateStatus, LogHistory, CountReturned, DeadlockAbort, leaseTables
<1>5. ASSUME NEW p \in LeaseProcs, StartCall(p)
      PROVE  UNCHANGED riders
  BY <1>5, Starts DEF LHTyped, leaseTables
<1> QED
  BY <1>1, <1>2, <1>3, <1>4, <1>5, OtherSteps DEF Quiet

LEMMA ExpiredStep ==
    ASSUME "assignToRider" \notin Requests
    PROVE  LHLocked /\ ExpiredInv /\ [LHNext]_lhVars => ExpiredInv'
<1> SUFFICES ASSUME LHLocked, ExpiredInv, [LHNext]_lhVars
             PROVE  ExpiredInv'
  OBVIOUS
<1> USE DEF LHLocked
<1>1. ASSUME NEW p \in LeaseProcs, CommitDeactivation(p)
      PROVE  ExpiredRiderHasNoRentedCar'
  <2> SUFFICES ASSUME NEW n \in DOMAIN riderCars', riders'[riderCars'[n].rider] = "Expired"
               PROVE  riderCars'[n].status \notin Rented
    BY DEF ExpiredRiderHasNoRentedCar
  <2>1. n \in DOMAIN riderCars
    BY <1>1 DEF CommitDeactivation
  <2>2. riderCars[n] \in RiderCar
    BY <2>1, RiderCarType DEF LHTyped, LHTypeOK
  <2>3. CASE n \in calls[p].rows
    BY <1>1, <2>1, <2>2, <2>3 DEF CommitDeactivation, RiderCar, Rented
  <2>4. CASE n \notin calls[p].rows
    <3>1. riderCars'[n] = riderCars[n]
      BY <1>1, <2>1, <2>4 DEF CommitDeactivation
    <3>2. CASE riderCars[n].rider \in calls[p].riders
      <4>1. HoldsRider(p, riderCars[n].rider) /\ calls[p].pc = "commit"
        BY <1>1, <3>2 DEF CommitDeactivation, HoldsRider
      <4>2. ~IsActive(n)
        BY <2>1, <2>2, <2>4, <4>1 DEF ExpiredInv, ActiveRows, RiderCar
      <4> QED
        BY <3>1, <4>2 DEF IsActive, Ended, Rented
    <3>3. CASE riderCars[n].rider \notin calls[p].riders
      <4>1. riders[riderCars[n].rider] = "Expired"
        BY <1>1, <2>2, <3>1, <3>3 DEF CommitDeactivation, RiderCar
      <4> QED
        BY <2>1, <3>1, <4>1 DEF ExpiredInv, ExpiredRiderHasNoRentedCar
    <3> QED
      BY <3>2, <3>3
  <2> QED
    BY <2>3, <2>4
<1>2. ASSUME \A p \in LeaseProcs : ~CommitDeactivation(p)
      PROVE  ExpiredRiderHasNoRentedCar'
  <2>1. \A r \in Riders : riders'[r] = "Expired" => riders[r] = "Expired"
    BY <1>2, RiderExpires
  <2>2. ASSUME NEW n \in DOMAIN riderCars, riderCars'[n] = riderCars[n] \/ MovedRow(n),
               riders'[riderCars'[n].rider] = "Expired"
        PROVE  riderCars'[n].status \notin Rented
    <3>1. riderCars[n].rider \in Riders
      BY RiderCarType DEF LHTyped, LHTypeOK
    <3>2. riders[riderCars[n].rider] = "Expired" /\ riderCars[n].status \notin Rented
      BY <2>1, <2>2, <3>1, MovedKeeps DEF ExpiredInv, ExpiredRiderHasNoRentedCar
    <3> QED
      BY <2>2, <3>2, MovedKeeps
  <2>3. ASSUME NEW p \in LeaseProcs, MovedBy(p)
        PROVE  ExpiredRiderHasNoRentedCar'
    BY <2>2, <2>3 DEF MovedBy, ExpiredRiderHasNoRentedCar
  <2>4. ASSUME NEW p \in LeaseProcs, AddedBy(p)
        PROVE  ExpiredRiderHasNoRentedCar'
    <3>1. PICK r \in Riders, c \in Cars : AppendDecided(r, c)
      BY <2>4 DEF AddedBy
    <3>0. riderCars \in Seq(RiderCar)
      BY DEF LHTyped, LHTypeOK
    <3> DEFINE new == Len(riderCars) + 1
    <3>2. /\ DOMAIN riderCars' = DOMAIN riderCars \cup {new}
          /\ riderCars'[new].status = "decided"
          /\ \A n \in DOMAIN riderCars : riderCars'[n] = riderCars[n]
      BY <3>0, <3>1, AppendGrows
    <3> HIDE DEF new
    <3> QED
      BY <2>2, <3>2 DEF ExpiredRiderHasNoRentedCar, Rented
  <2>5. CASE Quiet
    BY <2>5 DEF Quiet, ExpiredInv, ExpiredRiderHasNoRentedCar
  <2> QED
    BY <2>3, <2>4, <2>5, Steps DEF CallMoves
<1>3. ASSUME NEW p \in LeaseProcs, CallMoves(p)
      PROVE  \A q \in LeaseProcs, r \in Riders :
                HoldsRider(q, r)' /\ calls'[q].pc = "commit" => ActiveRows({r})' \subseteq calls'[q].rows
  <2>1. \A q \in LeaseProcs, r \in Riders : q # p => (HoldsRider(q, r)' <=> HoldsRider(q, r))
    BY <1>3, OthersHold DEF CallMoves
  <2>4. ASSUME NEW q \in LeaseProcs, NEW r \in Riders, HoldsRider(q, r)', calls'[q].pc = "commit"
        PROVE  ActiveRows({r})' \subseteq calls'[q].rows
    <3>1. CASE q = p
      <4>1. ActiveRows({r}) \subseteq calls'[p].rows /\ UNCHANGED riderCars
        BY <1>3, <2>4, <3>1 DEF CallMoves, Holding, TookRider
      <4> QED
        BY <3>1, <4>1 DEF ActiveRows, IsActive
    <3>2. CASE q # p
      <4>1. HoldsRider(q, r) /\ calls'[q] = calls[q] /\ ActiveRows({r}) \subseteq calls[q].rows
        BY <1>3, <2>1, <2>4, <3>2 DEF CallMoves, ExpiredInv
      <4>2. CASE MovedBy(p)
        <5>1. \A n \in DOMAIN riderCars :
                 riderCars'[n].rider = riderCars[n].rider /\ (IsActive(n)' => IsActive(n))
          BY <4>2, MovedKeeps DEF MovedBy, IsActive
        <5>2. DOMAIN riderCars' = DOMAIN riderCars
          BY <4>2 DEF MovedBy
        <5>3. ActiveRows({r})' \subseteq ActiveRows({r})
          BY <5>1, <5>2 DEF ActiveRows
        <5> QED
          BY <4>1, <5>3
      <4>3. CASE AddedBy(p)
        <5>1. PICK s \in Riders, c \in Cars : AppendDecided(s, c) /\ Adds(p, s, c)
          BY <4>3 DEF AddedBy
        <5>2. s # r
          BY <4>1, <5>1 DEF Adds, RiderFree
        <5>0. riderCars \in Seq(RiderCar)
          BY DEF LHTyped, LHTypeOK
        <5> DEFINE new == Len(riderCars) + 1
        <5>3. /\ DOMAIN riderCars' = DOMAIN riderCars \cup {new}
              /\ riderCars'[new].rider = s
              /\ \A n \in DOMAIN riderCars : riderCars'[n] = riderCars[n]
          BY <5>0, <5>1, AppendGrows
        <5> HIDE DEF new
        <5>4. ActiveRows({r})' \subseteq ActiveRows({r})
          BY <5>2, <5>3 DEF ActiveRows, IsActive
        <5> QED
          BY <4>1, <5>4
      <4> QED
        BY <1>3, <4>2, <4>3 DEF CallMoves
    <3> QED
      BY <3>1, <3>2
  <2> QED
    BY <2>4
<1>4. RiderLocks'
  BY RiderLocksStep DEF ExpiredInv
<1>5. CASE Quiet
  <2>1. CASE UNCHANGED calls
    BY <1>5, <1>4, <2>1 DEF Quiet, ExpiredInv, ExpiredRiderHasNoRentedCar, ActiveRows, IsActive, HoldsRider
  <2>2. CASE \A p \in LeaseProcs : calls'[p] = NoLeaseCall
    BY <1>5, <1>4, <2>2, NobodyHolds DEF Quiet, ExpiredInv, ExpiredRiderHasNoRentedCar
  <2> QED
    BY <1>5, <2>1, <2>2 DEF Quiet
<1> QED
  BY <1>1, <1>2, <1>3, <1>4, <1>5, Steps DEF ExpiredInv

THEOREM ExpiredRiderHolds ==
    ASSUME "assignToRider" \notin Requests
    PROVE  LHSpec => []ExpiredRiderHasNoRentedCar
<1>1. LHInit => ExpiredInv
  BY DEF LHInit, ExpiredInv, RiderLocks, ExpiredRiderHasNoRentedCar, HoldsRider, NoLeaseCall
<1>2. ExpiredInv => ExpiredRiderHasNoRentedCar
  BY DEF ExpiredInv
<1>3. LHLocked /\ ExpiredInv /\ [LHNext]_lhVars => ExpiredInv'
  BY ExpiredStep
<1> QED
  BY <1>1, <1>2, <1>3, AlwaysLHLocked, PTL DEF LHSpec

-----------------------------------------------------------------------------
(* The return of a car off rent.                                           *)

(***************************************************************************)
(* When no promise is lost, the promise of a triage entry is pending until *)
(* the car has an open one.                                                *)
(***************************************************************************)
LEMMA LHDebtsStay ==
    ASSUME LHTyped, [LHNext]_lhVars, ~Faults, NEW t \in tasks, t.kind = "createTriage"
    PROVE  t \in tasks' \/ OpenEntries(t.car)' # {}
<1>1. CASE LHSideStep
  BY <1>1, PromisesAreKept DEF LHSideStep, LHTyped, LHTypeOK
<1>2. ASSUME NEW p \in LeaseProcs, CallStep(p)
      PROVE  tasks \subseteq tasks'
  BY <1>2 DEF CallStep, InsertRider, ExpireRiders, RemoveCars, CommitDeactivation, InsertCar,
     CountCar, InsertAssigned, UpdateRemoved, CommitRemoval, UpdateStatus, LogHistory,
     CountReturned, DeadlockAbort, sideVars
<1>3. ASSUME NEW p \in LeaseProcs, StartCall(p)
      PROVE  tasks \subseteq tasks'
  BY <1>3, Starts DEF LHTyped, sideVars
<1>4. ASSUME NEW l \in Leases, NEW s \in LeaseStatuses, UpdateLease(l, s)
      PROVE  tasks \subseteq tasks'
  BY <1>4 DEF UpdateLease, sideVars
<1>5. ASSUME NEW c \in Cars, ReadyToLoad(c)
      PROVE  tasks \subseteq tasks'
  BY <1>5 DEF ReadyToLoad, sideVars
<1>6. ~LHCrash
  BY DEF LHCrash
<1>7. UNCHANGED lhVars => tasks \subseteq tasks'
  BY DEF lhVars, sideVars
<1> QED
  BY <1>1, <1>2, <1>3, <1>4, <1>5, <1>6, <1>7 DEF LHNext

(***************************************************************************)
(* A call that has taken a row off rent does nothing else before it has    *)
(* promised the triage entry of its car.                                   *)
(***************************************************************************)
Returning(p, n) ==
    /\ calls[p].pc \in {"history", "count"}
    /\ calls[p].to = "off_rent"
    /\ n \in calls[p].rows

LEMMA ReturningEnds ==
    ASSUME LHTyped, [LHNext]_lhVars, ~Faults,
           NEW p \in LeaseProcs, NEW n \in DOMAIN riderCars, Returning(p, n)
    PROVE  Returning(p, n)' \/ RiderCarTask("createTriage", n) \in tasks'
<1>1. /\ calls \in [LeaseProcs -> Call] /\ calls[p] \in Call
      /\ Shaped(calls[p], DOMAIN riderCars)
  BY DEF LHTyped, LHTypeOK, Shape
<1>2. calls[p].rows = {n}
  BY <1>1 DEF Shaped, Returning
<1>3. calls'[p] = calls[p] => Returning(p, n)'
  BY DEF Returning
<1>4. ASSUME NEW q \in LeaseProcs, CallStep(q), q # p
      PROVE  calls'[p] = calls[p]
  BY <1>4, CallHolds
<1>5. ASSUME NEW q \in LeaseProcs, StartCall(q)
      PROVE  calls'[p] = calls[p]
  <2>1. q # p
    BY <1>5 DEF Returning, StartCall, CreateRider, DeactivateRider, DeactivateLease, AddCar,
       AssignToRider, RemoveCar, StartTransition, MayCall
  <2> QED
    BY <1>5, <2>1, StartHolds
<1>6. ASSUME CallStep(p)
      PROVE  LogHistory(p) \/ CountReturned(p)
  BY <1>6 DEF Returning, CallStep, InsertRider, ExpireRiders, RemoveCars, CommitDeactivation,
     InsertCar, CountCar, InsertAssigned, UpdateRemoved, CommitRemoval, UpdateStatus,
     DeadlockAbort, WaitsFor
<1>7. CASE LogHistory(p)
  <2>1. AdvanceTo(p, "count") /\ "count" \in PCs
    BY <1>7 DEF LogHistory, Returning, PCs
  <2> QED
    BY <1>1, <2>1, Advances DEF Returning
<1>8. CASE CountReturned(p)
  <2>1. tasks' = tasks \cup {RiderCarTask(k, n) : k \in {"openIdle", "createTriage"}}
    BY <1>2, <1>8 DEF CountReturned
  <2> QED
    BY <2>1
<1>9. ASSUME NEW l \in Leases, NEW s \in LeaseStatuses, UpdateLease(l, s)
      PROVE  calls'[p] = calls[p]
  BY <1>9 DEF UpdateLease
<1>10. ASSUME NEW c \in Cars, ReadyToLoad(c)
       PROVE  calls'[p] = calls[p]
  BY <1>10 DEF ReadyToLoad
<1>11. LHSideStep \/ UNCHANGED lhVars => calls'[p] = calls[p]
  BY DEF LHSideStep, lhVars
<1>12. ~LHCrash
  BY DEF LHCrash
<1> QED
  BY <1>3, <1>4, <1>5, <1>6, <1>7, <1>8, <1>9, <1>10, <1>11, <1>12 DEF LHNext

LEMMA CarsStay ==
    ASSUME LHLocked, [LHNext]_lhVars, NEW n \in DOMAIN riderCars
    PROVE  riderCars'[n].car = riderCars[n].car
<1>1. (\E p \in LeaseProcs : Keeps(p)) \/ Quiet
  BY Steps, RowsKept DEF LHLocked
<1> QED
  BY <1>1, MovedKeeps DEF LHLocked, Keeps, Quiet

(***************************************************************************)
(* S8 for transitionRiderCar, for any number of calls and rows: as long as *)
(* nothing fails, a planner who is owed a returned car stays owed it until *)
(* a step that leaves the car with an open entry.  No other call, lock or  *)
(* promise takes the debt away between the statements of the call and the  *)
(* promise it starts.                                                      *)
(***************************************************************************)
THEOREM ReturnsStayOwed ==
    ASSUME ~Faults
    PROVE  LHSpec => ReturnStaysOwed
<1> DEFINE Kept == \A n \in DOMAIN riderCars :
                      OwesReturn(n) => OwesReturn(n)' \/ OpenEntries(riderCars[n].car)' # {}
<1>1. ASSUME LHLocked, [LHNext]_lhVars, NEW n \in DOMAIN riderCars, OwesReturn(n)
      PROVE  OwesReturn(n)' \/ OpenEntries(riderCars[n].car)' # {}
  <2> DEFINE t == RiderCarTask("createTriage", n)
  <2>1. riderCars'[n].car = riderCars[n].car
    BY <1>1, CarsStay
  <2>2. t' = t /\ t.kind = "createTriage" /\ t.car = riderCars[n].car
    BY <2>1 DEF RiderCarTask
  <2>3. ASSUME NEW p \in LeaseProcs, Returning(p, n)
        PROVE  Returning(p, n)' \/ t \in tasks'
    BY <1>1, <2>3, ReturningEnds DEF LHLocked
  <2>4. ASSUME t \in tasks, NEW c, c = riderCars[n].car
        PROVE  t \in tasks' \/ OpenEntries(c)' # {}
    BY <1>1, <2>2, <2>4, LHDebtsStay DEF LHLocked
  <2>5. CASE \E p \in LeaseProcs : Returning(p, n)
    BY <2>2, <2>3, <2>5 DEF OwesReturn, Returning
  <2>6. CASE t \in tasks
    <3>1. \/ t \in tasks'
          \/ \E k \in DOMAIN triage' : triage'[k] = [car |-> riderCars[n].car, resolution |-> Open]
      BY <2>4, <2>6 DEF OpenEntries
    <3> QED
      BY <2>1, <2>2, <3>1 DEF OwesReturn, OpenEntries
  <2> QED
    BY <1>1, <2>5, <2>6 DEF OwesReturn, Returning
<1>2. LHLocked /\ [LHNext]_lhVars => Kept
  BY <1>1
<1> HIDE DEF Kept
<1>3. LHSpec => [][Kept]_lhVars
  BY <1>2, AlwaysLHLocked, PTL DEF LHSpec
<1> QED
  BY <1>3 DEF ReturnStaysOwed, Kept
=============================================================================
