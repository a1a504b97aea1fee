---------------------------- MODULE TransferProofs ----------------------------
(***************************************************************************)
(* Proofs about Release and Transfer.  First, with the release service     *)
(* writing beside the lease service: the invariants of the lease service   *)
(* are kept and a release ends once.  Then, with transfers writing         *)
(* rider_cars too: all of that is still kept, and a completed transfer     *)
(* loses no car.                                                           *)
(***************************************************************************)
EXTENDS Transfer, LeaseHierarchyProofs


-----------------------------------------------------------------------------
(***************************************************************************)
(* The shape of a release call at each statement.  D and E are the rows    *)
(* there are of rider_cars and car_releases, lease is the lease call of    *)
(* the same process.                                                       *)
(***************************************************************************)
RelShaped(call, lease, D, E) ==
    /\ call.pc \in {"check", "insert", "transition"} => call.row \in D
    /\ call.pc = "transition" => call.to \in {"releasing", "on_rent"}
    /\ call.pc = "advance" => call.to \in {"APPROVED", "EXECUTING"}
    /\ call.pc \in {"advance", "complete", "offRent", "commit", "promises", "cancel", "revert"} =>
          call.release \in E
    /\ call.pc = "commit" => lease.pc = "held"
RelShape ==
    \A p \in LeaseProcs : RelShaped(relCalls[p], calls[p], DOMAIN riderCars, DOMAIN releases)

RelOwnTypes ==
    /\ releases \in Seq(ReleaseRow)
    /\ relCalls \in [LeaseProcs -> RelCall]
RelTyped == LHTyped /\ RelOwnTypes /\ RelShape

LEMMA NoRelCallType == NoRelCall \in RelCall
BY DEF NoRelCall, RelCall, RelPCs, CarStatuses

LEMMA ReleaseType ==
    ASSUME releases \in Seq(ReleaseRow)
    PROVE  /\ DOMAIN releases \subseteq Nat
           /\ \A k \in DOMAIN releases : releases[k] \in ReleaseRow
           /\ DOMAIN releases = 1..Len(releases)
           /\ Len(releases) \in Nat
BY LenProperties, ElementOfSeq

\* An UPDATE of the status of one release.
LEMMA SetStatusType ==
    ASSUME releases \in Seq(ReleaseRow), NEW k \in DOMAIN releases,
           NEW s \in ReleaseStatuses, SetStatus(k, s)
    PROVE  /\ releases' \in Seq(ReleaseRow)
           /\ DOMAIN releases' = DOMAIN releases
           /\ releases'[k].status = s
           /\ releases'[k] = [releases[k] EXCEPT !.status = s]
           /\ \A j \in DOMAIN releases : j # k => releases'[j] = releases[j]
<1>1. [releases[k] EXCEPT !.status = s] \in ReleaseRow
  BY ReleaseType DEF ReleaseRow
<1>2. releases' = [releases EXCEPT ![k] = [releases[k] EXCEPT !.status = s]]
  BY DEF SetStatus
<1>3. releases' \in Seq(ReleaseRow) /\ DOMAIN releases' = DOMAIN releases
  BY <1>1, <1>2, ReleaseType, ExceptSeq
<1> QED
  BY <1>2, <1>3, ReleaseType DEF ReleaseRow

-----------------------------------------------------------------------------
(* What one statement of a release call does to rider_cars and its calls.  *)

\* The COMMIT of a completion.
LEMMA CommitRows ==
    ASSUME LHTyped, NEW p \in LeaseProcs, CommitRelease(p)
    PROVE  /\ riderCars' \in Seq(RiderCar)
           /\ DOMAIN riderCars' = DOMAIN riderCars
           /\ \A n \in DOMAIN riderCars :
                 IF n \in calls[p].rows
                 THEN /\ riderCars'[n] = [riderCars[n] EXCEPT !.status = "off_rent"]
                      /\ riderCars'[n].status = "off_rent"
                 ELSE riderCars'[n] = riderCars[n]
<1>1. riderCars \in Seq(RiderCar)
  BY DEF LHTyped, LHTypeOK
<1>2. \A n \in DOMAIN riderCars :
         /\ riderCars[n] \in RiderCar
         /\ [riderCars[n] EXCEPT !.status = "off_rent"] \in RiderCar
         /\ [riderCars[n] EXCEPT !.status = "off_rent"].status = "off_rent"
  BY <1>1, RiderCarType DEF RiderCar, CarStatuses
<1>3. riderCars' = [n \in DOMAIN riderCars |->
                       IF n \in calls[p].rows THEN [riderCars[n] EXCEPT !.status = "off_rent"]
                                              ELSE riderCars[n]]
  BY DEF CommitRelease
<1>4. DOMAIN riderCars = 1..Len(riderCars) /\ Len(riderCars) \in Nat
  BY <1>1, LenProperties
<1>5. \A n \in 1..Len(riderCars) : riderCars'[n] \in RiderCar
  BY <1>2, <1>3, <1>4
<1>6. riderCars' \in [1..Len(riderCars) -> RiderCar]
  BY <1>3, <1>4, <1>5
<1>7. riderCars' \in Seq(RiderCar)
  BY <1>4, <1>6, SeqDef
<1> QED
  BY <1>2, <1>3, <1>7

LEMMA HeldCall ==
    ASSUME LHTyped, NEW rows \in SUBSET DOMAIN riderCars
    PROVE  /\ [NoLeaseCall EXCEPT !.pc = "held", !.rows = rows] \in Call
           /\ [NoLeaseCall EXCEPT !.pc = "held", !.rows = rows].pc = "held"
           /\ [NoLeaseCall EXCEPT !.pc = "held", !.rows = rows].rows = rows
           /\ Shaped([NoLeaseCall EXCEPT !.pc = "held", !.rows = rows], DOMAIN riderCars)
<1>1. rows \in SUBSET Nat
  BY RiderCarType DEF LHTyped, LHTypeOK
<1> QED
  BY <1>1 DEF NoLeaseCall, Call, PCs, CarStatuses, Shaped

LEMMA TransitionCallType ==
    ASSUME LHTyped, NEW n \in DOMAIN riderCars, NEW to \in CarStatuses
    PROVE  /\ TransitionCall(n, to) \in Call
           /\ TransitionCall(n, to).pc = "update"
           /\ Shaped(TransitionCall(n, to), DOMAIN riderCars)
<1>1. n \in Nat
  BY RiderCarType DEF LHTyped, LHTypeOK
<1> QED
  BY <1>1 DEF TransitionCall, NoLeaseCall, Call, PCs, Shaped

LEMMA RowsOfDomain == \A k, s : RowsOf(k, s) \in SUBSET DOMAIN riderCars
BY DEF RowsOf

\* The lease tables stay well formed ...
LEMMA ReleaseLeaseTypes ==
    ASSUME RelTyped, NEW p \in LeaseProcs, ReleaseStep(p) \/ StartRelease(p)
    PROVE  LHTyped'
<1>0. LHTyped /\ LHTypeOK
  BY DEF RelTyped, LHTyped
<1>1. CASE UNCHANGED lhVars
  BY <1>0, <1>1 DEF LHTyped, LHTypeOK, SideTypeOK, Shape, lhVars, sideVars, leaseTables
<1>2. CASE CallTransition(p)
  <2>1. relCalls[p].row \in DOMAIN riderCars /\ relCalls[p].to \in CarStatuses
    BY <1>2 DEF CallTransition, RelTyped, RelShape, RelShaped, CarStatuses
  <2>2. UNCHANGED <<sideVars, leaseTables>>
    BY <1>2 DEF CallTransition
  <2>3. calls' \in [LeaseProcs -> Call] /\ Shape'
    <3>1. CASE UNCHANGED calls
      BY <1>0, <2>2, <3>1 DEF LHTyped, LHTypeOK, Shape, leaseTables
    <3>2. CASE Become(p, TransitionCall(relCalls[p].row, relCalls[p].to))
      BY <1>0, <2>1, <2>2, <3>2, TransitionCallType, BecomeShape DEF leaseTables
    <3> QED
      BY <1>2, <3>1, <3>2 DEF CallTransition
  <2> QED
    BY <1>0, <2>2, <2>3 DEF LHTyped, LHTypeOK, SideTypeOK, sideVars, leaseTables
<1>3. CASE TakeOffRent(p)
  <2> DEFINE rows == RowsOf(relCalls[p].release, "releasing")
             held == [NoLeaseCall EXCEPT !.pc = "held", !.rows = rows]
  <2>1. Become(p, held) /\ UNCHANGED <<sideVars, leaseTables>>
    BY <1>3 DEF TakeOffRent
  <2>2. held \in Call /\ Shaped(held, DOMAIN riderCars)
    BY <1>0, RowsOfDomain, HeldCall
  <2> HIDE DEF held
  <2>3. calls' \in [LeaseProcs -> Call] /\ Shape'
    BY <1>0, <2>1, <2>2, BecomeShape DEF leaseTables
  <2> QED
    BY <1>0, <2>1, <2>3 DEF LHTyped, LHTypeOK, SideTypeOK, sideVars, leaseTables
<1>4. CASE CommitRelease(p)
  <2>1. riderCars' \in Seq(RiderCar) /\ DOMAIN riderCars' = DOMAIN riderCars
    BY <1>0, <1>4, CommitRows
  <2>2. calls' \in [LeaseProcs -> Call] /\ Shape'
    BY <1>0, <1>4, <2>1, FinishShape DEF CommitRelease
  <2> QED
    BY <1>0, <1>4, <2>1, <2>2 DEF CommitRelease, LHTyped, LHTypeOK, SideTypeOK, sideVars
<1>5. CASE StartPromises(p)
  <2>1. relCalls[p].release \in DOMAIN releases /\ relCalls[p].release \in Nat
    BY <1>5, ReleaseType DEF StartPromises, RelTyped, RelOwnTypes, RelShape, RelShaped
  <2>2. releases[relCalls[p].release].car \in Cars
    BY <2>1, ReleaseType DEF RelTyped, RelOwnTypes, ReleaseRow
  <2>3. \A kind \in TaskKinds : ReleaseTask(kind, relCalls[p].release) \in Task
    BY <2>1, <2>2 DEF ReleaseTask, Task, Sources
  <2>4. tasks' \subseteq Task
    BY <1>0, <1>5, <2>3 DEF StartPromises, LHTypeOK, SideTypeOK, TaskKinds
  <2> QED
    BY <1>0, <1>5, <2>4 DEF StartPromises, LHTyped, LHTypeOK, SideTypeOK, Shape, leaseTables
<1>6. ReleaseStep(p) =>
         \/ UNCHANGED lhVars
         \/ CallTransition(p) \/ TakeOffRent(p) \/ CommitRelease(p) \/ StartPromises(p)
  BY DEF ReleaseStep, CheckDuplicate, InsertRelease, AdvanceRelease, CompleteRelease,
         CancelRelease, FindReleasing
<1>7. StartRelease(p) => UNCHANGED lhVars
  BY DEF StartRelease, Initiate, Advance, Complete, Cancel
<1> QED
  BY <1>1, <1>2, <1>3, <1>4, <1>5, <1>6, <1>7

\* ... and the release service takes and moves rows as the lease service does.
LEMMA ReleaseMoves ==
    ASSUME RelTyped, Locks, NEW p \in LeaseProcs, ReleaseStep(p) \/ StartRelease(p)
    PROVE  CallMoves(p) \/ Quiet
<1>0. LHTyped /\ calls \in [LeaseProcs -> Call]
  BY DEF RelTyped, LHTyped, LHTypeOK
<1>1. CASE UNCHANGED <<riderCars, riders, calls>>
  BY <1>1 DEF Quiet
<1>2. CASE CallTransition(p) /\ ~UNCHANGED calls
  <2> DEFINE call == TransitionCall(relCalls[p].row, relCalls[p].to)
  <2>1. relCalls[p].row \in DOMAIN riderCars /\ relCalls[p].to \in CarStatuses
    BY <1>2 DEF CallTransition, RelTyped, RelShape, RelShaped, CarStatuses
  <2>2. Become(p, call) /\ UNCHANGED riderCars
    BY <1>2 DEF CallTransition, leaseTables
  <2>3. call \in Call /\ call.pc = "update"
    BY <1>0, <2>1, TransitionCallType
  <2> HIDE DEF call
  <2>4. calls'[p] = call /\ \A q \in LeaseProcs : q # p => calls'[q] = calls[q]
    BY <1>0, <2>2, <2>3, Becomes
  <2>5. Holding(p)
    BY <2>3, <2>4, HoldsNothing
  <2> QED
    BY <2>2, <2>4, <2>5 DEF CallMoves, MovedBy
<1>3. CASE TakeOffRent(p)
  <2> DEFINE rows == RowsOf(relCalls[p].release, "releasing")
             held == [NoLeaseCall EXCEPT !.pc = "held", !.rows = rows]
  <2>1. Become(p, held) /\ UNCHANGED <<riderCars, riders>> /\ \A n \in rows : RowFree(n)
    BY <1>3 DEF TakeOffRent, leaseTables
  <2>2. held \in Call /\ held.pc = "held" /\ held.rows = rows
    BY <1>0, RowsOfDomain, HeldCall
  <2>3. \A n \in rows : riderCars[n].status = "releasing"
    BY DEF RowsOf
  <2> HIDE DEF held, rows
  <2>4. calls'[p] = held /\ \A q \in LeaseProcs : q # p => calls'[q] = calls[q]
    BY <1>0, <2>1, <2>2, Becomes
  <2>5. Holding(p)
    BY <2>1, <2>2, <2>3, <2>4 DEF Holding, HoldsRow, HoldsRider, HoldsCar, TookRow
  <2> QED
    BY <2>1, <2>4, <2>5 DEF CallMoves, MovedBy
<1>4. CASE CommitRelease(p)
  <2>1. calls[p].pc = "held" /\ Finish(p)
    BY <1>4 DEF CommitRelease, RelTyped, RelShape, RelShaped
  <2>2. Holding(p) /\ \A q \in LeaseProcs : q # p => calls'[q] = calls[q]
    BY <1>0, <2>1, FinishHolds
  <2>3. ASSUME NEW n \in DOMAIN riderCars, n \in calls[p].rows
        PROVE  MovedRow(n) /\ \A q \in LeaseProcs : q # p => ~HoldsRow(q, n)
    <3>1. HoldsRow(p, n)
      BY <2>1, <2>3 DEF HoldsRow
    <3>2. riderCars[n].status = "releasing"
      BY <2>1, <3>1 DEF Locks
    <3>3. /\ riderCars'[n] = [riderCars[n] EXCEPT !.status = "off_rent"]
          /\ riderCars'[n].status = "off_rent"
      BY <1>0, <1>4, <2>3, CommitRows
    <3> QED
      BY <3>1, <3>2, <3>3 DEF Locks, MovedRow, Allowed, CarStatuses
  <2>4. /\ DOMAIN riderCars' = DOMAIN riderCars
        /\ \A n \in DOMAIN riderCars : n \notin calls[p].rows => riderCars'[n] = riderCars[n]
    BY <1>0, <1>4, CommitRows
  <2>5. MovedBy(p)
    BY <2>3, <2>4 DEF MovedBy
  <2> QED
    BY <2>2, <2>5 DEF CallMoves
<1>5. ReleaseStep(p) =>
         \/ UNCHANGED <<riderCars, riders, calls>>
         \/ CallTransition(p) /\ ~UNCHANGED calls
         \/ TakeOffRent(p) \/ CommitRelease(p)
  BY DEF ReleaseStep, CheckDuplicate, InsertRelease, AdvanceRelease, CompleteRelease, CallTransition,
         StartPromises, CancelRelease, FindReleasing, lhVars, leaseTables
<1>6. StartRelease(p) => UNCHANGED <<riderCars, riders, calls>>
  BY DEF StartRelease, Initiate, Advance, Complete, Cancel, lhVars, leaseTables
<1> QED
  BY <1>1, <1>2, <1>3, <1>4, <1>5, <1>6

-----------------------------------------------------------------------------
(* What one statement does to car_releases and the release calls.          *)

\* The trigger accepted the UPDATE of release k, if it was updated at all.
MovedRelease(k) ==
    /\ releases'[k] \in ReleaseRow
    /\ releases[k].status = releases'[k].status => releases'[k] = releases[k]
    /\ Permits(releases[k].status, releases'[k].status)
    /\ \A q \in LeaseProcs :
          HoldsRelease(q, k) => releases'[k].status \in {"COMPLETED", releases[k].status}
ReleasesMove ==
    /\ releases' \in Seq(ReleaseRow)
    /\ DOMAIN releases \subseteq DOMAIN releases'
    /\ \A k \in DOMAIN releases : MovedRelease(k)

LEMMA ReleasesStay ==
    ASSUME releases \in Seq(ReleaseRow), UNCHANGED releases
    PROVE  ReleasesMove
BY ReleaseType DEF ReleasesMove, MovedRelease, Permits

LEMMA SetStatusMoves ==
    ASSUME releases \in Seq(ReleaseRow), NEW k \in DOMAIN releases,
           NEW s \in ReleaseStatuses, SetStatus(k, s), Permits(releases[k].status, s),
           ReleaseFree(k) \/ s = "COMPLETED"
    PROVE  ReleasesMove
<1>1. \A j \in DOMAIN releases : releases[j] \in ReleaseRow
  BY ReleaseType
<1>2. /\ releases' \in Seq(ReleaseRow)
      /\ DOMAIN releases' = DOMAIN releases
      /\ releases'[k].status = s
      /\ releases'[k] = [releases[k] EXCEPT !.status = s]
      /\ \A j \in DOMAIN releases : j # k => releases'[j] = releases[j]
  BY SetStatusType
<1>3. MovedRelease(k)
  BY <1>1, <1>2 DEF MovedRelease, ReleaseRow, ReleaseFree
<1>4. \A j \in DOMAIN releases : j # k => MovedRelease(j)
  BY <1>1, <1>2 DEF MovedRelease, Permits
<1> QED
  BY <1>2, <1>3, <1>4 DEF ReleasesMove

\* A completion is under way on a release that was executing.
Completing ==
    \A p \in LeaseProcs :
       relCalls[p].pc \in {"offRent", "commit"} =>
          releases[relCalls[p].release].status \in {"EXECUTING", "COMPLETED"}

LEMMA ReleaseRowsStep ==
    ASSUME RelTyped, Completing, NEW p \in LeaseProcs, ReleaseStep(p) \/ StartRelease(p)
    PROVE  ReleasesMove
<1>0. releases \in Seq(ReleaseRow)
  BY DEF RelTyped, RelOwnTypes
<1> DEFINE k == relCalls[p].release
<1>1. CASE UNCHANGED releases
  BY <1>0, <1>1, ReleasesStay
<1>2. CASE InsertRelease(p)
  <2> DEFINE new == [rider |-> riderCars[relCalls[p].row].rider,
                     car |-> riderCars[relCalls[p].row].car, status |-> "INITIATED"]
  <2>1. relCalls[p].row \in DOMAIN riderCars
    BY <1>2 DEF InsertRelease, RelTyped, RelShape, RelShaped
  <2>2. riderCars[relCalls[p].row] \in RiderCar
    BY <2>1, RiderCarType DEF RelTyped, LHTyped, LHTypeOK
  <2>3. new \in ReleaseRow
    BY <2>2 DEF RiderCar, ReleaseRow, ReleaseStatuses
  <2>4. releases' = Append(releases, new)
    BY <1>2 DEF InsertRelease
  <2> HIDE DEF new
  <2>5. /\ releases' \in Seq(ReleaseRow)
        /\ Len(releases') = Len(releases) + 1
        /\ \A j \in 1..Len(releases) : releases'[j] = releases[j]
    BY <1>0, <2>3, <2>4, AppendProperties
  <2>6. DOMAIN releases' = 1..Len(releases')
    BY <2>5, LenProperties
  <2>7. \A j \in DOMAIN releases : releases'[j] = releases[j] /\ releases[j] \in ReleaseRow
    BY <1>0, <2>5, ReleaseType
  <2>8. DOMAIN releases \subseteq DOMAIN releases'
    BY <1>0, <2>5, <2>6, ReleaseType
  <2> QED
    BY <2>5, <2>7, <2>8 DEF ReleasesMove, MovedRelease, Permits
<1>3. CASE AdvanceRelease(p) /\ ~UNCHANGED releases
  <2>1. k \in DOMAIN releases /\ relCalls[p].to \in ReleaseStatuses
    BY <1>3 DEF AdvanceRelease, RelTyped, RelShape, RelShaped, ReleaseStatuses
  <2> QED
    BY <1>0, <1>3, <2>1, SetStatusMoves DEF AdvanceRelease
<1>4. CASE CommitRelease(p)
  <2>1. k \in DOMAIN releases /\ releases[k].status \in {"EXECUTING", "COMPLETED"}
    BY <1>4 DEF CommitRelease, RelTyped, RelShape, RelShaped, Completing
  <2>2. SetStatus(k, "COMPLETED") /\ Permits(releases[k].status, "COMPLETED")
    BY <1>4, <2>1 DEF CommitRelease, Permits
  <2> QED
    BY <1>0, <2>1, <2>2, SetStatusMoves DEF ReleaseStatuses
<1>5. CASE CancelRelease(p) /\ ~UNCHANGED releases
  <2>1. k \in DOMAIN releases
    BY <1>5 DEF CancelRelease, RelTyped, RelShape, RelShaped
  <2> QED
    BY <1>0, <1>5, <2>1, SetStatusMoves DEF CancelRelease, ReleaseStatuses
<1>6. ReleaseStep(p) =>
         \/ UNCHANGED releases
         \/ InsertRelease(p) \/ CommitRelease(p)
         \/ AdvanceRelease(p) /\ ~UNCHANGED releases
         \/ CancelRelease(p) /\ ~UNCHANGED releases
  BY DEF ReleaseStep, CheckDuplicate, CallTransition, CompleteRelease, TakeOffRent, StartPromises,
         FindReleasing
<1>7. StartRelease(p) => UNCHANGED releases
  BY DEF StartRelease, Initiate, Advance, Complete, Cancel
<1> QED
  BY <1>1, <1>2, <1>3, <1>4, <1>5, <1>6, <1>7

\* A release call that goes on as `call`.
LEMMA RelBecomes ==
    ASSUME relCalls \in [LeaseProcs -> RelCall], NEW p \in LeaseProcs, NEW call \in RelCall,
           relCalls' = [relCalls EXCEPT ![p] = call]
    PROVE  /\ relCalls' \in [LeaseProcs -> RelCall]
           /\ relCalls'[p] = call
           /\ \A q \in LeaseProcs : q # p => relCalls'[q] = relCalls[q]
OBVIOUS

LEMMA Proceeds ==
    ASSUME relCalls \in [LeaseProcs -> RelCall], NEW p \in LeaseProcs, NEW pc \in RelPCs,
           Proceed(p, pc)
    PROVE  /\ relCalls' \in [LeaseProcs -> RelCall]
           /\ relCalls'[p].pc = pc
           /\ relCalls'[p].release = relCalls[p].release
           /\ relCalls'[p].row = relCalls[p].row
           /\ \A q \in LeaseProcs : q # p => relCalls'[q] = relCalls[q]
BY DEF Proceed, RelCall

\* What the call of p relies on after its step.
WellFormed(p) ==
    /\ relCalls' \in [LeaseProcs -> RelCall]
    /\ \A q \in LeaseProcs : q # p => relCalls'[q] = relCalls[q]
    /\ RelShaped(relCalls'[p], calls'[p], DOMAIN riderCars', DOMAIN releases')
    /\ relCalls'[p].pc \in {"offRent", "commit"} =>
          releases'[relCalls'[p].release].status \in {"EXECUTING", "COMPLETED"}

LEMMA EndsWellFormed ==
    ASSUME relCalls \in [LeaseProcs -> RelCall], NEW p \in LeaseProcs, EndRelease(p)
    PROVE  WellFormed(p)
<1>1. relCalls'[p] = NoRelCall
  BY DEF EndRelease
<1> QED
  BY <1>1, NoRelCallType, RelBecomes DEF EndRelease, WellFormed, RelShaped, NoRelCall

LEMMA StartWellFormed ==
    ASSUME RelTyped, NEW p \in LeaseProcs, StartRelease(p)
    PROVE  WellFormed(p)
<1>0. relCalls \in [LeaseProcs -> RelCall] /\ releases \in Seq(ReleaseRow)
      /\ DOMAIN riderCars \subseteq Nat /\ DOMAIN releases \subseteq Nat
  BY RiderCarType, ReleaseType DEF RelTyped, RelOwnTypes, LHTyped, LHTypeOK
<1>1. ASSUME NEW n \in DOMAIN riderCars, Initiate(p, n)
      PROVE  WellFormed(p)
  <2> DEFINE call == [NoRelCall EXCEPT !.pc = "check", !.row = n]
  <2>1. call \in RelCall /\ call.pc = "check" /\ call.row = n
    BY <1>0 DEF NoRelCall, RelCall, RelPCs, CarStatuses
  <2>2. relCalls' = [relCalls EXCEPT ![p] = call] /\ UNCHANGED riderCars
    BY <1>1 DEF Initiate, BeginRelease, lhVars, leaseTables
  <2> HIDE DEF call
  <2> QED
    BY <1>0, <2>1, <2>2, RelBecomes DEF WellFormed, RelShaped
<1>2. ASSUME NEW k \in DOMAIN releases, NEW to \in DOMAIN Before, Advance(p, k, to)
      PROVE  WellFormed(p)
  <2> DEFINE call == [NoRelCall EXCEPT !.pc = "advance", !.release = k, !.to = to]
  <2>1. to \in {"APPROVED", "EXECUTING"}
    BY <1>2 DEF Before
  <2>2. call \in RelCall /\ call.pc = "advance" /\ call.release = k /\ call.to = to
    BY <1>0, <2>1 DEF NoRelCall, RelCall, RelPCs, ReleaseStatuses
  <2>3. relCalls' = [relCalls EXCEPT ![p] = call] /\ UNCHANGED releases
    BY <1>2 DEF Advance, BeginRelease
  <2> HIDE DEF call
  <2> QED
    BY <1>0, <2>1, <2>2, <2>3, RelBecomes DEF WellFormed, RelShaped
<1>3. ASSUME NEW k \in DOMAIN releases, NEW pc \in {"complete", "cancel"},
             BeginRelease(p, [NoRelCall EXCEPT !.pc = pc, !.release = k]), UNCHANGED releases
      PROVE  WellFormed(p)
  <2> DEFINE call == [NoRelCall EXCEPT !.pc = pc, !.release = k]
  <2>1. call \in RelCall /\ call.pc = pc /\ call.release = k
    BY <1>0 DEF NoRelCall, RelCall, RelPCs, CarStatuses
  <2>2. relCalls' = [relCalls EXCEPT ![p] = call]
    BY <1>3 DEF BeginRelease
  <2> HIDE DEF call
  <2> QED
    BY <1>0, <1>3, <2>1, <2>2, RelBecomes DEF WellFormed, RelShaped
<1> QED
  BY <1>1, <1>2, <1>3 DEF StartRelease, Complete, Cancel

LEMMA StepWellFormed ==
    ASSUME RelTyped, Completing, ReleasesMove, NEW p \in LeaseProcs, ReleaseStep(p)
    PROVE  WellFormed(p)
<1>0. /\ relCalls \in [LeaseProcs -> RelCall]
      /\ relCalls[p] \in RelCall
      /\ RelShaped(relCalls[p], calls[p], DOMAIN riderCars, DOMAIN releases)
      /\ calls \in [LeaseProcs -> Call]
      /\ DOMAIN riderCars \subseteq Nat
      /\ DOMAIN releases \subseteq DOMAIN releases'
  BY RiderCarType DEF RelTyped, RelOwnTypes, RelShape, LHTyped, LHTypeOK, ReleasesMove
<1>1. CASE EndRelease(p)
  BY <1>0, <1>1, EndsWellFormed
<1>2. CASE CheckDuplicate(p) /\ Proceed(p, "insert")
  BY <1>0, <1>2, Proceeds DEF CheckDuplicate, WellFormed, RelShaped, RelPCs, lhVars, leaseTables
<1>3. CASE InsertRelease(p)
  <2> DEFINE call == [relCalls[p] EXCEPT !.pc = "transition", !.to = "releasing"]
  <2>1. /\ call \in RelCall
        /\ call.pc = "transition" /\ call.to = "releasing" /\ call.row = relCalls[p].row
    BY <1>0 DEF RelCall, RelPCs, CarStatuses
  <2>2. relCalls' = [relCalls EXCEPT ![p] = call] /\ UNCHANGED riderCars
    BY <1>3 DEF InsertRelease, lhVars, leaseTables
  <2> HIDE DEF call
  <2>3. relCalls[p].row \in DOMAIN riderCars
    BY <1>0, <1>3 DEF InsertRelease, RelShaped
  <2> QED
    BY <1>0, <2>1, <2>2, <2>3, RelBecomes DEF WellFormed, RelShaped
<1>4. CASE CompleteRelease(p) /\ Proceed(p, "offRent")
  <2>1. relCalls[p].release \in DOMAIN releases
    BY <1>0, <1>4 DEF CompleteRelease, RelShaped
  <2>2. releases[relCalls[p].release].status \in {"EXECUTING", "COMPLETED"} \/ EndRelease(p)
    BY <1>4 DEF CompleteRelease, Permits
  <2>3. UNCHANGED releases
    BY <1>4 DEF CompleteRelease
  <2> QED
    BY <1>0, <1>1, <1>4, <2>1, <2>2, <2>3, Proceeds DEF WellFormed, RelShaped, RelPCs
<1>5. CASE TakeOffRent(p)
  <2> DEFINE rows == RowsOf(relCalls[p].release, "releasing")
             held == [NoLeaseCall EXCEPT !.pc = "held", !.rows = rows]
  <2>1. held \in Call /\ held.pc = "held"
    BY RowsOfDomain, HeldCall DEF RelTyped
  <2>2. Become(p, held) /\ Proceed(p, "commit") /\ UNCHANGED releases
    BY <1>5 DEF TakeOffRent
  <2> HIDE DEF held
  <2>3. calls'[p].pc = "held"
    BY <1>0, <2>1, <2>2, Becomes
  <2>4. /\ relCalls[p].release \in DOMAIN releases
        /\ releases[relCalls[p].release].status \in {"EXECUTING", "COMPLETED"}
    BY <1>0, <1>5 DEF TakeOffRent, RelShaped, Completing
  <2> QED
    BY <1>0, <2>2, <2>3, <2>4, Proceeds DEF WellFormed, RelShaped, RelPCs
<1>6. CASE CommitRelease(p)
  <2>1. relCalls[p].release \in DOMAIN releases
    BY <1>0, <1>6 DEF CommitRelease, RelShaped
  <2> QED
    BY <1>0, <1>6, <2>1, Proceeds DEF CommitRelease, WellFormed, RelShaped, RelPCs
<1>7. CASE CancelRelease(p) /\ Proceed(p, "revert")
  <2>1. relCalls[p].release \in DOMAIN releases
    BY <1>0, <1>7 DEF CancelRelease, RelShaped
  <2> QED
    BY <1>0, <1>7, <2>1, Proceeds DEF WellFormed, RelShaped, RelPCs
<1>8. ASSUME FindReleasing(p), ~EndRelease(p)
      PROVE  WellFormed(p)
  <2>1. PICK n \in DOMAIN riderCars :
           relCalls' = [relCalls EXCEPT ![p].pc = "transition", ![p].row = n, ![p].to = "on_rent"]
    BY <1>8 DEF FindReleasing, RowsOf
  <2> DEFINE call == [relCalls[p] EXCEPT !.pc = "transition", !.row = n, !.to = "on_rent"]
  <2>2. call \in RelCall /\ call.pc = "transition" /\ call.to = "on_rent" /\ call.row = n
    BY <1>0 DEF RelCall, RelPCs, CarStatuses
  <2>3. relCalls' = [relCalls EXCEPT ![p] = call] /\ UNCHANGED riderCars
    BY <1>8, <2>1 DEF FindReleasing, lhVars, leaseTables
  <2> HIDE DEF call
  <2> QED
    BY <1>0, <2>2, <2>3, RelBecomes DEF WellFormed, RelShaped
<1> QED
  BY <1>1, <1>2, <1>3, <1>4, <1>5, <1>6, <1>7, <1>8
  DEF ReleaseStep, CheckDuplicate, CallTransition, AdvanceRelease, CompleteRelease, StartPromises,
      CancelRelease

-----------------------------------------------------------------------------
(* The invariant of the two services together.                             *)

RelInv == RelTyped /\ Locks /\ Completing

\* A statement of a release call does nothing to the calls of the other processes.
LEMMA OthersCalls ==
    ASSUME RelTyped, NEW p \in LeaseProcs, ReleaseStep(p) \/ StartRelease(p)
    PROVE  \A q \in LeaseProcs : q # p => calls'[q] = calls[q]
<1>1. calls \in [LeaseProcs -> Call]
  BY DEF RelTyped, LHTyped, LHTypeOK
<1>2. UNCHANGED calls \/ \E call : Become(p, call)
  BY DEF ReleaseStep, StartRelease, CheckDuplicate, InsertRelease, CallTransition, AdvanceRelease,
         CompleteRelease, TakeOffRent, CommitRelease, StartPromises, CancelRelease, FindReleasing,
         Initiate, Advance, Complete, Cancel, Finish, lhVars
<1> QED
  BY <1>1, <1>2 DEF Become

LEMMA RelStepInv ==
    ASSUME RelInv, NEW p \in LeaseProcs, ReleaseStep(p) \/ StartRelease(p)
    PROVE  RelInv'
<1> USE DEF RelInv
<1>1. LHTyped' /\ Locks'
  BY ReleaseLeaseTypes, ReleaseMoves, RowsKept, LocksKept DEF RelTyped
<1>2. ReleasesMove
  BY ReleaseRowsStep
<1>3. WellFormed(p)
  BY <1>2, StartWellFormed, StepWellFormed
<1>4. DOMAIN riderCars \subseteq DOMAIN riderCars'
  BY ReleaseMoves, RowsKept DEF RelTyped, Quiet, Keeps
<1>5. RelShape'
  <2>1. ASSUME NEW q \in LeaseProcs, q # p
        PROVE  RelShaped(relCalls'[q], calls'[q], DOMAIN riderCars', DOMAIN releases')
    <3>1. RelShaped(relCalls[q], calls[q], DOMAIN riderCars, DOMAIN releases)
      BY DEF RelTyped, RelShape
    <3>2. relCalls'[q] = relCalls[q] /\ calls'[q] = calls[q]
      BY <1>3, <2>1, OthersCalls DEF WellFormed
    <3> QED
      BY <1>2, <1>4, <3>1, <3>2 DEF RelShaped, ReleasesMove
  <2> QED
    BY <1>3, <2>1 DEF RelShape, WellFormed
<1>6. Completing'
  <2>1. ASSUME NEW q \in LeaseProcs, q # p, relCalls'[q].pc \in {"offRent", "commit"}
        PROVE  releases'[relCalls'[q].release].status \in {"EXECUTING", "COMPLETED"}
    <3>1. relCalls'[q] = relCalls[q]
      BY <1>3, <2>1 DEF WellFormed
    <3>2. relCalls[q].release \in DOMAIN releases
      BY <2>1, <3>1 DEF RelTyped, RelShape, RelShaped
    <3>3. MovedRelease(relCalls[q].release) /\ HoldsRelease(q, relCalls[q].release)
      BY <1>2, <2>1, <3>1, <3>2 DEF ReleasesMove, HoldsRelease
    <3> QED
      BY <2>1, <3>1, <3>3 DEF MovedRelease, Completing
  <2> QED
    BY <1>3, <2>1 DEF Completing, WellFormed
<1> QED
  BY <1>1, <1>2, <1>3, <1>5, <1>6 DEF RelTyped, RelOwnTypes, ReleasesMove, WellFormed

\* The lease service does not disturb a completion.
LEMMA LeaseStepInv ==
    ASSUME RelInv, LeaseStep
    PROVE  RelInv'
<1> USE DEF RelInv
<1>1. LHNext
  BY DEF LeaseStep, LHNext
<1>2. LHTyped' /\ Locks'
  BY <1>1, LHTypedStep, LocksStep DEF RelTyped
<1>3. UNCHANGED <<releases, relCalls>>
  BY DEF LeaseStep
<1>4. DOMAIN riderCars \subseteq DOMAIN riderCars'
  BY <1>1, Steps, RowsKept DEF RelTyped, Quiet, Keeps
<1>5. \A p \in LeaseProcs : calls[p].pc = "held" => ~CallStep(p)
  BY DEF CallStep, InsertRider, ExpireRiders, RemoveCars, CommitDeactivation, InsertCar, CountCar,
         InsertAssigned, UpdateRemoved, CommitRemoval, UpdateStatus, LogHistory, CountReturned,
         DeadlockAbort, WaitsFor
<1>6. ASSUME NEW q \in LeaseProcs, relCalls[q].pc = "commit"
      PROVE  calls'[q].pc = "held"
  <2>1. calls[q].pc = "held"
    BY <1>6 DEF RelTyped, RelShape, RelShaped
  <2>2. CASE \E p \in LeaseProcs : CallStep(p) \/ (relCalls[p].pc = "none" /\ StartCall(p))
    BY <1>5, <1>6, <2>1, <2>2, CallHolds, StartHolds DEF RelTyped
  <2>3. CASE UNCHANGED calls
    BY <2>1, <2>3
  <2> QED
    BY <2>2, <2>3 DEF LeaseStep, UpdateLease, ReadyToLoad, LHSideStep
<1>7. RelShape'
  <2> SUFFICES ASSUME NEW q \in LeaseProcs
               PROVE  RelShaped(relCalls[q], calls'[q], DOMAIN riderCars', DOMAIN releases)
    BY <1>3 DEF RelShape
  <2>1. RelShaped(relCalls[q], calls[q], DOMAIN riderCars, DOMAIN releases)
    BY DEF RelTyped, RelShape
  <2> QED
    BY <1>4, <1>6, <2>1 DEF RelShaped
<1> QED
  BY <1>2, <1>3, <1>7 DEF RelTyped, RelOwnTypes, Completing

LEMMA CrashInv ==
    ASSUME RelInv, RelCrash
    PROVE  RelInv'
<1>1. LHNext
  BY DEF RelCrash, LHNext
<1>2. LHTyped' /\ Locks'
  BY <1>1, LHTypedStep, LocksStep DEF RelInv, RelTyped
<1>3. relCalls' \in [LeaseProcs -> RelCall] /\ \A p \in LeaseProcs : relCalls'[p] = NoRelCall
  BY NoRelCallType DEF RelCrash
<1>4. releases' \in Seq(ReleaseRow)
  BY DEF RelCrash, RelInv, RelTyped, RelOwnTypes
<1>5. RelShape' /\ Completing'
  BY <1>3 DEF RelShape, RelShaped, Completing, NoRelCall
<1> QED
  BY <1>2, <1>3, <1>4, <1>5 DEF RelInv, RelTyped, RelOwnTypes

LEMMA StutterInv ==
    ASSUME RelInv, UNCHANGED relVars
    PROVE  RelInv'
<1>1. LHTyped' /\ Locks'
  <2>1. UNCHANGED lhVars
    BY DEF relVars
  <2> QED
    BY <2>1, LHTypedStep, LocksStep DEF RelInv, RelTyped
<1> QED
  BY <1>1 DEF RelInv, RelTyped, RelOwnTypes, RelShape, Completing, relVars, lhVars, leaseTables

LEMMA RelInvStep == RelInv /\ [RelNext]_relVars => RelInv'
BY RelStepInv, LeaseStepInv, CrashInv, StutterInv DEF RelNext

\* What a step of the two services does to rider_cars and its calls.
LEMMA RelMoves ==
    ASSUME RelInv, [RelNext]_relVars
    PROVE  (\E p \in LeaseProcs : CallMoves(p)) \/ Quiet
<1>1. CASE \E p \in LeaseProcs : ReleaseStep(p) \/ StartRelease(p)
  BY <1>1, ReleaseMoves DEF RelInv
<1>2. CASE LeaseStep \/ RelCrash \/ UNCHANGED relVars
  <2>1. [LHNext]_lhVars
    BY <1>2 DEF LeaseStep, RelCrash, LHNext, relVars
  <2> QED
    BY <2>1, Steps DEF RelInv, RelTyped
<1> QED
  BY <1>1, <1>2 DEF RelNext

LEMMA RelInitInv == RelInit => RelInv
<1> SUFFICES ASSUME RelInit
             PROVE  RelInv
  OBVIOUS
<1>1. LHTyped /\ Locks
  BY LHTypedInit DEF RelInit, LHInit, Locks, HoldsRow, NoLeaseCall
<1>2. releases \in Seq(ReleaseRow)
  BY EmptySeq DEF RelInit
<1>3. relCalls \in [LeaseProcs -> RelCall] /\ \A p \in LeaseProcs : relCalls[p] = NoRelCall
  BY NoRelCallType DEF RelInit
<1>4. RelShape /\ Completing
  BY <1>3 DEF RelShape, RelShaped, Completing, NoRelCall
<1> QED
  BY <1>1, <1>2, <1>3, <1>4 DEF RelInv, RelTyped, RelOwnTypes

LEMMA AlwaysRelInv == RelSpec => []RelInv
BY RelInitInv, RelInvStep, PTL DEF RelSpec

-----------------------------------------------------------------------------
(* The theorems.                                                           *)

(***************************************************************************)
(* Type correctness of the releases and of the lease tables they share     *)
(* with contracts.service.                                                 *)
(***************************************************************************)
THEOREM RelTypeCorrect == RelSpec => []RelTypeOK
<1>1. RelInv => RelTypeOK
  BY DEF RelInv, RelTyped, RelOwnTypes, LHTyped, RelTypeOK
<1> QED
  BY <1>1, AlwaysRelInv, PTL

(***************************************************************************)
(* R16 with both services at work: also the completion of a release, which *)
(* writes rider_cars beside the lease service, ends a rental through       *)
(* releasing only and changes no ended row.                                *)
(***************************************************************************)
THEOREM ReleasesKeepRentals == RelSpec => RentalEndsThroughRelease
<1>1. ASSUME RelInv, [RelNext]_relVars
      PROVE  [EndsThroughRelease]_riderCars
  BY <1>1, RelMoves, RowsKept, StepEndsThroughRelease DEF RelInv, RelTyped
<1>2. RelSpec => [][EndsThroughRelease]_riderCars
  BY <1>1, AlwaysRelInv, PTL DEF RelSpec
<1> QED
  BY <1>2 DEF RentalEndsThroughRelease, EndsThroughRelease

\* What a step owes to a release: the body of ReleaseEndsOnce.
EndsOnce ==
    \A k \in DOMAIN releases :
       /\ ~Pending(k) => releases'[k] = releases[k]
       /\ releases'[k].status = "COMPLETED" => releases[k].status \in {"EXECUTING", "COMPLETED"}

(***************************************************************************)
(* A finished release keeps its status, and completed is only what was     *)
(* executing, for any number of releases and concurrent requests.          *)
(***************************************************************************)
THEOREM ReleaseEndsOnceHolds == RelSpec => ReleaseEndsOnce
<1>1. ASSUME RelInv, [RelNext]_relVars
      PROVE  [EndsOnce]_releases
  <2>1. CASE UNCHANGED releases
    BY <2>1
  <2>2. CASE ReleasesMove
    BY <2>2 DEF ReleasesMove, MovedRelease, Permits, EndsOnce, Pending, Finished
  <2>3. LeaseStep \/ RelCrash \/ UNCHANGED relVars => UNCHANGED releases
    BY DEF LeaseStep, RelCrash, relVars
  <2> QED
    BY <1>1, <2>1, <2>2, <2>3, ReleaseRowsStep DEF RelInv, RelNext
<1>2. RelSpec => [][EndsOnce]_releases
  BY <1>1, AlwaysRelInv, PTL DEF RelSpec
<1> QED
  BY <1>2 DEF ReleaseEndsOnce, EndsOnce


-----------------------------------------------------------------------------
(***************************************************************************)
(* The shape of a transfer call at each statement.  D and E are the rows   *)
(* there are of rider_cars and car_lease_transitions; release and lease    *)
(* are the other calls of the same process.                                *)
(***************************************************************************)
TrShaped(call, release, lease, D, E) ==
    /\ call.pc \in {"destination", "existing", "released", "insert"} => call.row \in D
    /\ call.pc \in {"confirm", "take", "commit", "cancel"} => call.transfer \in E
    /\ call.pc # "none" => release.pc = "none"
    /\ call.pc = "commit" => lease.pc = "held"
TrShape ==
    \A p \in LeaseProcs :
       TrShaped(trCalls[p], relCalls[p], calls[p], DOMAIN riderCars, DOMAIN transfers)
TrOwnTypes ==
    /\ transfers \in Seq(TransferRow)
    /\ trCalls \in [LeaseProcs -> TrCall]

\* The invariant of the three services together.
TrInv == RelInv /\ OneRiderInv /\ TrOwnTypes /\ TrShape

LEMMA NoTrCallType == NoTrCall \in TrCall
BY DEF NoTrCall, TrCall, TrPCs

LEMMA TransferType ==
    ASSUME transfers \in Seq(TransferRow)
    PROVE  /\ DOMAIN transfers \subseteq Nat
           /\ \A k \in DOMAIN transfers : transfers[k] \in TransferRow
           /\ DOMAIN transfers = 1..Len(transfers)
           /\ Len(transfers) \in Nat
BY LenProperties, ElementOfSeq

\* An UPDATE of the status of one transfer.
LEMMA MarkType ==
    ASSUME transfers \in Seq(TransferRow), NEW k \in DOMAIN transfers,
           NEW s \in TransferStatuses, Mark(k, s)
    PROVE  transfers' \in Seq(TransferRow) /\ DOMAIN transfers' = DOMAIN transfers
<1>1. [transfers[k] EXCEPT !.status = s] \in TransferRow
  BY TransferType DEF TransferRow
<1>2. transfers' = [transfers EXCEPT ![k] = [transfers[k] EXCEPT !.status = s]]
  BY DEF Mark
<1> QED
  BY <1>1, <1>2, TransferType, ExceptSeq

\* A transfer call that goes on as `call`.
LEMMA TrBecomes ==
    ASSUME trCalls \in [LeaseProcs -> TrCall], NEW p \in LeaseProcs, NEW call \in TrCall,
           trCalls' = [trCalls EXCEPT ![p] = call]
    PROVE  /\ trCalls' \in [LeaseProcs -> TrCall]
           /\ trCalls'[p] = call
           /\ \A q \in LeaseProcs : q # p => trCalls'[q] = trCalls[q]
OBVIOUS

LEMMA Goes ==
    ASSUME trCalls \in [LeaseProcs -> TrCall], NEW p \in LeaseProcs, NEW pc \in TrPCs, Goto(p, pc)
    PROVE  /\ trCalls' \in [LeaseProcs -> TrCall]
           /\ trCalls'[p].pc = pc
           /\ trCalls'[p].transfer = trCalls[p].transfer
           /\ trCalls'[p].row = trCalls[p].row
           /\ \A q \in LeaseProcs : q # p => trCalls'[q] = trCalls[q]
BY DEF Goto, TrCall

\* What the call of p relies on after its step.
TrWellFormed(p) ==
    /\ trCalls' \in [LeaseProcs -> TrCall]
    /\ \A q \in LeaseProcs : q # p => trCalls'[q] = trCalls[q]
    /\ TrShaped(trCalls'[p], relCalls'[p], calls'[p], DOMAIN riderCars', DOMAIN transfers')

LEMMA EndsTrWellFormed ==
    ASSUME trCalls \in [LeaseProcs -> TrCall], NEW p \in LeaseProcs, EndTransfer(p)
    PROVE  TrWellFormed(p)
<1>1. trCalls'[p] = NoTrCall
  BY DEF EndTransfer
<1> QED
  BY <1>1, NoTrCallType, TrBecomes DEF EndTransfer, TrWellFormed, TrShaped, NoTrCall

-----------------------------------------------------------------------------
(* The two statements of completeTransfer that touch rider_cars.           *)

\* UPDATE of the source's rows.
Takes(p) ==
    /\ TakeFromSource(p)
    /\ \A n \in SourceRows(trCalls[p].transfer) : riderCars[n].status = "releasing"

LEMMA TakeMoves ==
    ASSUME TrInv, NEW p \in LeaseProcs, Takes(p)
    PROVE  /\ LHTyped'
           /\ CallMoves(p)
           /\ calls'[p].pc = "held"
           /\ Goto(p, "commit")
<1> DEFINE rows == SourceRows(trCalls[p].transfer)
           held == [NoLeaseCall EXCEPT !.pc = "held", !.rows = rows]
<1>0. LHTyped /\ LHTypeOK /\ calls \in [LeaseProcs -> Call]
  BY DEF TrInv, RelInv, RelTyped, LHTyped, LHTypeOK
<1>1. /\ Become(p, held) /\ Goto(p, "commit")
      /\ UNCHANGED <<sideVars, leaseTables>>
      /\ \A n \in rows : RowFree(n) /\ riderCars[n].status = "releasing"
  BY DEF Takes, TakeFromSource
<1>2. rows \in SUBSET DOMAIN riderCars
  BY DEF SourceRows
<1>3. held \in Call /\ held.pc = "held" /\ held.rows = rows /\ Shaped(held, DOMAIN riderCars)
  BY <1>0, <1>2, HeldCall
<1> HIDE DEF held, rows
<1>4. calls' \in [LeaseProcs -> Call] /\ Shape'
  BY <1>0, <1>1, <1>3, BecomeShape DEF leaseTables
<1>5. LHTyped'
  BY <1>0, <1>1, <1>4 DEF LHTyped, LHTypeOK, SideTypeOK, sideVars, leaseTables
<1>6. calls'[p] = held /\ \A q \in LeaseProcs : q # p => calls'[q] = calls[q]
  BY <1>0, <1>1, <1>3, Becomes
<1>7. Holding(p)
  BY <1>1, <1>3, <1>6 DEF Holding, HoldsRow, HoldsRider, HoldsCar, TookRow, leaseTables
<1>8. MovedBy(p)
  BY <1>1 DEF MovedBy, leaseTables
<1> QED
  BY <1>1, <1>3, <1>5, <1>6, <1>7, <1>8 DEF CallMoves

\* rider_cars after the COMMIT: the rows taken have ended; a row may follow them.
Grown(p, t) ==
    LET new == Len(riderCars) + 1 IN
    /\ OtherRows(p, t.car) = {}
    /\ DOMAIN riderCars' = DOMAIN riderCars \cup {new}
    /\ new \notin DOMAIN riderCars
    /\ riderCars'[new].rider = t.to
    /\ riderCars'[new].car = t.car
    /\ riderCars'[new].status = "decided"

LEMMA CommitRider ==
    ASSUME TrInv, NEW p \in LeaseProcs, CommitTransfer(p)
    PROVE  LET t == transfers[trCalls[p].transfer] IN
           /\ t \in TransferRow
           /\ calls[p].pc = "held"
           /\ riderCars' \in Seq(RiderCar)
           /\ \/ /\ DOMAIN riderCars' = DOMAIN riderCars
                 /\ OtherRows(p, t.car) # {} \/ MayBeSameDay(t.to, t.car)
              \/ Grown(p, t)
           /\ \A n \in DOMAIN riderCars :
                 IF n \in calls[p].rows
                 THEN /\ riderCars'[n] = [riderCars[n] EXCEPT !.status = "off_rent"]
                      /\ riderCars'[n].status = "off_rent"
                 ELSE riderCars'[n] = riderCars[n]
<1> DEFINE t == transfers[trCalls[p].transfer]
           new == Len(riderCars) + 1
<1>1. riderCars \in Seq(RiderCar)
  BY DEF TrInv, RelInv, RelTyped, LHTyped, LHTypeOK
<1>2. /\ DOMAIN riderCars = 1..Len(riderCars) /\ Len(riderCars) \in Nat
      /\ \A n \in DOMAIN riderCars :
            /\ riderCars[n] \in RiderCar
            /\ [riderCars[n] EXCEPT !.status = "off_rent"] \in RiderCar
            /\ [riderCars[n] EXCEPT !.status = "off_rent"].status = "off_rent"
  BY <1>1, RiderCarType, LenProperties DEF RiderCar, CarStatuses
<1>3. t \in TransferRow /\ calls[p].pc = "held"
  <2>1. trCalls[p].transfer \in DOMAIN transfers /\ calls[p].pc = "held"
    BY DEF CommitTransfer, TrInv, TrShape, TrShaped
  <2> QED
    BY <2>1, TransferType DEF TrInv, TrOwnTypes
<1> DEFINE taken == Taken(p)
<1>4. /\ DOMAIN taken = DOMAIN riderCars
      /\ \A n \in DOMAIN riderCars :
            taken[n] = IF n \in calls[p].rows THEN [riderCars[n] EXCEPT !.status = "off_rent"]
                                              ELSE riderCars[n]
  BY DEF Taken
<1>5. taken \in Seq(RiderCar) /\ Len(taken) = Len(riderCars)
  <2>1. taken = [n \in 1..Len(riderCars) |-> taken[n]]
    BY <1>2 DEF Taken
  <2>2. \A n \in 1..Len(riderCars) : taken[n] \in RiderCar
    BY <1>2, <1>4
  <2> HIDE DEF taken
  <2>3. taken \in [1..Len(riderCars) -> RiderCar]
    BY <2>1, <2>2
  <2>4. taken \in Seq(RiderCar)
    BY <1>2, <2>3, SeqDef
  <2> QED
    BY <1>2, <1>4, <2>4, LenProperties
<1>6. \/ /\ OtherRows(p, t.car) = {}
         /\ riderCars' = Append(taken, Decided(t.to, t.car))
      \/ /\ OtherRows(p, t.car) # {} \/ MayBeSameDay(t.to, t.car)
         /\ riderCars' = taken
  BY DEF CommitTransfer
<1> HIDE DEF taken, t
<1>7. CASE riderCars' = taken /\ (OtherRows(p, t.car) # {} \/ MayBeSameDay(t.to, t.car))
  <2>1. \A n \in DOMAIN riderCars :
           IF n \in calls[p].rows
           THEN /\ riderCars'[n] = [riderCars[n] EXCEPT !.status = "off_rent"]
                /\ riderCars'[n].status = "off_rent"
           ELSE riderCars'[n] = riderCars[n]
    BY <1>2, <1>4, <1>7
  <2> QED
    BY <1>3, <1>4, <1>5, <1>7, <2>1 DEF t
<1>8. CASE riderCars' = Append(taken, Decided(t.to, t.car)) /\ OtherRows(p, t.car) = {}
  <2> DEFINE row == Decided(t.to, t.car)
  <2>1. row \in RiderCar /\ row.rider = t.to /\ row.car = t.car /\ row.status = "decided"
    BY <1>3 DEF Decided, RiderCar, CarStatuses, TransferRow
  <2> HIDE DEF row
  <2>2. /\ riderCars' \in Seq(RiderCar)
        /\ Len(riderCars') = Len(riderCars) + 1
        /\ \A n \in 1..Len(riderCars) : riderCars'[n] = taken[n]
        /\ riderCars'[new] = row
    BY <1>5, <1>8, <2>1, AppendProperties DEF row
  <2>3. DOMAIN riderCars' = 1..(Len(riderCars) + 1)
    BY <2>2, LenProperties
  <2>4. Grown(p, t)
    BY <1>2, <1>8, <2>1, <2>2, <2>3 DEF Grown
  <2>5. \A n \in DOMAIN riderCars :
           IF n \in calls[p].rows
           THEN /\ riderCars'[n] = [riderCars[n] EXCEPT !.status = "off_rent"]
                /\ riderCars'[n].status = "off_rent"
           ELSE riderCars'[n] = riderCars[n]
    BY <1>2, <1>4, <2>2
  <2> QED
    BY <1>3, <2>2, <2>4, <2>5 DEF t
<1> QED
  BY <1>6, <1>7, <1>8

LEMMA CommitKeeps ==
    ASSUME TrInv, NEW p \in LeaseProcs, CommitTransfer(p)
    PROVE  LHTyped' /\ Keeps(p)
<1>0. LHTyped /\ LHTypeOK /\ Locks /\ calls \in [LeaseProcs -> Call]
  BY DEF TrInv, RelInv, RelTyped, LHTyped, LHTypeOK
<1>1. /\ calls[p].pc = "held"
      /\ riderCars' \in Seq(RiderCar)
      /\ DOMAIN riderCars \subseteq DOMAIN riderCars'
      /\ \A n \in DOMAIN riderCars :
            IF n \in calls[p].rows
            THEN /\ riderCars'[n] = [riderCars[n] EXCEPT !.status = "off_rent"]
                 /\ riderCars'[n].status = "off_rent"
            ELSE riderCars'[n] = riderCars[n]
  BY CommitRider DEF Grown
<1>2. Finish(p) /\ UNCHANGED <<sideVars, leases, riders, ready>>
  BY DEF CommitTransfer, Commit
<1>3. calls' \in [LeaseProcs -> Call] /\ Shape'
  BY <1>0, <1>1, <1>2, FinishShape
<1>4. LHTyped'
  BY <1>0, <1>1, <1>2, <1>3 DEF LHTyped, LHTypeOK, SideTypeOK, sideVars
<1>5. Holding(p) /\ \A q \in LeaseProcs : q # p => calls'[q] = calls[q]
  BY <1>0, <1>2, FinishHolds
<1>6. ASSUME NEW n \in DOMAIN riderCars, n \in calls[p].rows
      PROVE  MovedRow(n) /\ \A q \in LeaseProcs : q # p => ~HoldsRow(q, n)
  <2>1. HoldsRow(p, n)
    BY <1>1, <1>6 DEF HoldsRow
  <2>2. riderCars[n].status = "releasing"
    BY <1>0, <1>1, <2>1 DEF Locks
  <2> QED
    BY <1>0, <1>1, <1>6, <2>1, <2>2 DEF Locks, MovedRow, Allowed, CarStatuses
<1> QED
  BY <1>1, <1>4, <1>5, <1>6 DEF Keeps

\* The destination's row is the only active one of its car, and nobody is adding one.
LEMMA CommitOneRider ==
    ASSUME TrInv, NEW p \in LeaseProcs, CommitTransfer(p)
    PROVE  OneRiderInv'
<1> DEFINE c == transfers[trCalls[p].transfer].car
           new == Len(riderCars) + 1
<1>0. LHTyped /\ calls \in [LeaseProcs -> Call] /\ OneRiderInv
  BY DEF TrInv, RelInv, RelTyped, LHTyped, LHTypeOK
<1>1. \A q \in LeaseProcs : ~HoldsCar(q, c)
  BY DEF CommitTransfer
<1>2. /\ Finish(p)
      /\ \A q \in LeaseProcs : q # p => calls'[q] = calls[q]
  BY <1>0, FinishHolds DEF CommitTransfer, Commit
<1>3. /\ \A d : ~HoldsCar(p, d)'
      /\ \A q \in LeaseProcs : q # p => \A d : HoldsCar(q, d)' <=> HoldsCar(q, d)
  BY <1>0, <1>2, Finishes, NobodyHolds, OthersHold
<1>4. \A n \in DOMAIN riderCars :
         /\ riderCars'[n].car = riderCars[n].car
         /\ IsActive(n)' => IsActive(n) /\ n \notin calls[p].rows
  <2> SUFFICES ASSUME NEW n \in DOMAIN riderCars
               PROVE  /\ riderCars'[n].car = riderCars[n].car
                      /\ IsActive(n)' => IsActive(n) /\ n \notin calls[p].rows
    OBVIOUS
  <2>1. riderCars'[n] = riderCars[n] \/ MovedRow(n)
    BY CommitKeeps DEF Keeps
  <2>2. n \in calls[p].rows => riderCars'[n].status = "off_rent"
    BY CommitRider
  <2> QED
    BY <1>0, <2>1, <2>2, MovedKeeps DEF IsActive, Ended
<1>5. CASE DOMAIN riderCars' = DOMAIN riderCars
  <2>1. OneActiveRider' /\ \A d \in Cars : Carries(d)' => Carries(d)
    BY <1>0, <1>4, <1>5 DEF OneRiderInv, OneActiveRider, Carries
  <2> QED
    BY <1>0, <1>3, <2>1 DEF OneRiderInv
<1>6. CASE Grown(p, transfers[trCalls[p].transfer])
  <2>1. /\ DOMAIN riderCars' = DOMAIN riderCars \cup {new}
        /\ new \notin DOMAIN riderCars
        /\ riderCars'[new].car = c
    BY <1>6 DEF Grown
  <2>2. \A n \in DOMAIN riderCars : riderCars'[n].car = c => ~IsActive(n)'
    BY <1>4, <1>6 DEF Grown, OtherRows
  <2>3. OneActiveRider'
    <3> SUFFICES ASSUME NEW m \in DOMAIN riderCars', NEW n \in DOMAIN riderCars',
                        riderCars'[m].car = riderCars'[n].car, IsActive(m)', IsActive(n)'
                 PROVE  m = n
      BY DEF OneActiveRider
    <3>1. CASE m \in DOMAIN riderCars /\ n \in DOMAIN riderCars
      BY <1>0, <1>4, <3>1 DEF OneRiderInv, OneActiveRider
    <3>2. CASE m = new \/ n = new
      BY <2>1, <2>2, <3>2
    <3> QED
      BY <2>1, <3>1, <3>2
  <2>4. \A d \in Cars : Carries(d)' => Carries(d) \/ d = c
    BY <1>4, <2>1 DEF Carries
  <2> QED
    BY <1>0, <1>1, <1>3, <2>3, <2>4 DEF OneRiderInv
<1> QED
  BY <1>5, <1>6, CommitRider

-----------------------------------------------------------------------------
(* The steps.                                                              *)

\* What the release service relies on survives a call of the transfer service.
LEMMA KeepsRelInv ==
    ASSUME RelInv, LHTyped', NEW p \in LeaseProcs, Keeps(p), relCalls[p].pc = "none",
           UNCHANGED <<releases, relCalls>>
    PROVE  RelInv'
<1>1. Locks'
  BY LocksKept DEF RelInv, RelTyped
<1>2. RelShape'
  <2> SUFFICES ASSUME NEW q \in LeaseProcs
               PROVE  RelShaped(relCalls[q], calls'[q], DOMAIN riderCars', DOMAIN releases)
    BY DEF RelShape
  <2>1. RelShaped(relCalls[q], calls[q], DOMAIN riderCars, DOMAIN releases)
    BY DEF RelInv, RelTyped, RelShape
  <2> QED
    BY <2>1 DEF RelShaped, Keeps
<1> QED
  BY <1>1, <1>2 DEF RelInv, RelTyped, RelOwnTypes, Completing

\* The shape of the other transfer calls survives a step of p.
LEMMA OthersTrShape ==
    ASSUME TrInv, NEW p \in LeaseProcs, TrWellFormed(p),
           \A q \in LeaseProcs : q # p => calls'[q] = calls[q] /\ relCalls'[q] = relCalls[q],
           DOMAIN riderCars \subseteq DOMAIN riderCars', DOMAIN transfers \subseteq DOMAIN transfers'
    PROVE  TrShape'
<1>1. ASSUME NEW q \in LeaseProcs, q # p
      PROVE  TrShaped(trCalls'[q], relCalls'[q], calls'[q], DOMAIN riderCars', DOMAIN transfers')
  <2>1. TrShaped(trCalls[q], relCalls[q], calls[q], DOMAIN riderCars, DOMAIN transfers)
    BY DEF TrInv, TrShape
  <2>2. trCalls'[q] = trCalls[q] /\ calls'[q] = calls[q] /\ relCalls'[q] = relCalls[q]
    BY <1>1 DEF TrWellFormed
  <2> QED
    BY <2>1, <2>2 DEF TrShaped
<1> QED
  BY <1>1 DEF TrWellFormed, TrShape

\* Statements of a transfer call that leave the two other services alone.
LEMMA QuietTransfer ==
    ASSUME TrInv, NEW p \in LeaseProcs, UNCHANGED relVars, TrWellFormed(p),
           transfers' \in Seq(TransferRow), DOMAIN transfers \subseteq DOMAIN transfers'
    PROVE  TrInv'
<1>1. RelInv'
  BY RelInvStep DEF TrInv
<1>2. OneRiderInv'
  BY DEF TrInv, relVars, lhVars, leaseTables, OneRiderInv, OneActiveRider, Carries, IsActive, HoldsCar
<1>3. TrShape'
  BY OthersTrShape DEF relVars, lhVars, leaseTables
<1> QED
  BY <1>1, <1>2, <1>3 DEF TrInv, TrOwnTypes, TrWellFormed

LEMMA StartTransferInv ==
    ASSUME TrInv, NEW p \in LeaseProcs, StartTransfer(p)
    PROVE  TrInv'
<1>0. /\ trCalls \in [LeaseProcs -> TrCall] /\ transfers \in Seq(TransferRow)
      /\ DOMAIN riderCars \subseteq Nat /\ DOMAIN transfers \subseteq Nat
  BY RiderCarType, TransferType DEF TrInv, TrOwnTypes, RelInv, RelTyped, LHTyped, LHTypeOK
<1>1. ASSUME NEW call \in TrCall, NEW endpoint, BeginTransfer(p, endpoint, call),
             TrShaped(call, NoRelCall, NoLeaseCall, DOMAIN riderCars, DOMAIN transfers),
             call.pc # "commit"
      PROVE  TrInv'
  <2>1. /\ trCalls' = [trCalls EXCEPT ![p] = call]
        /\ relCalls[p].pc = "none"
        /\ UNCHANGED <<relVars, transfers>>
    BY <1>1 DEF BeginTransfer
  <2>2. TrWellFormed(p)
    BY <1>0, <1>1, <2>1, TrBecomes DEF TrWellFormed, TrShaped, relVars, lhVars, leaseTables
  <2> QED
    BY <1>0, <2>1, <2>2, QuietTransfer
<1>2. ASSUME NEW n \in DOMAIN riderCars, NEW r \in Riders, InitiateTransfer(p, n, r)
      PROVE  TrInv'
  <2> DEFINE call == [NoTrCall EXCEPT !.pc = "destination", !.row = n, !.to = {r}]
  <2>1. call \in TrCall /\ call.pc = "destination" /\ call.row = n
    BY <1>0 DEF NoTrCall, TrCall, TrPCs
  <2>2. BeginTransfer(p, "initiate", call)
    BY <1>2 DEF InitiateTransfer
  <2> HIDE DEF call
  <2>3. TrShaped(call, NoRelCall, NoLeaseCall, DOMAIN riderCars, DOMAIN transfers)
    BY <2>1 DEF TrShaped, NoRelCall
  <2> QED
    BY <1>1, <2>1, <2>2, <2>3
<1>3. ASSUME NEW k \in DOMAIN transfers, NEW pc \in {"confirm", "cancel", "take"}, NEW endpoint,
             BeginTransfer(p, endpoint, [NoTrCall EXCEPT !.pc = pc, !.transfer = k])
      PROVE  TrInv'
  <2> DEFINE call == [NoTrCall EXCEPT !.pc = pc, !.transfer = k]
  <2>1. call \in TrCall /\ call.pc = pc /\ call.transfer = k
    BY <1>0 DEF NoTrCall, TrCall, TrPCs
  <2> HIDE DEF call
  <2>2. TrShaped(call, NoRelCall, NoLeaseCall, DOMAIN riderCars, DOMAIN transfers)
    BY <2>1 DEF TrShaped, NoRelCall
  <2> QED
    BY <1>1, <1>3, <2>1, <2>2 DEF call
<1> QED
  BY <1>2, <1>3 DEF StartTransfer, StartConfirm, StartCancel, StartComplete

LEMMA TransferStepInv ==
    ASSUME TrInv, NEW p \in LeaseProcs, TransferStep(p)
    PROVE  TrInv'
<1>0. /\ trCalls \in [LeaseProcs -> TrCall] /\ transfers \in Seq(TransferRow)
      /\ trCalls[p] \in TrCall
      /\ TrShaped(trCalls[p], relCalls[p], calls[p], DOMAIN riderCars, DOMAIN transfers)
      /\ calls \in [LeaseProcs -> Call] /\ LHTyped
  BY DEF TrInv, TrOwnTypes, TrShape, RelInv, RelTyped, LHTyped, LHTypeOK
<1>1. ASSUME NEW pc \in {"destination", "existing", "released"},
             NEW next \in {"existing", "released", "insert"}, NEW ok, Validate(p, pc, ok, next)
      PROVE  TrInv'
  <2>1. trCalls[p].pc = pc /\ UNCHANGED <<relVars, transfers>>
    BY <1>1 DEF Validate
  <2>2. CASE Goto(p, next)
    <3>1. TrWellFormed(p)
      BY <1>0, <2>1, <2>2, Goes DEF TrWellFormed, TrShaped, TrPCs, relVars, lhVars, leaseTables
    <3> QED
      BY <1>0, <2>1, <3>1, QuietTransfer
  <2>3. CASE EndTransfer(p)
    BY <1>0, <2>1, <2>3, EndsTrWellFormed, QuietTransfer
  <2> QED
    BY <1>1, <2>2, <2>3 DEF Validate
<1>2. CASE InsertTransfer(p)
  <2>1. PICK r \in Riders :
           transfers' = Append(transfers, [from |-> riderCars[trCalls[p].row].rider, to |-> r,
                                           car |-> riderCars[trCalls[p].row].car,
                                           status |-> "Pending"])
    BY <1>0, <1>2 DEF InsertTransfer, TrCall
  <2> DEFINE new == [from |-> riderCars[trCalls[p].row].rider, to |-> r,
                     car |-> riderCars[trCalls[p].row].car, status |-> "Pending"]
  <2>2. riderCars[trCalls[p].row] \in RiderCar
    BY <1>0, <1>2, RiderCarType DEF InsertTransfer, TrShaped, LHTyped, LHTypeOK
  <2>3. new \in TransferRow
    BY <2>2 DEF RiderCar, TransferRow, TransferStatuses
  <2> HIDE DEF new
  <2>4. transfers' \in Seq(TransferRow) /\ Len(transfers') = Len(transfers) + 1
    BY <1>0, <2>1, <2>3, AppendProperties DEF new
  <2>5. DOMAIN transfers \subseteq DOMAIN transfers'
    <3>1. DOMAIN transfers = 1..Len(transfers) /\ Len(transfers) \in Nat
      BY <1>0, LenProperties
    <3>2. DOMAIN transfers' = 1..Len(transfers')
      BY <2>4, LenProperties
    <3> QED
      BY <2>4, <3>1, <3>2
  <2>6. EndTransfer(p) /\ UNCHANGED relVars
    BY <1>2 DEF InsertTransfer
  <2> QED
    BY <1>0, <2>4, <2>5, <2>6, EndsTrWellFormed, QuietTransfer
<1>3. ASSUME NEW pc \in {"confirm", "cancel"}, NEW s \in TransferStatuses, Update(p, pc, s)
      PROVE  TrInv'
  <2>1. trCalls[p].transfer \in DOMAIN transfers
    BY <1>0, <1>3 DEF Update, TrShaped
  <2>2. transfers' \in Seq(TransferRow) /\ DOMAIN transfers' = DOMAIN transfers
    BY <1>0, <1>3, <2>1, MarkType DEF Update
  <2> QED
    BY <1>0, <1>3, <2>2, EndsTrWellFormed, QuietTransfer DEF Update
<1>4. CASE TakeFromSource(p) /\ UNCHANGED calls /\ EndTransfer(p)
  <2>1. UNCHANGED <<relVars, transfers>>
    BY <1>4 DEF TakeFromSource, relVars, lhVars
  <2> QED
    BY <1>0, <1>4, <2>1, EndsTrWellFormed, QuietTransfer
<1>5. CASE Takes(p)
  <2>1. LHTyped' /\ CallMoves(p) /\ calls'[p].pc = "held" /\ Goto(p, "commit") /\ Keeps(p)
    BY <1>0, <1>5, TakeMoves, RowsKept
  <2>2. /\ trCalls[p].pc = "take" /\ relCalls[p].pc = "none"
        /\ UNCHANGED <<releases, relCalls, transfers>>
    BY <1>0, <1>5 DEF Takes, TakeFromSource, TrShaped
  <2>3. RelInv'
    BY <2>1, <2>2, KeepsRelInv DEF TrInv
  <2>4. OneRiderInv'
    BY <2>1, OneRiderKept DEF TrInv, RelInv, RelTyped, LHLocked
  <2>5. TrWellFormed(p)
    BY <1>0, <2>1, <2>2, Goes DEF TrWellFormed, TrShaped, TrPCs
  <2>6. TrShape'
    BY <2>1, <2>2, <2>5, OthersTrShape DEF Keeps
  <2> QED
    BY <1>0, <2>2, <2>3, <2>4, <2>5, <2>6 DEF TrInv, TrOwnTypes, TrWellFormed
<1>6. CASE CommitTransfer(p)
  <2>1. LHTyped' /\ Keeps(p) /\ OneRiderInv'
    BY <1>6, CommitKeeps, CommitOneRider
  <2>2. /\ relCalls[p].pc = "none" /\ trCalls[p].transfer \in DOMAIN transfers
        /\ UNCHANGED <<releases, relCalls>> /\ EndTransfer(p)
        /\ Mark(trCalls[p].transfer, "Complete")
    BY <1>0, <1>6 DEF CommitTransfer, Commit, TrShaped
  <2>3. RelInv'
    BY <2>1, <2>2, KeepsRelInv DEF TrInv
  <2>4. transfers' \in Seq(TransferRow) /\ DOMAIN transfers' = DOMAIN transfers
    BY <1>0, <2>2, MarkType DEF TransferStatuses
  <2>5. TrWellFormed(p)
    BY <1>0, <2>2, EndsTrWellFormed
  <2>6. TrShape'
    BY <2>1, <2>2, <2>4, <2>5, OthersTrShape DEF Keeps
  <2> QED
    BY <2>1, <2>3, <2>4, <2>5, <2>6 DEF TrInv, TrOwnTypes, TrWellFormed
<1>7. TakeFromSource(p) => Takes(p) \/ (UNCHANGED calls /\ EndTransfer(p))
  BY DEF TakeFromSource, Takes
<1> QED
  BY <1>1, <1>2, <1>3, <1>4, <1>5, <1>6, <1>7
  DEF TransferStep, CheckDestination, CheckTransfers, CheckReleases, ConfirmTransfer,
      CancelTransfer, TransferStatuses

\* The two other services leave a transfer call alone.
LEMMA ServesOthers ==
    ASSUME TrInv, (\E p \in LeaseProcs : ReleaseServes(p)) \/ LeaseServes,
           NEW q \in LeaseProcs, trCalls[q].pc # "none"
    PROVE  calls'[q] = calls[q] /\ relCalls'[q] = relCalls[q]
<1>1. CASE LeaseServes
  BY <1>1 DEF LeaseServes, LeaseStep
<1>2. ASSUME NEW p \in LeaseProcs, ReleaseServes(p)
      PROVE  calls'[q] = calls[q] /\ relCalls'[q] = relCalls[q]
  <2>1. relCalls[q].pc = "none"
    BY DEF TrInv, TrShape, TrShaped
  <2>2. ReleaseStep(p) => relCalls[p].pc # "none"
    BY DEF ReleaseStep, CheckDuplicate, InsertRelease, CallTransition, AdvanceRelease,
           CompleteRelease, TakeOffRent, CommitRelease, StartPromises, CancelRelease, FindReleasing
  <2>3. q # p
    BY <1>2, <2>1, <2>2 DEF ReleaseServes
  <2>4. ReleaseStep(p) \/ StartRelease(p)
    BY <1>2 DEF ReleaseServes
  <2>5. WellFormed(p)
    BY <2>4, ReleaseRowsStep, StartWellFormed, StepWellFormed DEF TrInv, RelInv
  <2> QED
    BY <2>3, <2>4, <2>5, OthersCalls DEF WellFormed, TrInv, RelInv
<1> QED
  BY <1>1, <1>2

\* The lease and the release service go on beside the transfers.
LEMMA ServesInv ==
    ASSUME TrInv, (\E p \in LeaseProcs : ReleaseServes(p)) \/ LeaseServes
    PROVE  TrInv'
<1>0. /\ trCalls \in [LeaseProcs -> TrCall] /\ transfers \in Seq(TransferRow)
      /\ LHTyped /\ RelTyped /\ UNCHANGED trCalls
  BY DEF TrInv, TrOwnTypes, RelInv, RelTyped, ReleaseServes, LeaseServes
<1>1. RelNext
  BY DEF RelNext, ReleaseServes, LeaseServes
<1>2. RelInv' /\ OneRiderInv'
  BY <1>1, RelInvStep, RelMoves, OneRiderKept DEF TrInv, RelInv, RelTyped, LHLocked
<1>3. DOMAIN riderCars \subseteq DOMAIN riderCars'
  BY <1>0, <1>1, RelMoves, RowsKept DEF TrInv, Quiet, Keeps
<1>4. transfers' \in Seq(TransferRow) /\ DOMAIN transfers' = DOMAIN transfers
  <2>1. UNCHANGED transfers \/ \E k \in OpenTransfers : Mark(k, "Complete")
    BY DEF ReleaseServes, LeaseServes, CompleteLinked
  <2>2. OpenTransfers \subseteq DOMAIN transfers
    BY DEF OpenTransfers
  <2> QED
    BY <1>0, <2>1, <2>2, MarkType DEF TransferStatuses
<1>5. \A q \in LeaseProcs : trCalls[q].pc # "none" =>
         calls'[q] = calls[q] /\ relCalls'[q] = relCalls[q]
  BY ServesOthers
<1>6. TrShape'
  <2> SUFFICES ASSUME NEW q \in LeaseProcs
               PROVE  TrShaped(trCalls[q], relCalls'[q], calls'[q], DOMAIN riderCars', DOMAIN transfers)
    BY <1>0, <1>4 DEF TrShape
  <2>1. TrShaped(trCalls[q], relCalls[q], calls[q], DOMAIN riderCars, DOMAIN transfers)
    BY DEF TrInv, TrShape
  <2> QED
    BY <1>3, <1>5, <2>1 DEF TrShaped
<1> QED
  BY <1>0, <1>2, <1>4, <1>6 DEF TrInv, TrOwnTypes

LEMMA TrCrashInv ==
    ASSUME TrInv, TrCrash
    PROVE  TrInv'
<1>1. RelNext
  BY DEF RelNext, TrCrash
<1>2. RelInv' /\ OneRiderInv'
  BY <1>1, RelInvStep, RelMoves, OneRiderKept DEF TrInv, RelInv, RelTyped, LHLocked
<1>3. trCalls' \in [LeaseProcs -> TrCall] /\ \A p \in LeaseProcs : trCalls'[p] = NoTrCall
  BY NoTrCallType DEF TrCrash
<1>4. transfers' \in Seq(TransferRow)
  BY DEF TrCrash, TrInv, TrOwnTypes
<1>5. TrShape'
  BY <1>3 DEF TrShape, TrShaped, NoTrCall
<1> QED
  BY <1>2, <1>3, <1>4, <1>5 DEF TrInv, TrOwnTypes

LEMMA TrStutterInv ==
    ASSUME TrInv, UNCHANGED trVars
    PROVE  TrInv'
<1>1. RelInv'
  BY RelInvStep DEF TrInv, trVars
<1> QED
  BY <1>1 DEF TrInv, TrOwnTypes, TrShape, trVars, relVars, lhVars, leaseTables,
              OneRiderInv, OneActiveRider, Carries, IsActive, HoldsCar

LEMMA TrInvStep == TrInv /\ [TrNext]_trVars => TrInv'
BY TransferStepInv, StartTransferInv, ServesInv, TrCrashInv, TrStutterInv DEF TrNext

LEMMA AlwaysTrInv == TrSpec => []TrInv
<1>1. TrInit => TrInv
  <2> SUFFICES ASSUME TrInit
               PROVE  TrInv
    OBVIOUS
  <2>1. RelInv
    BY RelInitInv DEF TrInit
  <2>2. OneRiderInv
    BY DEF TrInit, RelInit, LHInit, OneRiderInv, OneActiveRider, HoldsCar, NoLeaseCall
  <2>3. transfers \in Seq(TransferRow)
    BY EmptySeq DEF TrInit
  <2>4. trCalls \in [LeaseProcs -> TrCall] /\ \A p \in LeaseProcs : trCalls[p] = NoTrCall
    BY NoTrCallType DEF TrInit
  <2>5. TrShape
    BY <2>4 DEF TrShape, TrShaped, NoTrCall
  <2> QED
    BY <2>1, <2>2, <2>3, <2>4, <2>5 DEF TrInv, TrOwnTypes
<1> QED
  BY <1>1, TrInvStep, PTL DEF TrSpec

-----------------------------------------------------------------------------
(* What a step of the three services does to rider_cars and its calls.     *)

LEMMA QuietTransferSteps ==
    ASSUME NEW p \in LeaseProcs, TransferStep(p) \/ StartTransfer(p), ~Takes(p), ~CommitTransfer(p)
    PROVE  UNCHANGED relVars
BY DEF TransferStep, CheckDestination, CheckTransfers, CheckReleases, Validate,
       InsertTransfer, ConfirmTransfer, CancelTransfer, Update, TakeFromSource, Takes,
       StartTransfer, InitiateTransfer, StartConfirm, StartCancel, StartComplete,
       BeginTransfer, relVars, lhVars

LEMMA TrMoves ==
    ASSUME TrInv, [TrNext]_trVars
    PROVE  (\E p \in LeaseProcs : Keeps(p)) \/ Quiet
<1>0. LHTyped
  BY DEF TrInv, RelInv, RelTyped
<1>1. CASE [RelNext]_relVars
  BY <1>0, <1>1, RelMoves, RowsKept DEF TrInv
<1>2. ASSUME NEW p \in LeaseProcs, TransferStep(p) \/ StartTransfer(p)
      PROVE  Keeps(p) \/ [RelNext]_relVars
  BY <1>0, <1>2, QuietTransferSteps, TakeMoves, CommitKeeps, RowsKept
<1>3. (\E p \in LeaseProcs : ReleaseServes(p)) \/ LeaseServes \/ TrCrash \/ UNCHANGED trVars =>
         [RelNext]_relVars
  BY DEF ReleaseServes, LeaseServes, TrCrash, RelNext, trVars
<1> QED
  BY <1>1, <1>2, <1>3 DEF TrNext

-----------------------------------------------------------------------------
(* Deadlock.                                                               *)

\* A process is at one statement of one service, or in a transaction of the release or
\* the transfer service that has taken rows.
OneStatement ==
    \A p \in LeaseProcs :
       calls[p].pc # "none" =>
          relCalls[p].pc \in {"none", "commit"} /\ trCalls[p].pc \in {"none", "commit"}

\* The rows a transfer has taken are rows of its car on its source.
HeldForCar ==
    \A p \in LeaseProcs :
       trCalls[p].pc = "commit" =>
          \A n \in calls[p].rows :
             /\ riderCars[n].car = transfers[trCalls[p].transfer].car
             /\ riderCars[n].rider = transfers[trCalls[p].transfer].from

WaitInv == RiderLocks /\ OneStatement /\ HeldForCar

\* A transfer call at its COMMIT stays there, unless the step is its own or a crash.
LEMMA AtCommit ==
    ASSUME TrInv, [TrNext]_trVars, NEW q \in LeaseProcs, trCalls'[q].pc = "commit"
    PROVE  \/ Takes(q)
           \/ trCalls[q].pc = "commit" /\ trCalls'[q] = trCalls[q] /\ calls'[q] = calls[q]
<1>0. trCalls \in [LeaseProcs -> TrCall] /\ calls \in [LeaseProcs -> Call] /\ LHTyped
  BY DEF TrInv, TrOwnTypes, RelInv, RelTyped, LHTyped, LHTypeOK
<1>1. ASSUME NEW p \in LeaseProcs, TransferStep(p) \/ StartTransfer(p)
      PROVE  \/ Takes(q)
             \/ trCalls[q].pc = "commit" /\ trCalls'[q] = trCalls[q] /\ calls'[q] = calls[q]
  <2>1. CASE p = q
    <3>1. StartTransfer(q) => trCalls'[q].pc # "commit"
      BY <1>0 DEF StartTransfer, InitiateTransfer, StartConfirm, StartCancel, StartComplete,
                  BeginTransfer, NoTrCall
    <3>2. EndTransfer(q) => trCalls'[q].pc # "commit"
      BY <1>0 DEF EndTransfer, NoTrCall
    <3>3. ASSUME NEW pc \in {"existing", "released", "insert"}, Goto(q, pc)
          PROVE  trCalls'[q].pc # "commit"
      BY <1>0, <3>3, Goes DEF TrPCs
    <3> QED
      BY <1>1, <2>1, <3>1, <3>2, <3>3
      DEF TransferStep, CheckDestination, CheckTransfers, CheckReleases, Validate, InsertTransfer,
          ConfirmTransfer, CancelTransfer, Update, TakeFromSource, Takes, CommitTransfer, Commit
  <2>2. CASE p # q
    <3>1. trCalls'[q] = trCalls[q]
      BY <1>0, <1>1, <2>2
      DEF TransferStep, CheckDestination, CheckTransfers, CheckReleases, Validate, InsertTransfer,
          ConfirmTransfer, CancelTransfer, Update, TakeFromSource, CommitTransfer, Commit, Goto,
          EndTransfer, StartTransfer, InitiateTransfer, StartConfirm, StartCancel, StartComplete,
          BeginTransfer
    <3>2. calls'[q] = calls[q]
      BY <1>0, <1>1, <2>2, QuietTransferSteps, TakeMoves, CommitKeeps
      DEF CallMoves, Keeps, relVars, lhVars
    <3> QED
      BY <3>1, <3>2
  <2> QED
    BY <2>1, <2>2
<1>2. CASE (\E p \in LeaseProcs : ReleaseServes(p)) \/ LeaseServes
  <2>1. trCalls' = trCalls
    BY <1>2 DEF ReleaseServes, LeaseServes
  <2> QED
    BY <1>2, <2>1, ServesOthers
<1>3. ~TrCrash
  BY DEF TrCrash, NoTrCall
<1>4. CASE UNCHANGED trVars
  BY <1>4 DEF trVars, relVars, lhVars
<1> QED
  BY <1>1, <1>2, <1>3, <1>4 DEF TrNext

\* A transfer keeps its car and its two riders as long as it exists.
SameTransfer(k) ==
    /\ k \in DOMAIN transfers'
    /\ transfers'[k].car = transfers[k].car
    /\ transfers'[k].from = transfers[k].from
    /\ transfers'[k].to = transfers[k].to
LEMMA TransferCars ==
    ASSUME TrInv, [TrNext]_trVars, NEW k \in DOMAIN transfers
    PROVE  SameTransfer(k)
<1>0. transfers \in Seq(TransferRow) /\ transfers[k] \in TransferRow
  BY TransferType DEF TrInv, TrOwnTypes
<1>1. ASSUME NEW j, NEW s, Mark(j, s)
      PROVE  SameTransfer(k)
  BY <1>0, <1>1 DEF Mark, TransferRow, SameTransfer
<1>2. ASSUME NEW p \in LeaseProcs, InsertTransfer(p)
      PROVE  SameTransfer(k)
  <2>1. PICK new : transfers' = Append(transfers, new)
    BY <1>2 DEF InsertTransfer, TrInv, TrShape
  <2>2. DOMAIN transfers = 1..Len(transfers) /\ Len(transfers) \in Nat
    BY <1>0, TransferType
  <2>3. transfers'[k] = transfers[k] /\ k \in DOMAIN transfers'
    BY <1>0, <2>1, <2>2
  <2> QED
    BY <2>3 DEF SameTransfer
<1>3. \/ UNCHANGED transfers
      \/ \E j, s : Mark(j, s)
      \/ \E p \in LeaseProcs : InsertTransfer(p)
  BY DEF TrNext, TransferStep, CheckDestination, CheckTransfers, CheckReleases, Validate,
         ConfirmTransfer, CancelTransfer, Update, TakeFromSource, CommitTransfer, Commit,
         StartTransfer, InitiateTransfer, StartConfirm, StartCancel, StartComplete, BeginTransfer,
         ReleaseServes, CompleteLinked, LeaseServes, TrCrash, trVars
<1> QED
  BY <1>1, <1>2, <1>3 DEF SameTransfer

LEMMA HeldForCarStep ==
    ASSUME TrInv, HeldForCar, [TrNext]_trVars
    PROVE  HeldForCar'
<1> SUFFICES ASSUME NEW q \in LeaseProcs, trCalls'[q].pc = "commit", NEW n \in calls'[q].rows
             PROVE  /\ riderCars'[n].car = transfers'[trCalls'[q].transfer].car
                    /\ riderCars'[n].rider = transfers'[trCalls'[q].transfer].from
  BY DEF HeldForCar
<1>0. LHTyped /\ TrShape /\ TrShape' /\ Shape
  BY TrInvStep DEF TrInv, RelInv, RelTyped, LHTyped
<1>1. CASE Takes(q)
  <2>1. /\ calls'[q] = [NoLeaseCall EXCEPT !.pc = "held", !.rows = SourceRows(trCalls[q].transfer)]
        /\ trCalls'[q].transfer = trCalls[q].transfer
        /\ UNCHANGED <<riderCars, transfers>>
    BY <1>1 DEF Takes, TakeFromSource, Become, Goto, leaseTables, TrInv, TrOwnTypes, TrCall,
                RelInv, RelTyped, LHTyped, LHTypeOK
  <2>2. n \in SourceRows(trCalls[q].transfer)
    BY <2>1 DEF NoLeaseCall
  <2> QED
    BY <2>1, <2>2 DEF SourceRows
<1>2. CASE trCalls[q].pc = "commit" /\ trCalls'[q] = trCalls[q] /\ calls'[q] = calls[q]
  <2>1. /\ riderCars[n].car = transfers[trCalls[q].transfer].car
        /\ riderCars[n].rider = transfers[trCalls[q].transfer].from
    BY <1>2 DEF HeldForCar
  <2>2. trCalls[q].transfer \in DOMAIN transfers /\ calls[q].pc = "held"
    BY <1>0, <1>2 DEF TrShape, TrShaped
  <2>3. n \in DOMAIN riderCars
    BY <1>0, <1>2, <2>2 DEF Shape, Shaped
  <2>4. riderCars'[n].car = riderCars[n].car /\ riderCars'[n].rider = riderCars[n].rider
    BY <1>0, <2>3, TrMoves, MovedKeeps DEF Keeps, Quiet
  <2> QED
    BY <1>2, <2>1, <2>2, <2>4, TransferCars DEF SameTransfer
<1> QED
  BY <1>1, <1>2, AtCommit

LEMMA OneStatementStep ==
    ASSUME TrInv, OneStatement, [TrNext]_trVars
    PROVE  OneStatement'
<1> SUFFICES ASSUME NEW q \in LeaseProcs, calls'[q].pc # "none"
             PROVE  relCalls'[q].pc \in {"none", "commit"} /\ trCalls'[q].pc \in {"none", "commit"}
  BY DEF OneStatement
<1>0. /\ trCalls \in [LeaseProcs -> TrCall] /\ relCalls \in [LeaseProcs -> RelCall]
      /\ calls \in [LeaseProcs -> Call] /\ LHTyped /\ RelTyped
      /\ trCalls[q].pc # "none" => relCalls[q].pc = "none"
  BY DEF TrInv, TrOwnTypes, TrShape, TrShaped, RelInv, RelTyped, RelOwnTypes, LHTyped, LHTypeOK
<1>1. CASE calls'[q] = calls[q] /\ relCalls'[q] = relCalls[q] /\ trCalls'[q] = trCalls[q]
  BY <1>1 DEF OneStatement
<1>2. ASSUME NEW p \in LeaseProcs, TransferStep(p) \/ StartTransfer(p)
      PROVE  relCalls'[q].pc \in {"none", "commit"} /\ trCalls'[q].pc \in {"none", "commit"}
  <2>1. CASE p # q
    <3>1. trCalls'[q] = trCalls[q] /\ relCalls' = relCalls
      BY <1>0, <1>2, <2>1
      DEF TransferStep, CheckDestination, CheckTransfers, CheckReleases, Validate, InsertTransfer,
          ConfirmTransfer, CancelTransfer, Update, TakeFromSource, CommitTransfer, Commit, Goto,
          EndTransfer, StartTransfer, InitiateTransfer, StartConfirm, StartCancel, StartComplete,
          BeginTransfer, relVars
    <3>2. calls'[q] = calls[q]
      BY <1>0, <1>2, <2>1, QuietTransferSteps, TakeMoves, CommitKeeps
      DEF CallMoves, Keeps, relVars, lhVars
    <3> QED
      BY <1>1, <3>1, <3>2
  <2>2. CASE p = q
    <3>1. CASE Takes(q)
      <4>1. trCalls'[q].pc = "commit" /\ relCalls'[q] = relCalls[q] /\ relCalls[q].pc = "none"
        BY <1>0, <3>1, Goes DEF Takes, TakeFromSource, TrPCs
      <4> QED
        BY <4>1
    <3>2. ~CommitTransfer(q)
      BY <1>0, Finishes DEF CommitTransfer, Commit, NoLeaseCall
    <3>3. CASE ~Takes(q)
      <4>1. UNCHANGED <<calls, relCalls>>
        BY <1>2, <2>2, <3>2, <3>3, QuietTransferSteps DEF relVars, lhVars
      <4>2. StartTransfer(q) => calls[q].pc = "none"
        BY DEF StartTransfer, InitiateTransfer, StartConfirm, StartCancel, StartComplete, BeginTransfer
      <4>3. TransferStep(q) => trCalls[q].pc \notin {"none", "commit"}
        BY <3>2
        DEF TransferStep, CheckDestination, CheckTransfers, CheckReleases, Validate, InsertTransfer,
            ConfirmTransfer, CancelTransfer, Update, TakeFromSource
      <4> QED
        BY <1>2, <2>2, <4>1, <4>2, <4>3 DEF OneStatement
    <3> QED
      BY <3>1, <3>3
  <2> QED
    BY <2>1, <2>2
<1>3. ASSUME NEW p \in LeaseProcs, ReleaseServes(p)
      PROVE  relCalls'[q].pc \in {"none", "commit"} /\ trCalls'[q].pc \in {"none", "commit"}
  <2>0. (ReleaseStep(p) \/ StartRelease(p)) /\ trCalls' = trCalls
    BY <1>3 DEF ReleaseServes
  <2>1. CASE p # q
    <3>1. WellFormed(p)
      BY <1>0, <2>0, ReleaseRowsStep, StartWellFormed, StepWellFormed DEF TrInv, RelInv
    <3> QED
      BY <1>0, <1>1, <2>0, <2>1, <3>1, OthersCalls DEF WellFormed
  <2>2. CASE p = q
    <3>1. ~StartRelease(q)
      BY DEF StartRelease, Initiate, Advance, Complete, Cancel, BeginRelease, lhVars
    <3>2. relCalls[q].pc # "none" /\ trCalls[q].pc = "none"
      BY <1>0, <2>0, <2>2, <3>1
      DEF ReleaseStep, CheckDuplicate, InsertRelease, CallTransition, AdvanceRelease,
          CompleteRelease, TakeOffRent, CommitRelease, StartPromises, CancelRelease, FindReleasing
    <3>3. CASE CallTransition(q)
      <4>1. relCalls'[q] = NoRelCall
        BY <1>0, <3>3 DEF CallTransition, EndRelease
      <4> QED
        BY <2>0, <3>2, <4>1 DEF NoRelCall
    <3>4. CASE TakeOffRent(q)
      <4>1. relCalls'[q].pc = "commit"
        BY <1>0, <3>4, Proceeds DEF TakeOffRent, RelPCs
      <4> QED
        BY <2>0, <3>2, <4>1
    <3>5. ~CommitRelease(q)
      BY <1>0, Finishes DEF CommitRelease, NoLeaseCall
    <3>6. CASE ~CallTransition(q) /\ ~TakeOffRent(q)
      <4>1. UNCHANGED calls /\ relCalls[q].pc # "commit"
        BY <2>0, <2>2, <3>1, <3>5, <3>6
        DEF ReleaseStep, CheckDuplicate, InsertRelease, AdvanceRelease,
            CompleteRelease, StartPromises, CancelRelease, FindReleasing, lhVars
      <4> QED
        BY <3>2, <4>1 DEF OneStatement
    <3> QED
      BY <3>3, <3>4, <3>6
  <2> QED
    BY <2>1, <2>2
<1>4. CASE LeaseServes
  <2>1. UNCHANGED <<relCalls, trCalls>>
    BY <1>4 DEF LeaseServes, LeaseStep
  <2>2. CASE calls[q].pc # "none"
    BY <2>1, <2>2 DEF OneStatement
  <2>3. CASE calls[q].pc = "none"
    <3>1. \E p \in LeaseProcs : CallStep(p) \/ (relCalls[p].pc = "none" /\ StartCall(p))
      BY <1>4, <2>3 DEF LeaseServes, LeaseStep, UpdateLease, ReadyToLoad, LHSideStep
    <3>2. PICK p \in LeaseProcs : CallStep(p) \/ (relCalls[p].pc = "none" /\ StartCall(p))
      BY <3>1
    <3>3. p = q
      BY <1>0, <2>3, <3>2, CallHolds, StartHolds
    <3>4. ~CallStep(q)
      BY <2>3
      DEF CallStep, InsertRider, ExpireRiders, RemoveCars, CommitDeactivation, InsertCar, CountCar,
          InsertAssigned, UpdateRemoved, CommitRemoval, UpdateStatus, LogHistory, CountReturned,
          DeadlockAbort, WaitsFor
    <3>5. trCalls[q].pc = "none"
      BY <1>4, <2>3 DEF LeaseServes
    <3> QED
      BY <2>1, <3>2, <3>3, <3>4, <3>5
  <2> QED
    BY <2>2, <2>3
<1>5. ~TrCrash
  BY DEF TrCrash, RelCrash, LHCrash, NoLeaseCall
<1>6. CASE UNCHANGED trVars
  BY <1>1, <1>6 DEF trVars, relVars, lhVars
<1> QED
  BY <1>2, <1>3, <1>4, <1>5, <1>6 DEF TrNext

LEMMA AlwaysWaitInv == TrSpec => []WaitInv
<1>1. TrInit => WaitInv
  BY DEF TrInit, RelInit, LHInit, WaitInv, RiderLocks, HoldsRider, OneStatement, HeldForCar,
         NoLeaseCall, NoRelCall, NoTrCall
<1>2. TrInv /\ WaitInv /\ [TrNext]_trVars => WaitInv'
  BY TrMoves, RiderLocksKept, OneStatementStep, HeldForCarStep DEF WaitInv
<1> QED
  BY <1>1, <1>2, AlwaysTrInv, PTL DEF TrSpec

\* A transfer about to commit waits for nobody: the row it has taken is the only active
\* one of its car, and keeps every insertion for the car out.
LEMMA HeldCarIsFree ==
    ASSUME TrInv, WaitInv, NEW p \in LeaseProcs, NEW n \in DOMAIN riderCars,
           trCalls[p].pc = "commit", HoldsRow(p, n)
    PROVE  \A q \in LeaseProcs : ~TrWaits(p, q)
<1> DEFINE c == transfers[trCalls[p].transfer].car
<1>1. calls[p].pc = "held" /\ relCalls[p].pc = "none"
  BY DEF TrInv, TrShape, TrShaped
<1>2. riderCars[n].car = c /\ riderCars[n].status = "releasing" /\ n \in calls[p].rows
  BY <1>1 DEF HoldsRow, WaitInv, HeldForCar, TrInv, RelInv, Locks
<1>3. IsActive(n) /\ Carries(c)
  BY <1>2 DEF IsActive, Ended, Carries
<1>4. OtherRows(p, c) = {}
  BY <1>2, <1>3 DEF OtherRows, TrInv, OneRiderInv, OneActiveRider
<1>5. c \in Cars
  BY <1>2, RiderCarType DEF TrInv, RelInv, RelTyped, LHTyped, LHTypeOK
<1>6. \A q \in LeaseProcs : ~HoldsCar(q, c)
  BY <1>3, <1>5 DEF TrInv, OneRiderInv
<1> QED
  BY <1>1, <1>4, <1>6
  DEF TrWaits, TrAsksRow, AsksRow, AsksRider, TrAsksCar, AsksCar, AsksRelease

\* Who may wait, at which statement, and where the other one has got to.
LEMMA TrWaitsAt ==
    ASSUME TrInv, WaitInv, NEW p \in LeaseProcs, NEW q \in LeaseProcs, TrWaits(p, q)
    PROVE  /\ calls[p].pc \in {"removed", "countCar"} =>
                 /\ \E r \in Riders : q # p /\ AsksRider(p, r) /\ HoldsRider(q, r)
                 /\ calls[q].pc \in {"removeCars", "commit"}
           /\ calls[p].pc = "removeCars" \/ relCalls[p].pc = "offRent" =>
                 \E n \in DOMAIN riderCars : HoldsRow(q, n)
           /\ calls[p].pc = "removeCars" =>
                 \E n \in DOMAIN riderCars : q # p /\ AsksRow(p, n) /\ HoldsRow(q, n)
           /\ calls[p].pc # "commit" /\ relCalls[p].pc # "commit"
           /\ \A n \in DOMAIN riderCars : ~(HoldsRow(p, n) /\ calls[p].pc = "held")
           /\ \/ \E n \in DOMAIN riderCars : HoldsRow(q, n)
              \/ calls[q].pc \in {"removeCars", "commit", "countCar"}
              \/ relCalls[q].pc \in {"offRent", "commit"}
<1>1. /\ trCalls[p].pc # "none" => relCalls[p].pc = "none"
      /\ trCalls[p].pc = "commit" => calls[p].pc = "held"
      /\ relCalls[p].pc = "commit" => calls[p].pc = "held"
      /\ calls[p].pc # "none" =>
            relCalls[p].pc \in {"none", "commit"} /\ trCalls[p].pc \in {"none", "commit"}
  BY DEF TrInv, TrShape, TrShaped, RelInv, RelTyped, RelShape, RelShaped, WaitInv, OneStatement
<1>2. /\ p # q
      /\ \/ \E n \in DOMAIN riderCars : TrAsksRow(p, n) /\ HoldsRow(q, n)
         \/ \E r \in Riders : AsksRider(p, r) /\ HoldsRider(q, r)
         \/ \E c \in Cars : TrAsksCar(p, c) /\ HoldsCar(q, c)
         \/ \E k \in DOMAIN releases : AsksRelease(p, k) /\ HoldsRelease(q, k)
  BY DEF TrWaits
<1>3. CASE calls[p].pc \in {"removed", "countCar"}
  <2>1. /\ \A n : ~TrAsksRow(p, n)
        /\ \A c : ~TrAsksCar(p, c)
        /\ \A k : ~AsksRelease(p, k)
    BY <1>1, <1>3 DEF TrAsksRow, AsksRow, TrAsksCar, AsksCar, AsksRelease
  <2>2. \E r \in Riders : AsksRider(p, r) /\ HoldsRider(q, r)
    BY <1>2, <2>1
  <2> QED
    BY <1>1, <1>2, <1>3, <2>2 DEF HoldsRider, HoldsRow
<1>4. CASE calls[p].pc = "removeCars"
  <2>1. /\ \A n : TrAsksRow(p, n) => AsksRow(p, n)
        /\ \A r : ~AsksRider(p, r)
        /\ \A c : ~TrAsksCar(p, c)
        /\ \A k : ~AsksRelease(p, k)
    BY <1>1, <1>4 DEF TrAsksRow, AsksRider, TrAsksCar, AsksCar, AsksRelease
  <2>2. \E n \in DOMAIN riderCars : AsksRow(p, n) /\ HoldsRow(q, n)
    BY <1>2, <2>1
  <2> QED
    BY <1>1, <1>2, <1>4, <2>2 DEF HoldsRow
<1>5. CASE relCalls[p].pc = "offRent"
  <2>1. /\ \A r : ~AsksRider(p, r)
        /\ \A c : ~TrAsksCar(p, c)
        /\ \A k : ~AsksRelease(p, k)
        /\ calls[p].pc = "none"
    BY <1>1, <1>5 DEF AsksRider, TrAsksCar, AsksCar, AsksRelease
  <2> QED
    BY <1>2, <1>5, <2>1
<1>6. /\ calls[p].pc # "commit" /\ relCalls[p].pc # "commit"
      /\ \A n \in DOMAIN riderCars : ~(HoldsRow(p, n) /\ calls[p].pc = "held")
  <2>1. CASE trCalls[p].pc = "commit"
    BY <1>1, <2>1, HeldCarIsFree
  <2>2. CASE trCalls[p].pc # "commit"
    BY <1>1, <1>2, <2>2
    DEF TrAsksRow, AsksRow, AsksRider, TrAsksCar, AsksCar, AsksRelease
  <2> QED
    BY <2>1, <2>2
<1>7. \/ \E n \in DOMAIN riderCars : HoldsRow(q, n)
      \/ calls[q].pc \in {"removeCars", "commit", "countCar"}
      \/ relCalls[q].pc \in {"offRent", "commit"}
  BY <1>2 DEF HoldsRider, HoldsCar, HoldsRelease
<1> QED
  BY <1>3, <1>4, <1>5, <1>6, <1>7

-----------------------------------------------------------------------------
(* The refinement of Custody.                                              *)

\* A transfer goes from one rider to another.
ChangesHands ==
    /\ \A k \in DOMAIN transfers : transfers[k].from # transfers[k].to
    /\ \A p \in LeaseProcs :
          trCalls[p].pc \in {"destination", "existing", "released", "insert"} =>
             riderCars[trCalls[p].row].rider \notin trCalls[p].to

LEMMA ChangesHandsStep ==
    ASSUME TrInv, ChangesHands, [TrNext]_trVars
    PROVE  ChangesHands'
<1>0. /\ trCalls \in [LeaseProcs -> TrCall] /\ transfers \in Seq(TransferRow)
      /\ LHTyped /\ TrShape
  BY DEF TrInv, TrOwnTypes, RelInv, RelTyped
<1>1. \A n \in DOMAIN riderCars : riderCars'[n].rider = riderCars[n].rider
  BY <1>0, TrMoves, MovedKeeps DEF Keeps, Quiet
<1> DEFINE Asking == {"destination", "existing", "released", "insert"}
<1>2. ASSUME NEW q \in LeaseProcs, trCalls'[q].pc \in Asking
      PROVE  riderCars'[trCalls'[q].row].rider \notin trCalls'[q].to
  <2>1. CASE trCalls[q].pc \in Asking /\ trCalls'[q].row = trCalls[q].row /\ trCalls'[q].to = trCalls[q].to
    <3>1. trCalls[q].row \in DOMAIN riderCars
      BY <1>0, <2>1 DEF TrShape, TrShaped
    <3> QED
      BY <1>1, <2>1, <3>1 DEF ChangesHands
  <2>2. ASSUME NEW p \in LeaseProcs, TransferStep(p)
        PROVE  trCalls[q].pc \in Asking /\ trCalls'[q].row = trCalls[q].row /\ trCalls'[q].to = trCalls[q].to
    <3>1. ASSUME NEW pc \in {"existing", "released", "insert", "commit"}, Goto(p, pc),
                 pc # "commit" => trCalls[p].pc \in Asking
          PROVE  trCalls[q].pc \in Asking /\ trCalls'[q].row = trCalls[q].row /\ trCalls'[q].to = trCalls[q].to
      BY <1>0, <1>2, <3>1 DEF Goto, TrCall
    <3>2. ASSUME EndTransfer(p)
          PROVE  trCalls[q].pc \in Asking /\ trCalls'[q].row = trCalls[q].row /\ trCalls'[q].to = trCalls[q].to
      BY <1>0, <1>2, <3>2 DEF EndTransfer, NoTrCall
    <3> QED
      BY <2>2, <3>1, <3>2
      DEF TransferStep, CheckDestination, CheckTransfers, CheckReleases, Validate, InsertTransfer,
          ConfirmTransfer, CancelTransfer, Update, TakeFromSource, CommitTransfer, Commit
  <2>3. ASSUME NEW p \in LeaseProcs, NEW n \in DOMAIN riderCars, NEW r \in Riders,
               InitiateTransfer(p, n, r), q = p
        PROVE  riderCars'[trCalls'[q].row].rider \notin trCalls'[q].to
    <3>1. trCalls'[q] = [NoTrCall EXCEPT !.pc = "destination", !.row = n, !.to = {r}]
      BY <1>0, <2>3 DEF InitiateTransfer, BeginTransfer
    <3> QED
      BY <1>1, <2>3, <3>1 DEF InitiateTransfer, NoTrCall
  <2>4. ASSUME NEW p \in LeaseProcs, StartTransfer(p)
        PROVE  \/ trCalls'[q] = trCalls[q]
               \/ q = p /\ \E n \in DOMAIN riderCars, r \in Riders : InitiateTransfer(p, n, r)
    BY <1>0, <1>2, <2>4
    DEF StartTransfer, InitiateTransfer, StartConfirm, StartCancel, StartComplete, BeginTransfer, NoTrCall
  <2>5. ~TrCrash
    BY <1>2 DEF TrCrash, NoTrCall
  <2>6. LeaseServes \/ UNCHANGED trVars => UNCHANGED trCalls
    BY DEF LeaseServes, trVars
  <2> QED
    BY <1>2, <2>1, <2>2, <2>3, <2>4, <2>5, <2>6 DEF TrNext, ReleaseServes
<1>3. ASSUME NEW k \in DOMAIN transfers'
      PROVE  transfers'[k].from # transfers'[k].to
  <2>1. CASE k \in DOMAIN transfers
    BY <2>1, TransferCars DEF SameTransfer, ChangesHands
  <2>2. CASE k \notin DOMAIN transfers
    <3>1. ASSUME NEW j, NEW s, Mark(j, s)
          PROVE  DOMAIN transfers' = DOMAIN transfers
      BY <3>1 DEF Mark
    <3>2. PICK p \in LeaseProcs : InsertTransfer(p)
      BY <1>3, <2>2, <3>1
      DEF TrNext, TransferStep, CheckDestination, CheckTransfers, CheckReleases, Validate,
         ConfirmTransfer, CancelTransfer, Update, TakeFromSource, CommitTransfer, Commit,
         StartTransfer, InitiateTransfer, StartConfirm, StartCancel, StartComplete, BeginTransfer,
         ReleaseServes, CompleteLinked, LeaseServes, TrCrash, trVars
    <3> DEFINE row == riderCars[trCalls[p].row]
    <3>3. PICK r \in trCalls[p].to :
             transfers' = Append(transfers, [from |-> row.rider, to |-> r, car |-> row.car,
                                             status |-> "Pending"])
      BY <3>2 DEF InsertTransfer
    <3>4. row.rider # r
      BY <3>2, <3>3 DEF InsertTransfer, ChangesHands
    <3>5. DOMAIN transfers = 1..Len(transfers) /\ Len(transfers) \in Nat
      BY <1>0, TransferType
    <3> DEFINE new == [from |-> row.rider, to |-> r, car |-> row.car, status |-> "Pending"]
    <3>6. new.from = row.rider /\ new.to = r
      OBVIOUS
    <3> HIDE DEF new, row
    <3>7. k = Len(transfers) + 1 /\ transfers'[k] = new
      BY <1>0, <1>3, <2>2, <3>3, <3>5 DEF new, row
    <3> QED
      BY <3>4, <3>6, <3>7
  <2> QED
    BY <2>1, <2>2
<1> QED
  BY <1>2, <1>3 DEF ChangesHands

\* What Rentals is, of every car.
RentalsKnown ==
    /\ Rentals \in [Cars -> SUBSET [rider: Riders, status: CustodyOfCars!Stages]]
    /\ \A n \in DOMAIN riderCars : IsActive(n) =>
          /\ RentalOf(n) \in [rider: Riders, status: CustodyOfCars!Stages]
          /\ Rentals[riderCars[n].car] = {RentalOf(n)}
    /\ \A c \in Cars : ~Carries(c) => Rentals[c] = {}

LEMMA RentalsAre == LHTyped /\ OneActiveRider => RentalsKnown
<1> SUFFICES ASSUME LHTyped, OneActiveRider
             PROVE  RentalsKnown
  OBVIOUS
<1>1. ASSUME NEW n \in DOMAIN riderCars, IsActive(n)
      PROVE  /\ RentalOf(n) \in [rider: Riders, status: CustodyOfCars!Stages]
             /\ Rentals[riderCars[n].car] = {RentalOf(n)}
  <2>1. riderCars[n].rider \in Riders /\ riderCars[n].car \in Cars
        /\ riderCars[n].status \in CarStatuses
    BY RiderCarType DEF LHTyped, LHTypeOK
  <2>2. {m \in DOMAIN riderCars : riderCars[m].car = riderCars[n].car /\ IsActive(m)} = {n}
    BY <1>1 DEF OneActiveRider
  <2>3. Rentals[riderCars[n].car] = {RentalOf(n)}
    BY <2>1, <2>2 DEF Rentals
  <2> QED
    BY <1>1, <2>1, <2>3 DEF RentalOf, IsActive, Ended, CarStatuses, CustodyOfCars!Stages
<1>2. \A c \in Cars : ~Carries(c) => Rentals[c] = {}
  BY DEF Rentals, Carries
<1>3. ASSUME NEW c \in Cars
      PROVE  Rentals[c] \in SUBSET [rider: Riders, status: CustodyOfCars!Stages]
  BY <1>1, <1>2 DEF Carries
<1> QED
  BY <1>1, <1>2, <1>3 DEF RentalsKnown, Rentals

LEMMA RentalsAreNext == LHTyped' /\ OneActiveRider' => RentalsKnown'
BY RentalsAre, PTL

\* A new row is decided; if it takes the place of another one of its car, that one
\* was releasing, and under another rider.
LEMMA NewRows ==
    ASSUME TrInv, HeldForCar, ChangesHands, [TrNext]_trVars,
           NEW m \in DOMAIN riderCars', m \notin DOMAIN riderCars
    PROVE  /\ riderCars'[m].status = "decided"
           /\ \A n \in DOMAIN riderCars :
                 IsActive(n) /\ ~IsActive(n)' /\ riderCars[n].car = riderCars'[m].car =>
                    riderCars[n].status = "releasing" /\ riderCars[n].rider # riderCars'[m].rider
<1>0. LHTyped /\ riderCars \in Seq(RiderCar) /\ TrShape
  BY DEF TrInv, RelInv, RelTyped, LHTyped, LHTypeOK
<1>1. CASE [RelNext]_relVars
  <2>1. PICK p \in LeaseProcs : AddedBy(p)
    BY <1>1, RelMoves DEF TrInv, CallMoves, MovedBy, Quiet
  <2>2. PICK r \in Riders, c \in Cars : AppendDecided(r, c)
    BY <2>1 DEF AddedBy
  <2> QED
    BY <1>0, <2>2, AppendGrows DEF IsActive
<1>2. ASSUME NEW p \in LeaseProcs, CommitTransfer(p)
      PROVE  /\ riderCars'[m].status = "decided"
             /\ \A n \in DOMAIN riderCars :
                   IsActive(n) /\ ~IsActive(n)' /\ riderCars[n].car = riderCars'[m].car =>
                      riderCars[n].status = "releasing" /\ riderCars[n].rider # riderCars'[m].rider
  <2> DEFINE t == transfers[trCalls[p].transfer]
  <2>1. Grown(p, t)
    BY <1>2, CommitRider
  <2>2. m = Len(riderCars) + 1
    BY <2>1 DEF Grown
  <2>3. riderCars'[m].status = "decided" /\ riderCars'[m].rider = t.to
    BY <2>1, <2>2 DEF Grown
  <2>4. calls[p].pc = "held" /\ trCalls[p].pc = "commit" /\ trCalls[p].transfer \in DOMAIN transfers
    BY <1>0, <1>2 DEF CommitTransfer, TrShape, TrShaped
  <2>5. ASSUME NEW n \in DOMAIN riderCars, IsActive(n), ~IsActive(n)'
        PROVE  riderCars[n].status = "releasing" /\ riderCars[n].rider # t.to
    <3>1. n \in calls[p].rows
      BY <1>2, <2>5, CommitRider DEF IsActive
    <3>2. HoldsRow(p, n)
      BY <2>4, <3>1 DEF HoldsRow
    <3>3. riderCars[n].status = "releasing"
      BY <2>4, <3>2 DEF TrInv, RelInv, Locks
    <3>4. riderCars[n].rider = t.from
      BY <2>4, <3>1 DEF HeldForCar
    <3> QED
      BY <2>4, <3>3, <3>4 DEF ChangesHands
  <2> QED
    BY <2>3, <2>5
<1>3. ASSUME NEW p \in LeaseProcs, TransferStep(p) \/ StartTransfer(p), ~CommitTransfer(p)
      PROVE  FALSE
  <2>1. CASE Takes(p)
    BY <2>1 DEF Takes, TakeFromSource, leaseTables
  <2>2. CASE ~Takes(p)
    BY <1>3, <2>2, QuietTransferSteps DEF relVars, lhVars, leaseTables
  <2> QED
    BY <2>1, <2>2
<1>4. (\E p \in LeaseProcs : ReleaseServes(p)) \/ LeaseServes \/ TrCrash \/ UNCHANGED trVars =>
         [RelNext]_relVars
  BY DEF ReleaseServes, LeaseServes, TrCrash, RelNext, trVars
<1> QED
  BY <1>1, <1>2, <1>3, <1>4 DEF TrNext

\* Every car takes a step of Custody, or stays as it is.
LEMMA CustodyStep ==
    ASSUME TrInv, TrInv', HeldForCar, ChangesHands, [TrNext]_trVars, NEW c \in Cars
    PROVE  CustodyOfCars!CarStep(c)
<1> USE DEF CustodyOfCars!CarStep, CustodyOfCars!Stages
<1>0. /\ LHTyped /\ LHTyped'
      /\ OneActiveRider /\ OneActiveRider'
      /\ RentalsKnown /\ RentalsKnown'
  BY RentalsAre, RentalsAreNext DEF TrInv, RelInv, RelTyped, OneRiderInv
<1>1. /\ DOMAIN riderCars \subseteq DOMAIN riderCars'
      /\ \A n \in DOMAIN riderCars : riderCars'[n] = riderCars[n] \/ MovedRow(n)
  BY TrMoves DEF Keeps, Quiet
<1>2. \A n \in DOMAIN riderCars :
         /\ riderCars'[n].rider = riderCars[n].rider
         /\ riderCars'[n].car = riderCars[n].car
         /\ IsActive(n)' => IsActive(n)
  BY <1>0, <1>1, MovedKeeps DEF IsActive
<1>3. ASSUME NEW n \in DOMAIN riderCars, riderCars[n].car = c, IsActive(n)
      PROVE  CustodyOfCars!CarStep(c)
  <2> DEFINE r == riderCars[n].rider
             s == riderCars[n].status
             t == riderCars'[n].status
  <2>1. r \in Riders /\ s \in {"decided", "prep_required", "on_rent", "releasing"}
        /\ Rentals[c] = {[rider |-> r, status |-> s]}
    BY <1>0, <1>3 DEF RentalsKnown, RentalOf
  <2>2. CASE IsActive(n)'
    <3>1. /\ t \in {"decided", "prep_required", "on_rent", "releasing"}
          /\ Rentals'[c] = {[rider |-> r, status |-> t]}
      BY <1>0, <1>1, <1>2, <1>3, <2>2 DEF RentalsKnown, RentalOf
    <3>2. s = t \/ <<s, t>> \in CustodyOfCars!Onward
      BY <1>1, <2>1, <3>1 DEF MovedRow, Allowed, CustodyOfCars!Onward
    <3> HIDE DEF r, s, t
    <3>3. CASE s = t
      BY <2>1, <3>1, <3>3
    <3>4. CASE <<s, t>> \in CustodyOfCars!Onward
      BY <2>1, <3>1, <3>4 DEF CustodyOfCars!Advance, CustodyOfCars!Rental
    <3> QED
      BY <3>2, <3>3, <3>4
  <2>3. CASE ~IsActive(n)' /\ ~Carries(c)'
    <3>1. Rentals'[c] = {}
      BY <1>0, <2>3 DEF RentalsKnown
    <3>2. s # "on_rent"
      BY <1>1, <1>3, <2>3 DEF MovedRow, Allowed, IsActive, Ended
    <3> HIDE DEF r, s, t
    <3> QED
      BY <2>1, <3>1, <3>2 DEF CustodyOfCars!End, CustodyOfCars!Rental
  <2>4. CASE ~IsActive(n)' /\ Carries(c)'
    <3>1. PICK m \in DOMAIN riderCars' : riderCars'[m].car = c /\ IsActive(m)'
      BY <2>4 DEF Carries
    <3>2. m \notin DOMAIN riderCars
      BY <1>0, <1>2, <1>3, <2>4, <3>1 DEF OneActiveRider
    <3>3. riderCars'[m].status = "decided" /\ s = "releasing" /\ r # riderCars'[m].rider
      BY <1>3, <2>4, <3>1, <3>2, NewRows
    <3> DEFINE to == riderCars'[m].rider
    <3>4. to \in Riders /\ Rentals'[c] = {[rider |-> to, status |-> "decided"]}
      BY <1>0, <3>1, <3>3 DEF RentalsKnown, RentalOf
    <3>5. r # to
      BY <3>3
    <3> HIDE DEF r, t, to
    <3> QED
      BY <2>1, <3>3, <3>4, <3>5 DEF CustodyOfCars!HandOver, CustodyOfCars!Rental
  <2> QED
    BY <2>2, <2>3, <2>4
<1>4. CASE ~Carries(c)
  <2>1. Rentals[c] = {}
    BY <1>0, <1>4 DEF RentalsKnown
  <2>2. CASE ~Carries(c)'
    <3>1. Rentals'[c] = {}
      BY <1>0, <2>2 DEF RentalsKnown
    <3> QED
      BY <2>1, <3>1
  <2>3. CASE Carries(c)'
    <3>1. PICK m \in DOMAIN riderCars' : riderCars'[m].car = c /\ IsActive(m)'
      BY <2>3 DEF Carries
    <3>2. m \notin DOMAIN riderCars
      BY <1>2, <1>4, <3>1 DEF Carries
    <3>3. riderCars'[m].status = "decided"
      BY <3>2, NewRows
    <3> DEFINE to == riderCars'[m].rider
    <3>4. to \in Riders /\ Rentals'[c] = {[rider |-> to, status |-> "decided"]}
      BY <1>0, <3>1, <3>3 DEF RentalsKnown, RentalOf
    <3> HIDE DEF to
    <3> QED
      BY <2>1, <3>4 DEF CustodyOfCars!Take, CustodyOfCars!Rental
  <2> QED
    BY <2>2, <2>3
<1> QED
  BY <1>3, <1>4 DEF Carries

-----------------------------------------------------------------------------
(* The theorems.                                                           *)

(***************************************************************************)
(* Type correctness of the transfers and of every table they share with    *)
(* the lease and the release service.                                      *)
(***************************************************************************)
THEOREM TrTypeCorrect == TrSpec => []TrTypeOK
<1>1. TrInv => TrTypeOK
  BY DEF TrInv, TrOwnTypes, RelInv, RelTyped, RelOwnTypes, LHTyped, RelTypeOK, TrTypeOK
<1> QED
  BY <1>1, AlwaysTrInv, PTL

(***************************************************************************)
(* R15 with the three services at work: a car is active on one rider at    *)
(* most, also while completeTransfer moves it, which inserts the row of    *)
(* the destination beside insertions of the lease service.                 *)
(***************************************************************************)
THEOREM TransfersKeepOneRider == TrSpec => []OneActiveRider
<1>1. TrInv => OneActiveRider
  BY DEF TrInv, OneRiderInv
<1> QED
  BY <1>1, AlwaysTrInv, PTL

(***************************************************************************)
(* R16 with the three services at work: a transfer, too, ends a rental     *)
(* from releasing only and changes no ended row.                           *)
(***************************************************************************)
THEOREM TransfersKeepRentals == TrSpec => RentalEndsThroughRelease
<1>1. ASSUME TrInv, [TrNext]_trVars
      PROVE  [EndsThroughRelease]_riderCars
  BY <1>1, TrMoves, StepEndsThroughRelease DEF TrInv, RelInv, RelTyped
<1>2. TrSpec => [][EndsThroughRelease]_riderCars
  BY <1>1, AlwaysTrInv, PTL DEF TrSpec
<1> QED
  BY <1>2 DEF RentalEndsThroughRelease, EndsThroughRelease

(***************************************************************************)
(* The three services implement Custody: whatever they interleave, each    *)
(* car moves as the abstract machine says, and a transfer that ends one    *)
(* row and starts another is one change of hands, from releasing.          *)
(***************************************************************************)
THEOREM ServicesKeepCustody == TrSpec => CustodyKept
<1>1. TrInit => CustodyOfCars!Init
  BY DEF TrInit, RelInit, LHInit, CustodyOfCars!Init, Rentals
<1>2. TrInit => ChangesHands
  BY DEF TrInit, ChangesHands, NoTrCall
<1>3. TrSpec => []ChangesHands
  BY <1>2, ChangesHandsStep, AlwaysTrInv, PTL DEF TrSpec
<1>4. TrInv /\ TrInv' /\ WaitInv /\ ChangesHands /\ [TrNext]_trVars => [CustodyOfCars!Next]_Rentals
  <2> SUFFICES ASSUME TrInv, TrInv', WaitInv, ChangesHands, [TrNext]_trVars
               PROVE  CustodyOfCars!Next
    OBVIOUS
  <2>1. Rentals' \in [Cars -> SUBSET [rider: Riders, status: CustodyOfCars!Stages]]
    BY RentalsAreNext DEF TrInv, RelInv, RelTyped, OneRiderInv, RentalsKnown
  <2> QED
    BY <2>1, CustodyStep DEF CustodyOfCars!Next, WaitInv
<1> QED
  BY <1>1, <1>3, <1>4, AlwaysTrInv, AlwaysWaitInv, PTL DEF TrSpec, CustodyKept, CustodyOfCars!Spec

(***************************************************************************)
(* Deadlock with the three services at work, however many calls there are: *)
(* those that wait for each other hold a removal and a deactivation of the *)
(* lease service that wait for each other.  The release a completion locks *)
(* and the rows releases and transfers take add no cycle of their own, so  *)
(* no release and no transfer is ever the victim PostgreSQL has to choose. *)
(***************************************************************************)
THEOREM TrCyclesAreBrokenHolds == TrSpec => []TrCyclesAreBroken
<1>1. ASSUME TrInv, WaitInv, NEW S \in SUBSET LeaseProcs, S # {},
             \A p \in S : \E q \in S : TrWaits(p, q)
      PROVE  BreaksCycle(S)
  <2>1. \A p \in S : /\ calls[p].pc # "commit" /\ relCalls[p].pc # "commit"
                     /\ \A n \in DOMAIN riderCars : HoldsRow(p, n) => calls[p].pc = "removed"
    BY <1>1, TrWaitsAt DEF HoldsRow
  <2>2. ASSUME NEW p \in S, calls[p].pc \in {"removed", "countCar"}
        PROVE  \E q \in S, r \in Riders :
                  q # p /\ AsksRider(p, r) /\ HoldsRider(q, r) /\ calls[q].pc = "removeCars"
    BY <1>1, <2>1, <2>2, TrWaitsAt
  <2>3. ASSUME NEW p \in S, calls[p].pc = "removeCars"
        PROVE  \E q \in S, n \in DOMAIN riderCars :
                  q # p /\ AsksRow(p, n) /\ HoldsRow(q, n) /\ calls[q].pc = "removed"
    BY <1>1, <2>1, <2>3, TrWaitsAt
  <2>4. ASSUME NEW p \in S, relCalls[p].pc = "offRent"
        PROVE  \E q \in S : calls[q].pc = "removed"
    BY <1>1, <2>1, <2>4, TrWaitsAt
  <2>5. \E p \in S : calls[p].pc = "removed"
    <3>1. PICK p \in S, q \in S : TrWaits(p, q)
      BY <1>1
    <3>2. \/ \E n \in DOMAIN riderCars : HoldsRow(q, n)
          \/ calls[q].pc \in {"removeCars", "countCar"}
          \/ relCalls[q].pc = "offRent"
      BY <1>1, <2>1, <3>1, TrWaitsAt
    <3>3. CASE calls[q].pc = "removeCars"
      BY <2>3, <3>3
    <3>4. CASE calls[q].pc = "countCar"
      BY <2>2, <2>3, <3>4
    <3> QED
      BY <2>1, <2>4, <3>2, <3>3, <3>4
  <2>6. LHTyped /\ RiderLocks
    BY <1>1 DEF TrInv, RelInv, RelTyped, WaitInv
  <2> QED
    BY <2>2, <2>3, <2>5, <2>6, RemovalMeetsDeactivation
<1>2. TrInv /\ WaitInv => TrCyclesAreBroken
  BY <1>1 DEF TrCyclesAreBroken
<1> QED
  BY <1>2, AlwaysTrInv, AlwaysWaitInv, PTL

\* What the COMMIT of a completion owes to its car: the body of CompletionKeepsCar.
KeepsCar ==
    \A p \in LeaseProcs :
       LET t == transfers[trCalls[p].transfer] IN
       /\ trCalls[p].pc = "commit"
       /\ transfers'[trCalls[p].transfer].status = "Complete"
       /\ trCalls'[p].pc = "none"
       => \/ \E n \in DOMAIN riderCars' :
                riderCars'[n].car = t.car /\ riderCars'[n].status \notin Ended
          \/ MayBeSameDay(t.to, t.car)

(***************************************************************************)
(* A completed transfer leaves its car on a rider, unless the destination  *)
(* had the car before and the index of the same day refuses the new row,   *)
(* for any number of riders, cars and concurrent requests.                 *)
(***************************************************************************)
THEOREM CompletionKeepsCarHolds == TrSpec => CompletionKeepsCar
<1>1. ASSUME TrInv, [TrNext]_trVars
      PROVE  [KeepsCar]_transfers
  <2> SUFFICES ASSUME NEW p \in LeaseProcs, trCalls[p].pc = "commit", trCalls'[p].pc = "none",
                      ~UNCHANGED transfers
               PROVE  LET t == transfers[trCalls[p].transfer] IN
                      \/ \E n \in DOMAIN riderCars' :
                            riderCars'[n].car = t.car /\ riderCars'[n].status \notin Ended
                      \/ MayBeSameDay(t.to, t.car)
    BY DEF KeepsCar
  <2> DEFINE t == transfers[trCalls[p].transfer]
  <2>1. CommitTransfer(p)
    <3>1. trCalls' # trCalls
      OBVIOUS
    <3>2. PICK q \in LeaseProcs : TransferStep(q)
      BY <1>1, <3>1 DEF TrNext, ReleaseServes, LeaseServes, TrCrash, trVars, StartTransfer,
                        InitiateTransfer, StartConfirm, StartCancel, StartComplete, BeginTransfer
    <3>3. trCalls \in [LeaseProcs -> TrCall]
      BY <1>1 DEF TrInv, TrOwnTypes
    <3>4. ASSUME NEW r \in LeaseProcs, r # q
          PROVE  trCalls'[r] = trCalls[r]
      BY <3>2, <3>3, <3>4 DEF TransferStep, CheckDestination, CheckTransfers, CheckReleases, Validate,
           InsertTransfer, ConfirmTransfer, CancelTransfer, Update, TakeFromSource, CommitTransfer,
           Commit, Goto, EndTransfer
    <3>5. p = q
      BY <3>4
    <3> QED
      BY <3>2, <3>5 DEF TransferStep, CheckDestination, CheckTransfers, CheckReleases, Validate,
           InsertTransfer, ConfirmTransfer, CancelTransfer, Update, TakeFromSource
  <2>2. /\ \/ OtherRows(p, t.car) # {} \/ MayBeSameDay(t.to, t.car)
           \/ Grown(p, t)
        /\ DOMAIN riderCars \subseteq DOMAIN riderCars'
        /\ \A n \in DOMAIN riderCars : n \notin calls[p].rows => riderCars'[n] = riderCars[n]
    BY <1>1, <2>1, CommitRider DEF Grown
  <2>3. CASE OtherRows(p, t.car) # {}
    BY <2>2, <2>3 DEF OtherRows, IsActive
  <2>4. CASE Grown(p, t)
    BY <2>4 DEF Grown, Ended
  <2> QED
    BY <2>2, <2>3, <2>4
<1>2. TrSpec => [][KeepsCar]_transfers
  BY <1>1, AlwaysTrInv, PTL DEF TrSpec
<1> QED
  BY <1>2 DEF CompletionKeepsCar, KeepsCar
=============================================================================
