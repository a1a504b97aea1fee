---------------------------- MODULE ScrapProofs ----------------------------
(***************************************************************************)
(* Proofs about Scrap, for any fleet, any numbers of requests, scraps and  *)
(* events, with failures and crashes.                                      *)
(***************************************************************************)
EXTENDS Scrap, ShoppingEventProofs

(***************************************************************************)
(* What a request in flight carries: the row it is about, and its car.     *)
(***************************************************************************)
RowCall(call) == call.pc \in {"complete", "cancel", "retriage"}
CallsMatch ==
    /\ scraps \in Seq(ScrapRow)
    /\ scrapCalls \in [ScrapProcs -> ScrapCall \cup {NoScrapCall}]
    /\ \A s \in ScrapProcs : RowCall(scrapCalls[s]) =>
          /\ scrapCalls[s].k \in DOMAIN scraps
          /\ scrapCalls[s].car = scraps[scrapCalls[s].k].car

LEMMA InFlight ==
    ASSUME CallsMatch, NEW s \in ScrapProcs, scrapCalls[s].pc # "none"
    PROVE  scrapCalls[s] \in ScrapCall
BY DEF CallsMatch, NoScrapCall

-----------------------------------------------------------------------------
(* What a step does to the table scraps and to the fleet.                  *)

Fresh(c) == [car |-> c, status |-> "proposed", stamps |-> {}]
Moved2(row, to) == [row EXCEPT !.status = to, !.stamps = @ \cup ({to} \cap Stamps)]

ScrapInserted ==
    \E c \in Cars : scraps' = Append(scraps, Fresh(c)) /\ UNCHANGED disposed
ScrapMoved ==
    \E k \in DOMAIN scraps, to \in ScrapStatuses \ {"completed"} :
        /\ ScrapAccepts(scraps[k].status, to)
        /\ scraps' = [scraps EXCEPT ![k] = Moved2(scraps[k], to)]
        /\ UNCHANGED disposed
ScrapCompleted ==
    \E k \in DOMAIN scraps :
        /\ ScrapAccepts(scraps[k].status, "completed")
        /\ scraps' = [scraps EXCEPT ![k] = Moved2(scraps[k], "completed")]
        /\ disposed' = disposed \cup {scraps[k].car}
ScrapsStep ==
    \/ ScrapInserted
    \/ ScrapMoved
    \/ ScrapCompleted
    \/ UNCHANGED <<scraps, disposed>>

LEMMA UpdateMoves ==
    ASSUME NEW k, NEW to, ScrapUpdate(k, to)
    PROVE  scraps' = [scraps EXCEPT ![k] = Moved2(scraps[k], to)]
BY DEF ScrapUpdate, Moved2

\* No step of the shopping events disposes of a car.
LEMMA EventsKeepFleet == SEStep => UNCHANGED disposed
<1> SUFFICES ASSUME SEStep PROVE disposed' = disposed
  OBVIOUS
<1>1. ASSUME NEW p \in Procs, CreatorStep(p)
      PROVE  disposed' = disposed
  BY <1>1 DEF CreatorStep, StartChained, InsertEvent, FindTriage, LinkChain, sideVars
<1>2. ASSUME NEW p \in Procs, NEW c \in Cars, NEW ty \in Types, StartCreate(p, c, ty)
      PROVE  disposed' = disposed
  BY <1>2 DEF StartCreate, sideVars
<1>3. ASSUME NEW p \in Procs, NEW n, NEW ty, NEW ref, SetDispositionChain(p, n, ty, ref)
      PROVE  disposed' = disposed
  BY <1>3 DEF SetDispositionChain, sideVars
<1>4. ASSUME NEW n, NEW d, NEW ref, SetDisposition(n, d, ref)
      PROVE  disposed' = disposed
  BY <1>4 DEF SetDisposition, sideVars
<1>5. ASSUME NEW n, NEW to, Transition(n, to)
      PROVE  disposed' = disposed
  BY <1>5 DEF Transition
<1>6. CASE SideStep
  BY <1>6 DEF SideStep, RunPromise, RunOpenIdle, RunCloseIdle, RunCreateTriage, CheckResolve,
     ApplyResolve, PromiseRejects, PlannerStep, ManualTriage, ManualResolve
<1> QED
  BY <1>1, <1>2, <1>3, <1>4, <1>5, <1>6 DEF SEStep

LEMMA ScrapsStepOf == CallsMatch /\ ScNext => ScrapsStep
<1> SUFFICES ASSUME CallsMatch, ScNext PROVE ScrapsStep
  OBVIOUS
<1>1. CASE SEStep /\ UNCHANGED <<scraps, scrapCalls>>
  BY <1>1, EventsKeepFleet DEF ScrapsStep
<1>2. ASSUME NEW s \in ScrapProcs, ScrapRequest(s)
      PROVE  ScrapsStep
  BY <1>2 DEF ScrapRequest, StartProposal, StartComplete, StartCancel, Routed, seVars, sideVars, ScrapsStep
<1>3. ASSUME NEW s \in ScrapProcs, ScrapCallStep(s)
      PROVE  ScrapsStep
  <2> DEFINE call == scrapCalls[s]
  <2>1. CASE ReadTriage(s) \/ CheckProposal(s)
    BY <2>1 DEF ReadTriage, CheckProposal, seVars, sideVars, ScrapsStep
  <2>2. CASE InsertScrap(s)
    <3>1. call.car \in Cars
      BY <2>2, InFlight DEF InsertScrap, ScrapCall
    <3>2. scraps' = Append(scraps, Fresh(call.car)) /\ UNCHANGED disposed
      BY <2>2 DEF InsertScrap, Fresh, seVars, sideVars
    <3> QED
      BY <3>1, <3>2 DEF ScrapInserted, ScrapsStep
  <2>3. CASE CompleteScrap(s)
    <3>1. call.k \in DOMAIN scraps /\ call.car = scraps[call.k].car
      BY <2>3 DEF CompleteScrap, CallsMatch, RowCall
    <3>2. CASE ScrapAccepts(scraps[call.k].status, "completed")
      <4>1. /\ scraps' = [scraps EXCEPT ![call.k] = Moved2(scraps[call.k], "completed")]
            /\ disposed' = disposed \cup {call.car}
        BY <2>3, <3>2, UpdateMoves DEF CompleteScrap, CompleteScrapEffects
      <4> QED
        BY <3>1, <3>2, <4>1 DEF ScrapCompleted, ScrapsStep
    <3>3. CASE ~ScrapAccepts(scraps[call.k].status, "completed")
      BY <2>3, <3>3 DEF CompleteScrap, sideVars, ScrapsStep
    <3> QED
      BY <3>2, <3>3
  <2>4. CASE CancelScrap(s)
    <3>1. call.k \in DOMAIN scraps
      BY <2>4 DEF CancelScrap, CallsMatch, RowCall
    <3>2. CASE ScrapAccepts(scraps[call.k].status, "cancelled")
      <4>1. scraps' = [scraps EXCEPT ![call.k] = Moved2(scraps[call.k], "cancelled")]
        BY <2>4, <3>2, UpdateMoves DEF CancelScrap
      <4>2. UNCHANGED disposed /\ "cancelled" \in ScrapStatuses \ {"completed"}
        BY <2>4 DEF CancelScrap, seVars, sideVars, ScrapStatuses, ScrapGraph
      <4> QED
        BY <3>1, <3>2, <4>1, <4>2 DEF ScrapMoved, ScrapsStep
    <3>3. CASE ~ScrapAccepts(scraps[call.k].status, "cancelled")
      BY <2>4, <3>3 DEF CancelScrap, seVars, sideVars, ScrapsStep
    <3> QED
      BY <3>2, <3>3
  <2>5. CASE RetriageCancelled(s)
    BY <2>5 DEF RetriageCancelled, ScrapsStep
  <2> QED
    BY <1>3, <2>1, <2>2, <2>3, <2>4, <2>5 DEF ScrapCallStep
<1>4. ASSUME NEW s \in ScrapProcs, ScrapCallFails(s)
      PROVE  ScrapsStep
  BY <1>4 DEF ScrapCallFails, seVars, sideVars, ScrapsStep
<1>5. ASSUME NEW k \in DOMAIN scraps, NEW to \in ScrapRequests, TransitionScrap(k, to)
      PROVE  ScrapsStep
  <2>1. to \in ScrapStatuses \ {"completed"} /\ ScrapAccepts(scraps[k].status, to)
    BY <1>5, ScrapAssumption DEF TransitionScrap, ScrapTerminal
  <2>2. scraps' = [scraps EXCEPT ![k] = Moved2(scraps[k], to)] /\ UNCHANGED disposed
    BY <1>5, UpdateMoves DEF TransitionScrap, seVars, sideVars
  <2> QED
    BY <2>1, <2>2 DEF ScrapMoved, ScrapsStep
<1>6. CASE ScCrash
  BY <1>6 DEF ScCrash, Crash, ScrapsStep
<1> QED
  BY <1>1, <1>2, <1>3, <1>4, <1>5, <1>6 DEF ScNext

(***************************************************************************)
(* The shape of a table step: rows keep their car and their place.         *)
(***************************************************************************)
LEMMA FreshType == \A c \in Cars : Fresh(c) \in ScrapRow
BY DEF Fresh, ScrapRow, ScrapStatuses, ScrapGraph

LEMMA MovedType ==
    ASSUME NEW row \in ScrapRow, NEW to \in ScrapStatuses
    PROVE  /\ Moved2(row, to) \in ScrapRow
           /\ Moved2(row, to).car = row.car
           /\ Moved2(row, to).status = to
           /\ Moved2(row, to).stamps = row.stamps \cup ({to} \cap Stamps)
<1> DEFINE st == row.stamps \cup ({to} \cap Stamps)
<1>1. st \in SUBSET Stamps
  BY DEF ScrapRow
<1>2. Moved2(row, to) = [row EXCEPT !.status = to, !.stamps = st]
  BY DEF Moved2
<1> HIDE DEF st
<1>3. /\ Moved2(row, to) \in ScrapRow
      /\ Moved2(row, to).car = row.car
      /\ Moved2(row, to).status = to
      /\ Moved2(row, to).stamps = st
  BY <1>1, <1>2 DEF ScrapRow
<1> QED
  BY <1>3 DEF st

LEMMA ScrapsShape ==
    ASSUME scraps \in Seq(ScrapRow), ScrapsStep
    PROVE  /\ scraps' \in Seq(ScrapRow)
           /\ \A k \in DOMAIN scraps : k \in DOMAIN scraps' /\ scraps'[k].car = scraps[k].car
<1>1. \A k \in DOMAIN scraps : scraps[k] \in ScrapRow
  OBVIOUS
<1>2. "completed" \in ScrapStatuses
  BY DEF ScrapStatuses, ScrapGraph
<1>3. ASSUME NEW k \in DOMAIN scraps, NEW to \in ScrapStatuses,
             scraps' = [scraps EXCEPT ![k] = Moved2(scraps[k], to)]
      PROVE  /\ scraps' \in Seq(ScrapRow)
             /\ \A j \in DOMAIN scraps : j \in DOMAIN scraps' /\ scraps'[j].car = scraps[j].car
  <2> DEFINE row == Moved2(scraps[k], to)
  <2>1. row \in ScrapRow /\ row.car = scraps[k].car
    BY <1>1, MovedType
  <2>2. scraps' = [scraps EXCEPT ![k] = row]
    BY <1>3
  <2> HIDE DEF row
  <2> QED
    BY <2>1, <2>2, ExceptSeq, LenProperties
<1>4. CASE ScrapInserted
  BY <1>4, FreshType, AppendProperties, LenProperties DEF ScrapInserted
<1> QED
  BY <1>2, <1>3, <1>4 DEF ScrapsStep, ScrapMoved, ScrapCompleted

-----------------------------------------------------------------------------
(* Requests stay about the row they read.                                  *)

LEMMA OneScrapCall ==
    ASSUME CallsMatch, scraps' \in Seq(ScrapRow),
           \A k \in DOMAIN scraps : k \in DOMAIN scraps' /\ scraps'[k].car = scraps[k].car,
           NEW s \in ScrapProcs, NEW x \in ScrapCall \cup {NoScrapCall},
           scrapCalls' = [scrapCalls EXCEPT ![s] = x],
           RowCall(x) => x.k \in DOMAIN scraps /\ x.car = scraps[x.k].car
    PROVE  CallsMatch'
<1>1. scrapCalls' \in [ScrapProcs -> ScrapCall \cup {NoScrapCall}]
  BY DEF CallsMatch
<1>2. \A r \in ScrapProcs : scrapCalls'[r] = IF r = s THEN x ELSE scrapCalls[r]
  BY DEF CallsMatch
<1>3. \A r \in ScrapProcs : RowCall(scrapCalls'[r]) =>
        /\ scrapCalls'[r].k \in DOMAIN scraps
        /\ scrapCalls'[r].car = scraps[scrapCalls'[r].k].car
  BY <1>2 DEF CallsMatch
<1> QED
  BY <1>1, <1>3 DEF CallsMatch

LEMMA CallsMatchStep == CallsMatch /\ [ScNext]_scVars => CallsMatch'
<1> SUFFICES ASSUME CallsMatch, [ScNext]_scVars PROVE CallsMatch'
  OBVIOUS
<1>1. CASE UNCHANGED scVars
  BY <1>1 DEF scVars, CallsMatch
<1>2. CASE ScNext
  <2>1. /\ scraps' \in Seq(ScrapRow)
        /\ \A k \in DOMAIN scraps : k \in DOMAIN scraps' /\ scraps'[k].car = scraps[k].car
    BY <1>2, ScrapsStepOf, ScrapsShape DEF CallsMatch
  <2>2. \A s \in ScrapProcs : scrapCalls[s].pc # "none" => scrapCalls[s] \in ScrapCall
    BY InFlight
  <2>3. \A k \in DOMAIN scraps : k \in Nat /\ scraps[k].car \in Cars
    <3>1. \A k \in DOMAIN scraps : k \in Nat /\ scraps[k] \in ScrapRow
      BY LenProperties DEF CallsMatch
    <3> QED
      BY <3>1 DEF ScrapRow
  <2>4. ASSUME NEW s \in ScrapProcs, NEW x \in ScrapCall \cup {NoScrapCall},
               scrapCalls' = [scrapCalls EXCEPT ![s] = x],
               RowCall(x) => x.k \in DOMAIN scraps /\ x.car = scraps[x.k].car
        PROVE  CallsMatch'
    BY <2>1, <2>4, OneScrapCall
  <2>5. ASSUME NEW s \in ScrapProcs, ScrapReturn(s)
        PROVE  CallsMatch'
    <3>1. ~RowCall(NoScrapCall)
      BY DEF RowCall, NoScrapCall
    <3> QED
      BY <2>4, <2>5, <3>1 DEF ScrapReturn
  <2>6. ASSUME UNCHANGED scrapCalls
        PROVE  CallsMatch'
    BY <2>1, <2>6 DEF CallsMatch
  <2>7. ASSUME NEW s \in ScrapProcs, ScrapRequest(s)
        PROVE  CallsMatch'
    <3>1. ASSUME NEW c \in Cars, StartProposal(s, c)
          PROVE  CallsMatch'
      <4> DEFINE x == [pc |-> "triage", car |-> c, k |-> 0, found |-> FALSE]
      <4>1. x \in ScrapCall /\ ~RowCall(x)
        BY DEF ScrapCall, ScrapPC, RowCall
      <4>2. scrapCalls' = [scrapCalls EXCEPT ![s] = x]
        BY <3>1 DEF StartProposal
      <4> HIDE DEF x
      <4> QED
        BY <2>4, <4>1, <4>2
    <3>2. ASSUME NEW k \in DOMAIN scraps, NEW pc \in {"complete", "cancel"}, Routed(s, k, pc)
          PROVE  CallsMatch'
      <4> DEFINE x == [pc |-> pc, car |-> scraps[k].car, k |-> k, found |-> FALSE]
      <4>1. x \in ScrapCall /\ x.k = k /\ x.car = scraps[k].car
        BY <2>3 DEF ScrapCall, ScrapPC
      <4>2. scrapCalls' = [scrapCalls EXCEPT ![s] = x]
        BY <3>2 DEF Routed
      <4> HIDE DEF x
      <4> QED
        BY <2>4, <4>1, <4>2
    <3> QED
      BY <2>7, <3>1, <3>2 DEF ScrapRequest, StartComplete, StartCancel
  <2>8. ASSUME NEW s \in ScrapProcs, ScrapCallStep(s)
        PROVE  CallsMatch'
    <3> DEFINE call == scrapCalls[s]
    <3>1. CASE ReadTriage(s)
      <4> DEFINE x == [call EXCEPT !.pc = "idle", !.found = OpenEntries(call.car) # {}]
      <4>1. call \in ScrapCall
        BY <2>2, <3>1 DEF ReadTriage
      <4>2. x \in ScrapCall /\ x.pc = "idle"
        BY <4>1 DEF ScrapCall, ScrapPC, AfterCheck
      <4>3. scrapCalls' = [scrapCalls EXCEPT ![s] = x]
        BY <3>1 DEF ReadTriage
      <4> HIDE DEF x
      <4> QED
        BY <2>4, <4>2, <4>3 DEF RowCall
    <3>2. CASE CheckProposal(s)
      <4> DEFINE to == AfterCheck[call.pc]
                 x == [call EXCEPT !.pc = to]
      <4>1. call \in ScrapCall /\ call.pc \in DOMAIN AfterCheck
        <5>1. call.pc \in DOMAIN AfterCheck
          BY <3>2 DEF CheckProposal
        <5> QED
          BY <2>2, <5>1 DEF AfterCheck
      <4>2. to \in ScrapPC /\ to \notin {"complete", "cancel", "retriage"}
        BY <4>1 DEF AfterCheck, ScrapPC
      <4> HIDE DEF to
      <4>3. x \in ScrapCall /\ x.pc = to
        BY <4>1, <4>2 DEF ScrapCall
      <4>4. ScrapReturn(s) \/ scrapCalls' = [scrapCalls EXCEPT ![s] = x]
        BY <3>2 DEF CheckProposal, ScrapGoto, to
      <4> HIDE DEF x
      <4> QED
        BY <2>4, <2>5, <4>2, <4>3, <4>4 DEF RowCall
    <3>3. CASE InsertScrap(s) \/ CompleteScrap(s) \/ RetriageCancelled(s)
      BY <2>5, <3>3 DEF InsertScrap, CompleteScrap, RetriageCancelled
    <3>4. CASE CancelScrap(s)
      <4> DEFINE x == [call EXCEPT !.pc = "retriage"]
      <4>1. call \in ScrapCall /\ RowCall(call)
        BY <2>2, <3>4 DEF CancelScrap, RowCall
      <4>2. x \in ScrapCall /\ x.k = call.k /\ x.car = call.car
        BY <4>1 DEF ScrapCall, ScrapPC
      <4>3. ScrapReturn(s) \/ scrapCalls' = [scrapCalls EXCEPT ![s] = x]
        BY <3>4 DEF CancelScrap, ScrapGoto
      <4>4. call.k \in DOMAIN scraps /\ call.car = scraps[call.k].car
        BY <4>1 DEF CallsMatch
      <4> HIDE DEF x
      <4> QED
        BY <2>4, <2>5, <4>2, <4>3, <4>4
    <3> QED
      BY <2>8, <3>1, <3>2, <3>3, <3>4 DEF ScrapCallStep
  <2>9. ASSUME NEW s \in ScrapProcs, ScrapCallFails(s)
        PROVE  CallsMatch'
    BY <2>5, <2>9 DEF ScrapCallFails
  <2>10. CASE ScCrash
    <3>1. scrapCalls' = [s \in ScrapProcs |-> NoScrapCall]
      BY <2>10 DEF ScCrash
    <3> QED
      BY <2>1, <3>1 DEF CallsMatch, RowCall, NoScrapCall
  <2>11. ASSUME NEW k \in DOMAIN scraps, NEW to \in ScrapRequests, TransitionScrap(k, to)
         PROVE  CallsMatch'
    BY <2>6, <2>11 DEF TransitionScrap
  <2> QED
    BY <1>2, <2>6, <2>7, <2>8, <2>9, <2>10, <2>11 DEF ScNext
<1> QED
  BY <1>1, <1>2

LEMMA CallsAlwaysMatch == ScSpec => []CallsMatch
<1>1. ScInit => CallsMatch
  BY DEF ScInit, CallsMatch, RowCall, NoScrapCall
<1> QED
  BY <1>1, CallsMatchStep, PTL DEF ScSpec

-----------------------------------------------------------------------------
\* Each step of the scrap requests, for the tables of ShoppingEvent.
LEMMA EventsStepOfScraps == CallsMatch /\ [ScNext]_scVars => [SENext]_seVars
<1> SUFFICES ASSUME CallsMatch, ScNext PROVE SENext \/ UNCHANGED seVars
  BY DEF scVars
<1>1. CASE SEStep
  BY <1>1 DEF SENext
<1>2. ASSUME NEW s \in ScrapProcs, ScrapRequest(s) \/ ScrapCallFails(s)
      PROVE  UNCHANGED seVars
  BY <1>2 DEF ScrapRequest, StartProposal, StartComplete, StartCancel, Routed, ScrapCallFails
<1>3. ASSUME NEW s \in ScrapProcs, ReadTriage(s) \/ CheckProposal(s) \/ InsertScrap(s) \/ CancelScrap(s)
      PROVE  UNCHANGED seVars
  BY <1>3 DEF ReadTriage, CheckProposal, InsertScrap, CancelScrap
<1>4. ASSUME NEW s \in ScrapProcs, CompleteScrap(s)
      PROVE  SENext \/ UNCHANGED seVars
  <2>1. scrapCalls[s].car \in Cars
    BY <1>4, InFlight DEF CompleteScrap, ScrapCall
  <2>2. CompleteScrapEffects(scrapCalls[s].car) \/ UNCHANGED sideVars
    BY <1>4 DEF CompleteScrap
  <2>3. UNCHANGED <<events, creator>>
    BY <1>4 DEF CompleteScrap
  <2> QED
    BY <2>1, <2>2, <2>3 DEF SENext, ScrapCompletes, seVars
<1>5. ASSUME NEW s \in ScrapProcs, RetriageCancelled(s)
      PROVE  SENext \/ UNCHANGED seVars
  <2> DEFINE c == scrapCalls[s].car
  <2>1. c \in Cars
    BY <1>5, InFlight DEF RetriageCancelled, ScrapCall
  <2>2. UNCHANGED <<disposed, idle, tasks, resolving, events, creator>>
    BY <1>5 DEF RetriageCancelled
  <2>3. CASE OpenEntries(c) = {}
    <3>1. ManualTriage(c)
      BY <1>5, <2>2, <2>3 DEF RetriageCancelled, ManualTriage
    <3> QED
      BY <2>1, <2>2, <3>1 DEF SENext, SEStep, SideStep, PlannerStep
  <2>4. CASE OpenEntries(c) # {}
    BY <1>5, <2>2, <2>4 DEF RetriageCancelled, InsertTriage, seVars, sideVars
  <2> QED
    BY <2>3, <2>4
<1>6. ASSUME NEW k \in DOMAIN scraps, NEW to \in ScrapRequests, TransitionScrap(k, to)
      PROVE  UNCHANGED seVars
  BY <1>6 DEF TransitionScrap
<1>7. CASE ScCrash
  BY <1>7 DEF ScCrash, SENext
<1> QED
  BY <1>1, <1>2, <1>3, <1>4, <1>5, <1>6, <1>7 DEF ScNext, ScrapCallStep

(***************************************************************************)
(* The composition is no more than ShoppingEvent allows: each step of the  *)
(* scrap requests is a step of that module or leaves its tables alone.     *)
(***************************************************************************)
THEOREM ScrapKeepsShoppingEvents == ScSpec => ShoppingEventKept
<1>1. ScInit => SEInit
  BY DEF ScInit
<1> QED
  BY <1>1, EventsStepOfScraps, CallsAlwaysMatch, PTL DEF ScSpec, SESpec, ShoppingEventKept

(***************************************************************************)
(* Every reachable state of the composition has the declared types.        *)
(***************************************************************************)
THEOREM ScTypeCorrect == ScSpec => []ScTypeOK
<1>1. SETypeOK /\ CallsMatch => ScTypeOK
  BY DEF ScTypeOK, CallsMatch, RowCall
<1> QED
  BY <1>1, ScrapKeepsShoppingEvents, SETypeCorrect, CallsAlwaysMatch, PTL DEF ShoppingEventKept

(***************************************************************************)
(* What holds of the shopping events alone holds beside the scraps: R1,    *)
(* the approvals, the dispositions, the chains, and that ended events stay *)
(* as they ended.                                                          *)
(***************************************************************************)
THEOREM RulesHoldBesideScraps ==
    ScSpec => /\ []HandoffOrder
              /\ []ApprovedBeforeDisposition
              /\ []TypedCloseHasDisposition
              /\ []ChainLinks
              /\ TerminalIsFinal
BY ScrapKeepsShoppingEvents, HandoffOrderHolds, DispositionNeedsApproval,
   TypedCloseNeedsDisposition, ChainLinksHold, TerminalStaysFinal, PTL DEF ShoppingEventKept

-----------------------------------------------------------------------------
(* Invariants of the scraps.                                               *)

\* The stages every row of a status has passed.
Passed(status) ==
    CASE status = "under_review" -> {"under_review"}
      [] status = "approved" -> {"under_review", "approved"}
      [] status \in {"scheduled", "in_progress", "completed"} -> Stamps
      [] OTHER -> {}
StagesPassed == \A k \in DOMAIN scraps : Passed(scraps[k].status) \subseteq scraps[k].stamps

LEMMA MovePasses ==
    ASSUME NEW row \in ScrapRow, NEW to \in ScrapStatuses,
           ScrapAccepts(row.status, to), Passed(row.status) \subseteq row.stamps
    PROVE  Passed(to) \subseteq row.stamps \cup ({to} \cap Stamps)
<1>1. row.status \in ScrapStatuses
  BY DEF ScrapRow
<1> DEFINE from == row.status
<1>2. CASE from = to
  BY <1>2
<1>3. CASE to \in {"proposed", "cancelled"}
  BY <1>3 DEF Passed
<1>4. CASE from # to /\ to \notin {"proposed", "cancelled"}
  <2>1. to \in ScrapGraph[from]
    BY <1>4 DEF ScrapAccepts
  <2>2. \/ from = "proposed" /\ to = "under_review"
        \/ from = "under_review" /\ to = "approved"
        \/ from = "approved" /\ to = "scheduled"
        \/ from = "scheduled" /\ to = "in_progress"
        \/ from = "in_progress" /\ to = "completed"
    BY <1>1, <1>4, <2>1 DEF ScrapGraph, ScrapStatuses
  <2>3. \A x : x \in Passed(to) => x \in Passed(from) \/ x \in {to} \cap Stamps
    BY <2>2 DEF Passed, Stamps
  <2> QED
    BY <2>3
<1> QED
  BY <1>2, <1>3, <1>4

LEMMA MoveStep ==
    ASSUME scraps \in Seq(ScrapRow), NEW k \in DOMAIN scraps, NEW to \in ScrapStatuses,
           scraps' = [scraps EXCEPT ![k] = Moved2(scraps[k], to)]
    PROVE  /\ DOMAIN scraps' = DOMAIN scraps
           /\ scraps'[k].status = to /\ scraps'[k].car = scraps[k].car
           /\ scraps'[k].stamps = scraps[k].stamps \cup ({to} \cap Stamps)
           /\ \A j \in DOMAIN scraps : j # k => scraps'[j] = scraps[j]
<1> DEFINE row == Moved2(scraps[k], to)
<1>1. /\ row.status = to /\ row.car = scraps[k].car
      /\ row.stamps = scraps[k].stamps \cup ({to} \cap Stamps)
  BY MovedType
<1>2. scraps' = [scraps EXCEPT ![k] = row]
  OBVIOUS
<1> HIDE DEF row
<1> QED
  BY <1>1, <1>2, LenProperties

LEMMA InsertStep ==
    ASSUME scraps \in Seq(ScrapRow), NEW c \in Cars, scraps' = Append(scraps, Fresh(c))
    PROVE  /\ \A k \in DOMAIN scraps : k \in DOMAIN scraps' /\ scraps'[k] = scraps[k]
           /\ \A k \in DOMAIN scraps' : k \in DOMAIN scraps \/ scraps'[k] = Fresh(c)
BY FreshType, AppendProperties, LenProperties

LEMMA StagesStep ==
    CallsMatch /\ StagesPassed /\ [ScNext]_scVars => StagesPassed'
<1> SUFFICES ASSUME CallsMatch, StagesPassed, ScNext PROVE StagesPassed'
  BY DEF scVars, StagesPassed
<1>1. scraps \in Seq(ScrapRow) /\ \A k \in DOMAIN scraps : scraps[k] \in ScrapRow
  BY DEF CallsMatch
<1>2. ScrapsStep
  BY ScrapsStepOf
<1>3. ASSUME NEW k \in DOMAIN scraps, NEW to \in ScrapStatuses,
             ScrapAccepts(scraps[k].status, to),
             scraps' = [scraps EXCEPT ![k] = Moved2(scraps[k], to)]
      PROVE  StagesPassed'
  <2>1. Passed(to) \subseteq scraps[k].stamps \cup ({to} \cap Stamps)
    BY <1>1, <1>3, MovePasses DEF StagesPassed
  <2>2. /\ DOMAIN scraps' = DOMAIN scraps
        /\ scraps'[k].status = to
        /\ scraps'[k].stamps = scraps[k].stamps \cup ({to} \cap Stamps)
        /\ \A j \in DOMAIN scraps : j # k => scraps'[j] = scraps[j]
    BY <1>1, <1>3, MoveStep
  <2>3. ASSUME NEW j \in DOMAIN scraps'
        PROVE  Passed(scraps'[j].status) \subseteq scraps'[j].stamps
    <3>1. CASE j = k
      BY <2>1, <2>2, <3>1
    <3>2. CASE j # k
      BY <2>2, <3>2 DEF StagesPassed
    <3> QED
      BY <3>1, <3>2
  <2> QED
    BY <2>3 DEF StagesPassed
<1>4. CASE ScrapInserted
  <2>1. PICK c \in Cars : scraps' = Append(scraps, Fresh(c))
    BY <1>4 DEF ScrapInserted
  <2>2. Passed(Fresh(c).status) = {}
    BY DEF Passed, Fresh
  <2> QED
    BY <1>1, <2>1, <2>2, InsertStep DEF StagesPassed
<1>5. "completed" \in ScrapStatuses
  BY DEF ScrapStatuses, ScrapGraph
<1> QED
  BY <1>2, <1>3, <1>4, <1>5 DEF ScrapsStep, ScrapMoved, ScrapCompleted, StagesPassed

(***************************************************************************)
(* No scrap is underway or completed without review, approval and          *)
(* scheduling: the trigger's graph has one way in, and a repeated request  *)
(* only stamps a stage its row is in.                                      *)
(***************************************************************************)
THEOREM UnderwayWasApproved == ScSpec => []ScrapUnderwayWasApproved
<1>1. ScInit => StagesPassed
  BY DEF ScInit, StagesPassed
<1>2. CallsMatch /\ StagesPassed => ScrapUnderwayWasApproved
  <2> SUFFICES ASSUME CallsMatch, StagesPassed, NEW k \in DOMAIN scraps,
                      scraps[k].status \in {"in_progress", "completed"}
               PROVE  scraps[k].stamps = Stamps
    BY DEF ScrapUnderwayWasApproved
  <2>1. scraps[k] \in ScrapRow /\ Passed(scraps[k].status) = Stamps
    BY DEF CallsMatch, Passed
  <2> QED
    BY <2>1 DEF StagesPassed, ScrapRow
<1> QED
  BY <1>1, <1>2, StagesStep, CallsAlwaysMatch, PTL DEF ScSpec

LEMMA FleetStep ==
    CallsMatch /\ DisposedIffScrapped /\ [ScNext]_scVars => DisposedIffScrapped'
<1> SUFFICES ASSUME CallsMatch, DisposedIffScrapped, ScNext PROVE DisposedIffScrapped'
  BY DEF scVars, seVars, sideVars, DisposedIffScrapped
<1>1. scraps \in Seq(ScrapRow)
  BY DEF CallsMatch
<1>2. ScrapsStep
  BY ScrapsStepOf
<1>3. CASE ScrapInserted
  <2>1. PICK c \in Cars : scraps' = Append(scraps, Fresh(c)) /\ UNCHANGED disposed
    BY <1>3 DEF ScrapInserted
  <2>2. Fresh(c).status # "completed"
    BY DEF Fresh
  <2> QED
    BY <1>1, <2>1, <2>2, InsertStep DEF DisposedIffScrapped
<1>4. CASE ScrapMoved
  <2>1. PICK k \in DOMAIN scraps, to \in ScrapStatuses \ {"completed"} :
          /\ ScrapAccepts(scraps[k].status, to)
          /\ scraps' = [scraps EXCEPT ![k] = Moved2(scraps[k], to)]
          /\ UNCHANGED disposed
    BY <1>4 DEF ScrapMoved
  <2>2. /\ DOMAIN scraps' = DOMAIN scraps
        /\ scraps'[k].status = to
        /\ \A j \in DOMAIN scraps : j # k => scraps'[j] = scraps[j]
    BY <1>1, <2>1, MoveStep
  <2>3. scraps[k].status # "completed"
    BY <2>1 DEF ScrapAccepts
  <2>4. \A j \in DOMAIN scraps, c \in Cars :
          scraps'[j].car = c /\ scraps'[j].status = "completed"
          <=> scraps[j].car = c /\ scraps[j].status = "completed"
    BY <2>2, <2>3
  <2> QED
    BY <2>1, <2>2, <2>4 DEF DisposedIffScrapped
<1>5. CASE ScrapCompleted
  <2>1. PICK k \in DOMAIN scraps :
          /\ scraps' = [scraps EXCEPT ![k] = Moved2(scraps[k], "completed")]
          /\ ScrapAccepts(scraps[k].status, "completed")
          /\ disposed' = disposed \cup {scraps[k].car}
    BY <1>5 DEF ScrapCompleted
  <2>2. "completed" \in ScrapStatuses
    BY DEF ScrapStatuses, ScrapGraph
  <2>3. /\ DOMAIN scraps' = DOMAIN scraps
        /\ scraps'[k].status = "completed" /\ scraps'[k].car = scraps[k].car
        /\ \A j \in DOMAIN scraps : j # k => scraps'[j] = scraps[j]
    BY <1>1, <2>1, <2>2, MoveStep
  <2>4. \A j \in DOMAIN scraps, c \in Cars :
          scraps'[j].car = c /\ scraps'[j].status = "completed"
          <=> (scraps[j].car = c /\ scraps[j].status = "completed") \/ (j = k /\ c = scraps[k].car)
    BY <2>1, <2>3 DEF ScrapAccepts
  <2> QED
    BY <2>1, <2>3, <2>4 DEF DisposedIffScrapped
<1>6. CASE UNCHANGED <<scraps, disposed>>
  BY <1>6 DEF DisposedIffScrapped
<1> QED
  BY <1>2, <1>3, <1>4, <1>5, <1>6 DEF ScrapsStep

(***************************************************************************)
(* R5: disposed cars and completed scraps are the same cars in every       *)
(* reachable state, crashes and failures included.                         *)
(***************************************************************************)
THEOREM DisposedMeansScrapped == ScSpec => []DisposedIffScrapped
<1>1. ScInit => DisposedIffScrapped
  BY DEF ScInit, SEInit, SideInit, DisposedIffScrapped
<1> QED
  BY <1>1, FleetStep, CallsAlwaysMatch, PTL DEF ScSpec

-----------------------------------------------------------------------------
(* The workflow implements Disposal.                                       *)

\* Row by row, the mapped table takes the same step.
LEMMA WorkFacts ==
    /\ DOMAIN Work = DOMAIN scraps
    /\ \A k \in DOMAIN scraps :
          Work[k] = WorkItem(scraps[k]) /\ Work[k].car = scraps[k].car
          /\ Work[k].stage = Stage(scraps[k].status)
BY DEF Work, WorkItem

LEMMA WorkAppended ==
    ASSUME scraps \in Seq(ScrapRow), NEW c \in Cars, scraps' = Append(scraps, Fresh(c))
    PROVE  Work' = Append(Work, [car |-> c, stage |-> "planned"])
<1> DEFINE item == [car |-> c, stage |-> "planned"]
<1>1. WorkItem(Fresh(c)) = item
  BY DEF WorkItem, Fresh, Stage
<1>2. /\ Len(scraps) \in Nat /\ DOMAIN scraps = 1..Len(scraps)
      /\ DOMAIN scraps' = 1..(Len(scraps) + 1)
      /\ \A k \in DOMAIN scraps : scraps'[k] = scraps[k]
      /\ scraps'[Len(scraps) + 1] = Fresh(c)
  BY FreshType, AppendProperties, LenProperties
<1> DEFINE n == Len(scraps)
<1> HIDE DEF n, item
<1>3. Work = [k \in 1..n |-> WorkItem(scraps[k])]
  BY <1>2 DEF Work, n
<1>4. Work' = [k \in 1..(n + 1) |-> WorkItem(scraps'[k])]
  BY <1>2 DEF Work, n
<1>5. n \in Nat
  BY <1>2 DEF n
<1> DEFINE Items == {WorkItem(scraps[k]) : k \in 1..n} \cup {item}
<1>6. Work \in Seq(Items) /\ Len(Work) = n
  BY <1>3, <1>5, SeqDef, LenProperties
<1> HIDE DEF Items
<1>7. Append(Work, item) = [k \in 1..(n + 1) |-> IF k = n + 1 THEN item ELSE Work[k]]
  <2>1. item \in Items
    BY DEF Items
  <2>2. /\ Append(Work, item) \in Seq(Items) /\ Len(Append(Work, item)) = n + 1
        /\ \A k \in 1..n : Append(Work, item)[k] = Work[k]
        /\ Append(Work, item)[n + 1] = item
    BY <1>5, <1>6, <2>1, AppendProperties
  <2>3. Append(Work, item) = [k \in 1..(n + 1) |-> Append(Work, item)[k]]
    BY <2>2, LenProperties
  <2>4. \A k \in 1..(n + 1) : Append(Work, item)[k] = IF k = n + 1 THEN item ELSE Work[k]
    BY <1>5, <2>2
  <2> QED
    BY <2>3, <2>4
<1>8. \A k \in 1..(n + 1) : WorkItem(scraps'[k]) = IF k = n + 1 THEN item ELSE Work[k]
  <2> SUFFICES ASSUME NEW k \in 1..(n + 1)
               PROVE  WorkItem(scraps'[k]) = IF k = n + 1 THEN item ELSE Work[k]
    OBVIOUS
  <2>1. CASE k = n + 1
    BY <1>1, <1>2, <2>1 DEF n
  <2>2. CASE k # n + 1
    <3>1. k \in 1..n
      BY <1>5, <2>2
    <3>2. scraps'[k] = scraps[k]
      BY <1>2, <3>1 DEF n
    <3> QED
      BY <1>3, <2>2, <3>1, <3>2
  <2> QED
    BY <2>1, <2>2
<1> QED
  BY <1>4, <1>7, <1>8 DEF item

LEMMA WorkMoved ==
    ASSUME scraps \in Seq(ScrapRow), NEW k \in DOMAIN scraps, NEW to \in ScrapStatuses,
           scraps' = [scraps EXCEPT ![k] = Moved2(scraps[k], to)]
    PROVE  Work' = [Work EXCEPT ![k].stage = Stage(to)]
<1>1. /\ DOMAIN scraps' = DOMAIN scraps
      /\ scraps'[k].status = to /\ scraps'[k].car = scraps[k].car
      /\ \A j \in DOMAIN scraps : j # k => scraps'[j] = scraps[j]
  BY MoveStep
<1>2. [Work[k] EXCEPT !.stage = Stage(to)] = WorkItem(scraps'[k])
  BY <1>1 DEF Work, WorkItem
<1>3. [Work EXCEPT ![k].stage = Stage(to)] =
        [j \in DOMAIN scraps |-> IF j = k THEN [Work[k] EXCEPT !.stage = Stage(to)] ELSE Work[j]]
  BY DEF Work
<1>4. Work' = [j \in DOMAIN scraps |-> WorkItem(scraps'[j])]
  BY <1>1 DEF Work
<1>5. \A j \in DOMAIN scraps :
        WorkItem(scraps'[j]) = IF j = k THEN [Work[k] EXCEPT !.stage = Stage(to)] ELSE Work[j]
  BY <1>1, <1>2, WorkFacts
<1> QED
  BY <1>3, <1>4, <1>5

\* What the graph means for the stages of Disposal.
LEMMA StageMoves ==
    ASSUME NEW from \in ScrapStatuses, NEW to \in ScrapStatuses, ScrapAccepts(from, to)
    PROVE  /\ to = "completed" => Stage(from) = "begun" /\ Stage(to) = "finished"
           /\ to # "completed" =>
                 \/ Stage(from) = Stage(to)
                 \/ Stage(from) = "planned" /\ Stage(to) \in {"dropped", "begun"}
BY DEF ScrapAccepts, ScrapGraph, ScrapStatuses, Stage

LEMMA DisposalStep ==
    CallsMatch /\ [ScNext]_scVars => [Promised!Next]_(Promised!dispVars)
<1> SUFFICES ASSUME CallsMatch, [ScNext]_scVars
             PROVE  Promised!Next \/ UNCHANGED <<Work, disposed>>
  BY DEF Promised!dispVars
<1>1. scraps \in Seq(ScrapRow) /\ \A k \in DOMAIN scraps : scraps[k] \in ScrapRow
  BY DEF CallsMatch
<1>2. CASE UNCHANGED <<scraps, disposed>>
  BY <1>2 DEF Work
<1>3. CASE ScrapInserted
  <2>1. PICK c \in Cars : scraps' = Append(scraps, Fresh(c)) /\ UNCHANGED disposed
    BY <1>3 DEF ScrapInserted
  <2>2. Promised!Plan(c)
    BY <1>1, <2>1, WorkAppended DEF Promised!Plan
  <2> QED
    BY <2>2 DEF Promised!Next
<1>4. CASE ScrapMoved
  <2>1. PICK k \in DOMAIN scraps, to \in ScrapStatuses \ {"completed"} :
          /\ ScrapAccepts(scraps[k].status, to)
          /\ scraps' = [scraps EXCEPT ![k] = Moved2(scraps[k], to)]
          /\ UNCHANGED disposed
    BY <1>4 DEF ScrapMoved
  <2>2. Work' = [Work EXCEPT ![k].stage = Stage(to)]
    BY <1>1, <2>1, WorkMoved
  <2>3. /\ k \in DOMAIN Work /\ Work[k].stage = Stage(scraps[k].status)
        /\ Work[k] = [car |-> scraps[k].car, stage |-> Stage(scraps[k].status)]
    BY WorkFacts DEF WorkItem
  <2>4. scraps[k].status \in ScrapStatuses
    BY <1>1 DEF ScrapRow
  <2>5. \/ Work[k].stage = Stage(to)
        \/ Work[k].stage = "planned" /\ Stage(to) \in {"dropped", "begun"}
    BY <2>1, <2>3, <2>4, StageMoves
  <2>6. CASE Work[k].stage = Stage(to)
    <3>1. [Work[k] EXCEPT !.stage = Stage(to)] = Work[k]
      BY <2>3, <2>6
    <3>2. Work' = Work
      BY <2>2, <3>1 DEF Work
    <3> QED
      BY <2>1, <3>2
  <2>7. CASE Work[k].stage = "planned" /\ Stage(to) \in {"dropped", "begun"}
    <3>1. Promised!Drop(k) \/ Promised!Begin(k)
      BY <2>1, <2>2, <2>7 DEF Promised!Drop, Promised!Begin, Promised!Advance
    <3> QED
      BY <2>3, <3>1 DEF Promised!Next
  <2> QED
    BY <2>5, <2>6, <2>7
<1>5. CASE ScrapCompleted
  <2>1. PICK k \in DOMAIN scraps :
          /\ ScrapAccepts(scraps[k].status, "completed")
          /\ scraps' = [scraps EXCEPT ![k] = Moved2(scraps[k], "completed")]
          /\ disposed' = disposed \cup {scraps[k].car}
    BY <1>5 DEF ScrapCompleted
  <2>2. "completed" \in ScrapStatuses /\ scraps[k].status \in ScrapStatuses
    BY <1>1 DEF ScrapRow, ScrapStatuses, ScrapGraph
  <2>3. Stage(scraps[k].status) = "begun" /\ Stage("completed") = "finished"
    BY <2>1, <2>2, StageMoves
  <2>4. Work' = [Work EXCEPT ![k].stage = "finished"]
    BY <1>1, <2>1, <2>2, <2>3, WorkMoved
  <2>5. k \in DOMAIN Work /\ Work[k].stage = "begun" /\ Work[k].car = scraps[k].car
    BY <2>3, WorkFacts
  <2>6. Promised!Finish(k)
    BY <2>1, <2>4, <2>5 DEF Promised!Finish, Promised!Advance
  <2> QED
    BY <2>5, <2>6 DEF Promised!Next
<1>6. ScrapsStep
  BY ScrapsStepOf DEF scVars, seVars, sideVars, ScrapsStep
<1> QED
  BY <1>2, <1>3, <1>4, <1>5, <1>6 DEF ScrapsStep

(***************************************************************************)
(* The detailed workflow implements Disposal: every step of every request  *)
(* is one step of the promise, or none.                                    *)
(***************************************************************************)
THEOREM ScrapImplementsDisposal == ScSpec => DisposalKept
<1>1. ScInit => Promised!Init
  <2> SUFFICES ASSUME ScInit PROVE Work = <<>> /\ disposed = {}
    BY DEF Promised!Init
  <2>1. scraps = <<>> /\ disposed = {}
    BY DEF ScInit, SEInit, SideInit
  <2> QED
    BY <2>1 DEF Work
<1> QED
  BY <1>1, DisposalStep, CallsAlwaysMatch, PTL DEF ScSpec, DisposalKept, Promised!Spec

-----------------------------------------------------------------------------
(* What is owed to planners.                                               *)

(***************************************************************************)
(* S8 beside the scraps: no step of a scrap request ends the promise of a  *)
(* triage entry, though a completed scrap may end the entry it made.       *)
(***************************************************************************)
THEOREM StorageReturnsAreOwedBesideScraps ==
    ASSUME ~Faults
    PROVE  ScSpec => StorageReturnIsOwed
BY ScrapKeepsShoppingEvents, StorageReturnsAreOwed, PTL DEF ShoppingEventKept

(***************************************************************************)
(* The request that cancelled a scrap does nothing else before its car has *)
(* an open entry in the triage queue.                                      *)
(***************************************************************************)
LEMMA RetriageEnds ==
    ASSUME SETypeOK, CallsMatch, ScNext, ~Faults,
           NEW s \in ScrapProcs, scrapCalls[s].pc = "retriage",
           NEW c, c = scrapCalls[s].car
    PROVE  scrapCalls'[s] = scrapCalls[s] \/ OpenEntries(c)' # {}
<1>1. scrapCalls \in [ScrapProcs -> ScrapCall \cup {NoScrapCall}] /\ c \in Cars
  BY InFlight DEF CallsMatch, ScrapCall
<1>2. ASSUME UNCHANGED scrapCalls
      PROVE  scrapCalls'[s] = scrapCalls[s]
  BY <1>2
<1>3. ASSUME NEW r \in ScrapProcs, NEW x, scrapCalls' = [scrapCalls EXCEPT ![r] = x], r # s
      PROVE  scrapCalls'[s] = scrapCalls[s]
  BY <1>1, <1>3
<1>4. ASSUME NEW r \in ScrapProcs, ScrapRequest(r)
      PROVE  scrapCalls'[s] = scrapCalls[s]
  <2>1. r # s
    BY <1>4 DEF ScrapRequest, StartProposal, StartComplete, StartCancel, Routed
  <2> QED
    BY <1>3, <1>4, <2>1 DEF ScrapRequest, StartProposal, StartComplete, StartCancel, Routed
<1>5. ASSUME NEW r \in ScrapProcs, ScrapCallStep(r), r # s
      PROVE  scrapCalls'[s] = scrapCalls[s]
  <2>1. ReadTriage(r) => scrapCalls'[s] = scrapCalls[s]
    BY <1>1, <1>5 DEF ReadTriage
  <2>2. ASSUME NEW pc, ScrapGoto(r, pc)
        PROVE  scrapCalls'[s] = scrapCalls[s]
    BY <1>1, <1>5, <2>2 DEF ScrapGoto
  <2>3. ScrapReturn(r) => scrapCalls'[s] = scrapCalls[s]
    BY <1>3, <1>5 DEF ScrapReturn
  <2> QED
    BY <1>5, <2>1, <2>2, <2>3 DEF ScrapCallStep, CheckProposal, InsertScrap, CompleteScrap,
       CancelScrap, RetriageCancelled
<1>6. ASSUME ScrapCallStep(s)
      PROVE  OpenEntries(c)' # {}
  <2>1. RetriageCancelled(s)
    BY <1>6 DEF ScrapCallStep, ReadTriage, CheckProposal, AfterCheck, InsertScrap, CompleteScrap,
       CancelScrap
  <2>2. InsertTriage(c) /\ SideTypeOK
    BY <2>1 DEF RetriageCancelled, SETypeOK
  <2> QED
    BY <1>1, <2>2, InsertTriages
<1>7. ~(\E r \in ScrapProcs : ScrapCallFails(r)) /\ ~ScCrash
  BY DEF ScrapCallFails, ScCrash, Crash
<1>8. ASSUME NEW k \in DOMAIN scraps, NEW to \in ScrapRequests, TransitionScrap(k, to)
      PROVE  UNCHANGED scrapCalls
  BY <1>8 DEF TransitionScrap
<1> QED
  BY <1>2, <1>4, <1>5, <1>6, <1>7, <1>8 DEF ScNext

(***************************************************************************)
(* A step that cancels a scrap leaves a request that will tell a planner.  *)
(***************************************************************************)
LEMMA CancelOwes ==
    ASSUME CallsMatch, ScNext, NEW k \in DOMAIN scraps, scraps'[k].status = "cancelled"
    PROVE  /\ scraps'[k].car = scraps[k].car
           /\ \/ scraps[k].status = "cancelled"
              \/ \E s \in ScrapProcs : scrapCalls'[s].pc = "retriage" /\ scrapCalls'[s].k = k
<1> DEFINE Owes ==
        /\ scraps'[k].car = scraps[k].car
        /\ \/ scraps[k].status = "cancelled"
           \/ \E s \in ScrapProcs : scrapCalls'[s].pc = "retriage" /\ scrapCalls'[s].k = k
<1>1. scraps \in Seq(ScrapRow)
  BY DEF CallsMatch
<1>2. UNCHANGED scraps => Owes
  OBVIOUS
<1>3. ASSUME NEW j \in DOMAIN scraps, NEW to \in ScrapStatuses \ {"cancelled"}, ScrapUpdate(j, to)
      PROVE  Owes
  BY <1>1, <1>3, UpdateMoves, MoveStep
<1>4. ASSUME NEW s \in ScrapProcs, InsertScrap(s)
      PROVE  Owes
  <2>1. scrapCalls[s].car \in Cars
    BY <1>4, InFlight DEF InsertScrap, ScrapCall
  <2>2. scraps' = Append(scraps, Fresh(scrapCalls[s].car))
    BY <1>4 DEF InsertScrap, Fresh
  <2>3. Fresh(scrapCalls[s].car).status # "cancelled"
    BY DEF Fresh
  <2> QED
    BY <1>1, <2>1, <2>2, <2>3, InsertStep
<1>5. ASSUME NEW s \in ScrapProcs, CompleteScrap(s)
      PROVE  Owes
  <2>1. scrapCalls[s].k \in DOMAIN scraps
    BY <1>5 DEF CompleteScrap, CallsMatch, RowCall
  <2>2. "completed" \in ScrapStatuses \ {"cancelled"}
    BY DEF ScrapStatuses, ScrapGraph
  <2> QED
    BY <1>2, <1>3, <1>5, <2>1, <2>2 DEF CompleteScrap
<1>6. ASSUME NEW s \in ScrapProcs, CancelScrap(s)
      PROVE  Owes
  <2> DEFINE j == scrapCalls[s].k
  <2>1. j \in DOMAIN scraps /\ "cancelled" \in ScrapStatuses
    BY <1>6 DEF CancelScrap, CallsMatch, RowCall, ScrapStatuses, ScrapGraph
  <2>2. CASE UNCHANGED scraps
    BY <1>2, <2>2
  <2>3. CASE ScrapUpdate(j, "cancelled") /\ ScrapGoto(s, "retriage")
    <3>1. DOMAIN scraps' = DOMAIN scraps /\ scraps'[j].car = scraps[j].car
          /\ \A i \in DOMAIN scraps : i # j => scraps'[i] = scraps[i]
      BY <1>1, <2>1, <2>3, UpdateMoves, MoveStep
    <3>2. scrapCalls[s] \in ScrapCall
      BY <1>6, InFlight DEF CancelScrap
    <3>3. scrapCalls'[s] = [scrapCalls[s] EXCEPT !.pc = "retriage"]
      BY <2>3 DEF ScrapGoto, CallsMatch
    <3>4. scrapCalls'[s].pc = "retriage" /\ scrapCalls'[s].k = j
      BY <3>2, <3>3 DEF ScrapCall
    <3> QED
      BY <3>1, <3>4
  <2> QED
    BY <1>6, <2>2, <2>3 DEF CancelScrap
<1>7. ASSUME NEW j \in DOMAIN scraps, NEW to \in ScrapRequests, TransitionScrap(j, to)
      PROVE  Owes
  <2>1. to \in ScrapStatuses \ {"cancelled"} /\ ScrapUpdate(j, to)
    BY <1>7, ScrapAssumption DEF TransitionScrap, ScrapTerminal
  <2> QED
    BY <1>3, <2>1
<1> HIDE DEF Owes
<1>8. ASSUME NEW s \in ScrapProcs, ScrapRequest(s) \/ ScrapCallFails(s)
      PROVE  Owes
  BY <1>2, <1>8 DEF ScrapRequest, StartProposal, StartComplete, StartCancel, Routed, ScrapCallFails
<1>9. ASSUME NEW s \in ScrapProcs, ReadTriage(s) \/ CheckProposal(s) \/ RetriageCancelled(s)
      PROVE  Owes
  BY <1>2, <1>9 DEF ReadTriage, CheckProposal, RetriageCancelled
<1>10. ScCrash => Owes
  BY <1>2 DEF ScCrash
<1>11. Owes
  BY <1>2, <1>4, <1>5, <1>6, <1>7, <1>8, <1>9, <1>10 DEF ScNext, ScrapCallStep
<1> QED
  BY <1>11 DEF Owes

(***************************************************************************)
(* S6 as what no step may do, for any number of requests and scraps: while *)
(* nothing fails, the step that cancels a scrap leaves a request that will *)
(* see to its car, and the request ends only by a step after which the car *)
(* has an open entry, whatever is done to the car, its events and its      *)
(* entries between the two statements of the cancellation.                 *)
(***************************************************************************)
THEOREM CancelledScrapsAreOwed ==
    ASSUME ~Faults
    PROVE  ScSpec => CancelledScrapIsOwed
<1> DEFINE Starts ==
              \A k \in DOMAIN scraps :
                 scraps[k].status # "cancelled" /\ scraps'[k].status = "cancelled"
                    => \E s \in ScrapProcs : Retriages(s, scraps[k].car)'
           Stays ==
              \A s \in ScrapProcs, c \in Cars :
                 Retriages(s, c) => Retriages(s, c)' \/ OpenEntries(c)' # {}
<1>1. CallsMatch /\ CallsMatch' /\ [ScNext]_scVars => [Starts]_scVars
  <2> SUFFICES ASSUME CallsMatch, CallsMatch', ScNext, NEW k \in DOMAIN scraps,
                      scraps[k].status # "cancelled", scraps'[k].status = "cancelled"
               PROVE  \E s \in ScrapProcs : Retriages(s, scraps[k].car)'
    OBVIOUS
  <2>1. PICK s \in ScrapProcs : scrapCalls'[s].pc = "retriage" /\ scrapCalls'[s].k = k
    BY CancelOwes
  <2>2. scrapCalls'[s].car = scraps'[k].car
    BY <2>1 DEF CallsMatch, RowCall
  <2>3. scraps'[k].car = scraps[k].car
    BY CancelOwes
  <2> QED
    BY <2>1, <2>2, <2>3 DEF Retriages
<1>2. SETypeOK /\ CallsMatch /\ [ScNext]_scVars => [Stays]_scVars
  <2> SUFFICES ASSUME SETypeOK, CallsMatch, ScNext, NEW s \in ScrapProcs, NEW c \in Cars,
                      Retriages(s, c)
               PROVE  Retriages(s, c)' \/ OpenEntries(c)' # {}
    OBVIOUS
  <2>1. scrapCalls'[s] = scrapCalls[s] \/ OpenEntries(c)' # {}
    BY RetriageEnds DEF Retriages
  <2> QED
    BY <2>1 DEF Retriages
<1>3. ScSpec => []SETypeOK
  BY ScrapKeepsShoppingEvents, SETypeCorrect, PTL DEF ShoppingEventKept
<1>4. ScSpec => [](CallsMatch /\ SETypeOK)
  BY <1>3, CallsAlwaysMatch, PTL
<1> QED
  BY <1>1, <1>2, <1>4, PTL DEF ScSpec, CancelledScrapIsOwed
=============================================================================
