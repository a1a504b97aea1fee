------------------------- MODULE ShopWorkflowProofs -------------------------
(***************************************************************************)
(* Proofs about ShopWorkflow, for any numbers of events, versions and      *)
(* concurrent requests, any states clients ask for, with failures.         *)
(***************************************************************************)
EXTENDS ShopWorkflow, SequenceTheorems, TLAPS

(***************************************************************************)
(* The argument: what a gate saw becomes history before the UPDATE of the  *)
(* state comes.  A request past its gate relies on the history only, which *)
(* no later rejection or submission changes.                               *)
(***************************************************************************)
WasApproved(w) == \E n \in DOMAIN w.estimates : w.estimates[n].approvedOnce
WasNewest(w) == \E n \in DOMAIN w.estimates : w.estimates[n].newestOnce

\* An approved estimate is so in its history, and if it is the newest, as that.
Recorded(est) ==
    \A n \in DOMAIN est : est[n].status = "approved" =>
       /\ est[n].approvedOnce
       /\ n = Len(est) => est[n].newestOnce

Earned(w, to) ==
    /\ to \in Authorized => WasApproved(w)
    /\ to \in FinalGated => WasNewest(w)
Promised(w, to) ==
    /\ to = "WORK_AUTHORIZED" => WasApproved(w)
    /\ to \in FinalGated => WasNewest(w)

RowOK(w) == Recorded(w.estimates) /\ Earned(w, w.state)

Moving == {"unmoved", "target", "begin", "payers", "read", "update", "log"}
PastGate == {"payers", "read", "update"}
CallOK(ws, call) ==
    call.pc \in Moving =>
       /\ call.event \in DOMAIN ws
       /\ call.pc \in {"unmoved", "target"} => ws[call.event].logged # NoRow
       /\ call.pc \in PastGate => Promised(ws[call.event], call.to)

WfInv ==
    /\ WfTypeOK
    /\ \A e \in DOMAIN workflows : RowOK(workflows[e])
    /\ \A p \in WfProcs : CallOK(workflows, wfCalls[p])

\* What an event may become: its history and its log only grow.
Later(w, w2) ==
    /\ w.logged # NoRow => w2.logged # NoRow
    /\ WasApproved(w) => WasApproved(w2)
    /\ WasNewest(w) => WasNewest(w2)
Grows(ws, ws2) ==
    \A e \in DOMAIN ws : e \in DOMAIN ws2 /\ Later(ws[e], ws2[e])

LEMMA Persists ==
    ASSUME NEW ws, NEW ws2, NEW call, CallOK(ws, call), Grows(ws, ws2)
    PROVE  CallOK(ws2, call)
BY DEF CallOK, Grows, Later, Promised

-----------------------------------------------------------------------------
(* The records of the requests.                                            *)

LEMMA Calls ==
    ASSUME NEW call \in WfCall
    PROVE  /\ call.pc \in {"unmoved", "target", "begin", "payers", "read"} =>
                call \in [pc: {"unmoved", "target", "begin", "payers", "read"},
                          event: Nat, to: WfStates]
           /\ call.pc \in {"update", "log"} =>
                call \in [pc: {"update", "log"}, event: Nat, to: WfStates, from: WfStates]
           /\ call.pc \in {"number", "insert"} => call \in CreateCall
BY DEF WfCall, TransitionCall, CreateCall, WfIdle

LEMMA Ordinary ==
    ASSUME WfTypeOK, NEW e \in DOMAIN workflows
    PROVE  /\ workflows[e] \in Workflow
           /\ e \in 1..Len(workflows)
           /\ e \in Nat
           /\ workflows[e].estimates \in Seq(Submission)
           /\ DOMAIN workflows[e].estimates = 1..Len(workflows[e].estimates)
<1>1. DOMAIN workflows = 1..Len(workflows) /\ Len(workflows) \in Nat
  BY LenProperties DEF WfTypeOK
<1>2. workflows[e] \in Workflow
  BY <1>1, ElementOfSeq DEF WfTypeOK
<1>3. workflows[e].estimates \in Seq(Submission)
  BY <1>2 DEF Workflow
<1> QED
  BY <1>1, <1>2, <1>3, LenProperties

\* A request goes on and the tables stay.
LEMMA CallStep ==
    ASSUME WfInv, NEW p \in WfProcs, NEW call \in WfCall, CallOK(workflows, call),
           Goes(p, call), UNCHANGED workflows
    PROVE  WfInv'
<1>1. wfCalls' = [wfCalls EXCEPT ![p] = call] /\ wfCalls \in [WfProcs -> WfCall]
  BY DEF Goes, WfInv, WfTypeOK
<1>2. WfTypeOK'
  BY <1>1 DEF WfInv, WfTypeOK
<1>3. ASSUME NEW q \in WfProcs
      PROVE  CallOK(workflows, wfCalls'[q])
  BY <1>1 DEF WfInv
<1> QED
  BY <1>2, <1>3 DEF WfInv

LEMMA EndStep ==
    ASSUME WfInv, NEW p \in WfProcs, Ends(p), UNCHANGED workflows
    PROVE  WfInv'
<1>1. WfIdle \in WfCall /\ CallOK(workflows, WfIdle)
  BY DEF WfCall, WfIdle, CallOK, Moving
<1> QED
  BY <1>1, CallStep DEF Ends

\* The tables change, and a request perhaps.
LEMMA TableStep ==
    ASSUME WfInv, workflows' \in Seq(Workflow), Grows(workflows, workflows'),
           \A e \in DOMAIN workflows' : RowOK(workflows'[e]),
           wfCalls' \in [WfProcs -> WfCall],
           \A p \in WfProcs :
              wfCalls'[p] = wfCalls[p] \/ CallOK(workflows', wfCalls'[p])
    PROVE  WfInv'
<1>1. \A p \in WfProcs : CallOK(workflows', wfCalls'[p])
  BY Persists DEF WfInv
<1> QED
  BY <1>1 DEF WfInv, WfTypeOK

LEMMA RowStep ==
    ASSUME WfInv, NEW e \in DOMAIN workflows, NEW w \in Workflow,
           workflows' = [workflows EXCEPT ![e] = w],
           RowOK(w), Later(workflows[e], w),
           wfCalls' \in [WfProcs -> WfCall],
           \A p \in WfProcs :
              wfCalls'[p] = wfCalls[p] \/ CallOK(workflows', wfCalls'[p])
    PROVE  WfInv'
<1>1. workflows \in Seq(Workflow) /\ DOMAIN workflows = 1..Len(workflows)
  BY LenProperties DEF WfInv, WfTypeOK
<1>2. /\ workflows' \in Seq(Workflow)
      /\ DOMAIN workflows' = DOMAIN workflows
      /\ \A f \in DOMAIN workflows : workflows'[f] = IF f = e THEN w ELSE workflows[f]
  BY <1>1, ExceptSeq
<1>3. Grows(workflows, workflows')
  BY <1>2 DEF Grows, Later
<1>4. \A f \in DOMAIN workflows' : RowOK(workflows'[f])
  BY <1>2 DEF WfInv
<1> QED
  BY <1>2, <1>3, <1>4, TableStep

LEMMA NewWorkflowType ==
    ASSUME NEW c \in WfCars
    PROVE  NewWorkflow(c) \in Workflow
<1>1. <<>> \in Seq(Submission)
  BY EmptySeq
<1>2. "REQUESTED" \in WfStates
  BY DEF WfStates, Graph
<1> QED
  BY <1>1, <1>2 DEF NewWorkflow, Workflow

LEMMA AppendStep ==
    ASSUME WfInv, NEW c \in WfCars, workflows' = Append(workflows, NewWorkflow(c)),
           wfCalls' \in [WfProcs -> WfCall],
           \A p \in WfProcs : wfCalls'[p] = wfCalls[p] \/ wfCalls'[p] = WfIdle
    PROVE  WfInv'
<1> DEFINE w == NewWorkflow(c)
<1>1. w \in Workflow
  BY NewWorkflowType
<1>2. RowOK(w)
  <2>1. w.estimates = <<>> /\ w.state = "REQUESTED"
    BY DEF NewWorkflow
  <2>2. DOMAIN w.estimates = {}
    BY <2>1
  <2> QED
    BY <2>1, <2>2 DEF RowOK, Recorded, Earned, Authorized, FinalGated
<1>3. workflows \in Seq(Workflow) /\ DOMAIN workflows = 1..Len(workflows) /\ Len(workflows) \in Nat
  BY LenProperties DEF WfInv, WfTypeOK
<1>4. /\ workflows' \in Seq(Workflow)
      /\ Len(workflows') = Len(workflows) + 1
      /\ \A e \in 1..Len(workflows) : workflows'[e] = workflows[e]
      /\ workflows'[Len(workflows) + 1] = w
  BY <1>1, <1>3, AppendProperties
<1>5. DOMAIN workflows' = 1..(Len(workflows) + 1)
  BY <1>4, LenProperties
<1>6. Grows(workflows, workflows')
  BY <1>3, <1>4, <1>5 DEF Grows, Later
<1>7. \A e \in DOMAIN workflows' : RowOK(workflows'[e])
  BY <1>2, <1>3, <1>4, <1>5 DEF WfInv
<1>8. \A p \in WfProcs : wfCalls'[p] = WfIdle => CallOK(workflows', wfCalls'[p])
  BY DEF CallOK, WfIdle, Moving
<1> QED
  BY <1>4, <1>6, <1>7, <1>8, TableStep

-----------------------------------------------------------------------------
(* The gates, and the statements of a transition.                          *)

LEMMA GatePromises ==
    ASSUME WfInv, NEW e \in DOMAIN workflows, NEW to, GateOpen(e, to)
    PROVE  Promised(workflows[e], to)
<1>1. Recorded(workflows[e].estimates)
  BY DEF WfInv, RowOK
<1>2. CASE to = "WORK_AUTHORIZED"
  <2>1. PICK n \in DOMAIN workflows[e].estimates : workflows[e].estimates[n].status = "approved"
    BY <1>2 DEF GateOpen, HasApproved
  <2>2. WasApproved(workflows[e])
    BY <1>1, <2>1 DEF Recorded, WasApproved
  <2> QED
    BY <1>2, <2>2 DEF Promised, FinalGated
<1>3. CASE to \in FinalGated
  <2>1. PICK n \in DOMAIN workflows[e].estimates :
           workflows[e].estimates[n].status = "approved" /\ IsNewest(e, n)
    BY <1>3 DEF GateOpen, NewestApproved
  <2>2. WasNewest(workflows[e])
    BY <1>1, <2>1 DEF Recorded, WasNewest, IsNewest
  <2> QED
    BY <1>3, <2>2 DEF Promised, FinalGated
<1> QED
  BY <1>2, <1>3 DEF Promised

LEMMA ReadStateKeeps ==
    ASSUME WfInv, NEW p \in WfProcs, NEW e \in DOMAIN workflows, NEW to \in WfStates,
           Promised(workflows[e], to), ReadState(p, e, to), UNCHANGED workflows
    PROVE  WfInv'
<1> DEFINE call == [pc |-> "update", event |-> e, to |-> to, from |-> workflows[e].state]
<1>1. e \in Nat /\ workflows[e].state \in WfStates
  BY Ordinary DEF WfInv, Workflow
<1>2. call \in WfCall
  BY <1>1 DEF WfCall, TransitionCall
<1>3. CallOK(workflows, call)
  BY DEF CallOK
<1>4. Goes(p, call)
  BY DEF ReadState
<1> QED
  BY <1>2, <1>3, <1>4, CallStep

LEMMA BeginKeeps ==
    ASSUME WfInv, NEW p \in WfProcs, NEW e \in DOMAIN workflows, NEW to \in WfStates,
           Begin(p, e, to), UNCHANGED workflows
    PROVE  WfInv'
<1>1. CASE to \notin Gated
  <2>1. Promised(workflows[e], to)
    BY <1>1 DEF Promised, Gated
  <2> QED
    BY <1>1, <2>1, ReadStateKeeps DEF Begin
<1>2. CASE to \in Gated /\ GateOpen(e, to)
  <2> DEFINE call == [pc |-> IF to \in PayerGated THEN "payers" ELSE "read",
                      event |-> e, to |-> to]
  <2>1. e \in Nat
    BY Ordinary DEF WfInv
  <2>2. call \in WfCall
    BY <2>1 DEF WfCall, TransitionCall
  <2>3. CallOK(workflows, call)
    BY <1>2, GatePromises DEF CallOK
  <2>4. Goes(p, call)
    BY <1>2 DEF Begin, CheckGate
  <2> QED
    BY <2>2, <2>3, <2>4, CallStep
<1>3. CASE to \in Gated /\ ~GateOpen(e, to)
  BY <1>3, EndStep DEF Begin, CheckGate
<1> QED
  BY <1>1, <1>2, <1>3

LEMMA InFlight ==
    ASSUME WfInv, NEW p \in WfProcs
    PROVE  /\ wfCalls[p] \in WfCall
           /\ CallOK(workflows, wfCalls[p])
BY DEF WfInv, WfTypeOK

LEMMA StartTransitionKeeps ==
    ASSUME WfInv, NEW p \in WfProcs, NEW e \in DOMAIN workflows,
           NEW to \in WfTargets[workflows[e].state], StartTransition(p, e, to)
    PROVE  WfInv'
<1>1. to \in WfStates
  BY Ordinary, WorkflowAssumption DEF WfInv, Workflow
<1> QED
  BY <1>1, BeginKeeps DEF StartTransition

LEMMA StartReversalKeeps ==
    ASSUME WfInv, NEW p \in WfProcs, StartReversal(p)
    PROVE  WfInv'
<1>1. wfCalls[p].pc = "begin" /\ UNCHANGED workflows
  BY DEF StartReversal, At
<1>2. wfCalls[p].event \in DOMAIN workflows /\ wfCalls[p].to \in WfStates
  BY <1>1, InFlight, Calls DEF CallOK, Moving
<1> QED
  BY <1>1, <1>2, BeginKeeps DEF StartReversal

LEMMA ReadAfterGateKeeps ==
    ASSUME WfInv, NEW p \in WfProcs, ReadAfterGate(p)
    PROVE  WfInv'
<1>1. wfCalls[p].pc = "read" /\ UNCHANGED workflows
  BY DEF ReadAfterGate, At
<1>2. /\ wfCalls[p].event \in DOMAIN workflows /\ wfCalls[p].to \in WfStates
      /\ Promised(workflows[wfCalls[p].event], wfCalls[p].to)
  BY <1>1, InFlight, Calls DEF CallOK, Moving, PastGate
<1> QED
  BY <1>1, <1>2, ReadStateKeeps DEF ReadAfterGate

LEMMA CheckPayersKeeps ==
    ASSUME WfInv, NEW p \in WfProcs, CheckPayers(p)
    PROVE  WfInv'
<1> DEFINE call == [wfCalls[p] EXCEPT !.pc = "read"]
<1>1. wfCalls[p].pc = "payers" /\ UNCHANGED workflows
  BY DEF CheckPayers, At
<1>2. wfCalls[p] \in [pc: {"unmoved", "target", "begin", "payers", "read"},
                      event: Nat, to: WfStates]
  BY <1>1, InFlight, Calls
<1>3. call \in WfCall
  BY <1>2 DEF WfCall, TransitionCall
<1>4. /\ wfCalls[p].event \in DOMAIN workflows
      /\ Promised(workflows[wfCalls[p].event], wfCalls[p].to)
  BY <1>1, InFlight DEF CallOK, Moving, PastGate
<1>5. call.pc = "read" /\ call.event = wfCalls[p].event /\ call.to = wfCalls[p].to
  BY <1>2
<1>6. CallOK(workflows, call)
  BY <1>4, <1>5 DEF CallOK
<1> QED
  BY <1>1, <1>3, <1>6, CallStep, EndStep DEF CheckPayers

\* The UPDATE writes a state the gate or the state before it has earned.
LEMMA AcceptedIsEarned ==
    ASSUME NEW w \in Workflow, Earned(w, w.state), NEW to \in WfStates,
           Promised(w, to), Accepts(w.state, to)
    PROVE  Earned(w, to)
BY DEF Earned, Promised, Accepts, Graph, Authorized, FinalGated, Workflow, WfStates

\* An event in another state, with the history it has.
LEMMA StateWritten ==
    ASSUME WfInv, NEW e \in DOMAIN workflows, NEW to \in WfStates,
           Earned(workflows[e], to)
    PROVE  /\ [workflows[e] EXCEPT !.state = to] \in Workflow
           /\ RowOK([workflows[e] EXCEPT !.state = to])
           /\ Later(workflows[e], [workflows[e] EXCEPT !.state = to])
<1> DEFINE w == [workflows[e] EXCEPT !.state = to]
<1>1. workflows[e] \in Workflow
  BY Ordinary DEF WfInv
<1>2. w \in Workflow
  BY <1>1 DEF Workflow
<1>3. w.estimates = workflows[e].estimates /\ w.state = to /\ w.logged = workflows[e].logged
  BY <1>1 DEF Workflow
<1>4. Later(workflows[e], w)
  BY <1>3 DEF Later, WasApproved, WasNewest
<1>5. RowOK(w)
  BY <1>3 DEF WfInv, RowOK, Earned, WasApproved, WasNewest
<1> QED
  BY <1>2, <1>4, <1>5

LEMMA UpdateStateKeeps ==
    ASSUME WfInv, NEW p \in WfProcs, UpdateState(p)
    PROVE  WfInv'
<1> DEFINE e == wfCalls[p].event
           to == wfCalls[p].to
           call == [wfCalls[p] EXCEPT !.pc = "log"]
           w == [workflows[e] EXCEPT !.state = to]
<1>1. wfCalls[p].pc = "update"
  BY DEF UpdateState, At
<1>2. wfCalls[p] \in [pc: {"update", "log"}, event: Nat, to: WfStates, from: WfStates]
  BY <1>1, InFlight, Calls
<1>3. e \in DOMAIN workflows /\ Promised(workflows[e], to)
  BY <1>1, InFlight DEF CallOK, Moving, PastGate
<1>4. CASE Accepts(workflows[e].state, to)
  <2>1. workflows[e] \in Workflow /\ Earned(workflows[e], workflows[e].state)
    BY <1>3, Ordinary DEF WfInv, RowOK
  <2>2. Earned(workflows[e], to)
    BY <1>2, <1>3, <1>4, <2>1, AcceptedIsEarned
  <2>3. w \in Workflow /\ RowOK(w) /\ Later(workflows[e], w)
    BY <1>2, <1>3, <2>2, StateWritten
  <2>4. workflows' = [workflows EXCEPT ![e] = w] /\ Goes(p, call)
    BY <1>4 DEF UpdateState
  <2>5. call \in WfCall /\ call.pc = "log" /\ call.event = e
    BY <1>2 DEF WfCall, TransitionCall
  <2>6. wfCalls' \in [WfProcs -> WfCall] /\ \A q \in WfProcs : q # p => wfCalls'[q] = wfCalls[q]
    BY <2>4, <2>5 DEF Goes, WfInv, WfTypeOK
  <2>7. wfCalls'[p] = call
    BY <2>4 DEF Goes, WfInv, WfTypeOK
  <2>8. DOMAIN workflows' = DOMAIN workflows
    BY <2>4
  <2>9. CallOK(workflows', call)
    BY <1>3, <2>5, <2>8 DEF CallOK, PastGate
  <2> HIDE DEF e, w, call
  <2> QED
    BY <1>3, <2>3, <2>4, <2>6, <2>7, <2>9, RowStep
<1>5. CASE ~Accepts(workflows[e].state, to)
  BY <1>5, EndStep DEF UpdateState
<1> QED
  BY <1>4, <1>5

LEMMA LogTransitionKeeps ==
    ASSUME WfInv, NEW p \in WfProcs, LogTransition(p)
    PROVE  WfInv'
<1> DEFINE e == wfCalls[p].event
           from == wfCalls[p].from
           to == wfCalls[p].to
           row == [from |-> from, to |-> to, reversible |-> <<from, to>> \in Reversible]
           w == [workflows[e] EXCEPT !.logged = row]
<1>1. wfCalls[p].pc = "log"
  BY DEF LogTransition, At
<1>2. from \in WfStates /\ to \in WfStates
  BY <1>1, InFlight, Calls
<1>3. e \in DOMAIN workflows
  BY <1>1, InFlight DEF CallOK, Moving
<1>4. workflows[e] \in Workflow
  BY <1>3, Ordinary DEF WfInv
<1>5. row \in LogRow
  BY <1>2 DEF LogRow
<1>6. row # NoRow
  BY <1>2 DEF NoRow, WfStates, Graph
<1>7. w \in Workflow
  BY <1>4, <1>5 DEF Workflow
<1>8. w.estimates = workflows[e].estimates /\ w.state = workflows[e].state /\ w.logged = row
  BY <1>4 DEF Workflow
<1>9. Later(workflows[e], w)
  BY <1>6, <1>8 DEF Later, WasApproved, WasNewest
<1>10. RowOK(w)
  BY <1>3, <1>8 DEF WfInv, RowOK, Earned, WasApproved, WasNewest
<1>11. workflows' = [workflows EXCEPT ![e] = w] /\ Ends(p)
  BY DEF LogTransition
<1>12. WfIdle \in WfCall /\ CallOK(workflows', WfIdle)
  BY DEF WfCall, WfIdle, CallOK, Moving
<1>13. /\ wfCalls' \in [WfProcs -> WfCall]
       /\ \A q \in WfProcs : wfCalls'[q] = wfCalls[q] \/ CallOK(workflows', wfCalls'[q])
  BY <1>11, <1>12 DEF Ends, Goes, WfInv, WfTypeOK
<1> HIDE DEF e, w
<1> QED
  BY <1>3, <1>7, <1>9, <1>10, <1>11, <1>13, RowStep

-----------------------------------------------------------------------------
(* Reverts and creations.                                                  *)

LEMMA StartRevertKeeps ==
    ASSUME WfInv, NEW p \in WfProcs, NEW e \in DOMAIN workflows, StartRevert(p, e)
    PROVE  WfInv'
<1> DEFINE call == [pc |-> "unmoved", event |-> e, to |-> workflows[e].logged.to]
<1>1. workflows[e].logged \in LogRow /\ e \in Nat
  BY Ordinary DEF WfInv, Workflow, StartRevert
<1>2. call \in WfCall
  BY <1>1 DEF LogRow, WfCall, TransitionCall
<1>3. CallOK(workflows, call)
  BY DEF CallOK, PastGate, StartRevert
<1>4. Goes(p, call) /\ UNCHANGED workflows
  BY DEF StartRevert
<1> QED
  BY <1>2, <1>3, <1>4, CallStep

LEMMA Reverting ==
    ASSUME WfInv, NEW p \in WfProcs, wfCalls[p].pc \in {"unmoved", "target"}
    PROVE  /\ wfCalls[p] \in [pc: {"unmoved", "target", "begin", "payers", "read"},
                              event: Nat, to: WfStates]
           /\ wfCalls[p].event \in DOMAIN workflows
           /\ workflows[wfCalls[p].event].logged # NoRow
BY InFlight, Calls DEF CallOK, Moving

LEMMA CheckUnmovedKeeps ==
    ASSUME WfInv, NEW p \in WfProcs, CheckUnmoved(p)
    PROVE  WfInv'
<1> DEFINE call == [wfCalls[p] EXCEPT !.pc = "target"]
<1>1. wfCalls[p].pc = "unmoved" /\ UNCHANGED workflows
  BY DEF CheckUnmoved, At
<1>2. call \in WfCall
  BY <1>1, Reverting DEF WfCall, TransitionCall
<1>3. call.pc = "target" /\ call.event = wfCalls[p].event
  BY <1>1, Reverting
<1>4. CallOK(workflows, call)
  BY <1>1, <1>3, Reverting DEF CallOK, PastGate
<1> QED
  BY <1>1, <1>2, <1>4, CallStep, EndStep DEF CheckUnmoved

LEMMA ReadTargetKeeps ==
    ASSUME WfInv, NEW p \in WfProcs, ReadTarget(p)
    PROVE  WfInv'
<1> DEFINE e == wfCalls[p].event
           call == [wfCalls[p] EXCEPT !.pc = "begin", !.to = workflows[e].logged.from]
<1>1. wfCalls[p].pc = "target" /\ UNCHANGED workflows /\ Goes(p, call)
  BY DEF ReadTarget, At
<1>2. workflows[e].logged \in LogRow
  BY <1>1, Reverting, Ordinary DEF WfInv, Workflow
<1>3. workflows[e].logged.from \in WfStates
  BY <1>2 DEF LogRow
<1>4. call \in WfCall
  BY <1>1, <1>3, Reverting DEF WfCall, TransitionCall
<1>5. call.pc = "begin" /\ call.event = e
  BY <1>1, Reverting
<1>6. CallOK(workflows, call)
  BY <1>1, <1>5, Reverting DEF CallOK, PastGate
<1> HIDE DEF call
<1> QED
  BY <1>1, <1>4, <1>6, CallStep

LEMMA StartCreateKeeps ==
    ASSUME WfInv, NEW p \in WfProcs, NEW c \in WfCars, StartCreate(p, c)
    PROVE  WfInv'
<1> DEFINE call == [pc |-> "number", car |-> c, number |-> 0]
<1>1. call \in WfCall
  BY DEF WfCall, CreateCall
<1>2. CallOK(workflows, call)
  BY DEF CallOK, Moving
<1> QED
  BY <1>1, <1>2, CallStep DEF StartCreate

LEMMA ReadNumberKeeps ==
    ASSUME WfInv, NEW p \in WfProcs, ReadNumber(p)
    PROVE  WfInv'
<1> DEFINE call == [wfCalls[p] EXCEPT !.pc = "insert", !.number = Len(workflows) + 1]
<1>1. wfCalls[p].pc = "number"
  BY DEF ReadNumber, At
<1>2. wfCalls[p] \in CreateCall
  BY <1>1, InFlight, Calls
<1>3. Len(workflows) + 1 \in Nat
  BY LenProperties DEF WfInv, WfTypeOK
<1>4. call \in WfCall /\ call.pc = "insert"
  BY <1>2, <1>3 DEF WfCall, CreateCall
<1>5. CallOK(workflows, call)
  BY <1>4 DEF CallOK, Moving
<1>6. Goes(p, call) /\ UNCHANGED workflows
  BY DEF ReadNumber
<1> HIDE DEF call
<1> QED
  BY <1>4, <1>5, <1>6, CallStep

LEMMA InsertWorkflowKeeps ==
    ASSUME WfInv, NEW p \in WfProcs, InsertWorkflow(p)
    PROVE  WfInv'
<1>1. wfCalls[p].car \in WfCars
  <2>1. wfCalls[p].pc = "insert"
    BY DEF InsertWorkflow, At
  <2> QED
    BY <2>1, InFlight, Calls DEF CreateCall
<1>2. workflows' = Append(workflows, NewWorkflow(wfCalls[p].car))
  BY DEF InsertWorkflow
<1>3. /\ wfCalls' \in [WfProcs -> WfCall]
      /\ \A q \in WfProcs : wfCalls'[q] = wfCalls[q] \/ wfCalls'[q] = WfIdle
  BY DEF InsertWorkflow, Ends, Goes, WfInv, WfTypeOK, WfCall
<1> QED
  BY <1>1, <1>2, <1>3, AppendStep

LEMMA CreateInBatchKeeps ==
    ASSUME WfInv, NEW c \in WfCars, CreateInBatch(c)
    PROVE  WfInv'
BY AppendStep DEF CreateInBatch, WfInv, WfTypeOK

-----------------------------------------------------------------------------
(* Estimates.                                                              *)

LEMMA SubmitEstimateKeeps ==
    ASSUME WfInv, NEW e \in DOMAIN workflows, SubmitEstimate(e)
    PROVE  WfInv'
<1> DEFINE est == workflows[e].estimates
           est2 == Append(est, NewSubmission)
           w == [workflows[e] EXCEPT !.estimates = est2]
<1>1. workflows[e] \in Workflow /\ est \in Seq(Submission) /\ DOMAIN est = 1..Len(est)
  BY Ordinary DEF WfInv
<1>2. NewSubmission \in Submission
  BY DEF NewSubmission, Submission, EstimateStatuses
<1>3. Len(est) \in Nat
  BY <1>1, LenProperties
<1>4. /\ est2 \in Seq(Submission)
      /\ Len(est2) = Len(est) + 1
      /\ \A n \in 1..Len(est) : est2[n] = est[n]
      /\ est2[Len(est) + 1] = NewSubmission
  BY <1>1, <1>2, AppendProperties
<1>5. DOMAIN est2 = 1..(Len(est) + 1)
  BY <1>4, LenProperties
<1> HIDE DEF est2
<1>6. w \in Workflow
  BY <1>1, <1>4 DEF Workflow
<1>7. w.estimates = est2 /\ w.state = workflows[e].state /\ w.logged = workflows[e].logged
  BY <1>1 DEF Workflow
<1>8. RowOK(workflows[e])
  BY DEF WfInv
<1>9. Recorded(est2)
  <2> SUFFICES ASSUME NEW n \in DOMAIN est2, est2[n].status = "approved"
               PROVE  est2[n].approvedOnce /\ n # Len(est2)
    BY DEF Recorded
  <2>1. n # Len(est) + 1
    BY <1>4 DEF NewSubmission
  <2>2. n \in DOMAIN est /\ est2[n] = est[n]
    BY <1>1, <1>3, <1>4, <1>5, <2>1
  <2>3. est[n].approvedOnce
    BY <1>8, <2>2 DEF RowOK, Recorded
  <2> QED
    BY <1>4, <2>1, <2>2, <2>3
<1>10. Later(workflows[e], w)
  <2>1. ASSUME NEW n \in DOMAIN est
        PROVE  n \in DOMAIN est2 /\ est2[n] = est[n]
    BY <1>1, <1>3, <1>4, <1>5
  <2> QED
    BY <1>7, <2>1 DEF Later, WasApproved, WasNewest
<1>11. RowOK(w)
  BY <1>7, <1>8, <1>9, <1>10 DEF RowOK, Earned, Later
<1>12. workflows' = [workflows EXCEPT ![e] = w] /\ UNCHANGED wfCalls
  BY DEF SubmitEstimate, est2
<1> HIDE DEF w
<1> QED
  BY <1>6, <1>10, <1>11, <1>12, RowStep DEF WfInv, WfTypeOK

LEMMA SetStatusKeeps ==
    ASSUME WfInv, NEW e \in DOMAIN workflows, NEW n \in DOMAIN workflows[e].estimates,
           NEW s \in WfVerdicts, SetStatus(e, n, s)
    PROVE  WfInv'
<1> DEFINE est == workflows[e].estimates
           sub == Judged(est[n], s, IsNewest(e, n))
           est2 == [est EXCEPT ![n] = sub]
           w == [workflows[e] EXCEPT !.estimates = est2]
<1>1. workflows[e] \in Workflow /\ est \in Seq(Submission) /\ DOMAIN est = 1..Len(est)
  BY Ordinary DEF WfInv
<1>2. est[n] \in Submission
  BY <1>1, ElementOfSeq
<1>3. s \in EstimateStatuses
  BY WorkflowAssumption
<1>4. /\ sub.status = s
      /\ sub.approvedOnce = (est[n].approvedOnce \/ s = "approved")
      /\ sub.newestOnce = (est[n].newestOnce \/ (s = "approved" /\ IsNewest(e, n)))
  BY DEF Judged
<1>5. sub \in Submission
  BY <1>2, <1>3 DEF Submission, Judged, IsNewest
<1> HIDE DEF sub
<1>6. /\ est2 \in Seq(Submission)
      /\ Len(est2) = Len(est)
      /\ \A k \in 1..Len(est) : est2[k] = IF k = n THEN sub ELSE est[k]
  BY <1>1, <1>5, ExceptSeq
<1>7. DOMAIN est2 = 1..Len(est)
  BY <1>6, LenProperties
<1> HIDE DEF est2
<1>8. w \in Workflow
  BY <1>1, <1>6 DEF Workflow
<1>9. w.estimates = est2 /\ w.state = workflows[e].state /\ w.logged = workflows[e].logged
  BY <1>1 DEF Workflow
<1>10. RowOK(workflows[e])
  BY DEF WfInv
<1>11. Recorded(est2)
  <2> SUFFICES ASSUME NEW k \in DOMAIN est2, est2[k].status = "approved"
               PROVE  est2[k].approvedOnce /\ (k = Len(est2) => est2[k].newestOnce)
    BY DEF Recorded
  <2>1. CASE k = n
    BY <1>1, <1>4, <1>6, <2>1 DEF IsNewest
  <2>2. CASE k # n
    <3>1. k \in DOMAIN est /\ est2[k] = est[k]
      BY <1>1, <1>6, <1>7, <2>2
    <3> QED
      BY <1>6, <1>10, <3>1 DEF RowOK, Recorded
  <2> QED
    BY <2>1, <2>2
<1>12. Later(workflows[e], w)
  <2>1. ASSUME NEW k \in DOMAIN est
        PROVE  /\ k \in DOMAIN est2
               /\ est[k].approvedOnce => est2[k].approvedOnce
               /\ est[k].newestOnce => est2[k].newestOnce
    BY <1>1, <1>4, <1>6, <1>7
  <2> QED
    BY <1>9, <2>1 DEF Later, WasApproved, WasNewest
<1>13. RowOK(w)
  BY <1>9, <1>10, <1>11, <1>12 DEF RowOK, Earned, Later
<1>14. workflows' = [workflows EXCEPT ![e] = w] /\ UNCHANGED wfCalls
  BY DEF SetStatus, est2, sub
<1> HIDE DEF w
<1> QED
  BY <1>8, <1>12, <1>13, <1>14, RowStep DEF WfInv, WfTypeOK

-----------------------------------------------------------------------------
LEMMA WfInvInit == WfInit => WfInv
<1> SUFFICES ASSUME WfInit PROVE WfInv
  OBVIOUS
<1>1. workflows \in Seq(Workflow) /\ DOMAIN workflows = {}
  BY EmptySeq DEF WfInit
<1>2. wfCalls \in [WfProcs -> WfCall]
  BY DEF WfInit, WfCall
<1>3. \A p \in WfProcs : CallOK(workflows, wfCalls[p])
  BY DEF WfInit, WfIdle, CallOK, Moving
<1> QED
  BY <1>1, <1>2, <1>3 DEF WfInv, WfTypeOK

LEMMA WfInvNext == WfInv /\ [WfNext]_wfVars => WfInv'
<1> SUFFICES ASSUME WfInv, [WfNext]_wfVars PROVE WfInv'
  OBVIOUS
<1>1. CASE UNCHANGED wfVars
  BY <1>1 DEF wfVars, WfInv, WfTypeOK
<1>2. CASE WfNext
  <2>1. ASSUME NEW p \in WfProcs, NEW c \in WfCars, StartCreate(p, c)
        PROVE  WfInv'
    BY <2>1, StartCreateKeeps
  <2>2. ASSUME NEW p \in WfProcs, ReadNumber(p) \/ InsertWorkflow(p) \/ RefuseWorkflow(p)
        PROVE  WfInv'
    BY <2>2, ReadNumberKeeps, InsertWorkflowKeeps, EndStep DEF RefuseWorkflow
  <2>3. ASSUME NEW p \in WfProcs, NEW e \in DOMAIN workflows,
               NEW to \in WfTargets[workflows[e].state], StartTransition(p, e, to)
        PROVE  WfInv'
    BY <2>3, StartTransitionKeeps
  <2>4. ASSUME NEW p \in WfProcs, NEW e \in DOMAIN workflows, StartRevert(p, e)
        PROVE  WfInv'
    BY <2>4, StartRevertKeeps
  <2>5. ASSUME NEW p \in WfProcs,
               \/ StartReversal(p) \/ CheckPayers(p) \/ ReadAfterGate(p) \/ UpdateState(p)
               \/ LogTransition(p) \/ CheckUnmoved(p) \/ ReadTarget(p)
        PROVE  WfInv'
    BY <2>5, StartReversalKeeps, CheckPayersKeeps, ReadAfterGateKeeps, UpdateStateKeeps,
       LogTransitionKeeps, CheckUnmovedKeeps, ReadTargetKeeps
  <2>6. ASSUME NEW p \in WfProcs, CallFails(p)
        PROVE  WfInv'
    BY <2>6, EndStep DEF CallFails
  <2>7. ASSUME NEW c \in WfCars, CreateInBatch(c)
        PROVE  WfInv'
    BY <2>7, CreateInBatchKeeps
  <2>8. ASSUME NEW e \in DOMAIN workflows, SubmitEstimate(e)
        PROVE  WfInv'
    BY <2>8, SubmitEstimateKeeps
  <2>9. ASSUME NEW e \in DOMAIN workflows, NEW s \in WfVerdicts,
               NEW n \in DOMAIN workflows[e].estimates, SetStatus(e, n, s)
        PROVE  WfInv'
    BY <2>9, SetStatusKeeps
  <2> QED
    BY <1>2, <2>1, <2>2, <2>3, <2>4, <2>5, <2>6, <2>7, <2>8, <2>9 DEF WfNext
<1> QED
  BY <1>1, <1>2

LEMMA WfInvHolds == WfSpec => []WfInv
BY WfInvInit, WfInvNext, PTL DEF WfSpec

\* Every reachable state of events, estimates, log and requests is of the
\* declared types.
THEOREM WfTypeCorrect == WfSpec => []WfTypeOK
<1>1. WfInv => WfTypeOK
  BY DEF WfInv
<1> QED
  BY <1>1, WfInvHolds, PTL

\* No work is authorized without an estimate that was approved before.
THEOREM WorkFollowsApprovalHolds == WfSpec => []WorkFollowsApproval
<1>1. WfInv => WorkFollowsApproval
  BY DEF WfInv, RowOK, Earned, WasApproved, WorkFollowsApproval
<1> QED
  BY <1>1, WfInvHolds, PTL

\* No final disposition is reached on a version that was replaced when it was
\* approved.
THEOREM FinalFollowsNewestHolds == WfSpec => []FinalFollowsNewest
<1>1. WfInv => FinalFollowsNewest
  BY DEF WfInv, RowOK, Earned, WasNewest, FinalFollowsNewest
<1> QED
  BY <1>1, WfInvHolds, PTL

-----------------------------------------------------------------------------
(* The state of an event moves by the UPDATE alone, and along the graph.    *)

StateKept == \A e \in DOMAIN workflows : workflows'[e].state = workflows[e].state
StateMoved ==
    \A e \in DOMAIN workflows :
       \/ workflows'[e].state = workflows[e].state
       \/ workflows'[e].state \in Graph[workflows[e].state]

LEMMA RowKeepsState ==
    ASSUME WfTypeOK, NEW e \in DOMAIN workflows, NEW w,
           workflows' = [workflows EXCEPT ![e] = w], w.state = workflows[e].state
    PROVE  StateKept
BY DEF StateKept

LEMMA AppendKeepsState ==
    ASSUME WfTypeOK, NEW c \in WfCars, workflows' = Append(workflows, NewWorkflow(c))
    PROVE  StateKept
<1>1. workflows \in Seq(Workflow) /\ NewWorkflow(c) \in Workflow
  BY NewWorkflowType DEF WfTypeOK
<1>2. DOMAIN workflows = 1..Len(workflows)
  BY <1>1, LenProperties
<1>3. \A e \in 1..Len(workflows) : workflows'[e] = workflows[e]
  BY <1>1, AppendProperties
<1> QED
  BY <1>2, <1>3 DEF StateKept

LEMMA StatesMove ==
    ASSUME WfInv, [WfNext]_wfVars
    PROVE  StateMoved
<1> USE DEF StateKept, StateMoved
<1>1. WfTypeOK
  BY DEF WfInv
<1>2. CASE UNCHANGED workflows
  BY <1>2
<1>3. ASSUME NEW p \in WfProcs, UpdateState(p)
      PROVE  StateMoved
  <2> DEFINE e == wfCalls[p].event
             to == wfCalls[p].to
             w == [workflows[e] EXCEPT !.state = to]
  <2>1. CASE Accepts(workflows[e].state, to)
    <3>1. e \in DOMAIN workflows
      BY <1>3, InFlight DEF UpdateState, At, CallOK, Moving
    <3>2. workflows[e] \in Workflow
      BY <1>1, <3>1, Ordinary
    <3>3. w.state = to
      BY <3>2 DEF Workflow
    <3>4. workflows' = [workflows EXCEPT ![e] = w]
      BY <1>3, <2>1 DEF UpdateState
    <3>5. to = workflows[e].state \/ to \in Graph[workflows[e].state]
      BY <2>1 DEF Accepts
    <3> HIDE DEF e, to, w
    <3> QED
      BY <3>1, <3>3, <3>4, <3>5
  <2>2. CASE ~Accepts(workflows[e].state, to)
    BY <1>3, <2>2 DEF UpdateState
  <2> QED
    BY <2>1, <2>2
<1>4. ASSUME NEW p \in WfProcs, LogTransition(p)
      PROVE  StateMoved
  <2> DEFINE e == wfCalls[p].event
             row == [from |-> wfCalls[p].from, to |-> wfCalls[p].to,
                     reversible |-> <<wfCalls[p].from, wfCalls[p].to>> \in Reversible]
             w == [workflows[e] EXCEPT !.logged = row]
  <2>1. e \in DOMAIN workflows
    BY <1>4, InFlight DEF LogTransition, At, CallOK, Moving
  <2>2. workflows[e] \in Workflow
    BY <1>1, <2>1, Ordinary
  <2>3. w.state = workflows[e].state
    BY <2>2 DEF Workflow
  <2>4. workflows' = [workflows EXCEPT ![e] = w]
    BY <1>4 DEF LogTransition
  <2> HIDE DEF e, w
  <2> QED
    BY <1>1, <2>1, <2>3, <2>4, RowKeepsState
<1>5. ASSUME NEW e \in DOMAIN workflows, NEW est,
             workflows' = [workflows EXCEPT ![e] = [workflows[e] EXCEPT !.estimates = est]]
      PROVE  StateMoved
  <2> DEFINE w == [workflows[e] EXCEPT !.estimates = est]
  <2>1. w.state = workflows[e].state
    BY <1>1, Ordinary DEF Workflow
  <2> HIDE DEF w
  <2> QED
    BY <1>1, <1>5, <2>1, RowKeepsState DEF w
<1>6. ASSUME NEW e \in DOMAIN workflows, SubmitEstimate(e)
      PROVE  StateMoved
  BY <1>6, <1>5 DEF SubmitEstimate
<1>7. ASSUME NEW e \in DOMAIN workflows, NEW n, NEW s, SetStatus(e, n, s)
      PROVE  StateMoved
  <2> DEFINE est == [workflows[e].estimates EXCEPT ![n] =
                        Judged(workflows[e].estimates[n], s, IsNewest(e, n))]
  <2>1. workflows' = [workflows EXCEPT ![e] = [workflows[e] EXCEPT !.estimates = est]]
    BY <1>7 DEF SetStatus
  <2> HIDE DEF est
  <2> QED
    BY <2>1, <1>5
<1>8. ASSUME NEW c \in WfCars, workflows' = Append(workflows, NewWorkflow(c))
      PROVE  StateMoved
  BY <1>1, <1>8, AppendKeepsState
<1>9. ASSUME NEW p \in WfProcs, InsertWorkflow(p)
      PROVE  StateMoved
  <2>1. wfCalls[p].car \in WfCars
    BY <1>9, InFlight, Calls DEF InsertWorkflow, At, CreateCall
  <2> QED
    BY <1>8, <1>9, <2>1 DEF InsertWorkflow
<1> QED
  BY <1>2, <1>3, <1>4, <1>6, <1>7, <1>8, <1>9
     DEF WfNext, wfVars, StartCreate, ReadNumber, RefuseWorkflow, StartTransition, StartRevert, StartReversal, CheckPayers, ReadAfterGate, CheckUnmoved, ReadTarget,
         CallFails, CreateInBatch

Unrecalled ==
    \A e \in DOMAIN workflows :
       /\ workflows[e].state \in Authorized =>
             workflows'[e].state \in Authorized \cup {"CANCELLED"}
       /\ workflows[e].state \in FinalGated =>
             workflows'[e].state \in FinalGated \cup {"CANCELLED"}
       /\ workflows[e].state \in WfTerminal =>
             workflows'[e].state = workflows[e].state

\* Whatever a request read, and however long ago, work once authorized, a
\* final approval and an end are not taken back but by a cancellation.
THEOREM WorkNotRecalledHolds == WfSpec => WorkNotRecalled
<1>1. ASSUME WfInv, [WfNext]_wfVars
      PROVE  [Unrecalled]_wfVars
  <2>1. \A e \in DOMAIN workflows : workflows[e].state \in WfStates
    BY <1>1, Ordinary DEF WfInv, Workflow
  <2> QED
    BY <1>1, <2>1, StatesMove
       DEF StateMoved, Unrecalled, Graph, WfStates, Authorized, FinalGated, WfTerminal
<1>2. WfSpec => [][Unrecalled]_wfVars
  BY <1>1, WfInvHolds, PTL DEF WfSpec
<1> QED
  BY <1>2 DEF WorkNotRecalled, Unrecalled
=============================================================================
