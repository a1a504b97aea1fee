---------------------------- MODULE ShopWorkflow ----------------------------
(***************************************************************************)
(* The first shopping workflow: shopping-event.service.ts over the table   *)
(* shopping_events, the estimates of estimate-workflow.service.ts whose    *)
(* approval its gates demand, and the transition log its revert reads.     *)
(*                                                                         *)
(* transitionState is a process of single statements: one SELECT or two    *)
(* for the gate, one for the state, the UPDATE with its trigger, the row   *)
(* of the log.  revertLastTransition is three SELECTs before the same.     *)
(* Statements of other requests come between any two of them.              *)
(*                                                                         *)
(* Of the log an event keeps its newest row.  getLastTransition skips the  *)
(* rows marked as reversed, but a revert marks the row it read before it   *)
(* logged its own, so the newest row never is marked.                      *)
(***************************************************************************)
EXTENDS Naturals, Sequences

CONSTANTS
    WfCars,       \* car_number values
    WfProcs,      \* concurrent requests
    WfTargets,    \* [WfStates -> target states clients ask for when they see a state]
    WfVerdicts,   \* estimate statuses clients set
    MaxWorkflows, \* bound: rows of shopping_events
    MaxVersions,  \* bound: submissions of an event
    WfFaults      \* whether a request may end before its last statement

\* enforce_shopping_event_state_transition, as migration 049 leaves it.
Graph == [
    REQUESTED                |-> {"ASSIGNED_TO_SHOP", "CANCELLED"},
    ASSIGNED_TO_SHOP         |-> {"INBOUND", "REQUESTED", "CANCELLED"},
    INBOUND                  |-> {"INSPECTION", "ASSIGNED_TO_SHOP", "CANCELLED"},
    INSPECTION               |-> {"ESTIMATE_SUBMITTED", "CANCELLED"},
    ESTIMATE_SUBMITTED       |-> {"ESTIMATE_UNDER_REVIEW", "CANCELLED"},
    ESTIMATE_UNDER_REVIEW    |-> {"ESTIMATE_APPROVED", "CHANGES_REQUIRED",
                                  "ESTIMATE_SUBMITTED", "CANCELLED"},
    CHANGES_REQUIRED         |-> {"ESTIMATE_SUBMITTED", "CANCELLED"},
    ESTIMATE_APPROVED        |-> {"WORK_AUTHORIZED", "ESTIMATE_UNDER_REVIEW", "CANCELLED"},
    WORK_AUTHORIZED          |-> {"IN_REPAIR", "CANCELLED"},
    IN_REPAIR                |-> {"QA_COMPLETE", "CANCELLED"},
    QA_COMPLETE              |-> {"FINAL_ESTIMATE_SUBMITTED", "IN_REPAIR", "CANCELLED"},
    FINAL_ESTIMATE_SUBMITTED |-> {"FINAL_ESTIMATE_APPROVED", "CANCELLED"},
    FINAL_ESTIMATE_APPROVED  |-> {"READY_FOR_RELEASE", "CANCELLED"},
    READY_FOR_RELEASE        |-> {"RELEASED", "FINAL_ESTIMATE_APPROVED", "CANCELLED"},
    RELEASED                 |-> {},
    CANCELLED                |-> {}]

WfStates == DOMAIN Graph
WfTerminal == {"RELEASED", "CANCELLED"}

\* REVERSIBLE_TRANSITIONS
Reversible == {
    <<"REQUESTED", "ASSIGNED_TO_SHOP">>,
    <<"ASSIGNED_TO_SHOP", "INBOUND">>,
    <<"INBOUND", "INSPECTION">>,
    <<"INSPECTION", "ESTIMATE_SUBMITTED">>,
    <<"ESTIMATE_SUBMITTED", "ESTIMATE_UNDER_REVIEW">>,
    <<"ESTIMATE_UNDER_REVIEW", "CHANGES_REQUIRED">>,
    <<"ESTIMATE_UNDER_REVIEW", "ESTIMATE_SUBMITTED">>,
    <<"ESTIMATE_APPROVED", "ESTIMATE_UNDER_REVIEW">>,
    <<"QA_COMPLETE", "IN_REPAIR">>,
    <<"READY_FOR_RELEASE", "FINAL_ESTIMATE_APPROVED">>}

EstimateStatuses == {"submitted", "under_review", "approved", "changes_required", "rejected"}

ASSUME WorkflowAssumption ==
    /\ WfTargets \in [WfStates -> SUBSET WfStates]
    /\ WfVerdicts \subseteq EstimateStatuses
    /\ MaxWorkflows \in Nat
    /\ MaxVersions \in Nat

VARIABLES
    workflows, \* rows of shopping_events, each with its submissions and newest log row
    wfCalls    \* [WfProcs -> state of a request]

wfVars == <<workflows, wfCalls>>

(***************************************************************************)
(* A submission; its version_number is its place in the sequence.  Its     *)
(* lines and the decisions on them are left to CheckPayers.  approvedOnce  *)
(* and newestOnce are history: whether it ever was approved, and ever      *)
(* approved while no later version existed.                                *)
(***************************************************************************)
Submission == [status: EstimateStatuses, approvedOnce: BOOLEAN, newestOnce: BOOLEAN]

NoRow == [to |-> "null"]
LogRow == [from: WfStates, to: WfStates, reversible: BOOLEAN]
Workflow == [car: WfCars, state: WfStates, estimates: Seq(Submission),
             logged: LogRow \cup {NoRow}]

\* pc: the statement the request runs next.
TransitionCall ==
    [pc: {"unmoved", "target", "begin", "payers", "read"}, event: Nat, to: WfStates]
    \cup [pc: {"update", "log"}, event: Nat, to: WfStates, from: WfStates]
CreateCall == [pc: {"number", "insert"}, car: WfCars, number: Nat]
WfIdle == [pc |-> "none"]
WfCall == TransitionCall \cup CreateCall \cup {WfIdle}

WfTypeOK ==
    /\ workflows \in Seq(Workflow)
    /\ wfCalls \in [WfProcs -> WfCall]

WfInit ==
    /\ workflows = <<>>
    /\ wfCalls = [p \in WfProcs |-> WfIdle]

At(p, pc) == wfCalls[p].pc = pc
Goes(p, call) == wfCalls' = [wfCalls EXCEPT ![p] = call]
Ends(p) == Goes(p, WfIdle)

-----------------------------------------------------------------------------
\* createShoppingEvent: the guard, the number, the INSERT.
NewWorkflow(c) ==
    [car |-> c, state |-> "REQUESTED", estimates |-> <<>>, logged |-> NoRow]

\* What the guard asks, and idx_se_one_active_per_car keeps.
HasActive(c) ==
    \E e \in DOMAIN workflows : workflows[e].car = c /\ workflows[e].state \notin WfTerminal

StartCreate(p, c) ==
    /\ At(p, "none")
    /\ ~HasActive(c)
    /\ Goes(p, [pc |-> "number", car |-> c, number |-> 0])
    /\ UNCHANGED workflows

\* generate_event_number(): one more than the greatest number of the day.
ReadNumber(p) ==
    /\ At(p, "number")
    /\ Goes(p, [wfCalls[p] EXCEPT !.pc = "insert", !.number = Len(workflows) + 1])
    /\ UNCHANGED workflows

InsertWorkflow(p) ==
    /\ At(p, "insert")
    /\ ~HasActive(wfCalls[p].car)
    /\ Len(workflows) < MaxWorkflows
    /\ workflows' = Append(workflows, NewWorkflow(wfCalls[p].car))
    /\ Ends(p)

\* The index refuses the row, or UNIQUE (event_number) does.  A number begins
\* with its day, so it may be free although rows were inserted since.
RefuseWorkflow(p) ==
    /\ At(p, "insert")
    /\ HasActive(wfCalls[p].car) \/ Len(workflows) >= wfCalls[p].number
    /\ Ends(p)
    /\ UNCHANGED workflows

\* createBatchShoppingEvents, a car of a batch: no guard, but the index.
CreateInBatch(c) ==
    /\ ~HasActive(c)
    /\ Len(workflows) < MaxWorkflows
    /\ workflows' = Append(workflows, NewWorkflow(c))
    /\ UNCHANGED wfCalls

-----------------------------------------------------------------------------
\* The gates of transitionState.
HasApproved(e) ==
    \E n \in DOMAIN workflows[e].estimates : workflows[e].estimates[n].status = "approved"

IsNewest(e, n) == n = Len(workflows[e].estimates)

NewestApproved(e) ==
    \E n \in DOMAIN workflows[e].estimates :
       workflows[e].estimates[n].status = "approved" /\ IsNewest(e, n)

FinalGated == {"FINAL_ESTIMATE_APPROVED", "READY_FOR_RELEASE", "RELEASED"}
PayerGated == {"READY_FOR_RELEASE", "RELEASED"}
Gated == FinalGated \cup {"WORK_AUTHORIZED"}

\* Mutants: a gate is missing; the final gate takes any version.
GateOpenForWork(e, to) == to \in FinalGated => NewestApproved(e)
GateOpenForAnyVersion(e, to) == to \in Gated => HasApproved(e)

\* APPROVAL_GATES
GateOpen(e, to) ==
    /\ to = "WORK_AUTHORIZED" => HasApproved(e)
    /\ to \in FinalGated => NewestApproved(e)

\* The first statement of transitionState: the gate, or for most states, the
\* SELECT of the state.
CheckGate(p, e, to) ==
    IF GateOpen(e, to)
    THEN Goes(p, [pc |-> IF to \in PayerGated THEN "payers" ELSE "read",
                  event |-> e, to |-> to])
    ELSE Ends(p)

ReadState(p, e, to) ==
    Goes(p, [pc |-> "update", event |-> e, to |-> to, from |-> workflows[e].state])

Begin(p, e, to) == IF to \in Gated THEN CheckGate(p, e, to) ELSE ReadState(p, e, to)

StartTransition(p, e, to) ==
    /\ At(p, "none")
    /\ Begin(p, e, to)
    /\ UNCHANGED workflows

\* The transition of a revert, and what follows the gates.
StartReversal(p) ==
    /\ At(p, "begin")
    /\ Begin(p, wfCalls[p].event, wfCalls[p].to)
    /\ UNCHANGED workflows

ReadAfterGate(p) ==
    /\ At(p, "read")
    /\ ReadState(p, wfCalls[p].event, wfCalls[p].to)
    /\ UNCHANGED workflows

\* assertResponsibilityLocked: a line of the latest approved submission may
\* have no payer yet, which ends the request.
CheckPayers(p) ==
    /\ At(p, "payers")
    /\ \/ Goes(p, [wfCalls[p] EXCEPT !.pc = "read"])
       \/ HasApproved(wfCalls[p].event) /\ Ends(p)
    /\ UNCHANGED workflows

\* Mutant: work that was authorized may be taken back, as approvals may.
AcceptsRecall(from, to) ==
    from = to \/ to \in Graph[from] \/ <<from, to>> = <<"WORK_AUTHORIZED", "ESTIMATE_APPROVED">>

\* The trigger does not RAISE.  A cancellation without a reason, which it
\* refuses, is not modelled.
Accepts(from, to) == from = to \/ to \in Graph[from]

UpdateState(p) ==
    LET e == wfCalls[p].event
        to == wfCalls[p].to
    IN  /\ At(p, "update")
        /\ IF Accepts(workflows[e].state, to)
           THEN /\ workflows' = [workflows EXCEPT ![e].state = to]
                /\ Goes(p, [wfCalls[p] EXCEPT !.pc = "log"])
           ELSE Ends(p) /\ UNCHANGED workflows

\* logTransition, with the state read before the UPDATE.
LogTransition(p) ==
    LET from == wfCalls[p].from
        to == wfCalls[p].to
    IN  /\ At(p, "log")
        /\ workflows' = [workflows EXCEPT ![wfCalls[p].event].logged =
              [from |-> from, to |-> to, reversible |-> <<from, to>> \in Reversible]]
        /\ Ends(p)

-----------------------------------------------------------------------------
\* revertLastTransition: canRevert reads the log and the state, and the log
\* is read again for the state to go back to.
StartRevert(p, e) ==
    /\ At(p, "none")
    /\ workflows[e].logged # NoRow
    /\ workflows[e].logged.reversible
    /\ Goes(p, [pc |-> "unmoved", event |-> e, to |-> workflows[e].logged.to])
    /\ UNCHANGED workflows

CheckUnmoved(p) ==
    /\ At(p, "unmoved")
    /\ IF workflows[wfCalls[p].event].state = wfCalls[p].to
       THEN Goes(p, [wfCalls[p] EXCEPT !.pc = "target"])
       ELSE Ends(p)
    /\ UNCHANGED workflows

ReadTarget(p) ==
    /\ At(p, "target")
    /\ Goes(p, [wfCalls[p] EXCEPT
          !.pc = "begin", !.to = workflows[wfCalls[p].event].logged.from])
    /\ UNCHANGED workflows

-----------------------------------------------------------------------------
\* Mutant: the status is named as the event's.
NewSubmissionOfEvent ==
    [status |-> "ESTIMATE_SUBMITTED", approvedOnce |-> FALSE, newestOnce |-> FALSE]
NewSubmission == [status |-> "submitted", approvedOnce |-> FALSE, newestOnce |-> FALSE]

\* submitEstimate, one transaction.  Of two that read the same MAX
\* (version_number) UNIQUE refuses the later, which changes nothing.
SubmitEstimate(e) ==
    /\ Len(workflows[e].estimates) < MaxVersions
    /\ workflows' = [workflows EXCEPT ![e].estimates = Append(@, NewSubmission)]
    /\ UNCHANGED wfCalls

Judged(sub, s, newest) ==
    [status |-> s,
     approvedOnce |-> sub.approvedOnce \/ s = "approved",
     newestOnce |-> sub.newestOnce \/ (s = "approved" /\ newest)]

\* updateEstimateStatus, and the approval packet's and the AI review's UPDATE:
\* no state of the submission or of the event is looked at.
SetStatus(e, n, s) ==
    /\ workflows' = [workflows EXCEPT ![e].estimates[n] = Judged(@, s, IsNewest(e, n))]
    /\ UNCHANGED wfCalls

-----------------------------------------------------------------------------
\* A statement fails, or the process stops (which is this for every request).
CallFails(p) ==
    /\ WfFaults
    /\ ~At(p, "none")
    /\ Ends(p)
    /\ UNCHANGED workflows

WfNext ==
    \/ \E p \in WfProcs :
          \/ \E c \in WfCars : StartCreate(p, c)
          \/ ReadNumber(p) \/ InsertWorkflow(p) \/ RefuseWorkflow(p)
          \/ \E e \in DOMAIN workflows :
                \/ \E to \in WfTargets[workflows[e].state] : StartTransition(p, e, to)
                \/ StartRevert(p, e)
          \/ StartReversal(p) \/ CheckPayers(p) \/ ReadAfterGate(p) \/ UpdateState(p)
          \/ LogTransition(p) \/ CheckUnmoved(p) \/ ReadTarget(p)
          \/ CallFails(p)
    \/ \E c \in WfCars : CreateInBatch(c)
    \/ \E e \in DOMAIN workflows : SubmitEstimate(e)
    \/ \E e \in DOMAIN workflows, s \in WfVerdicts :
          \E n \in DOMAIN workflows[e].estimates : SetStatus(e, n, s)

WfSpec == WfInit /\ [][WfNext]_wfVars

-----------------------------------------------------------------------------
Authorized == FinalGated \cup
    {"WORK_AUTHORIZED", "IN_REPAIR", "QA_COMPLETE", "FINAL_ESTIMATE_SUBMITTED"}

(***************************************************************************)
(* "cannot authorise work without an approved estimate": work authorized,  *)
(* underway or done had an approved estimate at some time.  The gate is a  *)
(* read of another table some statements before the UPDATE; submissions,   *)
(* withdrawals and reverts, which come in by the same door, lie between.   *)
(***************************************************************************)
WorkFollowsApproval ==
    \A e \in DOMAIN workflows :
       workflows[e].state \in Authorized =>
          \E n \in DOMAIN workflows[e].estimates : workflows[e].estimates[n].approvedOnce

(***************************************************************************)
(* A final disposition was approved on the newest submission of its time,  *)
(* not on an earlier one that a later submission had replaced.             *)
(***************************************************************************)
FinalFollowsNewest ==
    \A e \in DOMAIN workflows :
       workflows[e].state \in FinalGated =>
          \E n \in DOMAIN workflows[e].estimates : workflows[e].estimates[n].newestOnce

(***************************************************************************)
(* Work once authorized, a final approval once given and a terminal state  *)
(* are not taken back, but by a cancellation, however late a revert comes  *)
(* or whichever row of the log it reads.                                   *)
(***************************************************************************)
WorkNotRecalled ==
    [][\A e \in DOMAIN workflows :
          /\ workflows[e].state \in Authorized =>
                workflows'[e].state \in Authorized \cup {"CANCELLED"}
          /\ workflows[e].state \in FinalGated =>
                workflows'[e].state \in FinalGated \cup {"CANCELLED"}
          /\ workflows[e].state \in WfTerminal =>
                workflows'[e].state = workflows[e].state]_wfVars
=============================================================================
