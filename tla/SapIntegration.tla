--------------------------- MODULE SapIntegration ---------------------------
(***************************************************************************)
(* sap-integration.service.ts in live mode, retry-queue.service.ts and the *)
(* retry routes, over integration_sync_log.                                *)
(*                                                                         *)
(* A push is a process: it reads its entity, inserts a log row, posts to   *)
(* SAP through the breaker, marks the entity, records the document and     *)
(* completes the log row, a statement at a time and in no transaction.  A  *)
(* post whose answer is awaited no longer may still be accepted by SAP.    *)
(* retrySyncEntry runs a push (with a log row of its own) for a failed row; *)
(* processRetryQueue runs rows that are retrying and due.                  *)
(***************************************************************************)
EXTENDS CircuitBreaker, Sequences, FiniteSets

CONSTANTS
    Pushers,    \* concurrent requests that push and retry
    Queuers,    \* concurrent requests that process the retry queue
    Entities,   \* invoices, outbound invoices, allocations, mileage records
    Operation,  \* [Entities -> the operation that pushes the entity]
    MaxRetries, \* 3: retrySyncEntry and the default of max_retries
    SapRequests, \* endpoints clients use: push, approve, reject, retry, reset
    MaxLogs,    \* bound: rows of integration_sync_log
    SapFaults   \* statements fail with no handler, the process crashes

SapProcs == Pushers \cup Queuers

Operations == {"push_invoice", "push_billing_trigger", "push_approved_costs", "push_mileage"}

ASSUME SapAssumption ==
    /\ IsFiniteSet(SapProcs)
    /\ Operation \in [Entities -> Operations]
    /\ MaxRetries \in Nat \ {0}
    /\ MaxLogs \in Nat
    /\ SapFaults \in BOOLEAN

VARIABLES
    status,  \* status of each entity, as the pushes see it
    marked,  \* entities a push has marked, with the document id, or '', it was given
    logs,    \* rows of integration_sync_log, in order of creation
    sap,     \* sapCircuitBreaker
    queue,   \* circuits['sap'] of the retry queue
    sapCalls \* [SapProcs -> state of a request]

sapVars == <<status, marked, logs, sap, queue, sapCalls>>

EntityStatuses == {"pending", "approved", "rejected", "booked"}

\* What differs between the four pushes.
ChecksStatus(e) == Operation[e] \in {"push_invoice", "push_billing_trigger"}
MarksEntity(e) == Operation[e] # "push_approved_costs"
RecordsRefusal(e) == Operation[e] # "push_mileage"

\* A row the retry queue closed is a 'success' too; its response tells.
LogStatuses == {"in_progress", "success", "queue_success", "failed", "retrying"}

\* timed: next_retry_at is not null.  post: what became of the POST of the row.
\* document: the row of sap_documents with this sync_log_id.
LogRow == [ent: Entities,
           status: LogStatuses,
           retries: Nat,
           timed: BOOLEAN,
           post: {"none", "sent", "taken", "refused"},
           document: {"none", "posted", "error"}]

PushPC == {"read", "log", "send", "wait", "mark", "document", "refusal", "complete", "undo", "fail"}
QueuePC == {"next", "take", "confirm", "plan", "delay", "bury"}
SapPC == {"idle", "hold", "settle"} \cup PushPC \cup QueuePC

\* log: the row of the push; entry: the row it retries, or the queue is at.
SapCall == [pc: SapPC, ent: Entities, log: Nat, entry: Nat, todo: SUBSET Nat, ok: BOOLEAN]
IdleCall == [pc |-> "idle"]

INTypeOK ==
    /\ status \in [Entities -> EntityStatuses]
    /\ marked \subseteq Entities
    /\ logs \in Seq(LogRow)
    /\ sap \in Circuit
    /\ queue \in Circuit
    /\ sapCalls \in [SapProcs -> SapCall \cup {IdleCall}]

INInit ==
    /\ status \in [Entities -> {"pending", "approved"}]
    /\ marked = {}
    /\ logs = <<>>
    /\ sap = NewCircuit
    /\ queue = NewCircuit
    /\ sapCalls = [p \in SapProcs |-> IdleCall]

At(p, pc) == sapCalls[p].pc = pc
Goto(p, pc) == sapCalls' = [sapCalls EXCEPT ![p].pc = pc]
Stop(p) == sapCalls' = [sapCalls EXCEPT ![p] = IdleCall]
Begin(p, pc, e, n, todo) ==
    /\ At(p, "idle")
    /\ sapCalls' = [sapCalls EXCEPT ![p] =
           [pc |-> pc, ent |-> e, log |-> 0, entry |-> n, todo |-> todo, ok |-> FALSE]]

\* Every push in progress may insert a row.
Inserting == {p \in SapProcs : sapCalls[p].pc \in {"hold", "read", "log"}}
LogRoom == Len(logs) + Cardinality(Inserting) < MaxLogs

-----------------------------------------------------------------------------
(* The four pushes.                                                        *)

\* The push routes; batchPushToSAP starts up to ten at a time.
StartPush(p, e) ==
    /\ "push" \in SapRequests
    /\ LogRoom
    /\ Begin(p, "read", e, 0, {})
    /\ UNCHANGED <<status, marked, logs, sap, queue>>

\* approveInvoice: whatever the status was, then the push.
ApproveInvoice(p, e) ==
    /\ "approve" \in SapRequests
    /\ Operation[e] = "push_invoice"
    /\ LogRoom
    /\ status' = [status EXCEPT ![e] = "approved"]
    /\ Begin(p, "read", e, 0, {})
    /\ UNCHANGED <<marked, logs, sap, queue>>

RejectInvoice(e) ==
    /\ "reject" \in SapRequests
    /\ Operation[e] = "push_invoice"
    /\ status' = [status EXCEPT ![e] = "rejected"]
    /\ UNCHANGED <<marked, logs, sap, queue, sapCalls>>

\* A push answers its caller, the route or retrySyncEntry.
Answer(p, ok) ==
    IF sapCalls[p].entry = 0
    THEN Stop(p)
    ELSE sapCalls' = [sapCalls EXCEPT ![p].pc = "settle", ![p].ok = ok]

ReadEntity(p) ==
    LET e == sapCalls[p].ent IN
    /\ At(p, "read")
    /\ IF ChecksStatus(e) => status[e] = "approved" THEN Goto(p, "log") ELSE Answer(p, FALSE)
    /\ UNCHANGED <<status, marked, logs, sap, queue>>

\* Mutant: the row starts with the default of its column.
CreateSyncLogPending(p) ==
    /\ At(p, "log")
    /\ logs' = Append(logs, [ent |-> sapCalls[p].ent, status |-> "pending", retries |-> 0,
                             timed |-> FALSE, post |-> "none", document |-> "none"])
    /\ sapCalls' = [sapCalls EXCEPT ![p].pc = "send", ![p].log = Len(logs) + 1]
    /\ UNCHANGED <<status, marked, sap, queue>>

CreateSyncLog(p) ==
    /\ At(p, "log")
    /\ logs' = Append(logs, [ent |-> sapCalls[p].ent, status |-> "in_progress", retries |-> 0,
                             timed |-> FALSE, post |-> "none", document |-> "none"])
    /\ sapCalls' = [sapCalls EXCEPT ![p].pc = "send", ![p].log = Len(logs) + 1]
    /\ UNCHANGED <<status, marked, sap, queue>>

\* CircuitBreaker.execute: refused at once, or on the wire.
SapRequest(p) ==
    /\ At(p, "send")
    /\ IF Admits(sap)
       THEN /\ sap' = Admitted(sap)
            /\ logs' = [logs EXCEPT ![sapCalls[p].log].post = "sent"]
            /\ Goto(p, "wait")
       ELSE UNCHANGED <<sap, logs>> /\ Goto(p, "fail")
    /\ UNCHANGED <<status, marked, queue>>

\* SAP accepts a post, however late.
SapAccepts(n) ==
    /\ logs[n].post = "sent"
    /\ logs' = [logs EXCEPT ![n].post = "taken"]
    /\ UNCHANGED <<status, marked, sap, queue, sapCalls>>

ResponseOk(p) ==
    LET call == sapCalls[p] IN
    /\ At(p, "wait")
    /\ logs[call.log].post = "taken"
    /\ sap' = Succeeded(sap)
    /\ Goto(p, IF MarksEntity(call.ent) THEN "mark" ELSE "document")
    /\ UNCHANGED <<status, marked, logs, queue>>

\* An HTTP error is an answer: to the breaker, a success.
ResponseError(p) ==
    LET call == sapCalls[p] IN
    /\ At(p, "wait")
    /\ logs[call.log].post = "sent"
    /\ logs' = [logs EXCEPT ![call.log].post = "refused"]
    /\ sap' = Succeeded(sap)
    /\ Goto(p, IF RecordsRefusal(call.ent) THEN "refusal" ELSE "undo")
    /\ UNCHANGED <<status, marked, queue>>

\* A timeout, a network error, no token.
NoResponse(p) ==
    /\ At(p, "wait")
    /\ sap' = Failed(sap)
    /\ Goto(p, "fail")
    /\ UNCHANGED <<status, marked, logs, queue>>

\* markInvoiceSentToSap and the UPDATEs like it: by id, whatever the status is.
MarkEntity(p) ==
    LET e == sapCalls[p].ent IN
    /\ At(p, "mark")
    /\ status' = [status EXCEPT ![e] = "booked"]
    /\ marked' = marked \cup {e}
    /\ Goto(p, "document")
    /\ UNCHANGED <<logs, sap, queue>>

\* sap_documents.status depends on whether the answer names a document: an
\* accepting answer need not, and the push goes on all the same.
RecordSAPDocument(p) ==
    LET n == sapCalls[p].log IN
    \/ /\ At(p, "document")
       /\ \E result \in {"posted", "error"} : logs' = [logs EXCEPT ![n].document = result]
       /\ Goto(p, "complete")
       /\ UNCHANGED <<status, marked, sap, queue>>
    \/ /\ At(p, "refusal")
       /\ logs' = [logs EXCEPT ![n].document = "error"]
       /\ Goto(p, "undo")
       /\ UNCHANGED <<status, marked, sap, queue>>

\* Mutant: the row is completed whatever SAP answered.
CompleteSyncLogAsSuccess(p) ==
    /\ sapCalls[p].pc \in {"complete", "undo", "fail"}
    /\ logs' = [logs EXCEPT ![sapCalls[p].log].status = "success"]
    /\ Answer(p, At(p, "complete"))
    /\ UNCHANGED <<status, marked, sap, queue>>

CompleteSyncLog(p) ==
    LET n == sapCalls[p].log IN
    /\ sapCalls[p].pc \in {"complete", "undo", "fail"}
    /\ logs' = [logs EXCEPT ![n].status = IF At(p, "complete") THEN "success" ELSE "failed"]
    /\ Answer(p, At(p, "complete"))
    /\ UNCHANGED <<status, marked, sap, queue>>

-----------------------------------------------------------------------------
(* retrySyncEntry.                                                         *)

\* Mutant: the limit is not tested.
StartRetryUnlimited(p, n) ==
    /\ "retry" \in SapRequests
    /\ LogRoom
    /\ logs[n].status = "failed"
    /\ Begin(p, "hold", logs[n].ent, n, {})
    /\ UNCHANGED <<status, marked, logs, sap, queue>>

StartRetry(p, n) ==
    /\ "retry" \in SapRequests
    /\ LogRoom
    /\ logs[n].status = "failed"
    /\ logs[n].retries < MaxRetries
    /\ Begin(p, "hold", logs[n].ent, n, {})
    /\ UNCHANGED <<status, marked, logs, sap, queue>>

\* next_retry_at stays as it is: the queue takes no row it was not given.
HoldEntry(p) ==
    LET n == sapCalls[p].entry IN
    /\ At(p, "hold")
    /\ logs' = [logs EXCEPT ![n].status = "retrying", ![n].retries = @ + 1]
    /\ Goto(p, "read")
    /\ UNCHANGED <<status, marked, sap, queue>>

SettleEntry(p) ==
    LET n == sapCalls[p].entry IN
    /\ At(p, "settle")
    /\ logs' = [logs EXCEPT ![n].status = IF sapCalls[p].ok THEN "success" ELSE "failed"]
    /\ Stop(p)
    /\ UNCHANGED <<status, marked, sap, queue>>

-----------------------------------------------------------------------------
(* processRetryQueue and the routes that feed it.                          *)

\* The rows retried by a time; which times have come is left open.
Timed == {n \in DOMAIN logs : logs[n].status = "retrying" /\ logs[n].timed}

StartProcessing(p) ==
    /\ \E due \in SUBSET Timed \ {{}} : \E n \in due : Begin(p, "next", logs[n].ent, 0, due)
    /\ UNCHANGED <<status, marked, logs, sap, queue>>

GoOn(p) == sapCalls' = [sapCalls EXCEPT ![p].pc = "next", ![p].entry = 0]

\* Mutant: the circuit is not asked.
NextEntryUnchecked(p) ==
    LET call == sapCalls[p] IN
    /\ At(p, "next")
    /\ \/ call.todo = {} /\ Stop(p) /\ UNCHANGED queue
       \/ \E n \in call.todo :
            /\ queue' = Admitted(queue)
            /\ sapCalls' = [sapCalls EXCEPT ![p].pc = "take", ![p].entry = n, ![p].todo = @ \ {n}]
    /\ UNCHANGED <<status, marked, logs, sap>>

\* isCircuitOpen skips a row, or lets it through.
NextEntry(p) ==
    LET call == sapCalls[p] IN
    /\ At(p, "next")
    /\ \/ call.todo = {} /\ Stop(p) /\ UNCHANGED queue
       \/ \E n \in call.todo :
            IF Admits(queue)
            THEN /\ queue' = Admitted(queue)
                 /\ sapCalls' = [sapCalls EXCEPT ![p].pc = "take", ![p].entry = n,
                                                 ![p].todo = @ \ {n}]
            ELSE /\ sapCalls' = [sapCalls EXCEPT ![p].todo = @ \ {n}]
                 /\ UNCHANGED queue
    /\ UNCHANGED <<status, marked, logs, sap>>

TakeEntry(p) ==
    /\ At(p, "take")
    /\ logs' = [logs EXCEPT ![sapCalls[p].entry].status = "in_progress"]
    /\ Goto(p, "confirm")
    /\ UNCHANGED <<status, marked, sap, queue>>

\* The operation is not dispatched: the row is closed as if it had been.
ConfirmEntry(p) ==
    LET n == sapCalls[p].entry IN
    /\ At(p, "confirm")
    /\ logs' = [logs EXCEPT ![n].status = "queue_success"]
    /\ queue' = Succeeded(queue)
    /\ GoOn(p)
    /\ UNCHANGED <<status, marked, sap>>

ConfirmFails(p) ==
    /\ At(p, "confirm")
    /\ queue' = Failed(queue)
    /\ Goto(p, "plan")
    /\ UNCHANGED <<status, marked, logs, sap>>

\* scheduleRetry: read, then one of two UPDATEs.
PlanRetry(p) ==
    /\ At(p, "plan")
    /\ Goto(p, IF logs[sapCalls[p].entry].retries >= MaxRetries THEN "bury" ELSE "delay")
    /\ UNCHANGED <<status, marked, logs, sap, queue>>

ScheduleRetry(p) ==
    LET n == sapCalls[p].entry IN
    /\ \/ At(p, "bury") /\ logs' = [logs EXCEPT ![n].status = "failed"]
       \/ /\ At(p, "delay")
          /\ logs' = [logs EXCEPT ![n].status = "retrying", ![n].retries = @ + 1,
                                  ![n].timed = TRUE]
    /\ GoOn(p)
    /\ UNCHANGED <<status, marked, sap, queue>>

\* resetDeadLetter, one row; batchRetryByCategory, all that match.
ResetDeadLetters(S) ==
    /\ "reset" \in SapRequests
    /\ \A n \in S : logs[n].status = "failed"
    /\ logs' = [n \in DOMAIN logs |->
                   IF n \in S
                   THEN [logs[n] EXCEPT !.status = "retrying", !.retries = 0, !.timed = TRUE]
                   ELSE logs[n]]
    /\ UNCHANGED <<status, marked, sap, queue, sapCalls>>

-----------------------------------------------------------------------------
(* Time and failures.                                                      *)

CooldownElapses ==
    \/ sap' = Cooled(sap) /\ UNCHANGED <<status, marked, logs, queue, sapCalls>>
    \/ queue' = Cooled(queue) /\ UNCHANGED <<status, marked, logs, sap, sapCalls>>

\* Statements of a push inside its try block.
Tried == {"send", "mark", "document", "refusal", "complete", "undo"}

\* Mutant: the catch block only logs.
StatementFailsUncaught(p) ==
    /\ sapCalls[p].pc \in Tried
    /\ Stop(p)
    /\ UNCHANGED <<status, marked, logs, sap, queue>>

\* A statement fails, or the payload cannot be built: the catch block goes on.
StatementFails(p) ==
    /\ sapCalls[p].pc \in Tried
    /\ Goto(p, "fail")
    /\ UNCHANGED <<status, marked, logs, sap, queue>>

\* A statement outside it fails, the UPDATE of the catch block among them.
CallFails(p) ==
    /\ SapFaults
    /\ sapCalls[p].pc \notin Tried \cup {"idle", "wait", "confirm"}
    /\ Stop(p)
    /\ UNCHANGED <<status, marked, logs, sap, queue>>

INCrash ==
    /\ SapFaults
    /\ sap' = NewCircuit
    /\ queue' = NewCircuit
    /\ sapCalls' = [p \in SapProcs |-> IdleCall]
    /\ UNCHANGED <<status, marked, logs>>

PushStep(p) ==
    \/ ReadEntity(p) \/ CreateSyncLog(p) \/ SapRequest(p)
    \/ ResponseOk(p) \/ ResponseError(p) \/ NoResponse(p)
    \/ MarkEntity(p) \/ RecordSAPDocument(p) \/ CompleteSyncLog(p)

RetryStep(p) ==
    \/ HoldEntry(p) \/ SettleEntry(p) \/ NextEntry(p) \/ TakeEntry(p)
    \/ ConfirmEntry(p) \/ PlanRetry(p) \/ ScheduleRetry(p)

SapCallStep(p) == PushStep(p) \/ RetryStep(p)

INNext ==
    \/ \E p \in SapProcs :
        SapCallStep(p) \/ ConfirmFails(p) \/ StatementFails(p) \/ CallFails(p)
    \/ \E p \in Pushers :
        \/ \E e \in Entities : StartPush(p, e) \/ ApproveInvoice(p, e)
        \/ \E n \in DOMAIN logs : StartRetry(p, n)
    \/ \E p \in Queuers : StartProcessing(p)
    \/ \E e \in Entities : RejectInvoice(e)
    \/ \E n \in DOMAIN logs : SapAccepts(n)
    \/ \E S \in SUBSET DOMAIN logs : ResetDeadLetters(S)
    \/ CooldownElapses
    \/ INCrash

INSpec == INInit /\ [][INNext]_sapVars

-----------------------------------------------------------------------------
(***************************************************************************)
(* What the log calls a success is one: unless the retry queue closed the  *)
(* row without dispatching it, SAP took a post of the entity, a row of     *)
(* sap_documents was written for that post and the entity is marked.  The  *)
(* row, the document and the entity are three tables written outside any   *)
(* transaction, a retried row is settled from another push's answer, and a *)
(* late post, a failing statement or a crash may come after each of them.  *)
(* The document need not be 'posted': an answer that accepts without a     *)
(* number leaves an 'error' document under a success.                      *)
(***************************************************************************)
BookedBy(m) ==
    /\ logs[m].post = "taken"
    /\ logs[m].document # "none"
    /\ MarksEntity(logs[m].ent) => logs[m].ent \in marked

SuccessIsBooked ==
    \A n \in DOMAIN logs : logs[n].status = "success" =>
        \E m \in DOMAIN logs : logs[m].ent = logs[n].ent /\ BookedBy(m)

(***************************************************************************)
(* 'Check retry limit' reads the count one statement before it is raised,  *)
(* in retrySyncEntry as in scheduleRetry: concurrent requests overshoot    *)
(* the limit, but by no more than there are of them, since a count at the  *)
(* limit lets none begin.                                                  *)
(***************************************************************************)
RetriesBounded ==
    \A n \in DOMAIN logs : logs[n].retries < MaxRetries + Cardinality(SapProcs)

(***************************************************************************)
(* Each breaker implements Breaker, with calls that were let through       *)
(* before the circuit opened, or all at once while it was half-open, still *)
(* coming back in any order.                                               *)
(***************************************************************************)
InSap == {p \in SapProcs : At(p, "wait")}
InQueue == {p \in SapProcs : sapCalls[p].pc \in {"take", "confirm"}}

SapBreaker == INSTANCE Breaker WITH
    Callers <- SapProcs, failures <- sap.failures, rested <- sap.cooled, inside <- InSap
QueueBreaker == INSTANCE Breaker WITH
    Callers <- SapProcs, failures <- queue.failures, rested <- queue.cooled, inside <- InQueue

BreakerKept == SapBreaker!Spec
QueueBreakerKept == QueueBreaker!Spec

(***************************************************************************)
(* No row is left behind: while the process stays up and no statement      *)
(* fails but in a try block, a row in progress, or held by a retry the     *)
(* queue does not know of, is settled, though SAP never answers.  Timers   *)
(* bound every wait and the event loop runs every request on, the fairness *)
(* assumed.                                                                *)
(***************************************************************************)
INFairSpec == INSpec /\ \A p \in SapProcs : WF_sapVars(SapCallStep(p))

Unsettled(n) ==
    /\ n \in DOMAIN logs
    /\ logs[n].status = "in_progress" \/ (logs[n].status = "retrying" /\ ~logs[n].timed)

LogsSettle == \A n \in 1..MaxLogs : Unsettled(n) ~> ~Unsettled(n)

(***************************************************************************)
(* What LogsSettle rests on, as a state: every such row has a request that *)
(* will write it again.  A retry has two rows in its hands, its own and    *)
(* the one it retries, others may settle, hold or reset either meanwhile,  *)
(* and its answer must not pass a row by.                                  *)
(***************************************************************************)
AtWork(call, n) ==
    \/ call.pc \in PushPC \ {"read", "log"} /\ call.log = n
    \/ call.pc \in PushPC \cup {"settle", "confirm", "plan", "delay", "bury"} /\ call.entry = n
RowsAreServed ==
    \A n \in DOMAIN logs : Unsettled(n) => \E p \in SapProcs : AtWork(sapCalls[p], n)
=============================================================================
