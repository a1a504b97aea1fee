# Formal models of Railsync

Railsync manages a fleet of leased rail cars. The program is an Express
server (`backend/src`) over PostgreSQL (`database/migrations`) with a Next.js
client (`frontend`). Its core is the *car lifecycle*: a car is on rent under a
lease, is released, is triaged, is sent to a shop, comes back to a customer or
to storage, moves to another lease, and is finally scrapped. The rules of that
lifecycle (`docs/design/car-lifecycle-correction-plan.md`, rules R1-R23,
never-rules N1-N9, synchronisation points S1-S10) are kept by three mechanisms
at once: checks in the services, row triggers, and unique partial indexes.
Around it stand the billing of the cars on rent and the integrations that push
invoices and costs to SAP. The services run most statements outside
transactions and start promises nobody awaits, so the rules are about
interleavings, and this is what the models are about.

## How the program executes

* A statement outside `transaction()` takes a pool connection, commits by
  itself and releases the connection (`config/database.ts:21-33`). A handler
  of several such statements is a process; between two of its statements any
  other statement may commit.
* `transaction()` (`config/database.ts:35-50`) runs a callback between BEGIN
  and COMMIT, at READ COMMITTED. The statements of the callback that use its
  `client` commit together; a call inside it to a service that uses
  `query()` runs on another connection of the pool, of which there are 20, and
  commits by itself.
* A trigger runs inside the statement it belongs to, so a statement and its
  triggers are one step.
* `someService.call(..).catch(log)` is a promise nobody awaits: its first
  statement is queued now and runs later, in any order with the others; it may
  reject (no connection within 2 s, a constraint) and is then only logged.
* An error on an idle pool connection ends the process
  (`config/database.ts:16-19`), between any two statements.

## Inventory

| Component | State | Operations | Hard behaviour |
|---|---|---|---|
| Shopping events V2 (`shopping-event-v2.service.ts`, migration 079) | `shopping_events_v2` | create, transition, setDisposition with chain, cancel | numbering and one-active-event races, chain link written late, loops and shortcuts of the state machine |
| Idle periods, triage queue (`idle-period.service.ts`, `triage-queue.service.ts`, migration 078) | `idle_periods`, `triage_queue` | open/close, create/resolve | reordered and lost promises, double resolution |
| Lease hierarchy (`contracts.service.ts`, migrations 078, 081, 083) | `master_leases`, `lease_riders`, `rider_cars` | add/remove car, transition, deactivate rider/lease | parent guards under concurrency, bulk updates against row triggers, lock order |
| Rider assignment (`routes/index.ts`: ready-to-load, assign-to-rider) | `cars.ready_to_load`, `rider_cars` | mark ready, assign | check-then-update over a view |
| Releases (`release.service.ts`, migration 053) | `car_releases` | initiate, approve, execute, complete, cancel, from shopping event | two-table workflow, calls on other connections inside a transaction, no unique active release |
| Transfers (`transfer.service.ts`, migration 011) | `car_lease_transitions` | initiate, confirm, complete, cancel | third writer of `rider_cars`, insertion that conflicts in silence, completion by a release |
| Scraps (`scrap.service.ts`, migration 069) | `scraps`, `cars.fleet_status` | propose, transition, complete, cancel | checks long before the writes they protect |
| V1 shopping workflow (`shopping-event.service.ts`, `estimate-workflow.service.ts`, `transition-log.service.ts`, migration 049) | `shopping_events`, `estimate_submissions`, `state_transition_log` | create alone and in batches, gated transitions, revert, submit and judge estimates | gates read before the UPDATE, reverts that read a log other requests write |
| SAP integration (`sap-integration.service.ts`, `circuit-breaker.ts`, `retry-queue.service.ts`) | `integration_sync_log`, `sap_documents`, two circuits in memory | four pushes, retry, retry queue, resets | late answers, retries of what was done, half-open probes, crash between three writes |
| Billing (`billing.service.ts`, migration 051) | `outbound_invoices`, `billing_adjustments`, `chargebacks` | generate rental and chargeback invoices, approve, deliver, void; decide on items | number counted outside its transaction, items marked by id alone, pool exhausted by its own requests |
| V1 assignments and dual write (`assignment.service.ts`) | `car_assignments` | create, update, cancel, mirrored to V2 | the mirror call follows the V1 statement, and its failure is caught and logged |
| Lease amendments (`contracts.service.ts:1203-1446`) | `lease_amendments` | create, submit, approve, activate | supersession |
| Allocations, demand, planning, qualification, projects, alerts, abatement, inbound invoices, other integrations | own tables | CRUD and workflows | see `PROJECT.json` |
| Rules engine (`rules-engine/`) | none | evaluate | pure function |
| Frontend, auth, reports, imports | client state | | not concurrent with the rules above |

What makes the lifecycle correct: at most one event of a car is in progress and
ended events stay ended (R1, rule 6); no disposition and no close without final
approval (R3, N2) or, for all but MRU events, without a disposition (R4, N3);
chains are linked forward; a car is on at most one active rider (R2, N4), also
while it is transferred; a rider car is active only under an active rider and
lease (R15-R17); a rental ends through a release; a release ends once; only a
completed scrap disposes a car, for ever (R5, R6), and work on a scrap once
begun is finished (R9). V1: no work without an approved estimate, no final
disposition but on the newest, and neither is taken back. Integration: what the
log calls a success is booked, retries are bounded, no row is left in progress,
no call goes through an open circuit. Billing: numbers without gaps, nothing
billed twice in a period, marks that match the invoices.

## The modules

| Module | What it is |
|---|---|
| `CarSideEffects` | idle periods, triage queue, and the promises that write them |
| `ShoppingEventRules` | rows of `shopping_events_v2` and the trigger of migration 079 |
| `ShoppingEvent` | shopping-event-v2.service over both |
| `Disposal` | abstract: what scrapping promises about cars |
| `Scrap` | scrap.service, composed with `ShoppingEvent` |
| `LeaseHierarchy` | master leases, riders, rider cars, assign-to-rider, over `CarSideEffects` |
| `Custody` | abstract: what the writers of `rider_cars` promise about a car |
| `Release` | car_releases, over `LeaseHierarchy` |
| `Transfer` | car_lease_transitions, over `Release`: three services on `rider_cars` |
| `ShopWorkflow` | the V1 events, their estimates and their log |
| `Breaker` | abstract: what a circuit breaker promises its callers |
| `CircuitBreaker` | the two breakers as operators on a record |
| `SapIntegration` | pushes, retries and the retry queue, over `CircuitBreaker` |
| `Ledger` | abstract: what the invoices of a customer promise |
| `Billing` | outbound invoices and the items they bill |
| `MCShoppingEvent`, `MCScrap`, `MCLeaseHierarchy`, `MCTransfer`, `MCShopWorkflow`, `MCSapIntegration` | instances for TLC: symmetry sets, constants that are functions |
| `CarSideEffectsProofs`, `ShoppingEventProofs`, `ScrapProofs`, `LeaseHierarchyProofs`, `TransferProofs` (releases and transfers), `ShopWorkflowProofs`, `SapIntegrationProofs`, `BillingProofs` | theorems |

There are two towers on the tables and promises of `CarSideEffects`, which are
the same variables in both: `ShoppingEvent` and `Scrap`, and `LeaseHierarchy`,
`Release` and `Transfer`. The other components share no table with them.
`PROJECT.json` maps every definition to its lines.

In every module a request is a process, a record in a function of calls whose
`pc` names the statement that runs next. A statement outside a transaction is a
step. Of a transaction, what the others see is a step (its COMMIT); what it
locked before is in its record, and the others wait for it.

### CarSideEffects

`idle` is the set of cars with an open idle period and `triage` the rows of
`triage_queue`; both tables admit one open row per car. A promise that runs one
statement is a member of `tasks` and runs whenever `RunPromise` picks it.
`resolveTriageEntry` reads, then updates by id: a member of `resolving` that is
first `CheckResolve`d, then `ApplyResolve`d. With `Faults`, a promise may
reject (it is only logged) and the process may crash, which loses every call
and promise and keeps the tables.

### ShoppingEvent

`events` holds the rows in order of creation; a row is its id, the place it has
there. A transition is one UPDATE with its trigger (`TriggerAccepts`,
`Triggered`), hence one step; the row the service reads first serves the audit log
only. `createShoppingEvent` is a call of several statements, so it is a process in
`creator`: number and car read (`StartCreate`), INSERT (`InsertEvent`), triage
entry looked up (`FindTriage`), and for a chain the link written by
`setDisposition` (`LinkChain`) with the id its own INSERT returned. Of the two
unique indexes, `Occupied` is the one on the car. Event numbers are not modelled,
only their index: when a row came in since the number was read, the INSERT may be
refused (`NumberMayBeTaken`), for the row may be of the same day or not.
A disposition stores the reference the client sends (`References`: none, any event
there is, or something that is no event), as `setDisposition` and the transition
route both do. So the column says nothing by itself, and `chained`, which is no
column, marks the rows whose reference the service wrote for its own chain.
`ScrapCompletes` is what scrap.service does to these tables.

### Scrap

`scraps` holds the rows, `scrapCalls` the requests. A proposal reads the car,
its triage entry, idle period, events, lease and scraps, a statement each
(`AfterCheck`), and inserts without a lock or an index to repeat the tests;
the lease, of the other tower, may answer either way. A transition is one
UPDATE through both triggers (`ScrapAccepts`: a repeated status skips the
graph). Completion and cancellation test the row they read, and write later
through the triggers; the completion is one transaction over four tables.
The module promises two refinements: `DisposalKept` (the abstract `Disposal`) and
`ShoppingEventKept`: every step is one of `ShoppingEvent` or leaves its
variables alone, so that what holds of events holds of the composition.

### LeaseHierarchy

A handler is a process in `calls`. The transactions run at READ COMMITTED, and the
model uses what that means for the others: until the COMMIT step
(`CommitDeactivation`, `CountCar`, `CommitRemoval`) the writes of a call are only
in its record, every SELECT, also in a trigger, reads the tables, and the rows a
call wrote are locked (`HoldsLease`, `HoldsRider`, `HoldsRow`, `HoldsCar`):
another UPDATE of them waits (`LeaseFree` ...). A statement that a trigger rejects
rolls back, which is the call returning. `transitionRiderCar` runs no transaction:
its statements (`UpdateStatus`, `LogHistory`, `CountReturned`) commit one by one.
`ready` is the flag `ready_to_load`; `on_rent_history`, which no rule reads, is
left out. `WaitsFor` and `DeadlockAbort` are PostgreSQL's deadlock detection, for
one cycle: removal locks a row, then the rider; deactivation the rider, then its
rows. That this is the only one is a property: `Waits` says who waits for whom by
any lock, and `CyclesAreBroken` that requests waiting in a circle, however many,
always have such a pair among them.

`Requests` and `RequestedStatuses` say which endpoints clients use in a run, so
that a property the whole API breaks can be shown to hold without the endpoint
that breaks it. The migrations, read in order, leave `rider_cars` with neither
`updated_by` (no migration adds it) nor `is_on_rent` (083 drops it), and the code
writes both. The models take them to exist: they say what the logic does once the
columns are there (divergences 6 and 7 are what happens before).

### Release

`releases` holds the rows of `car_releases`, `relCalls` the statement each release
call runs next. Every handler reads the release first (`Initiate`, `Advance`,
`Complete`, `Cancel`) and updates it later by id, where the trigger decides
(`Permits`). Where a handler calls `transitionRiderCar`, its process goes on as
the lease call (`CallTransition`), for nothing but logging follows.
`completeRelease` is a transaction: it holds the release from `CompleteRelease` to
`CommitRelease` and, from `TakeOffRent` on, the rider cars, as a lease call at
`held`, so that the lease service waits for them and it for the lease service. A
process runs one request at a time, of either service.

### Transfer

`transfers` holds the rows of `car_lease_transitions`. `initiateTransfer` reads
the source row, the destination, the transfers and the releases of the car, and
then inserts; the tests of a confirmation, completion and cancellation are reads,
and their UPDATEs name the id only, with no trigger behind them.
`completeTransfer` takes the source's rows off rent (`TakeFromSource`), then
inserts the destination's row: `CommitTransfer` has the two silent outcomes of `ON
CONFLICT DO NOTHING` (the car is on another rider by then; or the index of the
rider, the car and the day of addition is met, which leaves the car on no rider).
A completed release completes the transfer it is linked to. `CustodyKept` is the
refinement of the abstract `Custody`: of each car only the rider it is active on
and the status there are seen, and in these terms the three services together take
only the steps that a lease allows.

### ShopWorkflow

`workflows` holds an event with its submissions, in order of version, and the
newest row of its log; `wfCalls` the requests. `transitionState` reads its gate
(`CheckGate`), for two targets the payers of the lines (`CheckPayers`), then the
state, updates it through the trigger (`UpdateState`) and logs what it had read
(`LogTransition`). A revert reads the log, the state and the log again and comes
in by the same door. Estimates are submitted and judged at any time. A submission
carries two history flags, written by nothing but a verdict, so that the
properties can speak of what was approved earlier.

### SapIntegration

An entity (an invoice, an outbound invoice, an allocation, a mileage record) has a
`status` the pushes read and may be `marked` with a SAP document; `logs` are the
rows of `integration_sync_log`, each with its post and its document; `sap` and
`queue` are the two circuits. A push reads, inserts its log row, posts through the
breaker, marks, records and completes, a statement each, in no transaction. A post
on the wire may be accepted after its caller gave it up (`SapAccepts`,
`NoResponse`). An error of a statement in the try block leads to the catch block
(`StatementFails`), which is always possible; an error outside it ends the request
(`CallFails`, with `SapFaults`). A retry marks the failed row, pushes with a row
of its own, and settles the first row by the answer. The retry queue takes the
rows whose time has come and closes them without dispatching the operation, as the
code does (`queue_success`). The clock is abstracted: a circuit is `cooled` or
not, a timed row is due or not.

### Billing

One customer; customers share nothing but the pool. `items` are the adjustments
and chargebacks, `invoices` the rows with their lines as they were committed,
`blCalls` the generations. Each keeps the connection of its transaction and asks
for a second one to count the invoices of its period (`ReadNumber`), or times out
(`PoolTimeout`). The INSERT of a header waits for an uncommitted row of its number
(`NumberLocked`) and is refused by a committed one. A rental invoice reads the
adjustments after that (`CollectAdjustments`), a chargeback invoice its
chargebacks before it. The UPDATEs that mark them name the id only: one that
waited for another generation marks the item again.

## The runs

| Run | Checks | Shows |
|---|---|---|
| `SE_handoff` | `HandoffOrder`, `ChainLinks`, `TerminalIsFinal` | creations, dispositions and chains racing over three events of a car, with references clients send |
| `SE_review` | `SETypeOK`, `ApprovedBeforeDisposition`, `TypedCloseHasDisposition` | loops, shortcuts and closes of one event of every type, with faults |
| `SC_scrap` | `ScTypeOK`, `DisposedIffScrapped`, `ScrapUnderwayWasApproved`, `DisposalKept`, `ShoppingEventKept` | two scraps of a car that is also shopped, with failures and crashes; both refinements |
| `SC_live` | `StorageReturnIsTriaged`, `CancelledScrapIsTriaged` | S8 and S6 when nothing fails, also for a car with older entries |
| `LH_leases` | `LHTypeOK`, `CyclesAreBroken` | every endpoint, with lost promises and crashes: requests that wait for each other in a circle can all be told from one another by the detector |
| `LH_live` | `ExpiredRiderHasNoRentedCar`, `CallsEnd`, `RentEndIsTriaged` | deactivation racing with additions and rentals; calls that deadlock still end; a car off rent gets, or has, an open triage entry |
| `TR_transfer` | `TrTypeOK`, `OneActiveRider`, `CustodyKept`, `CompletionKeepsCar` | additions, rentals, a release and a transfer of one car over two riders |
| `RL_release` | `RelTypeOK`, `RentalEndsThroughRelease`, `ReleaseEndsOnce` | two requests at once over two releases of a car that clients also put back on rent or remove, by what they read before, with crashes |
| `WF_gates` | `WfTypeOK`, `WorkFollowsApproval`, `FinalFollowsNewest`, `WorkNotRecalled` | moves and reverts of one event through all its states while two estimates come in and are judged |
| `IN_sap` | `INTypeOK`, `SuccessIsBooked`, `RetriesBounded`, `BreakerKept` | pushes and retries over three log rows, with late answers, failures and crashes |
| `IN_queue` | `QueueBreakerKept`, `LogsSettle` | a retry beside the retry queue and its resets, when only caught errors occur |
| `BL_bill` | `BlTypeOK`, `LedgerKept`, `AdjustmentBilledOnce`, `BilledIsListed`, `GenerationsEnd` | three generations of two periods on a pool they can exhaust; `LedgerKept` is the refinement of `Ledger` |

**Bounds.** The rules are per car, event, entity or customer, and cars meet only
in the rider they share, so one of each is enough for every run. Two requests
suffice for the races, for a race here is one request between two statements of
another; `BL_bill` has three, on three connections, so that the pool can be
exhausted and yet two generations can run at once with a connection left to count
on. `MaxEvents` = 3 lets a chain have a middle. `MaxRiderCars` = 1 bounds when an
insertion may start: two that race may both come to insert, and a transfer inserts
its row beside it; `MaxReleases` = 2 lets a release follow a cancelled one and
meet its late calls; `MaxScraps` = 2 the same for scraps. `MaxLogs` = 3 is a push,
a retry with its own row, and a retry of that or of the first again; `MaxVersions`
= 2 an estimate that replaces another; `MaxInvoices` = 3 a voided or refused
number with one before and after. `Threshold` is 1 or 2 failures, `MaxRetries` 1,
so that limits are met. `RequestedRefs` are the events a client may name: event 1
in both `SE_` runs, where links are checked, and none (0) in the others. `MaxTriage` = 0 switches triage
rows off where they do not matter; it is 2 in `SC_live`, so that a return can meet
an entry of an earlier time, open or resolved. The theorems hold for all bounds. `CHECK_DEADLOCK FALSE` because a bounded
table may be full with nothing left to ask for.

**Fairness.** Clients owe nothing: no action that starts a request is fair, nor is
any fault. Promises run and requests go on (`WF` on each task and on the steps of
each request, in `ScFairSpec`, `LHPromiseFairSpec`, `INFairSpec`) because the
event loop runs every queued callback and a timer bounds each wait for SAP.
Requests that wait for a lock get *strong* fairness (`LHFairSpec`; `InsertHeader`
in `BlFairSpec`): a waiting statement becomes able to run whenever the lock is
released and others may take it again, and PostgreSQL queues lock waiters, so it
is granted in the end; for the lease calls the same fairness covers the deadlock
detector. The pool serves or refuses within its timeout (`WF` on `ReadNumber \/
PoolTimeout`). Faults that nobody retries are off in the liveness runs of triage
(S6, S8) and of the log; `GenerationsEnd` holds with them.

## The proofs

`tlapm` checks them for every value of the constants. Each component has its type
invariant as a theorem; of the other properties of the runs all but the liveness
properties are proved.

*Events.* The properties of a row follow from `RowsOK`, which strengthens
`ApprovedBeforeDisposition` by FINAL_APPROVED itself and
`TypedCloseHasDisposition` by DISPO_TO_DESTINATION: an event is approved or
disposed before it reaches the state in which that matters. `MovedFacts` and its
siblings say what one UPDATE does to a row, `EventsStep` that every step is such
an UPDATE, an INSERT or a stutter. `HandoffOrderHolds` needs no more than types:
the INSERT meets no row in the index, and no UPDATE brings a row of
DISPO_TO_DESTINATION back into it. `TerminalStaysFinal` is read off the same
lemma. `ChainLinksHold` needs what a chaining call may rely on when it writes its
link (`CallFits`): the event it disposed was approved and has left the index for
good, the one it inserted is later, of the same car and named by no chain, and no
other call holds it (`CallsApart`). Whatever else happens to either row keeps this
(`LinksKept`), a disposition with a client's reference included, since it makes
the row one that is not chained.

*Scraps.* `ScrapKeepsShoppingEvents` shows the refinement step by step, and with
it the theorems about events hold beside scraps (`RulesHoldBesideScraps`).
`ScrapImplementsDisposal` maps each UPDATE through the trigger to a step of
`Disposal`, a repeated status to a stutter; a completion of a completed scrap is
refused by the immutability trigger, and so is none. `DisposedMeansScrapped` and
`UnderwayWasApproved` are inductive with the types.

*Leases.* `LHTypeCorrect` is inductive with `Shape` (a call that is at a statement
has the rows it works on). `Locks` says that no two calls hold the same row of
`rider_cars` and that the trigger would still accept what a holder will write at
its COMMIT: this is what the row locks are for, and `RentalsEndThroughRelease`
follows from it. `OneActiveRiderHolds` rests on `OneRiderInv` (a car that is
inserted and not committed is active on no rider, and inserted by one call),
`ExpiredRiderHolds` on `ExpiredInv` (a rider is being deactivated by one call, and
at its COMMIT has no active row but those that go with it). The latter assumes
that `assign-to-rider` is not used: with it the property is false (divergence 4).

*Deadlock.* `CyclesAreBrokenHolds` is about any number of calls that wait in a
circle. The one waited for holds something and waits itself, so it is at one of
three statements: a removal that has its row, a deactivation that has its rider,
or an addition that has its car. The last waits for a rider, hence for a
deactivation; that waits for a row, hence for a removal; and the removal for the
rider of that row, whose one owner (`RiderLocks`) is the deactivation again: there
is the pair. `TrCyclesAreBrokenHolds` says the same of the three services: a
release or transfer call that holds rows is at its COMMIT, which waits for nothing
(`WaitInv`).

*Releases and transfers.* The steps of the release service are shown to be steps
of the same kind as those of the lease service (`CallMoves`: take free rows in the
status the COMMIT relies on, change only rows no other call holds), so `Locks` is
kept by both and `ReleasesKeepRentals` is the argument of
`RentalsEndThroughRelease` again. `RelShape` is what a release call has at each
statement; `Completing` says that the release of a completion under way was
executing when it was locked, which `ReleaseEndsOnceHolds` needs, since the COMMIT
itself tests nothing. Transfers are the third writer: `TrInv` is the invariant of
all three services, a transfer's COMMIT ends rows it holds and inserts one
(`CommitRider`), and `CommitKeeps` and `CommitOneRider` say that neither `Locks`
nor `OneRiderInv` minds. `CompletionKeepsCarHolds` is read off `CommitRider`.
`ServicesKeepCustody` is the refinement: `OneActiveRider` makes the rentals of a
car at most one, a statement of the lease or release service moves the cars of the
rows it writes, and a transfer's COMMIT, two rows, is the one change of hands;
that the row it ends is one of the car it moves, on the rider it takes it from, is
`HeldForCar`.

*V1 workflow.* What a gate saw becomes history before the UPDATE of the state
comes, and a request past its gate relies on the history only (`CallOK`), which no
later rejection or submission changes. `WorkNotRecalledHolds` needs nothing of the
log a revert read: the graph of the trigger alone has no edge back, whatever the
request asks for.

*Integration.* `SapBreakerImplements` and `QueueBreakerImplements` are
refinements: every use of a circuit is one of five operators (`CircuitStep`),
which keep it open or below its threshold or cooled (`CircuitFits`).
`SuccessIsBookedHolds` carries what a push has done along its statements; the
document it wrote may be one in error (divergence 34).
`RetriesBoundedHolds` counts, for each row, the requests that read its count below
the limit and have not raised it yet: the count and that number together stay
below the bound.

*Billing.* The number of an invoice is a lock. `NumberInv` says that numbers are
dense, that a count which was read is at most one ahead, and that a header is
inserted only with the next number and by one generation of its period: the others
wait for the number or find it taken. `NumbersDenseHolds` is its first part.
`AdjustmentBilledOnceHolds` adds that the adjustments a generation has read, with
its number taken, are on no invoice of the period (`AdjustmentInv`): they were
open, which by `BilledIsListedHolds` means on no invoice, and until its COMMIT no
other generation of the period can commit. The two together are what
`BillingImplementsLedger` needs at a COMMIT: the entry has the next number and
adjustments of its own.

*What is owed.* Liveness itself the prover cannot do, but what it rests on is a
state or a step, and that is proved, when nothing fails: there is always somebody
who owes the work. The step that closes an event to storage starts the promise of a
triage entry, and no step ends that promise but one after which the car has an
open entry (`StorageReturnsAreOwed`), also beside scraps, whose completion ends
entries but no promise (`StorageReturnsAreOwedBesideScraps`); the step that
cancels a scrap leaves a request at the statement that sees to its car, which ends
in the same way (`CancelledScrapsAreOwed`); a return that `transitionRiderCar`
owes stays owed until then (`ReturnsStayOwed`). An entry of an earlier time that
is resolved does not count. One that is still open does, because the index refuses
another, and it may be resolved right after (divergence 33). A row of the
synchronisation log that is not settled has a request that will write it
(`RowsAreServedHolds`). Fairness adds only that the one who owes it goes on.
`RowsAreServed` and the triage debts assume no crash: with one they are false,
since nothing is persisted that would remember the work.

The assumptions are the named ASSUMEs of the modules (types of the constants,
adjustments that are no chargebacks, finite sets of requests). Model-checked only:
liveness (`StorageReturnIsTriaged`, `CancelledScrapIsTriaged`, `CallsEnd`,
`RentEndIsTriaged`, `LogsSettle`, `GenerationsEnd`), which the prover cannot do:
that whoever owes the work is enabled and goes on is left to TLC. Proved for all
constants and not given to a run, where they would repeat one:
`TrCyclesAreBroken`, `RowsAreServed`, `NumbersDense` (part of `LedgerKept`) and
the properties of what is owed.

## Divergences

Where the code does not do what its documents or comments say. The models have
the behaviour, except where they say what they take to exist or leave out; the
properties are what remains true beside it.

Events, scraps and triage:

1. An event without a type closes without a disposition: `!= 'MRU'` is NULL
   (migration 079:234).
2. A car in a shop keeps an open idle period: the promises that open and close
   it are not ordered (`shopping-event-v2.service.ts:225`).
3. Two callers resolve one triage entry, the second overwrites the first
   (`triage-queue.service.ts:138`).

Leases, releases and transfers:

4. `assign-to-rider` does not lock the rider (`routes/index.ts:359`): a car is on
   rent under a rider whose deactivation commits next (R19).
5. A car has two pending releases: the test and the INSERT are two statements
   (`release.service.ts:105`).
6. Cancelling a release fails: the trigger assigns `is_on_rent`
   (migration 081:49), a column 083 dropped.
7. `updated_by` is no column of `rider_cars`, so every `transitionRiderCar` fails
   (`contracts.service.ts:1003`).
8. Deactivating a rider with any active car, and removing a car on rent, always
   fail: the trigger admits `off_rent` from `releasing` only
   (`contracts.service.ts:814`, `:905`).
9. A lease is set to Expired under cars on rent (N8), and a car is added under a
   Terminated one (R18), because only the rider is read
   (`contracts.service.ts:648`, `:846`).
10. A rider is inserted under a lease deactivated since it was read
    (`contracts.service.ts:734`).
11. Removal of a releasing car opens no idle period and no triage entry (S8)
    (`contracts.service.ts:905`).
12. Review loops and cancellation leave `version` alone although it is bumped 'on
    every state change' (migration 079:261), and an event sent to another shop
    may close without a successor (`shopping-event-v2.service.ts:384`).
13. The days of a releasing car are billed: only `on_rent` and `off_rent` reach
    `on_rent_history` (`contracts.service.ts:1009`), although `releasing` is
    documented as the billing stop; a completed release writes no history at all.
14. The release commits before its car is set to releasing
    (`release.service.ts:126`): when that fails, is late or overtaken by a
    cancellation, a release completes with the car on rent, or the car stays
    releasing without a release. A second completion that waits for the first
    repeats it, and may take off rent the row of a newer release.
15. Two proposals for a car insert two active scraps (`scrap.service.ts:149`,
    against line 87); a scrap is then completed for a car already disposed.
16. The status of a transfer is written over after its end: a confirmation or
    cancellation that read it earlier wins over a completion
    (`transfer.service.ts:274`, `:421`).
17. A car transferred back to a rider it left the same day is stranded: its
    source row ends and `ON CONFLICT DO NOTHING` inserts none
    (`transfer.service.ts:341`).

Integration:

18. A half-open circuit admits every call that comes, not one probe
    (`circuit-breaker.ts:147` against the comment at 140).
19. The retry queue closes rows as a success without dispatching them, and the
    dismissal of a dead letter is refused by the CHECK of the status column.
20. `pushBillingTrigger` reads `outbound_invoices.total_amount` and `pushMileage`
    `mileage_records.total_miles`, columns no migration creates. `SapIntegration`
    takes them to exist. `Billing` does not: with the column the push would write
    `sent_to_sap` by id over whatever the invoice has become, a voided one too
    (`sap-integration.service.ts:722`), a status it leaves out.

V1 workflow:

21. The final estimate may be the submission that authorized the work
    (`shopping-event.service.ts:288`).
22. Batches and approved shopping requests insert events without the guard; the
    index alone refuses a second active event, and a batch rolls back whole.
23. `REVERSIBLE_TRANSITIONS` lists reversals the trigger refuses (INBOUND to
    INSPECTION, INSPECTION to ESTIMATE_SUBMITTED, ESTIMATE_UNDER_REVIEW to
    CHANGES_REQUIRED).
24. A revert may be allowed for one row of the log and carried out with the next.
25. The payer gate is vacuous when the approval is withdrawn between its two
    queries. `preReviewEstimate` reads `estimate_line_items`, which no migration
    creates; a line decision without a responsibility violates a NOT NULL.

Billing:

26. A billing run always fails its own preflight: the check for a run of the
    period finds the run's own row, and the unique index refuses another.
27. Generated directly there is no preflight, and the rent of a period can be billed twice.
28. Chargebacks are read before the number is: two generations, of one period even,
    bill them twice (`billing.service.ts:1048`). Adjustments are billed twice
    by generations of two periods at once.
29. A voided invoice keeps its items applied; they are never billed again.
30. `getOnRentDays` keys its Map by Date objects and looks up strings
    (`contracts.service.ts:1120-1183`); billing and a pool without a free connection
    fall back silently to the dates of addition and removal
    (`billing.service.ts:556-567`).
31. The abatement 'upsert' conflicts on a generated primary key, so every
    generation inserts the period again (`abatement.service.ts:293-299`), on
    another connection, where it stays when the invoice rolls back.

Further ones, of the same components:

32. `disposition_reference_id` is whatever the client sends: an event of another
    car, of an earlier time, or no event at all
    (`shopping-event-v2.service.ts:338`). Only links of `setDisposition`'s own
    chains are what the column is for, and nothing in the table tells them apart.
33. A car returned to storage may end with no open triage entry: its promise finds
    an entry open, the index refuses another, and the entry is one that a call
    under way resolves for an event created before
    (`shopping-event-v2.service.ts:231`, `:397`, `triage-queue.service.ts:138`).
34. An answer of SAP that accepts without an `AccountingDocument` leaves a document
    in status 'error' and completes the log row as a success
    (`sap-integration.service.ts:349`, `:726`).

## What is not modelled

Columns no rule reads (names, dates, prices, notes, `version`), audit logs,
alerts, and the reads of lists and reports. Authentication and
request validation: the models start where a handler calls its service.
`ON CONFLICT` and unique constraints are modelled by whether they reject, dates
by whether two may be the same day, clocks by whether a time has come. Amounts:
rents, rates, mileage and abatement are calculations on rows nobody else writes.
Most of the program is CRUD, screens and reports over one row at a time, which
has no protocol to get wrong. `PROJECT.json` lists every component that is left
out with the reason.

## What could follow

The order would be the following.

1. `CarLifecycle`: the composition of the two towers, for the rules that span
   them (R7, R8, N5, the event a completed release closes, the lease test of a
   scrap proposal). They already share `CarSideEffects`.
2. `DualWrite`: V1 assignments mirrored to V2 events. Each mirror call is awaited
   after the V1 statement has committed, and its failure is only logged
   (`assignment.service.ts:268-284`, `:486-494`, `:643-658`), so the two can part:
   what they still promise each other has to be found first. At the schema of the
   last migration the insert of `createAssignment` leaves out the mandatory
   `car_mark_number`, and the one of `lockCars` writes a source that the
   constraint of migration 069:300-307 no longer admits; a model has to
   settle first which schema it stands on.
3. `Amendment`, and the capacity counters of allocations. The counters drift (a
   reassignment within a month is not tracked by the trigger of migration 046,
   `assignAllocation` tests the version on read only), so what they still
   promise has to be found first.
4. On-rent days, idle cost and abatement as pure functions over bounded
   calendars.
