------------------------------- MODULE Billing -------------------------------
(***************************************************************************)
(* Outbound invoices of billing.service.ts for one customer: customers     *)
(* share nothing but the pool of connections.                              *)
(*                                                                         *)
(* Both generations run in a transaction, but take the number of their     *)
(* invoice by generateInvoiceNumber, a COUNT on a second connection of the *)
(* pool.  Until the COMMIT step what a generation wrote is only in its     *)
(* call: the header, whose number others then wait for, the lines, and the *)
(* items it marked as billed, by id alone.                                 *)
(*                                                                         *)
(* The rent itself is not told apart: a rental invoice has its lines, and  *)
(* the route that generates it asks for no preflight.  Billing runs, which *)
(* do, never come to generate: README, divergences.                        *)
(***************************************************************************)
EXTENDS Naturals, Sequences, FiniteSets

CONSTANTS
    Adjustments,  \* rows of billing_adjustments
    Chargebacks,  \* rows of chargebacks
    Periods,      \* <<fiscal_year, fiscal_month>> values
    BillProcs,    \* requests that may generate at the same time
    PoolSize,     \* connections of the pool
    MaxInvoices,  \* bound: rows of outbound_invoices
    BlFaults      \* whether a statement of a generation may fail

Items == Adjustments \cup Chargebacks

ASSUME BillingAssumption ==
    /\ Adjustments \cap Chargebacks = {}
    /\ IsFiniteSet(BillProcs)
    /\ PoolSize \in Nat
    /\ MaxInvoices \in Nat

VARIABLES
    items,    \* [Items -> status and applied_to_invoice_id]
    invoices, \* rows of outbound_invoices with their lines, as they were committed
    blCalls   \* [BillProcs -> state of a generation]

blVars == <<items, invoices, blCalls>>

\* "none": not created yet.
ItemStatuses == {"none", "pending", "approved", "rejected", "applied", "draft", "void", "invoiced"}
Billed == {"applied", "invoiced"}
Item == [status: ItemStatuses, invoice: Nat]

InvoiceTypes == {"rental", "chargeback"}
\* 'sent_to_sap' is left out: the push that writes it fails before, at a column
\* that does not exist (README, divergences).
InvoiceStatuses == {"draft", "approved", "sent", "void"}
Invoice == [period: Periods, number: Nat, type: InvoiceTypes, status: InvoiceStatuses,
            lines: SUBSET Items]

\* pc: the statement that runs next; "none", no generation is under way.
Generation == [pc: {"number", "insert", "collect", "commit"}, type: InvoiceTypes,
               period: Periods, number: Nat, lines: SUBSET Items]
BlIdle == [pc |-> "none"]

BlTypeOK ==
    /\ items \in [Items -> Item]
    /\ invoices \in Seq(Invoice)
    /\ blCalls \in [BillProcs -> Generation \cup {BlIdle}]

BlInit ==
    /\ items = [x \in Items |-> [status |-> "none", invoice |-> 0]]
    /\ invoices = <<>>
    /\ blCalls = [p \in BillProcs |-> BlIdle]

At(p, pc) == blCalls[p].pc = pc
Goes(p, call) == blCalls' = [blCalls EXCEPT ![p] = call]
Ends(p) == Goes(p, BlIdle)
Underway(p) == ~At(p, "none")

\* Every generation keeps the connection of its transaction.
ConnectionFree == Cardinality({p \in BillProcs : Underway(p)}) < PoolSize

InPeriod(per) == {n \in DOMAIN invoices : invoices[n].period = per}
Count(per) == Cardinality(InPeriod(per))
Numbers(per) == {invoices[n].number : n \in InPeriod(per)}

-----------------------------------------------------------------------------
\* createAdjustment and createChargeback, their approval and their refusal.
Opened(x) == IF x \in Adjustments THEN "pending" ELSE "draft"
Refused(x) == IF x \in Adjustments THEN "rejected" ELSE "void"

Decide(x, from, to) ==
    /\ items[x].status = from
    /\ items' = [items EXCEPT ![x].status = to]
    /\ UNCHANGED <<invoices, blCalls>>

\* Mutant: an item is refused whatever was decided before.
RefuseDecidedItem(x) ==
    /\ items[x].status # "none"
    /\ items' = [items EXCEPT ![x].status = Refused(x)]
    /\ UNCHANGED <<invoices, blCalls>>

CreateItem(x) == Decide(x, "none", Opened(x))
ApproveItem(x) == Decide(x, Opened(x), "approved")
RefuseItem(x) == Decide(x, Opened(x), Refused(x))

-----------------------------------------------------------------------------
\* Approved and not applied yet.
Billable(set) == {x \in set : items[x].status = "approved" /\ items[x].invoice = 0}

NewGeneration(per, type, lines) ==
    [pc |-> "number", type |-> type, period |-> per, number |-> 0, lines |-> lines]

MayStart(p) ==
    /\ ~Underway(p)
    /\ ConnectionFree
    /\ Len(invoices) + Cardinality({q \in BillProcs : Underway(q)}) < MaxInvoices

\* generateMonthlyInvoices, up to the number.
GenerateRental(p, per) ==
    /\ MayStart(p)
    /\ Goes(p, NewGeneration(per, "rental", {}))
    /\ UNCHANGED <<items, invoices>>

\* generateChargebackInvoice, up to the number; with nothing to bill it ends here.
GenerateChargeback(p, per) ==
    /\ MayStart(p)
    /\ Billable(Chargebacks) # {}
    /\ Goes(p, NewGeneration(per, "chargeback", Billable(Chargebacks)))
    /\ UNCHANGED <<items, invoices>>

\* Mutant: a sequence numbers the invoices, so that no generation is refused.
ReadNumberFromSequence(p) ==
    /\ At(p, "number")
    /\ ConnectionFree
    /\ Goes(p, [blCalls[p] EXCEPT !.pc = "insert", !.number = Count(blCalls[p].period)
          + Cardinality({q \in BillProcs : Underway(q) /\ ~At(q, "number")}) + 1])
    /\ UNCHANGED <<items, invoices>>

\* generateInvoiceNumber: voided invoices count, uncommitted ones do not.
ReadNumber(p) ==
    /\ At(p, "number")
    /\ ConnectionFree
    /\ Goes(p, [blCalls[p] EXCEPT !.pc = "insert", !.number = Count(blCalls[p].period) + 1])
    /\ UNCHANGED <<items, invoices>>

\* Mutant: a pool that waits for ever, as it does by default.
NoTimeout(p) == FALSE /\ At(p, "number") /\ UNCHANGED blVars

\* connectionTimeoutMillis: no connection within two seconds.
PoolTimeout(p) ==
    /\ At(p, "number")
    /\ ~ConnectionFree
    /\ Ends(p)
    /\ UNCHANGED <<items, invoices>>

\* UNIQUE (invoice_number): an INSERT waits for an uncommitted row of its number.
Holds(q, per, k) ==
    /\ blCalls[q].pc \in {"collect", "commit"}
    /\ blCalls[q].period = per
    /\ blCalls[q].number = k
NumberLocked(per, k) == \E q \in BillProcs : Holds(q, per, k)

\* Mutant: the number is only indexed.
InsertWithoutUnique(p) ==
    /\ At(p, "insert")
    /\ Goes(p, [blCalls[p] EXCEPT
          !.pc = IF blCalls[p].type = "rental" THEN "collect" ELSE "commit"])
    /\ UNCHANGED <<items, invoices>>

\* The header, and for chargebacks, whose rows are read, their lines.
InsertHeader(p) ==
    LET per == blCalls[p].period
        k == blCalls[p].number
    IN  /\ At(p, "insert")
        /\ ~NumberLocked(per, k)
        /\ IF k \in Numbers(per)
           THEN Ends(p)
           ELSE Goes(p, [blCalls[p] EXCEPT
                   !.pc = IF blCalls[p].type = "rental" THEN "collect" ELSE "commit"])
        /\ UNCHANGED <<items, invoices>>

\* The lines of the rent, and the adjustments of the customer with theirs.
CollectAdjustments(p) ==
    /\ At(p, "collect")
    /\ Goes(p, [blCalls[p] EXCEPT !.pc = "commit", !.lines = Billable(Adjustments)])
    /\ UNCHANGED <<items, invoices>>

NewInvoice(call) ==
    [period |-> call.period, number |-> call.number, type |-> call.type, status |-> "draft",
     lines |-> call.lines]

\* Mutant: one word for both tables.
MarkedAsBilled(type) == "billed"
MarkedAs(type) == IF type = "rental" THEN "applied" ELSE "invoiced"

\* The UPDATEs wait for other generations of the same items, and then mark them too.
Marked(call, n) ==
    [x \in Items |-> IF x \in call.lines
                     THEN [status |-> MarkedAs(call.type), invoice |-> n]
                     ELSE items[x]]

CommitGeneration(p) ==
    /\ At(p, "commit")
    /\ invoices' = Append(invoices, NewInvoice(blCalls[p]))
    /\ items' = Marked(blCalls[p], Len(invoices) + 1)
    /\ Ends(p)

\* A statement fails, or the process stops, and the transaction rolls back.
GenerationFails(p) ==
    /\ BlFaults
    /\ Underway(p)
    /\ Ends(p)
    /\ UNCHANGED <<items, invoices>>

-----------------------------------------------------------------------------
\* approveOutboundInvoice, processPendingDeliveries, voidOutboundInvoice.
Move(n, from, to) ==
    /\ invoices[n].status \in from
    /\ invoices' = [invoices EXCEPT ![n].status = to]
    /\ UNCHANGED <<items, blCalls>>

ApproveInvoice(n) == Move(n, {"draft"}, "approved")
DeliverInvoice(n) == Move(n, {"approved"}, "sent")
VoidInvoice(n) == Move(n, InvoiceStatuses \ {"void"}, "void")

BlNext ==
    \/ \E x \in Items : CreateItem(x) \/ ApproveItem(x) \/ RefuseItem(x)
    \/ \E p \in BillProcs :
          \/ \E per \in Periods : GenerateRental(p, per) \/ GenerateChargeback(p, per)
          \/ ReadNumber(p) \/ PoolTimeout(p) \/ InsertHeader(p) \/ CollectAdjustments(p)
          \/ CommitGeneration(p) \/ GenerationFails(p)
    \/ \E n \in DOMAIN invoices : ApproveInvoice(n) \/ DeliverInvoice(n) \/ VoidInvoice(n)

BlSpec == BlInit /\ [][BlNext]_blVars

(***************************************************************************)
(* Statements end: the pool serves or refuses within its timeout, and      *)
(* PostgreSQL queues the INSERTs that wait for a number (strong fairness,  *)
(* because another generation may take the number again in between).       *)
(***************************************************************************)
BlFairSpec ==
    /\ BlSpec
    /\ \A p \in BillProcs :
          /\ WF_blVars(ReadNumber(p) \/ PoolTimeout(p))
          /\ SF_blVars(InsertHeader(p))
          /\ WF_blVars(CollectAdjustments(p))
          /\ WF_blVars(CommitGeneration(p))

-----------------------------------------------------------------------------
(***************************************************************************)
(* The invoices of a period are numbered 1, 2, 3 ... without gap or        *)
(* repetition, whichever generations were refused, failed or timed out and *)
(* whichever invoices were voided: the COUNT that makes the number comes   *)
(* from outside the transaction, and only the unique index tells a count   *)
(* that is stale.                                                          *)
(***************************************************************************)
NumbersDense == \A per \in Periods : Numbers(per) = 1..Count(per)

(***************************************************************************)
(* An adjustment is on one invoice of a period at most.  Its UPDATE names  *)
(* no status and takes what another generation has applied; what keeps two *)
(* generations apart is the number they both counted, provided the         *)
(* adjustments are read after it is taken.  (Chargebacks are read before,  *)
(* and generations of two periods take two numbers: README, divergences.)  *)
(***************************************************************************)
AdjustmentBilledOnce ==
    \A m, n \in DOMAIN invoices :
       /\ invoices[m].period = invoices[n].period
       /\ invoices[m].lines \cap invoices[n].lines \cap Adjustments # {}
       => m = n

(***************************************************************************)
(* Billing keeps a Ledger: although generations run at once, count outside *)
(* their transactions and mark items by id alone, what they commit reads   *)
(* as if invoices were entered one after the other, and a committed        *)
(* invoice changes in nothing but its status.                              *)
(***************************************************************************)
EntryOf(invoice) ==
    [period |-> invoice.period, number |-> invoice.number,
     adjustments |-> invoice.lines \cap Adjustments, standing |-> invoice.status]
Posted == [n \in 1..Len(invoices) |-> EntryOf(invoices[n])]
Books == INSTANCE Ledger WITH posted <- Posted
LedgerKept == Books!Spec

(***************************************************************************)
(* What is on an invoice is marked as billed, and what is marked names an  *)
(* invoice that lists it: no failed generation leaves a mark, and nothing  *)
(* that was billed, by however many generations, is refused or open.       *)
(***************************************************************************)
BilledIsListed ==
    /\ \A n \in DOMAIN invoices : \A x \in invoices[n].lines : items[x].status \in Billed
    /\ \A x \in Items : items[x].status \in Billed =>
          items[x].invoice \in DOMAIN invoices /\ x \in invoices[items[x].invoice].lines

(***************************************************************************)
(* A generation ends, although its transaction keeps one connection while  *)
(* it asks for another: as many generations as there are connections wait  *)
(* for each other until their timeouts.                                    *)
(***************************************************************************)
GenerationsEnd == \A p \in BillProcs : Underway(p) ~> ~Underway(p)
=============================================================================
