---------------------------- MODULE BillingProofs ----------------------------
(***************************************************************************)
(* Theorems about Billing, for any items, periods, generations and pool.   *)
(***************************************************************************)
EXTENDS Billing, FiniteSetTheorems, TLAPS

\* The header of the generation is inserted and not committed.
Held(p) == blCalls[p].pc \in {"collect", "commit"}

-----------------------------------------------------------------------------
(* Types.                                                                  *)

LEMMA GenerationType ==
  ASSUME NEW per \in Periods, NEW type \in InvoiceTypes, NEW lines \in SUBSET Items
  PROVE  NewGeneration(per, type, lines) \in Generation
BY DEF NewGeneration, Generation

LEMMA CountType ==
  ASSUME BlTypeOK, NEW per
  PROVE  /\ IsFiniteSet(InPeriod(per))
         /\ Count(per) \in Nat
<1>1. invoices \in Seq(Invoice) /\ Len(invoices) \in Nat /\ DOMAIN invoices = 1..Len(invoices)
  BY DEF BlTypeOK
<1>2. IsFiniteSet(1..Len(invoices))
  BY <1>1, FS_Interval
<1>3. InPeriod(per) \subseteq 1..Len(invoices)
  BY <1>1 DEF InPeriod
<1> QED BY <1>2, <1>3, FS_Subset, FS_CardinalityType DEF Count

\* The kinds of steps that touch each table.
LEMMA CallsType ==
  ASSUME BlTypeOK, NEW p \in BillProcs, NEW call \in Generation \cup {BlIdle}, Goes(p, call),
         UNCHANGED <<items, invoices>>
  PROVE  BlTypeOK'
BY DEF BlTypeOK, Goes

LEMMA UnderwayType ==
  ASSUME BlTypeOK, NEW p \in BillProcs, blCalls[p].pc # "none"
  PROVE  blCalls[p] \in Generation
BY DEF BlTypeOK, BlIdle

LEMMA EndsType ==
  ASSUME BlTypeOK, NEW p \in BillProcs, Ends(p), UNCHANGED <<items, invoices>>
  PROVE  BlTypeOK'
BY CallsType DEF Ends

LEMMA DecideType ==
  ASSUME BlTypeOK, NEW x \in Items, NEW from, NEW to \in ItemStatuses, Decide(x, from, to)
  PROVE  BlTypeOK'
<1>1. items[x] \in Item
  BY DEF BlTypeOK
<1>2. [items[x] EXCEPT !.status = to] \in Item
  BY <1>1 DEF Item
<1>3. items' \in [Items -> Item]
  BY <1>2 DEF BlTypeOK, Decide
<1> QED BY <1>3 DEF BlTypeOK, Decide

LEMMA MoveType ==
  ASSUME BlTypeOK, NEW n \in DOMAIN invoices, NEW from, NEW to \in InvoiceStatuses,
         Move(n, from, to)
  PROVE  BlTypeOK'
<1>1. invoices[n] \in Invoice
  BY DEF BlTypeOK
<1>2. [invoices[n] EXCEPT !.status = to] \in Invoice
  BY <1>1 DEF Invoice
<1>3. invoices' \in Seq(Invoice)
  BY <1>2 DEF BlTypeOK, Move
<1> QED BY <1>3 DEF BlTypeOK, Move

LEMMA CommitType ==
  ASSUME BlTypeOK, NEW p \in BillProcs, CommitGeneration(p)
  PROVE  BlTypeOK'
<1>1. blCalls[p] \in Generation
  BY UnderwayType DEF CommitGeneration, At
<1>2. NewInvoice(blCalls[p]) \in Invoice
  BY <1>1 DEF NewInvoice, Generation, Invoice, InvoiceStatuses
<1>3. invoices' \in Seq(Invoice)
  BY <1>2 DEF CommitGeneration, BlTypeOK
<1>4. Len(invoices) + 1 \in Nat
  BY DEF BlTypeOK
<1>5. MarkedAs(blCalls[p].type) \in ItemStatuses
  BY DEF MarkedAs, ItemStatuses
<1>6. [status |-> MarkedAs(blCalls[p].type), invoice |-> Len(invoices) + 1] \in Item
  BY <1>4, <1>5 DEF Item
<1>7. items' \in [Items -> Item]
  BY <1>6 DEF CommitGeneration, Marked, BlTypeOK
<1>8. blCalls' \in [BillProcs -> Generation \cup {BlIdle}]
  BY DEF CommitGeneration, Ends, Goes, BlTypeOK
<1> QED BY <1>3, <1>7, <1>8 DEF BlTypeOK

LEMMA BlTypeStep ==
  ASSUME BlTypeOK, [BlNext]_blVars
  PROVE  BlTypeOK'
<1>1. CASE UNCHANGED blVars
  BY <1>1 DEF blVars, BlTypeOK
<1>2. ASSUME NEW x \in Items, CreateItem(x) \/ ApproveItem(x) \/ RefuseItem(x)
      PROVE  BlTypeOK'
  <2>1. Opened(x) \in ItemStatuses /\ Refused(x) \in ItemStatuses /\ "approved" \in ItemStatuses
    BY DEF Opened, Refused, ItemStatuses
  <2> QED BY <1>2, <2>1, DecideType DEF CreateItem, ApproveItem, RefuseItem
<1>3. ASSUME NEW p \in BillProcs, NEW per \in Periods,
             GenerateRental(p, per) \/ GenerateChargeback(p, per)
      PROVE  BlTypeOK'
  <2>1. {} \in SUBSET Items /\ Billable(Chargebacks) \in SUBSET Items
    BY DEF Billable, Items
  <2>2. NewGeneration(per, "rental", {}) \in Generation
    BY <2>1, GenerationType DEF InvoiceTypes
  <2>3. NewGeneration(per, "chargeback", Billable(Chargebacks)) \in Generation
    BY <2>1, GenerationType DEF InvoiceTypes
  <2> QED BY <1>3, <2>2, <2>3, CallsType DEF GenerateRental, GenerateChargeback
<1>4. ASSUME NEW p \in BillProcs, ReadNumber(p)
      PROVE  BlTypeOK'
  <2>1. blCalls[p] \in Generation
    BY <1>4, UnderwayType DEF ReadNumber, At
  <2>2. Count(blCalls[p].period) + 1 \in Nat
    BY CountType
  <2>3. [blCalls[p] EXCEPT !.pc = "insert", !.number = Count(blCalls[p].period) + 1] \in Generation
    BY <2>1, <2>2 DEF Generation
  <2> QED BY <1>4, <2>3, CallsType DEF ReadNumber
<1>5. ASSUME NEW p \in BillProcs, InsertHeader(p)
      PROVE  BlTypeOK'
  <2>1. blCalls[p] \in Generation
    BY <1>5, UnderwayType DEF InsertHeader, At
  <2>2. [blCalls[p] EXCEPT !.pc = IF blCalls[p].type = "rental" THEN "collect" ELSE "commit"]
          \in Generation
    BY <2>1 DEF Generation
  <2> QED BY <1>5, <2>2, CallsType, EndsType DEF InsertHeader
<1>6. ASSUME NEW p \in BillProcs, CollectAdjustments(p)
      PROVE  BlTypeOK'
  <2>1. blCalls[p] \in Generation
    BY <1>6, UnderwayType DEF CollectAdjustments, At
  <2>2. Billable(Adjustments) \in SUBSET Items
    BY DEF Billable, Items
  <2>3. [blCalls[p] EXCEPT !.pc = "commit", !.lines = Billable(Adjustments)] \in Generation
    BY <2>1, <2>2 DEF Generation
  <2> QED BY <1>6, <2>3, CallsType DEF CollectAdjustments
<1>7. ASSUME NEW p \in BillProcs, PoolTimeout(p) \/ GenerationFails(p)
      PROVE  BlTypeOK'
  BY <1>7, EndsType DEF PoolTimeout, GenerationFails
<1>8. ASSUME NEW n \in DOMAIN invoices, ApproveInvoice(n) \/ DeliverInvoice(n) \/ VoidInvoice(n)
      PROVE  BlTypeOK'
  <2>1. {"approved", "sent", "void"} \subseteq InvoiceStatuses
    BY DEF InvoiceStatuses
  <2> QED BY <1>8, <2>1, MoveType DEF ApproveInvoice, DeliverInvoice, VoidInvoice
<1> QED BY <1>1, <1>2, <1>3, <1>4, <1>5, <1>6, <1>7, <1>8, CommitType DEF BlNext

(***************************************************************************)
(* Every reachable state of the items, the invoices and the generations    *)
(* has the declared types.                                                 *)
(***************************************************************************)
THEOREM BlTypeCorrect == BlSpec => []BlTypeOK
<1>1. BlInit => BlTypeOK
  BY DEF BlInit, BlTypeOK, Item, ItemStatuses
<1> QED BY <1>1, BlTypeStep, PTL DEF BlSpec

-----------------------------------------------------------------------------
(* Numbers.                                                                *)

\* What a generation has counted, when its period has so many invoices.
NumberOK(call, count) ==
    /\ call.pc = "insert" => call.number \in 1..(count + 1)
    /\ call.pc \in {"collect", "commit"} => call.number = count + 1

(***************************************************************************)
(* A count that was read is at most one ahead of what is committed; a      *)
(* header is inserted only with the next number, and by one generation of  *)
(* its period: the others wait for the number or find it taken.            *)
(***************************************************************************)
NumberInv ==
    /\ NumbersDense
    /\ \A p \in BillProcs, per \in Periods :
          Underway(p) /\ blCalls[p].period = per => NumberOK(blCalls[p], Count(per))
    /\ \A p, q \in BillProcs :
          Held(p) /\ Held(q) /\ blCalls[p].period = blCalls[q].period => p = q

\* The books that numbers and lines are read from did not change.
SameBooks ==
    /\ DOMAIN invoices' = DOMAIN invoices
    /\ \A n \in DOMAIN invoices :
          invoices'[n].period = invoices[n].period /\ invoices'[n].number = invoices[n].number
          /\ invoices'[n].lines = invoices[n].lines

LEMMA SameBooksNumbers ==
  ASSUME SameBooks, NEW per
  PROVE  Count(per)' = Count(per) /\ Numbers(per)' = Numbers(per)
<1>1. InPeriod(per)' = InPeriod(per)
  BY DEF InPeriod, SameBooks
<1>2. \A n \in InPeriod(per) : invoices'[n].number = invoices[n].number
  BY DEF InPeriod, SameBooks
<1> QED BY <1>1, <1>2 DEF Count, Numbers

LEMMA MoveSameBooks ==
  ASSUME BlTypeOK, NEW n \in DOMAIN invoices, NEW from, NEW to, Move(n, from, to)
  PROVE  SameBooks
<1>1. invoices[n] \in Invoice /\ invoices' = [invoices EXCEPT ![n].status = to]
  BY DEF BlTypeOK, Move
<1>2. DOMAIN invoices' = DOMAIN invoices
  BY <1>1
<1>3. ASSUME NEW m \in DOMAIN invoices
      PROVE  /\ invoices'[m].period = invoices[m].period
             /\ invoices'[m].number = invoices[m].number
             /\ invoices'[m].lines = invoices[m].lines
  <2>1. CASE m = n
    <3>1. invoices'[n] = [invoices[n] EXCEPT !.status = to]
      BY <1>1
    <3> QED BY <1>1, <2>1, <3>1 DEF Invoice
  <2>2. CASE m # n
    BY <1>1, <2>2
  <2> QED BY <2>1, <2>2
<1> QED BY <1>2, <1>3 DEF SameBooks

\* A call that goes on as it was, or has no number that counts, or keeps the one it holds.
Keeps(p) ==
    \/ blCalls'[p] = blCalls[p]
    \/ blCalls'[p].pc \in {"none", "number"}
    \/ /\ blCalls[p].pc \in {"collect", "commit"}
       /\ blCalls'[p].pc \in {"collect", "commit"}
       /\ blCalls'[p].number = blCalls[p].number
       /\ blCalls'[p].period = blCalls[p].period

LEMMA NumberKept ==
  ASSUME NumberInv, SameBooks, NEW p \in BillProcs, Keeps(p), NEW per \in Periods,
         blCalls'[p].pc # "none", blCalls'[p].period = per
  PROVE  NumberOK(blCalls'[p], Count(per)')
<1>1. Count(per)' = Count(per)
  BY SameBooksNumbers
<1>2. blCalls[p].pc # "none" /\ blCalls[p].period = per => NumberOK(blCalls[p], Count(per))
  BY DEF NumberInv, Underway, At
<1>3. NumberOK(blCalls'[p], Count(per))
  BY <1>2 DEF NumberOK, Keeps
<1> QED BY <1>1, <1>3

\* Steps that neither read nor insert a number keep NumberInv.
LEMMA NumberOther ==
  ASSUME NumberInv, SameBooks, \A p \in BillProcs : Keeps(p)
  PROVE  NumberInv'
<1>1. NumbersDense'
  <2> SUFFICES ASSUME NEW per \in Periods
               PROVE  Numbers(per)' = 1..(Count(per)')
    BY DEF NumbersDense
  <2> QED BY SameBooksNumbers DEF NumberInv, NumbersDense
<1>2. ASSUME NEW p \in BillProcs, NEW per \in Periods, blCalls'[p].pc # "none",
             blCalls'[p].period = per
      PROVE  NumberOK(blCalls'[p], Count(per)')
  BY <1>2, NumberKept
<1>3. ASSUME NEW p \in BillProcs, Held(p)'
      PROVE  Held(p) /\ blCalls'[p].period = blCalls[p].period
  BY <1>3 DEF Held, Keeps
<1>4. ASSUME NEW p \in BillProcs, NEW q \in BillProcs, Held(p)', Held(q)',
             blCalls'[p].period = blCalls'[q].period
      PROVE  p = q
  BY <1>3, <1>4 DEF NumberInv
<1> QED BY <1>1, <1>2, <1>4 DEF NumberInv, Underway, At

LEMMA NumberRead ==
  ASSUME BlTypeOK, NumberInv, NEW p \in BillProcs, ReadNumber(p)
  PROVE  NumberInv'
<1>1. SameBooks
  BY DEF ReadNumber, SameBooks
<1>2. blCalls[p] \in Generation
  BY UnderwayType DEF ReadNumber, At
<1>3. blCalls'[p] =
        [blCalls[p] EXCEPT !.pc = "insert", !.number = Count(blCalls[p].period) + 1]
  BY DEF ReadNumber, Goes, BlTypeOK
<1>4. /\ blCalls'[p].pc = "insert"
      /\ blCalls'[p].number = Count(blCalls[p].period) + 1
      /\ blCalls'[p].period = blCalls[p].period
  BY <1>2, <1>3 DEF Generation
<1>5. \A q \in BillProcs : q # p => Keeps(q)
  BY DEF ReadNumber, Goes, BlTypeOK, Keeps
<1>6. NumbersDense'
  <2> SUFFICES ASSUME NEW per \in Periods
               PROVE  Numbers(per)' = 1..(Count(per)')
    BY DEF NumbersDense
  <2> QED BY <1>1, SameBooksNumbers DEF NumberInv, NumbersDense
<1>7. ASSUME NEW q \in BillProcs, NEW per \in Periods, blCalls'[q].pc # "none",
             blCalls'[q].period = per
      PROVE  NumberOK(blCalls'[q], Count(per)')
  <2>1. CASE q = p
    <3>1. Count(per) \in Nat /\ Count(per)' = Count(per)
      BY <1>1, CountType, SameBooksNumbers
    <3>2. blCalls'[p].number = Count(per) + 1
      BY <1>4, <1>7, <2>1
    <3> QED BY <1>4, <2>1, <3>1, <3>2 DEF NumberOK
  <2>2. CASE q # p
    BY <1>1, <1>5, <1>7, <2>2, NumberKept
  <2> QED BY <2>1, <2>2
<1>8. ASSUME NEW q \in BillProcs, Held(q)'
      PROVE  Held(q) /\ blCalls'[q].period = blCalls[q].period
  BY <1>4, <1>5, <1>8 DEF Held, Keeps
<1>9. ASSUME NEW q \in BillProcs, NEW r \in BillProcs, Held(q)', Held(r)',
             blCalls'[q].period = blCalls'[r].period
      PROVE  q = r
  BY <1>8, <1>9 DEF NumberInv
<1> QED BY <1>6, <1>7, <1>9 DEF NumberInv, Underway, At

\* The header goes in: its number is the next one, and no other generation holds it.
LEMMA NumberInserted ==
  ASSUME BlTypeOK, NumberInv, NEW p \in BillProcs, InsertHeader(p)
  PROVE  NumberInv'
<1>1. PICK per : per = blCalls[p].period
  OBVIOUS
<1>2. PICK k : k = blCalls[p].number
  OBVIOUS
<1>3. SameBooks
  BY DEF InsertHeader, SameBooks
<1>4. blCalls[p] \in Generation /\ per \in Periods /\ blCalls[p].pc = "insert"
  BY <1>1, UnderwayType DEF InsertHeader, At, Generation
<1>5. \A q \in BillProcs : q # p => Keeps(q) /\ blCalls'[q] = blCalls[q]
  BY DEF InsertHeader, Goes, Ends, BlTypeOK, Keeps
<1>6. CASE k \in Numbers(per)
  <2>1. blCalls'[p] = BlIdle
    BY <1>1, <1>2, <1>6 DEF InsertHeader, Goes, Ends, BlTypeOK
  <2>2. Keeps(p)
    BY <2>1 DEF Keeps, BlIdle
  <2> QED BY <1>3, <1>5, <2>2, NumberOther
<1>7. CASE k \notin Numbers(per)
  <2>1. blCalls'[p] =
          [blCalls[p] EXCEPT !.pc = IF blCalls[p].type = "rental" THEN "collect" ELSE "commit"]
    BY <1>1, <1>2, <1>7 DEF InsertHeader, Goes, BlTypeOK
  <2>2. /\ blCalls'[p].pc \in {"collect", "commit"}
        /\ blCalls'[p].number = k
        /\ blCalls'[p].period = per
    BY <1>1, <1>2, <1>4, <2>1 DEF Generation
  <2>3. Count(per) \in Nat
    BY CountType
  <2>4. k = Count(per) + 1
    <3>1. k \in 1..(Count(per) + 1)
      BY <1>1, <1>2, <1>4 DEF NumberInv, NumberOK, Underway, At
    <3>2. Numbers(per) = 1..Count(per)
      BY <1>4 DEF NumberInv, NumbersDense
    <3> QED BY <1>7, <2>3, <3>1, <3>2
  <2>5. ASSUME NEW q \in BillProcs, q # p, Held(q)
        PROVE  blCalls[q].period # per
    <3> SUFFICES ASSUME blCalls[q].period = per PROVE FALSE
      OBVIOUS
    <3>1. ~Holds(q, per, k)
      BY <1>1, <1>2 DEF InsertHeader, NumberLocked
    <3>2. blCalls[q].number = Count(per) + 1
      BY <1>4, <2>5 DEF NumberInv, NumberOK, Held, Underway, At
    <3> QED BY <2>4, <2>5, <3>1, <3>2 DEF Holds, Held
  <2>6. NumbersDense'
    <3> SUFFICES ASSUME NEW b \in Periods
                 PROVE  Numbers(b)' = 1..(Count(b)')
      BY DEF NumbersDense
    <3> QED BY <1>3, SameBooksNumbers DEF NumberInv, NumbersDense
  <2>7. ASSUME NEW q \in BillProcs, NEW b \in Periods, blCalls'[q].pc # "none",
               blCalls'[q].period = b
        PROVE  NumberOK(blCalls'[q], Count(b)')
    <3>1. CASE q = p
      <4>1. b = per
        BY <2>2, <2>7, <3>1
      <4>2. Count(b)' = Count(per)
        BY <1>3, <4>1, SameBooksNumbers
      <4> QED BY <2>2, <2>4, <3>1, <4>2 DEF NumberOK
    <3>2. CASE q # p
      BY <1>3, <1>5, <2>7, <3>2, NumberKept
    <3> QED BY <3>1, <3>2
  <2>8. ASSUME NEW q \in BillProcs, NEW r \in BillProcs, Held(q)', Held(r)',
               blCalls'[q].period = blCalls'[r].period
        PROVE  q = r
    <3>1. \A s \in BillProcs : s # p /\ Held(s)' => Held(s) /\ blCalls'[s] = blCalls[s]
      BY <1>5 DEF Held
    <3>2. CASE q = p \/ r = p
      BY <2>2, <2>5, <2>8, <3>1, <3>2
    <3>3. CASE q # p /\ r # p
      BY <2>8, <3>1, <3>3 DEF NumberInv
    <3> QED BY <3>2, <3>3
  <2> QED BY <2>6, <2>7, <2>8 DEF NumberInv, Underway, At
<1> QED BY <1>6, <1>7

\* The invoice that is committed takes the number it holds.
LEMMA CommitBooks ==
  ASSUME BlTypeOK, NEW p \in BillProcs, CommitGeneration(p), NEW b
  PROVE  /\ blCalls[p].period = b => /\ Count(b)' = Count(b) + 1
                                     /\ Numbers(b)' = Numbers(b) \cup {blCalls[p].number}
         /\ blCalls[p].period # b => Count(b)' = Count(b) /\ Numbers(b)' = Numbers(b)
<1>1. PICK n : n = Len(invoices) + 1
  OBVIOUS
<1>2. /\ Len(invoices) \in Nat
      /\ DOMAIN invoices = 1..Len(invoices)
      /\ DOMAIN invoices' = 1..n
      /\ \A m \in DOMAIN invoices : invoices'[m] = invoices[m]
      /\ invoices'[n] = NewInvoice(blCalls[p])
  BY <1>1 DEF BlTypeOK, CommitGeneration
<1>3. /\ invoices'[n].period = blCalls[p].period
      /\ invoices'[n].number = blCalls[p].number
  BY <1>2 DEF NewInvoice
<1>4. n \notin DOMAIN invoices /\ DOMAIN invoices' = DOMAIN invoices \cup {n}
  BY <1>1, <1>2
<1>5. IsFiniteSet(InPeriod(b)) /\ n \notin InPeriod(b)
  BY <1>4, CountType DEF InPeriod
<1>6. \A m \in InPeriod(b) : m \in DOMAIN invoices /\ invoices'[m] = invoices[m]
  BY <1>2 DEF InPeriod
<1>7. CASE blCalls[p].period = b
  <2>1. InPeriod(b)' = InPeriod(b) \cup {n}
    BY <1>2, <1>3, <1>4, <1>7 DEF InPeriod
  <2>2. Count(b)' = Count(b) + 1
    BY <1>5, <2>1, FS_AddElement DEF Count
  <2>3. Numbers(b)' = Numbers(b) \cup {blCalls[p].number}
    BY <1>3, <1>6, <2>1 DEF Numbers
  <2> QED BY <1>7, <2>2, <2>3
<1>8. CASE blCalls[p].period # b
  <2>1. InPeriod(b)' = InPeriod(b)
    BY <1>2, <1>3, <1>4, <1>8 DEF InPeriod
  <2> QED BY <1>6, <1>8, <2>1 DEF Count, Numbers
<1> QED BY <1>7, <1>8

LEMMA NumberCommit ==
  ASSUME BlTypeOK, NumberInv, NEW p \in BillProcs, CommitGeneration(p)
  PROVE  NumberInv'
<1>1. PICK per : per = blCalls[p].period
  OBVIOUS
<1>2. blCalls[p] \in Generation /\ per \in Periods /\ blCalls[p].pc = "commit"
  BY <1>1, UnderwayType DEF CommitGeneration, At, Generation
<1>3. blCalls'[p] = BlIdle /\ \A q \in BillProcs : q # p => blCalls'[q] = blCalls[q]
  BY DEF CommitGeneration, Ends, Goes, BlTypeOK
<1>4. Count(per) \in Nat /\ blCalls[p].number = Count(per) + 1
  BY <1>1, <1>2, CountType DEF NumberInv, NumberOK, Underway, At
<1>5. NumbersDense'
  <2> SUFFICES ASSUME NEW b \in Periods
               PROVE  Numbers(b)' = 1..(Count(b)')
    BY DEF NumbersDense
  <2>1. Numbers(b) = 1..Count(b)
    BY DEF NumberInv, NumbersDense
  <2>2. CASE b = per
    <3>1. Count(b)' = Count(per) + 1 /\ Numbers(b)' = Numbers(per) \cup {Count(per) + 1}
      BY <1>1, <1>4, <2>2, CommitBooks
    <3> QED BY <1>4, <2>1, <2>2, <3>1
  <2>3. CASE b # per
    BY <1>1, <2>1, <2>3, CommitBooks
  <2> QED BY <2>2, <2>3
<1>6. ASSUME NEW q \in BillProcs, NEW b \in Periods, blCalls'[q].pc # "none",
             blCalls'[q].period = b
      PROVE  NumberOK(blCalls'[q], Count(b)')
  <2>1. q # p /\ blCalls'[q] = blCalls[q]
    BY <1>3, <1>6 DEF BlIdle
  <2>2. NumberOK(blCalls[q], Count(b))
    BY <1>6, <2>1 DEF NumberInv, Underway, At
  <2>3. CASE b = per
    <3>1. blCalls[q].pc \notin {"collect", "commit"}
      BY <1>1, <1>2, <1>6, <2>1, <2>3 DEF NumberInv, Held
    <3>2. Count(b)' = Count(b) + 1 /\ Count(b) \in Nat
      BY <1>1, <1>4, <2>3, CommitBooks
    <3> QED BY <2>1, <2>2, <3>1, <3>2 DEF NumberOK
  <2>4. CASE b # per
    <3>1. Count(b)' = Count(b)
      BY <1>1, <2>4, CommitBooks
    <3> QED BY <2>1, <2>2, <3>1
  <2> QED BY <2>3, <2>4
<1>7. ASSUME NEW q \in BillProcs, Held(q)'
      PROVE  Held(q) /\ blCalls'[q].period = blCalls[q].period
  BY <1>3, <1>7 DEF Held, BlIdle
<1>8. ASSUME NEW q \in BillProcs, NEW r \in BillProcs, Held(q)', Held(r)',
             blCalls'[q].period = blCalls'[r].period
      PROVE  q = r
  BY <1>7, <1>8 DEF NumberInv
<1> QED BY <1>5, <1>6, <1>8 DEF NumberInv, Underway, At

LEMMA NumberStep ==
  ASSUME BlTypeOK, NumberInv, [BlNext]_blVars
  PROVE  NumberInv'
<1>1. CASE UNCHANGED blVars
  BY <1>1, NumberOther DEF blVars, SameBooks, Keeps
<1>2. ASSUME NEW x \in Items, CreateItem(x) \/ ApproveItem(x) \/ RefuseItem(x)
      PROVE  NumberInv'
  BY <1>2, NumberOther DEF CreateItem, ApproveItem, RefuseItem, Decide, SameBooks, Keeps
<1>3. ASSUME NEW p \in BillProcs, NEW per \in Periods,
             GenerateRental(p, per) \/ GenerateChargeback(p, per)
      PROVE  NumberInv'
  <2>1. blCalls'[p].pc = "number" /\ \A q \in BillProcs : q # p => blCalls'[q] = blCalls[q]
    BY <1>3 DEF GenerateRental, GenerateChargeback, Goes, NewGeneration, BlTypeOK
  <2> QED BY <1>3, <2>1, NumberOther DEF GenerateRental, GenerateChargeback, SameBooks, Keeps
<1>4. ASSUME NEW p \in BillProcs, CollectAdjustments(p)
      PROVE  NumberInv'
  <2>1. blCalls[p] \in Generation /\ blCalls[p].pc = "collect"
    BY <1>4, UnderwayType DEF CollectAdjustments, At
  <2>2. blCalls'[p] = [blCalls[p] EXCEPT !.pc = "commit", !.lines = Billable(Adjustments)]
    BY <1>4 DEF CollectAdjustments, Goes, BlTypeOK
  <2>3. Keeps(p)
    BY <2>1, <2>2 DEF Keeps, Generation
  <2>4. \A q \in BillProcs : q # p => Keeps(q)
    BY <1>4 DEF CollectAdjustments, Goes, BlTypeOK, Keeps
  <2> QED BY <1>4, <2>3, <2>4, NumberOther DEF CollectAdjustments, SameBooks
<1>5. ASSUME NEW p \in BillProcs, PoolTimeout(p) \/ GenerationFails(p)
      PROVE  NumberInv'
  <2>1. \A q \in BillProcs : Keeps(q)
    BY <1>5 DEF PoolTimeout, GenerationFails, Ends, Goes, BlTypeOK, Keeps, BlIdle
  <2> QED BY <1>5, <2>1, NumberOther DEF PoolTimeout, GenerationFails, SameBooks
<1>6. ASSUME NEW n \in DOMAIN invoices, ApproveInvoice(n) \/ DeliverInvoice(n) \/ VoidInvoice(n)
      PROVE  NumberInv'
  <2>1. SameBooks
    BY <1>6, MoveSameBooks DEF ApproveInvoice, DeliverInvoice, VoidInvoice
  <2>2. \A q \in BillProcs : Keeps(q)
    BY <1>6 DEF ApproveInvoice, DeliverInvoice, VoidInvoice, Move, Keeps
  <2> QED BY <2>1, <2>2, NumberOther
<1> QED BY <1>1, <1>2, <1>3, <1>4, <1>5, <1>6, NumberRead, NumberInserted, NumberCommit
      DEF BlNext

LEMMA NumberInit == BlInit => NumberInv
<1> SUFFICES ASSUME BlInit PROVE NumberInv
  OBVIOUS
<1>1. \A p \in BillProcs : blCalls[p].pc = "none"
  BY DEF BlInit, BlIdle
<1>2. \A per : InPeriod(per) = {}
  BY DEF BlInit, InPeriod
<1>3. \A per : Count(per) = 0 /\ Numbers(per) = {}
  BY <1>2, FS_EmptySet DEF Count, Numbers
<1> QED BY <1>1, <1>3 DEF NumberInv, NumbersDense, Underway, At, Held

(***************************************************************************)
(* The invoices of every period are numbered without gap or repetition,    *)
(* for any number of generations, any pool, failures and voids.            *)
(***************************************************************************)
THEOREM NumbersDenseHolds == BlSpec => []NumbersDense
<1>1. BlInit => BlTypeOK
  BY DEF BlInit, BlTypeOK, Item, ItemStatuses
<1>2. BlTypeOK /\ NumberInv /\ [BlNext]_blVars => (BlTypeOK /\ NumberInv)'
  BY BlTypeStep, NumberStep
<1>3. NumberInv => NumbersDense
  BY DEF NumberInv
<1> QED BY <1>1, NumberInit, <1>2, <1>3, PTL DEF BlSpec

-----------------------------------------------------------------------------
(* Lines.                                                                  *)

LEMMA LinesType ==
  ASSUME BlTypeOK
  PROVE  \A n \in DOMAIN invoices : invoices[n].lines \subseteq Items
<1> SUFFICES ASSUME NEW n \in DOMAIN invoices
             PROVE  invoices[n].lines \subseteq Items
  OBVIOUS
<1>1. invoices[n] \in Invoice
  BY DEF BlTypeOK
<1>2. invoices[n].lines \in SUBSET Items
  BY <1>1 DEF Invoice
<1> QED BY <1>2

LEMMA ListedSameBooks ==
  ASSUME BilledIsListed, SameBooks, items' = items
  PROVE  BilledIsListed'
BY DEF BilledIsListed, SameBooks

\* An item that is created or decided is on no invoice.
LEMMA ListedDecide ==
  ASSUME BlTypeOK, BilledIsListed, NEW x \in Items, NEW from, NEW to, Decide(x, from, to),
         from \notin Billed, to \notin Billed
  PROVE  BilledIsListed'
<1>1. items[x] \in Item /\ items[x].status \notin Billed
  BY DEF BlTypeOK, Decide
<1>2. items'[x] = [items[x] EXCEPT !.status = to]
  BY DEF BlTypeOK, Decide
<1>3. items'[x].status \notin Billed
  BY <1>1, <1>2 DEF Item
<1>4. \A y \in Items : y # x => items'[y] = items[y]
  BY DEF BlTypeOK, Decide
<1>5. \A n \in DOMAIN invoices : invoices[n].lines \subseteq Items
  BY LinesType
<1>6. invoices' = invoices
  BY DEF Decide
<1>7. \A n \in DOMAIN invoices : \A y \in invoices[n].lines : items'[y].status \in Billed
  BY <1>1, <1>4, <1>5 DEF BilledIsListed
<1>8. ASSUME NEW y \in Items, items'[y].status \in Billed
      PROVE  items'[y].invoice \in DOMAIN invoices /\ y \in invoices[items'[y].invoice].lines
  BY <1>3, <1>4, <1>8 DEF BilledIsListed
<1> QED BY <1>6, <1>7, <1>8 DEF BilledIsListed

\* What a commit appends, and what it leaves.
LEMMA CommitLines ==
  ASSUME BlTypeOK, NEW p \in BillProcs, CommitGeneration(p)
  PROVE  \E n \in Nat :
            /\ n \notin DOMAIN invoices
            /\ DOMAIN invoices' = DOMAIN invoices \cup {n}
            /\ \A m \in DOMAIN invoices : invoices'[m] = invoices[m]
            /\ invoices'[n].period = blCalls[p].period
            /\ invoices'[n].lines = blCalls[p].lines
            /\ items' = Marked(blCalls[p], n)
<1>1. /\ Len(invoices) \in Nat
      /\ DOMAIN invoices = 1..Len(invoices)
      /\ DOMAIN invoices' = 1..(Len(invoices) + 1)
      /\ \A m \in DOMAIN invoices : invoices'[m] = invoices[m]
      /\ invoices'[Len(invoices) + 1] = NewInvoice(blCalls[p])
  BY DEF BlTypeOK, CommitGeneration
<1>2. items' = Marked(blCalls[p], Len(invoices) + 1)
  BY DEF CommitGeneration
<1> WITNESS Len(invoices) + 1 \in Nat
<1> QED BY <1>1, <1>2 DEF NewInvoice

LEMMA ListedCommit ==
  ASSUME BlTypeOK, BilledIsListed, NEW p \in BillProcs, CommitGeneration(p)
  PROVE  BilledIsListed'
<1>1. PICK n \in Nat :
            /\ n \notin DOMAIN invoices
            /\ DOMAIN invoices' = DOMAIN invoices \cup {n}
            /\ \A m \in DOMAIN invoices : invoices'[m] = invoices[m]
            /\ invoices'[n].period = blCalls[p].period
            /\ invoices'[n].lines = blCalls[p].lines
            /\ items' = Marked(blCalls[p], n)
  BY CommitLines
<1>2. blCalls[p].lines \subseteq Items
  BY UnderwayType DEF CommitGeneration, At, Generation
<1>3. MarkedAs(blCalls[p].type) \in Billed
  BY DEF MarkedAs, Billed
<1>4. \A x \in blCalls[p].lines : items'[x].status \in Billed /\ items'[x].invoice = n
  BY <1>1, <1>2, <1>3 DEF Marked
<1>5. \A x \in Items \ blCalls[p].lines : items'[x] = items[x]
  BY <1>1 DEF Marked
<1>6. \A m \in DOMAIN invoices : invoices[m].lines \subseteq Items
  BY LinesType
<1>7. ASSUME NEW m \in DOMAIN invoices', NEW x \in invoices'[m].lines
      PROVE  items'[x].status \in Billed
  <2>1. CASE m = n
    BY <1>1, <1>4, <1>7, <2>1
  <2>2. CASE m \in DOMAIN invoices
    BY <1>1, <1>4, <1>5, <1>6, <1>7, <2>2 DEF BilledIsListed
  <2> QED BY <1>1, <2>1, <2>2
<1>8. ASSUME NEW x \in Items, items'[x].status \in Billed
      PROVE  items'[x].invoice \in DOMAIN invoices' /\ x \in invoices'[items'[x].invoice].lines
  <2>1. CASE x \in blCalls[p].lines
    BY <1>1, <1>4, <2>1
  <2>2. CASE x \notin blCalls[p].lines
    <3>1. items'[x] = items[x]
      BY <1>5, <2>2
    <3>2. items[x].invoice \in DOMAIN invoices /\ x \in invoices[items[x].invoice].lines
      BY <1>8, <3>1 DEF BilledIsListed
    <3> QED BY <1>1, <3>1, <3>2
  <2> QED BY <2>1, <2>2
<1> QED BY <1>7, <1>8 DEF BilledIsListed

LEMMA ListedStep ==
  ASSUME BlTypeOK, BilledIsListed, [BlNext]_blVars
  PROVE  BilledIsListed'
<1>1. CASE UNCHANGED blVars
  BY <1>1 DEF blVars, BilledIsListed
<1>2. ASSUME NEW x \in Items, CreateItem(x) \/ ApproveItem(x) \/ RefuseItem(x)
      PROVE  BilledIsListed'
  <2>1. /\ "none" \notin Billed /\ "approved" \notin Billed
        /\ Opened(x) \notin Billed /\ Refused(x) \notin Billed
    BY DEF Billed, Opened, Refused
  <2> QED BY <1>2, <2>1, ListedDecide DEF CreateItem, ApproveItem, RefuseItem
<1>3. ASSUME UNCHANGED <<items, invoices>>
      PROVE  BilledIsListed'
  BY <1>3 DEF BilledIsListed
<1>4. ASSUME NEW n \in DOMAIN invoices, ApproveInvoice(n) \/ DeliverInvoice(n) \/ VoidInvoice(n)
      PROVE  BilledIsListed'
  <2>1. SameBooks
    BY <1>4, MoveSameBooks DEF ApproveInvoice, DeliverInvoice, VoidInvoice
  <2> QED BY <1>4, <2>1, ListedSameBooks DEF ApproveInvoice, DeliverInvoice, VoidInvoice, Move
<1> QED BY <1>1, <1>2, <1>3, <1>4, ListedCommit
      DEF BlNext, GenerateRental, GenerateChargeback, ReadNumber, PoolTimeout, InsertHeader,
          CollectAdjustments, GenerationFails

(***************************************************************************)
(* What is on an invoice is marked as billed, and what is marked is listed *)
(* by the invoice it names, whatever fails.                                *)
(***************************************************************************)
THEOREM BilledIsListedHolds == BlSpec => []BilledIsListed
<1>1. BlInit => BlTypeOK
  BY DEF BlInit, BlTypeOK, Item, ItemStatuses
<1>2. BlInit => BilledIsListed
  BY DEF BlInit, BilledIsListed, Billed
<1>3. BlTypeOK /\ BilledIsListed /\ [BlNext]_blVars => (BlTypeOK /\ BilledIsListed)'
  BY BlTypeStep, ListedStep
<1> QED BY <1>1, <1>2, <1>3, PTL DEF BlSpec

-----------------------------------------------------------------------------
(* Adjustments.                                                            *)

(***************************************************************************)
(* A chargeback invoice has no adjustment, and the adjustments that a      *)
(* generation has read, which it did with its number taken, are on no      *)
(* invoice of its period: none can be committed before its own.            *)
(***************************************************************************)
AdjustmentInv ==
    /\ AdjustmentBilledOnce
    /\ \A p \in BillProcs : Underway(p) /\ blCalls[p].type = "chargeback" =>
          ~At(p, "collect") /\ blCalls[p].lines \cap Adjustments = {}
    /\ \A p \in BillProcs, n \in DOMAIN invoices :
          At(p, "commit") /\ invoices[n].period = blCalls[p].period =>
             invoices[n].lines \cap blCalls[p].lines \cap Adjustments = {}

\* A generation that ends, that goes on with its lines and not to its commit, or whose
\* lines, if it goes on, are no adjustments.
Innocent(p) ==
    \/ blCalls'[p] = blCalls[p]
    \/ blCalls'[p].pc = "none"
    \/ /\ blCalls[p].pc # "none"
       /\ blCalls'[p].pc # "commit"
       /\ blCalls'[p].pc = "collect" => blCalls'[p].type # "chargeback"
       /\ blCalls'[p].type = blCalls[p].type
       /\ blCalls'[p].lines = blCalls[p].lines
    \/ blCalls'[p].pc # "collect" /\ blCalls'[p].lines \cap Adjustments = {}

LEMMA AdjustmentOther ==
  ASSUME AdjustmentInv, SameBooks, \A p \in BillProcs : Innocent(p)
  PROVE  AdjustmentInv'
<1>1. AdjustmentBilledOnce'
  BY DEF AdjustmentInv, AdjustmentBilledOnce, SameBooks
<1>2. ASSUME NEW p \in BillProcs, blCalls'[p].pc # "none", blCalls'[p].type = "chargeback"
      PROVE  blCalls'[p].pc # "collect" /\ blCalls'[p].lines \cap Adjustments = {}
  BY <1>2 DEF AdjustmentInv, Innocent, Underway, At
<1>3. ASSUME NEW p \in BillProcs, NEW n \in DOMAIN invoices', blCalls'[p].pc = "commit",
             invoices'[n].period = blCalls'[p].period
      PROVE  invoices'[n].lines \cap blCalls'[p].lines \cap Adjustments = {}
  <2>1. n \in DOMAIN invoices /\ invoices'[n].period = invoices[n].period
        /\ invoices'[n].lines = invoices[n].lines
    BY DEF SameBooks
  <2>2. blCalls'[p] = blCalls[p] \/ blCalls'[p].lines \cap Adjustments = {}
    BY <1>3 DEF Innocent
  <2> QED BY <1>3, <2>1, <2>2 DEF AdjustmentInv, At
<1> QED BY <1>1, <1>2, <1>3 DEF AdjustmentInv, Underway, At

LEMMA AdjustmentCollect ==
  ASSUME BlTypeOK, AdjustmentInv, BilledIsListed, NEW p \in BillProcs, CollectAdjustments(p)
  PROVE  AdjustmentInv'
<1>1. blCalls[p] \in Generation
  BY UnderwayType DEF CollectAdjustments, At
<1>2. blCalls'[p] = [blCalls[p] EXCEPT !.pc = "commit", !.lines = Billable(Adjustments)]
  BY DEF CollectAdjustments, Goes, BlTypeOK
<1>3. /\ blCalls[p].type # "chargeback"
      /\ blCalls'[p].lines = Billable(Adjustments)
      /\ blCalls'[p].type = blCalls[p].type
  BY <1>1, <1>2 DEF Generation, AdjustmentInv, CollectAdjustments, Underway, At
<1>4. \A q \in BillProcs : q # p => blCalls'[q] = blCalls[q]
  BY DEF CollectAdjustments, Goes, BlTypeOK
<1>5. invoices' = invoices
  BY DEF CollectAdjustments
<1>6. \A n \in DOMAIN invoices : invoices[n].lines \cap Billable(Adjustments) = {}
  BY DEF BilledIsListed, Billable, Billed
<1>7. AdjustmentBilledOnce'
  BY <1>5 DEF AdjustmentInv, AdjustmentBilledOnce
<1>8. ASSUME NEW q \in BillProcs, blCalls'[q].pc # "none", blCalls'[q].type = "chargeback"
      PROVE  blCalls'[q].pc # "collect" /\ blCalls'[q].lines \cap Adjustments = {}
  BY <1>3, <1>4, <1>8 DEF AdjustmentInv, Underway, At
<1>9. ASSUME NEW q \in BillProcs, NEW n \in DOMAIN invoices', blCalls'[q].pc = "commit",
             invoices'[n].period = blCalls'[q].period
      PROVE  invoices'[n].lines \cap blCalls'[q].lines \cap Adjustments = {}
  <2>1. CASE q = p
    BY <1>3, <1>5, <1>6, <2>1
  <2>2. CASE q # p
    BY <1>4, <1>5, <1>9, <2>2 DEF AdjustmentInv, At
  <2> QED BY <2>1, <2>2
<1> QED BY <1>7, <1>8, <1>9 DEF AdjustmentInv, Underway, At

LEMMA AdjustmentCommit ==
  ASSUME BlTypeOK, NumberInv, AdjustmentInv, NEW p \in BillProcs, CommitGeneration(p)
  PROVE  AdjustmentInv'
<1>1. PICK n \in Nat :
            /\ n \notin DOMAIN invoices
            /\ DOMAIN invoices' = DOMAIN invoices \cup {n}
            /\ \A m \in DOMAIN invoices : invoices'[m] = invoices[m]
            /\ invoices'[n].period = blCalls[p].period
            /\ invoices'[n].lines = blCalls[p].lines
            /\ items' = Marked(blCalls[p], n)
  BY CommitLines
<1>2. blCalls[p].pc = "commit"
  BY DEF CommitGeneration, At
<1>3. blCalls'[p] = BlIdle /\ \A q \in BillProcs : q # p => blCalls'[q] = blCalls[q]
  BY DEF CommitGeneration, Ends, Goes, BlTypeOK
<1>4. \A m \in DOMAIN invoices : invoices[m].period = blCalls[p].period =>
          invoices[m].lines \cap blCalls[p].lines \cap Adjustments = {}
  BY <1>2 DEF AdjustmentInv, At
<1>5. ASSUME NEW k \in DOMAIN invoices', NEW m \in DOMAIN invoices',
             invoices'[k].period = invoices'[m].period,
             invoices'[k].lines \cap invoices'[m].lines \cap Adjustments # {}
      PROVE  k = m
  <2>1. CASE k \in DOMAIN invoices /\ m \in DOMAIN invoices
    BY <1>1, <1>5, <2>1 DEF AdjustmentInv, AdjustmentBilledOnce
  <2>2. CASE k = n /\ m \in DOMAIN invoices
    BY <1>1, <1>4, <1>5, <2>2
  <2>3. CASE m = n /\ k \in DOMAIN invoices
    BY <1>1, <1>4, <1>5, <2>3
  <2> QED BY <1>1, <2>1, <2>2, <2>3
<1>6. ASSUME NEW q \in BillProcs, blCalls'[q].pc # "none"
      PROVE  q # p /\ blCalls'[q] = blCalls[q]
  BY <1>3, <1>6 DEF BlIdle
<1>7. ASSUME NEW q \in BillProcs, NEW m \in DOMAIN invoices', blCalls'[q].pc = "commit",
             invoices'[m].period = blCalls'[q].period
      PROVE  invoices'[m].lines \cap blCalls'[q].lines \cap Adjustments = {}
  <2>1. q # p /\ blCalls'[q] = blCalls[q]
    BY <1>6, <1>7
  <2>2. blCalls[q].period # blCalls[p].period
    BY <1>2, <1>7, <2>1 DEF NumberInv, Held
  <2>3. m \in DOMAIN invoices /\ invoices'[m] = invoices[m]
    BY <1>1, <1>7, <2>1, <2>2
  <2> QED BY <1>7, <2>1, <2>3 DEF AdjustmentInv, At
<1>8. ASSUME NEW q \in BillProcs, blCalls'[q].pc # "none", blCalls'[q].type = "chargeback"
      PROVE  blCalls'[q].pc # "collect" /\ blCalls'[q].lines \cap Adjustments = {}
  BY <1>6, <1>8 DEF AdjustmentInv, Underway, At
<1> QED BY <1>5, <1>7, <1>8 DEF AdjustmentInv, AdjustmentBilledOnce, Underway, At

LEMMA AdjustmentStep ==
  ASSUME BlTypeOK, NumberInv, BilledIsListed, AdjustmentInv, [BlNext]_blVars
  PROVE  AdjustmentInv'
<1>1. CASE UNCHANGED blVars
  BY <1>1, AdjustmentOther DEF blVars, SameBooks, Innocent
<1>2. ASSUME NEW x \in Items, CreateItem(x) \/ ApproveItem(x) \/ RefuseItem(x)
      PROVE  AdjustmentInv'
  BY <1>2, AdjustmentOther DEF CreateItem, ApproveItem, RefuseItem, Decide, SameBooks, Innocent
<1>3. ASSUME NEW p \in BillProcs, NEW per \in Periods,
             GenerateRental(p, per) \/ GenerateChargeback(p, per)
      PROVE  AdjustmentInv'
  <2>1. Billable(Chargebacks) \cap Adjustments = {}
    BY BillingAssumption DEF Billable
  <2>2. blCalls'[p].pc = "number" /\ blCalls'[p].lines \cap Adjustments = {}
    BY <1>3, <2>1 DEF GenerateRental, GenerateChargeback, Goes, NewGeneration, BlTypeOK
  <2>3. \A q \in BillProcs : q # p => blCalls'[q] = blCalls[q]
    BY <1>3 DEF GenerateRental, GenerateChargeback, Goes, BlTypeOK
  <2>4. SameBooks
    BY <1>3 DEF GenerateRental, GenerateChargeback, SameBooks
  <2> QED BY <2>2, <2>3, <2>4, AdjustmentOther DEF Innocent
<1>4. ASSUME NEW p \in BillProcs, ReadNumber(p)
      PROVE  AdjustmentInv'
  <2>1. blCalls[p] \in Generation /\ blCalls[p].pc = "number"
    BY <1>4, UnderwayType DEF ReadNumber, At
  <2>2. blCalls'[p] =
          [blCalls[p] EXCEPT !.pc = "insert", !.number = Count(blCalls[p].period) + 1]
    BY <1>4 DEF ReadNumber, Goes, BlTypeOK
  <2>3. Innocent(p)
    BY <2>1, <2>2 DEF Innocent, Generation
  <2>4. \A q \in BillProcs : q # p => blCalls'[q] = blCalls[q]
    BY <1>4 DEF ReadNumber, Goes, BlTypeOK
  <2> QED BY <1>4, <2>3, <2>4, AdjustmentOther DEF ReadNumber, SameBooks, Innocent
<1>5. ASSUME NEW p \in BillProcs, InsertHeader(p)
      PROVE  AdjustmentInv'
  <2>1. blCalls[p] \in Generation /\ blCalls[p].pc = "insert"
    BY <1>5, UnderwayType DEF InsertHeader, At
  <2>2. \/ blCalls'[p] = BlIdle
        \/ blCalls'[p] = [blCalls[p] EXCEPT
              !.pc = IF blCalls[p].type = "rental" THEN "collect" ELSE "commit"]
    BY <1>5 DEF InsertHeader, Ends, Goes, BlTypeOK
  <2>3. ASSUME blCalls'[p] # BlIdle
        PROVE  /\ blCalls'[p].pc = IF blCalls[p].type = "rental" THEN "collect" ELSE "commit"
               /\ blCalls'[p].type = blCalls[p].type
               /\ blCalls'[p].lines = blCalls[p].lines
    BY <2>1, <2>2, <2>3 DEF Generation
  <2>4. blCalls[p].type \in InvoiceTypes
    BY <2>1 DEF Generation
  <2>5. blCalls[p].type = "chargeback" => blCalls[p].lines \cap Adjustments = {}
    BY <2>1 DEF AdjustmentInv, Underway, At
  <2>6. Innocent(p)
    <3>1. CASE blCalls'[p] = BlIdle
      BY <3>1 DEF Innocent, BlIdle
    <3>2. CASE blCalls'[p] # BlIdle /\ blCalls[p].type = "rental"
      BY <2>1, <2>3, <3>2 DEF Innocent
    <3>3. CASE blCalls'[p] # BlIdle /\ blCalls[p].type = "chargeback"
      BY <2>3, <2>5, <3>3 DEF Innocent
    <3> QED BY <2>4, <3>1, <3>2, <3>3 DEF InvoiceTypes
  <2>7. \A q \in BillProcs : q # p => blCalls'[q] = blCalls[q]
    BY <1>5 DEF InsertHeader, Ends, Goes, BlTypeOK
  <2> QED BY <1>5, <2>6, <2>7, AdjustmentOther DEF InsertHeader, SameBooks, Innocent
<1>6. ASSUME NEW p \in BillProcs, PoolTimeout(p) \/ GenerationFails(p)
      PROVE  AdjustmentInv'
  <2>1. \A q \in BillProcs : Innocent(q)
    BY <1>6 DEF PoolTimeout, GenerationFails, Ends, Goes, BlTypeOK, Innocent, BlIdle
  <2> QED BY <1>6, <2>1, AdjustmentOther DEF PoolTimeout, GenerationFails, SameBooks
<1>7. ASSUME NEW n \in DOMAIN invoices, ApproveInvoice(n) \/ DeliverInvoice(n) \/ VoidInvoice(n)
      PROVE  AdjustmentInv'
  <2>1. SameBooks
    BY <1>7, MoveSameBooks DEF ApproveInvoice, DeliverInvoice, VoidInvoice
  <2>2. \A q \in BillProcs : Innocent(q)
    BY <1>7 DEF ApproveInvoice, DeliverInvoice, VoidInvoice, Move, Innocent
  <2> QED BY <2>1, <2>2, AdjustmentOther
<1> QED BY <1>1, <1>2, <1>3, <1>4, <1>5, <1>6, <1>7, AdjustmentCollect, AdjustmentCommit
      DEF BlNext

(***************************************************************************)
(* No adjustment is on two invoices of one period, for any number of       *)
(* generations: the one that reads it holds a number that no other         *)
(* generation of the period can hold until it commits.                     *)
(***************************************************************************)
THEOREM AdjustmentBilledOnceHolds == BlSpec => []AdjustmentBilledOnce
<1>1. BlInit => BlTypeOK
  BY DEF BlInit, BlTypeOK, Item, ItemStatuses
<1>2. BlInit => BilledIsListed /\ AdjustmentInv
  BY DEF BlInit, BilledIsListed, Billed, AdjustmentInv, AdjustmentBilledOnce, Underway, At, BlIdle
<1>3. BlTypeOK /\ NumberInv /\ BilledIsListed /\ AdjustmentInv /\ [BlNext]_blVars
      => (BlTypeOK /\ NumberInv /\ BilledIsListed /\ AdjustmentInv)'
  BY BlTypeStep, NumberStep, ListedStep, AdjustmentStep
<1>4. AdjustmentInv => AdjustmentBilledOnce
  BY DEF AdjustmentInv
<1> QED BY <1>1, <1>2, NumberInit, <1>3, <1>4, PTL DEF BlSpec

-----------------------------------------------------------------------------
(* The ledger.                                                             *)

LEMMA PostedEntries ==
  ASSUME BlTypeOK
  PROVE  /\ Len(invoices) \in Nat
         /\ DOMAIN invoices = 1..Len(invoices)
         /\ DOMAIN Posted = DOMAIN invoices
         /\ Len(Posted) = Len(invoices)
         /\ Posted \in Seq([period: Periods, number: Nat, adjustments: SUBSET Adjustments,
                           standing: InvoiceStatuses])
         /\ \A n \in DOMAIN invoices :
               /\ Posted[n] = EntryOf(invoices[n])
               /\ Posted[n].period = invoices[n].period
               /\ Posted[n].number = invoices[n].number
               /\ Posted[n].adjustments = invoices[n].lines \cap Adjustments
               /\ Posted[n].standing = invoices[n].status
<1>1. Len(invoices) \in Nat /\ DOMAIN invoices = 1..Len(invoices)
  BY DEF BlTypeOK
<1>2. DOMAIN Posted = 1..Len(invoices) /\ \A n \in 1..Len(invoices) : Posted[n] = EntryOf(invoices[n])
  BY DEF Posted
<1>3. \A n \in 1..Len(invoices) : invoices[n] \in Invoice
  BY <1>1 DEF BlTypeOK
<1>4. \A n \in 1..Len(invoices) :
          EntryOf(invoices[n]) \in [period: Periods, number: Nat,
              adjustments: SUBSET Adjustments, standing: InvoiceStatuses]
  BY <1>3 DEF EntryOf, Invoice
<1>5. Posted \in Seq([period: Periods, number: Nat, adjustments: SUBSET Adjustments,
                     standing: InvoiceStatuses])
  BY <1>1, <1>4 DEF Posted
<1>6. Len(Posted) = Len(invoices)
  BY <1>1, <1>2, <1>5
<1> QED BY <1>1, <1>2, <1>5, <1>6 DEF EntryOf

\* The ledger counts what the COUNT counts.
LEMMA SamePeriods ==
  ASSUME BlTypeOK, NEW per
  PROVE  Books!Of(per) = InPeriod(per)
BY PostedEntries DEF Books!Of, InPeriod

\* A commit enters the next number of its period, and adjustments that no invoice of it has.
LEMMA CommitPosts ==
  ASSUME BlTypeOK, BlTypeOK', NumberInv, AdjustmentInv, NEW p \in BillProcs, CommitGeneration(p)
  PROVE  Books!Next
<1> DEFINE per == blCalls[p].period
           num == blCalls[p].number
           adj == blCalls[p].lines \cap Adjustments
<1>1. blCalls[p] \in Generation /\ blCalls[p].pc = "commit"
  BY UnderwayType DEF CommitGeneration, At
<1>2. per \in Periods /\ adj \in SUBSET Adjustments
  BY <1>1 DEF Generation
<1>3. adj \cap Books!BilledIn(per) = {}
  <2>1. \A n \in InPeriod(per) :
            /\ Posted[n].adjustments = invoices[n].lines \cap Adjustments
            /\ invoices[n].lines \cap adj = {}
    BY <1>1, PostedEntries DEF InPeriod, AdjustmentInv, At
  <2> QED BY <2>1, SamePeriods DEF Books!BilledIn
<1>4. /\ {Posted[n].number : n \in Books!Of(per)} = 1..(num - 1)
      /\ num \in 1..(Len(Posted) + 1)
  <2>1. Count(per) \in Nat /\ num = Count(per) + 1
    BY <1>1, <1>2, CountType DEF NumberInv, NumberOK, Underway, At
  <2>2. Numbers(per) = 1..Count(per)
    BY <1>2 DEF NumberInv, NumbersDense
  <2>3. {Posted[n].number : n \in Books!Of(per)} = Numbers(per)
    BY PostedEntries, SamePeriods DEF Numbers, InPeriod
  <2>4. Count(per) <= Len(Posted)
    <3>1. InPeriod(per) \subseteq 1..Len(invoices) /\ Len(invoices) \in Nat
      BY PostedEntries DEF InPeriod
    <3>2. IsFiniteSet(1..Len(invoices)) /\ Cardinality(1..Len(invoices)) = Len(invoices)
      <4> DEFINE len == Len(invoices)
      <4>1. len \in Int /\ 1 \in Int
        BY <3>1
      <4> HIDE DEF len
      <4>2. IsFiniteSet(1..len) /\ Cardinality(1..len) = IF 1 > len THEN 0 ELSE len - 1 + 1
        BY <4>1, FS_Interval
      <4>3. len \in Nat
        BY <3>1 DEF len
      <4>4. IsFiniteSet(1..len) /\ Cardinality(1..len) = len
        BY <4>2, <4>3
      <4> QED BY <4>4 DEF len
    <3> QED BY <3>1, <3>2, FS_Subset, PostedEntries DEF Count
  <2>5. num - 1 = Count(per) /\ Len(Posted) \in Nat
    BY <2>1, PostedEntries
  <2> QED BY <2>1, <2>2, <2>3, <2>4, <2>5
<1>5. EntryOf(NewInvoice(blCalls[p])) = Books!Entry(per, num, adj)
  BY DEF EntryOf, NewInvoice, Books!Entry
<1>6. Posted' = Append(Posted, Books!Entry(per, num, adj))
  <2>1. /\ Len(invoices) \in Nat
        /\ Len(invoices') = Len(invoices) + 1
        /\ \A n \in 1..Len(invoices) : invoices'[n] = invoices[n]
        /\ invoices'[Len(invoices) + 1] = NewInvoice(blCalls[p])
    BY DEF BlTypeOK, CommitGeneration
  <2>2. Posted' = [n \in 1..(Len(invoices) + 1) |-> EntryOf(invoices'[n])]
    BY <2>1 DEF Posted, EntryOf
  <2>3. Append(Posted, Books!Entry(per, num, adj)) =
          [n \in 1..(Len(invoices) + 1) |->
             IF n \in 1..Len(invoices) THEN Posted[n] ELSE Books!Entry(per, num, adj)]
    BY <2>1, PostedEntries
  <2>4. \A n \in 1..(Len(invoices) + 1) :
            EntryOf(invoices'[n]) =
               IF n \in 1..Len(invoices) THEN Posted[n] ELSE Books!Entry(per, num, adj)
    BY <1>5, <2>1, PostedEntries
  <2> QED BY <2>2, <2>3, <2>4
<1>7. Books!Post(per, num, adj)
  BY <1>3, <1>4, <1>6 DEF Books!Post
<1> QED BY <1>2, <1>4, <1>7 DEF Books!Next

\* A move of a status settles its entry.
LEMMA MoveSettles ==
  ASSUME BlTypeOK, BlTypeOK', NEW n \in DOMAIN invoices,
         ApproveInvoice(n) \/ DeliverInvoice(n) \/ VoidInvoice(n)
  PROVE  Books!Next
<1>1. PICK s \in {"approved", "sent", "void"} :
          /\ <<invoices[n].status, s>> \in Books!Forward
          /\ invoices' = [invoices EXCEPT ![n].status = s]
  BY DEF ApproveInvoice, DeliverInvoice, VoidInvoice, Move, InvoiceStatuses, Books!Forward
<1>2. invoices[n] \in Invoice /\ Len(invoices) \in Nat /\ Len(invoices') = Len(invoices)
  BY <1>1 DEF BlTypeOK
<1>3. /\ \A m \in DOMAIN invoices : m # n => invoices'[m] = invoices[m]
      /\ invoices'[n] = [invoices[n] EXCEPT !.status = s]
  BY <1>1
<1>4. EntryOf(invoices'[n]) = [EntryOf(invoices[n]) EXCEPT !.standing = s]
  <2>1. /\ invoices'[n].status = s
        /\ invoices'[n].period = invoices[n].period
        /\ invoices'[n].number = invoices[n].number
        /\ invoices'[n].lines = invoices[n].lines
    BY <1>2, <1>3 DEF Invoice
  <2> QED BY <2>1 DEF EntryOf
<1>5. Posted' = [Posted EXCEPT ![n].standing = s]
  <2>1. Posted' = [m \in 1..Len(invoices) |-> EntryOf(invoices'[m])]
    BY <1>2 DEF Posted, EntryOf
  <2>2. [Posted EXCEPT ![n].standing = s] =
          [m \in 1..Len(invoices) |->
             IF m = n THEN [EntryOf(invoices[n]) EXCEPT !.standing = s] ELSE EntryOf(invoices[m])]
    BY PostedEntries DEF Posted
  <2>3. \A m \in 1..Len(invoices) :
            EntryOf(invoices'[m]) =
               IF m = n THEN [EntryOf(invoices[n]) EXCEPT !.standing = s] ELSE EntryOf(invoices[m])
    BY <1>3, <1>4, PostedEntries
  <2> QED BY <2>1, <2>2, <2>3
<1>6. n \in DOMAIN Posted /\ Posted[n].standing = invoices[n].status
  BY PostedEntries
<1> QED BY <1>1, <1>5, <1>6 DEF Books!Next, Books!Settle

LEMMA LedgerStep ==
  ASSUME BlTypeOK, BlTypeOK', NumberInv, AdjustmentInv, [BlNext]_blVars
  PROVE  [Books!Next]_Posted
<1>1. ASSUME UNCHANGED invoices
      PROVE  [Books!Next]_Posted
  BY <1>1 DEF Posted, EntryOf
<1> QED BY <1>1, CommitPosts, MoveSettles
      DEF BlNext, blVars, CreateItem, ApproveItem, RefuseItem, Decide, GenerateRental,
          GenerateChargeback, ReadNumber, PoolTimeout, InsertHeader, CollectAdjustments,
          GenerationFails

(***************************************************************************)
(* Billing implements Ledger: a commit is an entry with the next number    *)
(* and with adjustments of its own, a move of a status settles one, and    *)
(* everything else, whatever generations read or fail on, is no step of    *)
(* the ledger.                                                             *)
(***************************************************************************)
THEOREM BillingImplementsLedger == BlSpec => LedgerKept
<1>1. BlInit => BlTypeOK
  BY DEF BlInit, BlTypeOK, Item, ItemStatuses
<1>2. BlInit => BilledIsListed /\ AdjustmentInv
  BY DEF BlInit, BilledIsListed, Billed, AdjustmentInv, AdjustmentBilledOnce, Underway, At, BlIdle
<1>3. BlInit => Books!Init
  BY DEF BlInit, Books!Init, Posted
<1>4. BlTypeOK /\ NumberInv /\ BilledIsListed /\ AdjustmentInv /\ [BlNext]_blVars
      => (BlTypeOK /\ NumberInv /\ BilledIsListed /\ AdjustmentInv)'
  BY BlTypeStep, NumberStep, ListedStep, AdjustmentStep
<1>5. BlTypeOK /\ BlTypeOK' /\ NumberInv /\ AdjustmentInv /\ [BlNext]_blVars
      => [Books!Next]_Posted
  BY LedgerStep
<1> QED BY <1>1, <1>2, NumberInit, <1>3, <1>4, <1>5, PTL DEF BlSpec, LedgerKept, Books!Spec
=============================================================================
