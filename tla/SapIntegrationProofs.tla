------------------------ MODULE SapIntegrationProofs ------------------------
(***************************************************************************)
(* Proofs about SapIntegration, for any entities and operations, any       *)
(* numbers of requests, rows and retries, with failures and crashes.       *)
(***************************************************************************)
EXTENDS SapIntegration, SequenceTheorems, FiniteSetTheorems, TLAPS

-----------------------------------------------------------------------------
(* The breakers.                                                           *)

\* A circuit that is not open has no reason to be.
CircuitFits(b) == b \in Circuit /\ (b.state = "OPEN" \/ b.failures < Threshold \/ b.cooled)

\* What the calls see of a circuit, whichever step they take.
CircuitStep(b, c) ==
    c \in {b, Succeeded(b), Failed(b), Cooled(b), NewCircuit} \/ (Admits(b) /\ c = Admitted(b))

LEMMA CircuitKeeps ==
    ASSUME NEW b, NEW c, CircuitFits(b), CircuitStep(b, c)
    PROVE  CircuitFits(c)
<1>0. Threshold \in Nat \ {0}
  BY ThresholdAssumption
<1>1. CASE c = Admitted(b) /\ Admits(b)
  <2>1. b \in Circuit /\ (b.state = "OPEN" => b.cooled)
    BY <1>1 DEF CircuitFits, Admits
  <2>2. CASE b.state = "OPEN"
    <3>1. c = [b EXCEPT !.state = "HALF_OPEN"] /\ b.cooled
      BY <1>1, <2>1, <2>2 DEF Admitted
    <3> QED
      BY <2>1, <3>1 DEF CircuitFits, Circuit, CircuitStates
  <2>3. CASE b.state # "OPEN"
    <3>1. c = [b EXCEPT !.state = b.state]
      BY <1>1, <2>3 DEF Admitted
    <3> QED
      <4>1. c = b
        BY <2>1, <3>1 DEF Circuit
      <4> QED
        BY <4>1
  <2> QED
    BY <2>2, <2>3
<1>2. CASE c = Succeeded(b)
  <2>1. c = [state |-> "CLOSED", failures |-> 0, cooled |-> b.cooled]
    BY <1>2 DEF CircuitFits, Circuit, Succeeded
  <2> QED
    BY <1>0, <2>1 DEF CircuitFits, Circuit, CircuitStates
<1>3. CASE c = Failed(b)
  BY <1>0, <1>3 DEF CircuitFits, Circuit, CircuitStates, Failed, CountFailure
<1>4. CASE c = Cooled(b)
  <2>1. c = [state |-> b.state, failures |-> b.failures, cooled |-> TRUE]
    BY <1>4 DEF CircuitFits, Circuit, Cooled
  <2> QED
    BY <1>0, <2>1 DEF CircuitFits, Circuit, CircuitStates
<1>5. CASE c = NewCircuit
  BY <1>0, <1>5 DEF CircuitFits, Circuit, CircuitStates, NewCircuit
<1> QED
  BY <1>1, <1>2, <1>3, <1>4, <1>5 DEF CircuitStep

LEMMA NewCircuitFits == CircuitFits(NewCircuit)
BY ThresholdAssumption DEF CircuitFits, Circuit, CircuitStates, NewCircuit

-----------------------------------------------------------------------------
(* The inductive invariant: where each request is, what it refers to and   *)
(* how far the post of its row has come.                                   *)

LogPC == {"send", "wait", "mark", "document", "refusal", "complete", "undo", "fail"}
EntryPC == {"hold", "settle", "take", "confirm", "plan", "delay", "bury"}

\* BookedBy, over any rows L and marks M.
Books(r, M) ==
    /\ r.post = "taken"
    /\ r.document # "none"
    /\ MarksEntity(r.ent) => r.ent \in M
Booked(e, L, M) == \E m \in DOMAIN L : L[m].ent = e /\ Books(L[m], M)

PostFits(c, L, M) ==
    /\ c.pc = "send" => L[c.log].post = "none"
    /\ c.pc = "wait" => L[c.log].post \in {"sent", "taken"}
    /\ c.pc \in {"mark", "document", "complete"} => L[c.log].post = "taken"
    /\ c.pc \in {"refusal", "undo"} => L[c.log].post = "refused"
    /\ c.pc \in {"document", "complete"} /\ MarksEntity(c.ent) => c.ent \in M
    /\ c.pc = "complete" => L[c.log].document # "none"
    /\ c.pc = "settle" /\ c.ok => Booked(c.ent, L, M)

PlaceFits(c, L) ==
    /\ c.todo \subseteq DOMAIN L
    /\ c.pc \in LogPC => c.log \in DOMAIN L /\ L[c.log].ent = c.ent
    /\ c.pc \in EntryPC => c.entry # 0
    /\ c.entry # 0 => c.entry \in DOMAIN L /\ (c.pc \notin QueuePC => L[c.entry].ent = c.ent)

CallFits(c, L, M) ==
    c = IdleCall \/ (c \in SapCall /\ c.pc # "idle" /\ PlaceFits(c, L) /\ PostFits(c, L, M))

\* No two requests complete the same row.
OwnLogs(calls) ==
    \A p, q \in SapProcs :
        p # q /\ calls[p].pc \in LogPC /\ calls[q].pc \in LogPC => calls[p].log # calls[q].log

RowsFit(L, M) == \A n \in DOMAIN L : L[n].status = "success" => Booked(L[n].ent, L, M)

Calls == [SapProcs -> SapCall \cup {IdleCall}]

INInv ==
    /\ INTypeOK
    /\ CircuitFits(sap)
    /\ CircuitFits(queue)
    /\ \A p \in SapProcs : CallFits(sapCalls[p], logs, marked)
    /\ OwnLogs(sapCalls)
    /\ RowsFit(logs, marked)

\* How the rows may change in a step that writes no row but `own`.
Grows(L, K, own) ==
    \A n \in DOMAIN L :
        /\ n \in DOMAIN K
        /\ K[n].ent = L[n].ent
        /\ n # own => K[n].document = L[n].document
        /\ n # own => K[n].post = L[n].post \/ (L[n].post = "sent" /\ K[n].post = "taken")
        /\ L[n].post = "taken" => K[n].post = "taken"
        /\ Books(L[n], {L[n].ent}) => K[n].document # "none"

-----------------------------------------------------------------------------
(* What other requests and the settled rows keep.                          *)

LEMMA BookedStays ==
    ASSUME NEW L, NEW K, NEW M, NEW N, NEW own, NEW e,
           Grows(L, K, own), M \subseteq N, Booked(e, L, M)
    PROVE  Booked(e, K, N)
<1>1. PICK m \in DOMAIN L : L[m].ent = e /\ Books(L[m], M)
  BY DEF Booked
<1>2. m \in DOMAIN K /\ K[m].ent = e /\ K[m].post = "taken" /\ K[m].document # "none"
  BY <1>1 DEF Grows, Books
<1> QED
  BY <1>1, <1>2 DEF Booked, Books

LEMMA FitsStays ==
    ASSUME NEW L, NEW K, NEW M, NEW N, NEW own, NEW c,
           Grows(L, K, own), M \subseteq N, CallFits(c, L, M),
           c.pc \in LogPC => c.log # own
    PROVE  CallFits(c, K, N)
<1>1. CASE c = IdleCall
  BY <1>1 DEF CallFits
<1>2. CASE c # IdleCall
  <2>1. c \in SapCall /\ c.pc # "idle" /\ PlaceFits(c, L) /\ PostFits(c, L, M)
    BY <1>2 DEF CallFits
  <2>2. PlaceFits(c, K)
    BY <2>1 DEF PlaceFits, Grows
  <2>3. c.pc \in LogPC => K[c.log].document = L[c.log].document
    BY <2>1 DEF PlaceFits, Grows
  <2>4. c.pc \in LogPC =>
          K[c.log].post = L[c.log].post \/ (L[c.log].post = "sent" /\ K[c.log].post = "taken")
    BY <2>1 DEF PlaceFits, Grows
  <2>5. c.pc = "settle" /\ c.ok => Booked(c.ent, K, N)
    BY <2>1, BookedStays DEF PostFits
  <2>6. PostFits(c, K, N)
    BY <2>1, <2>3, <2>4, <2>5 DEF PostFits, LogPC
  <2> QED
    BY <2>1, <2>2, <2>6 DEF CallFits
<1> QED
  BY <1>1, <1>2

LEMMA RowsStay ==
    ASSUME NEW L, NEW K, NEW M, NEW N, NEW own,
           Grows(L, K, own), M \subseteq N, RowsFit(L, M),
           \A n \in DOMAIN K : K[n].status = "success" =>
               (n \in DOMAIN L /\ L[n].status = "success") \/ Booked(K[n].ent, K, N)
    PROVE  RowsFit(K, N)
<1> SUFFICES ASSUME NEW n \in DOMAIN K, K[n].status = "success"
             PROVE  Booked(K[n].ent, K, N)
  BY DEF RowsFit
<1>1. CASE n \in DOMAIN L /\ L[n].status = "success"
  <2>1. Booked(L[n].ent, L, M)
    BY <1>1 DEF RowsFit
  <2>2. Booked(L[n].ent, K, N)
    BY <2>1, BookedStays
  <2> QED
    BY <1>1, <2>2 DEF Grows
<1> QED
  BY <1>1

\* A request moves to the call c; the rows grow; the rest follows.
Moves(p, c) == sapCalls' = [sapCalls EXCEPT ![p] = c]

NewLog(c, d) ==
    c.pc \in LogPC => (d.pc \in LogPC /\ c.log = d.log) \/ c.log \notin DOMAIN logs

LEMMA OneCall ==
    ASSUME INInv, NEW p \in SapProcs, NEW c, NEW own,
           Moves(p, c), CallFits(c, logs', marked'), NewLog(c, sapCalls[p]),
           Grows(logs, logs', own),
           own = 0 \/ (sapCalls[p].pc \in LogPC /\ own = sapCalls[p].log),
           INTypeOK', RowsFit(logs', marked'), marked \subseteq marked',
           CircuitStep(sap, sap'), CircuitStep(queue, queue')
    PROVE  INInv'
<1>0. sapCalls \in Calls /\ logs \in Seq(LogRow)
  BY DEF INInv, INTypeOK, Calls
<1>1. /\ sapCalls'[p] = c
      /\ \A q \in SapProcs : q # p => sapCalls'[q] = sapCalls[q]
  BY <1>0 DEF Moves, Calls
<1>2. CircuitFits(sap') /\ CircuitFits(queue')
  BY CircuitKeeps DEF INInv
<1>3. \A q \in SapProcs : sapCalls[q].pc \in LogPC => sapCalls[q].log \in DOMAIN logs
  BY DEF INInv, CallFits, PlaceFits, IdleCall, LogPC
<1>4. 0 \notin DOMAIN logs
  BY <1>0
<1>5. ASSUME NEW q \in SapProcs
      PROVE  CallFits(sapCalls'[q], logs', marked')
  <2>1. CASE q = p
    BY <2>1, <1>1
  <2>2. CASE q # p
    <3>1. sapCalls[q].pc \in LogPC => sapCalls[q].log # own
      BY <2>2, <1>3, <1>4 DEF INInv, OwnLogs
    <3>2. CallFits(sapCalls[q], logs, marked)
      BY DEF INInv
    <3>3. CallFits(sapCalls[q], logs', marked')
      BY <3>1, <3>2, FitsStays
    <3> QED
      BY <3>3, <2>2, <1>1
  <2> QED
    BY <2>1, <2>2
<1>6. OwnLogs(sapCalls')
  <2> SUFFICES ASSUME NEW q \in SapProcs, NEW r \in SapProcs, q # r,
                      sapCalls'[q].pc \in LogPC, sapCalls'[r].pc \in LogPC
               PROVE  sapCalls'[q].log # sapCalls'[r].log
    BY DEF OwnLogs
  <2>1. CASE q # p /\ r # p
    BY <2>1, <1>1 DEF INInv, OwnLogs
  <2>2. CASE q = p
    BY <2>2, <1>1, <1>3 DEF INInv, OwnLogs, NewLog
  <2>3. CASE r = p
    BY <2>3, <1>1, <1>3 DEF INInv, OwnLogs, NewLog
  <2> QED
    BY <2>1, <2>2, <2>3
<1> QED
  BY <1>2, <1>5, <1>6 DEF INInv

-----------------------------------------------------------------------------
(* The shapes of steps.                                                    *)

LEMMA InFlight ==
    ASSUME INInv, NEW p \in SapProcs, sapCalls[p].pc # "idle"
    PROVE  /\ sapCalls[p] \in SapCall
           /\ PlaceFits(sapCalls[p], logs)
           /\ PostFits(sapCalls[p], logs, marked)
BY DEF INInv, CallFits, IdleCall

LEMMA MovesType ==
    ASSUME INInv, NEW p \in SapProcs, NEW c \in SapCall \cup {IdleCall}, Moves(p, c)
    PROVE  sapCalls' \in [SapProcs -> SapCall \cup {IdleCall}]
BY DEF INInv, INTypeOK, Moves

LEMMA CircuitType == ASSUME NEW b, CircuitFits(b) PROVE b \in Circuit
BY DEF CircuitFits

LEMMA SameLogs ==
    ASSUME INInv, NEW p \in SapProcs, NEW c \in SapCall \cup {IdleCall}, Moves(p, c),
           UNCHANGED logs, status' \in [Entities -> EntityStatuses],
           marked \subseteq marked', marked' \subseteq Entities,
           CallFits(c, logs, marked'), NewLog(c, sapCalls[p]),
           CircuitStep(sap, sap'), CircuitStep(queue, queue')
    PROVE  INInv'
<1>1. Grows(logs, logs', 0)
  BY DEF Grows, Books
<1>2. INTypeOK'
  BY MovesType, CircuitKeeps, CircuitType DEF INInv, INTypeOK
<1>3. RowsFit(logs', marked')
  BY <1>1, RowsStay DEF INInv
<1> QED
  BY <1>1, <1>2, <1>3, OneCall

LEMMA RowUpdate ==
    ASSUME logs \in Seq(LogRow), NEW n \in DOMAIN logs, NEW r \in LogRow,
           logs' = [logs EXCEPT ![n] = r]
    PROVE  /\ logs' \in Seq(LogRow)
           /\ DOMAIN logs' = DOMAIN logs
           /\ logs'[n] = r
           /\ \A m \in DOMAIN logs : m # n => logs'[m] = logs[m]
<1>1. logs' \in Seq(LogRow)
  BY ExceptSeq
<1> QED
  BY <1>1

\* A row that only its own request may take further.
RowGrows(r, s) ==
    /\ s.ent = r.ent
    /\ r.post = "taken" => s.post = "taken" /\ (r.document # "none" => s.document # "none")

LEMMA OneRow ==
    ASSUME INInv, NEW p \in SapProcs, NEW c \in SapCall \cup {IdleCall}, Moves(p, c),
           NEW n \in DOMAIN logs, NEW r \in LogRow, logs' = [logs EXCEPT ![n] = r],
           RowGrows(logs[n], r),
           \/ sapCalls[p].pc \in LogPC /\ n = sapCalls[p].log
           \/ r.post = logs[n].post /\ r.document = logs[n].document,
           r.status = "success" => logs[n].status = "success" \/ Booked(r.ent, logs', marked),
           UNCHANGED <<status, marked>>,
           CallFits(c, logs', marked), NewLog(c, sapCalls[p]),
           CircuitStep(sap, sap'), CircuitStep(queue, queue')
    PROVE  INInv'
<1> DEFINE own == IF sapCalls[p].pc \in LogPC /\ n = sapCalls[p].log THEN n ELSE 0
<1>0. logs \in Seq(LogRow)
  BY DEF INInv, INTypeOK
<1>1. /\ logs' \in Seq(LogRow)
      /\ DOMAIN logs' = DOMAIN logs
      /\ logs'[n] = r
      /\ \A m \in DOMAIN logs : m # n => logs'[m] = logs[m]
  BY <1>0, RowUpdate
<1>2. Grows(logs, logs', own)
  BY <1>1 DEF Grows, RowGrows, Books
<1>3. INTypeOK'
  BY <1>1, MovesType, CircuitKeeps, CircuitType DEF INInv, INTypeOK
<1>4. \A m \in DOMAIN logs' : logs'[m].status = "success" =>
          (m \in DOMAIN logs /\ logs[m].status = "success") \/ Booked(logs'[m].ent, logs', marked')
  BY <1>1
<1>5. RowsFit(logs', marked')
  BY <1>2, <1>4, RowsStay DEF INInv
<1>6. own = 0 \/ (sapCalls[p].pc \in LogPC /\ own = sapCalls[p].log)
  OBVIOUS
<1>7. CallFits(c, logs', marked') /\ marked \subseteq marked'
  OBVIOUS
<1> HIDE DEF own
<1> QED
  BY <1>2, <1>3, <1>5, <1>6, <1>7, OneCall

\* Steps of no request: SAP, the clock, a rejection, a reset.
LEMMA NoCall ==
    ASSUME INInv, UNCHANGED <<marked, sapCalls>>, INTypeOK', Grows(logs, logs', 0),
           \A n \in DOMAIN logs' : n \in DOMAIN logs /\
              (logs'[n].status = "success" => logs[n].status = "success"),
           CircuitStep(sap, sap'), CircuitStep(queue, queue')
    PROVE  INInv'
<1>1. RowsFit(logs', marked')
  BY RowsStay DEF INInv
<1>2. CircuitFits(sap') /\ CircuitFits(queue')
  BY CircuitKeeps DEF INInv
<1>3. ASSUME NEW q \in SapProcs
      PROVE  CallFits(sapCalls'[q], logs', marked')
  <2>1. sapCalls[q].pc \in LogPC => sapCalls[q].log # 0
    <3>1. logs \in Seq(LogRow)
      BY DEF INInv, INTypeOK
    <3> QED
      BY <3>1 DEF INInv, CallFits, PlaceFits, IdleCall, LogPC
  <2>2. CallFits(sapCalls[q], logs, marked)
    BY DEF INInv
  <2> QED
    BY <2>1, <2>2, FitsStays
<1> QED
  BY <1>1, <1>2, <1>3 DEF INInv

\* A request goes on to the statement x, all else it knows unchanged.
Follows(c, d, x) ==
    /\ c \in SapCall
    /\ c.pc = x
    /\ c.ent = d.ent /\ c.log = d.log /\ c.entry = d.entry /\ c.todo = d.todo /\ c.ok = d.ok

LEMMA GotoCall ==
    ASSUME INInv, NEW p \in SapProcs, sapCalls[p].pc # "idle", NEW x \in SapPC, Goto(p, x)
    PROVE  \E c \in SapCall : Moves(p, c) /\ Follows(c, sapCalls[p], x)
<1> DEFINE c == [sapCalls[p] EXCEPT !.pc = x]
<1>1. sapCalls[p] \in SapCall
  BY InFlight
<1>2. c \in SapCall
  BY <1>1 DEF SapCall
<1>3. Follows(c, sapCalls[p], x)
  BY <1>1, <1>2 DEF Follows, SapCall
<1>4. Moves(p, c)
  BY DEF Goto, Moves
<1> QED
  BY <1>2, <1>3, <1>4

LEMMA StopCall ==
    ASSUME NEW p \in SapProcs, Stop(p)
    PROVE  /\ Moves(p, IdleCall)
           /\ \A L, M : CallFits(IdleCall, L, M)
           /\ NewLog(IdleCall, sapCalls[p])
BY DEF Stop, Moves, CallFits, NewLog, IdleCall, LogPC

LEMMA AnswerCall ==
    ASSUME INInv, NEW p \in SapProcs, sapCalls[p].pc \in LogPC \cup {"read"},
           NEW ok \in BOOLEAN, Answer(p, ok),
           NEW K, DOMAIN K = DOMAIN logs, \A n \in DOMAIN logs : K[n].ent = logs[n].ent,
           ok => Booked(sapCalls[p].ent, K, marked)
    PROVE  \E c \in SapCall \cup {IdleCall} :
              Moves(p, c) /\ CallFits(c, K, marked) /\ NewLog(c, sapCalls[p])
<1>1. sapCalls[p] \in SapCall /\ PlaceFits(sapCalls[p], logs)
  BY InFlight DEF LogPC
<1>2. CASE sapCalls[p].entry = 0
  BY <1>2, StopCall DEF Answer
<1>3. CASE sapCalls[p].entry # 0
  <2> DEFINE c == [sapCalls[p] EXCEPT !.pc = "settle", !.ok = ok]
  <2>1. c \in SapCall
    BY <1>1 DEF SapCall, SapPC
  <2>2. /\ c.pc = "settle" /\ c.ok = ok
        /\ c.ent = sapCalls[p].ent /\ c.entry = sapCalls[p].entry /\ c.todo = sapCalls[p].todo
    BY <1>1 DEF SapCall
  <2>3. Moves(p, c)
    BY <1>3 DEF Answer, Moves
  <2> HIDE DEF c
  <2>4. PlaceFits(c, K)
    BY <1>1, <1>3, <2>2 DEF PlaceFits, LogPC, QueuePC
  <2>5. PostFits(c, K, marked)
    BY <2>2 DEF PostFits
  <2>6. NewLog(c, sapCalls[p])
    BY <2>2 DEF NewLog, LogPC
  <2> QED
    BY <2>1, <2>2, <2>3, <2>4, <2>5, <2>6 DEF CallFits
<1> QED
  BY <1>2, <1>3

-----------------------------------------------------------------------------
(* The steps that write no row.                                            *)

LEMMA QuietCircuits ==
    ASSUME NEW b PROVE CircuitStep(b, b)
BY DEF CircuitStep

LEMMA BeginKeeps ==
    ASSUME INInv, NEW p \in SapProcs, NEW x \in {"read", "hold", "next"}, NEW e \in Entities,
           NEW n \in {0} \cup DOMAIN logs, NEW todo \in SUBSET DOMAIN logs,
           Begin(p, x, e, n, todo),
           x = "hold" => n # 0, x # "next" /\ n # 0 => logs[n].ent = e,
           status' \in [Entities -> EntityStatuses], UNCHANGED <<marked, logs, sap, queue>>
    PROVE  INInv'
<1> DEFINE c == [pc |-> x, ent |-> e, log |-> 0, entry |-> n, todo |-> todo, ok |-> FALSE]
<1>0. logs \in Seq(LogRow)
  BY DEF INInv, INTypeOK
<1>1. n \in Nat /\ todo \subseteq Nat
  BY <1>0
<1>2. c \in SapCall
  BY <1>1 DEF SapCall, SapPC, PushPC, QueuePC
<1>3. /\ c.pc = x /\ c.ent = e /\ c.log = 0 /\ c.entry = n /\ c.todo = todo /\ c.ok = FALSE
      /\ Moves(p, c)
  BY DEF Begin, Moves
<1> HIDE DEF c
<1>4. PlaceFits(c, logs)
  BY <1>3 DEF PlaceFits, LogPC, EntryPC, QueuePC
<1>5. PostFits(c, logs, marked')
  BY <1>3 DEF PostFits
<1>6. CallFits(c, logs, marked') /\ NewLog(c, sapCalls[p])
  BY <1>2, <1>3, <1>4, <1>5 DEF CallFits, NewLog, LogPC
<1>7. marked' \subseteq Entities
  BY DEF INInv, INTypeOK
<1> QED
  BY <1>2, <1>3, <1>6, <1>7, QuietCircuits, SameLogs

LEMMA GotoKeeps ==
    ASSUME INInv, NEW p \in SapProcs, sapCalls[p].pc # "idle",
           NEW x \in SapPC \ {"idle"}, Goto(p, x),
           UNCHANGED logs, status' \in [Entities -> EntityStatuses],
           marked \subseteq marked', marked' \subseteq Entities,
           CircuitStep(sap, sap'), CircuitStep(queue, queue'),
           x \in LogPC => sapCalls[p].pc \in LogPC,
           x \in EntryPC => sapCalls[p].entry # 0,
           sapCalls[p].pc \in QueuePC => x \in QueuePC,
           \A c : Follows(c, sapCalls[p], x) => PostFits(c, logs, marked')
    PROVE  INInv'
<1>1. PICK c \in SapCall : Moves(p, c) /\ Follows(c, sapCalls[p], x)
  BY GotoCall
<1>2. PlaceFits(sapCalls[p], logs)
  BY InFlight
<1>3. PlaceFits(c, logs)
  BY <1>1, <1>2 DEF PlaceFits, Follows
<1>4. PostFits(c, logs, marked')
  BY <1>1
<1>5. CallFits(c, logs, marked') /\ NewLog(c, sapCalls[p])
  BY <1>1, <1>3, <1>4 DEF CallFits, NewLog, Follows
<1> QED
  BY <1>1, <1>5, SameLogs

LEMMA StopKeeps ==
    ASSUME INInv, NEW p \in SapProcs, Stop(p), UNCHANGED <<status, marked, logs>>,
           CircuitStep(sap, sap'), CircuitStep(queue, queue')
    PROVE  INInv'
<1>1. status' \in [Entities -> EntityStatuses] /\ marked' \subseteq Entities
  BY DEF INInv, INTypeOK
<1> QED
  BY <1>1, StopCall, SameLogs

LEMMA StartsKeep ==
    ASSUME INInv, NEW p \in SapProcs,
           \/ \E e \in Entities : StartPush(p, e) \/ ApproveInvoice(p, e)
           \/ \E n \in DOMAIN logs : StartRetry(p, n)
           \/ StartProcessing(p)
    PROVE  INInv'
<1>0. status \in [Entities -> EntityStatuses] /\ logs \in Seq(LogRow)
  BY DEF INInv, INTypeOK
<1>1. ASSUME NEW e \in Entities, StartPush(p, e)
      PROVE  INInv'
  <2>1. Begin(p, "read", e, 0, {}) /\ UNCHANGED <<status, marked, logs, sap, queue>>
    BY <1>1 DEF StartPush
  <2> QED
    BY <1>0, <2>1, BeginKeeps
<1>2. ASSUME NEW e \in Entities, ApproveInvoice(p, e)
      PROVE  INInv'
  <2>1. Begin(p, "read", e, 0, {}) /\ UNCHANGED <<marked, logs, sap, queue>>
    BY <1>2 DEF ApproveInvoice
  <2>2. status' \in [Entities -> EntityStatuses]
    BY <1>0, <1>2 DEF ApproveInvoice, EntityStatuses
  <2> QED
    BY <2>1, <2>2, BeginKeeps
<1>3. ASSUME NEW n \in DOMAIN logs, StartRetry(p, n)
      PROVE  INInv'
  <2>1. Begin(p, "hold", logs[n].ent, n, {}) /\ UNCHANGED <<status, marked, logs, sap, queue>>
    BY <1>3 DEF StartRetry
  <2>2. logs[n] \in LogRow /\ n # 0
    BY <1>0
  <2>3. logs[n].ent \in Entities
    BY <2>2 DEF LogRow
  <2> QED
    BY <1>0, <2>1, <2>2, <2>3, BeginKeeps
<1>4. CASE StartProcessing(p)
  <2>1. PICK due \in SUBSET Timed \ {{}} : \E n \in due : Begin(p, "next", logs[n].ent, 0, due)
    BY <1>4 DEF StartProcessing
  <2>2. PICK n \in due : Begin(p, "next", logs[n].ent, 0, due)
    BY <2>1
  <2>3. due \in SUBSET DOMAIN logs /\ n \in DOMAIN logs
    BY DEF Timed
  <2>4. logs[n] \in LogRow
    BY <1>0, <2>3
  <2>5. logs[n].ent \in Entities
    BY <2>4 DEF LogRow
  <2>6. UNCHANGED <<status, marked, logs, sap, queue>>
    BY <1>4 DEF StartProcessing
  <2> QED
    BY <1>0, <2>2, <2>3, <2>5, <2>6, BeginKeeps
<1> QED
  BY <1>1, <1>2, <1>3, <1>4

LEMMA QuietStepsKeep ==
    ASSUME INInv, NEW p \in SapProcs,
           \/ ResponseOk(p) \/ NoResponse(p) \/ MarkEntity(p)
           \/ ConfirmFails(p) \/ PlanRetry(p) \/ StatementFails(p) \/ CallFails(p)
    PROVE  INInv'
<1> DEFINE d == sapCalls[p]
<1>0. /\ status \in [Entities -> EntityStatuses] /\ marked \subseteq Entities
      /\ d.pc # "idle" => d \in SapCall /\ PlaceFits(d, logs) /\ PostFits(d, logs, marked)
  BY InFlight DEF INInv, INTypeOK
<1>1. CASE ResponseOk(p)
  <2> DEFINE x == IF MarksEntity(d.ent) THEN "mark" ELSE "document"
  <2>1. /\ d.pc = "wait" /\ Goto(p, x) /\ logs[d.log].post = "taken"
        /\ UNCHANGED <<status, marked, logs, queue>> /\ sap' = Succeeded(sap)
    BY <1>1 DEF ResponseOk, At
  <2>2. \A c : Follows(c, d, x) => PostFits(c, logs, marked')
    BY <2>1 DEF Follows, PostFits
  <2>3. x \in SapPC \ {"idle"} /\ x \notin EntryPC /\ d.pc \in LogPC /\ d.pc \notin QueuePC
    BY <2>1 DEF SapPC, PushPC, EntryPC, LogPC, QueuePC
  <2>4. CircuitStep(sap, sap') /\ CircuitStep(queue, queue')
    BY <2>1 DEF CircuitStep
  <2> HIDE DEF x
  <2> QED
    BY <1>0, <2>1, <2>2, <2>3, <2>4, GotoKeeps
<1>2. CASE NoResponse(p)
  <2>1. /\ d.pc = "wait" /\ Goto(p, "fail")
        /\ UNCHANGED <<status, marked, logs, queue>> /\ sap' = Failed(sap)
    BY <1>2 DEF NoResponse, At
  <2>2. \A c : Follows(c, d, "fail") => PostFits(c, logs, marked')
    BY DEF Follows, PostFits
  <2>3. "fail" \in SapPC \ {"idle"} /\ "fail" \notin EntryPC /\ d.pc \in LogPC /\ d.pc \notin QueuePC
    BY <2>1 DEF SapPC, PushPC, EntryPC, LogPC, QueuePC
  <2>4. CircuitStep(sap, sap') /\ CircuitStep(queue, queue')
    BY <2>1 DEF CircuitStep
  <2> QED
    BY <1>0, <2>1, <2>2, <2>3, <2>4, GotoKeeps
<1>3. CASE MarkEntity(p)
  <2>1. /\ d.pc = "mark" /\ Goto(p, "document") /\ UNCHANGED <<logs, sap, queue>>
        /\ marked' = marked \cup {d.ent} /\ status' = [status EXCEPT ![d.ent] = "booked"]
    BY <1>3 DEF MarkEntity, At
  <2>2. \A c : Follows(c, d, "document") => PostFits(c, logs, marked')
    BY <1>0, <2>1 DEF Follows, PostFits
  <2>3. "document" \in SapPC \ {"idle"} /\ "document" \notin EntryPC /\ d.pc \in LogPC /\ d.pc \notin QueuePC
    BY <2>1 DEF SapPC, PushPC, EntryPC, LogPC, QueuePC
  <2>4. CircuitStep(sap, sap') /\ CircuitStep(queue, queue')
    BY <2>1 DEF CircuitStep
  <2>5. d.ent \in Entities
    BY <1>0, <2>1 DEF SapCall
  <2>6. /\ status' \in [Entities -> EntityStatuses]
        /\ marked \subseteq marked' /\ marked' \subseteq Entities
    BY <1>0, <2>1, <2>5 DEF EntityStatuses
  <2> QED
    BY <2>1, <2>2, <2>3, <2>4, <2>6, GotoKeeps
<1>4. CASE ConfirmFails(p)
  <2>1. /\ d.pc = "confirm" /\ Goto(p, "plan")
        /\ UNCHANGED <<status, marked, logs, sap>> /\ queue' = Failed(queue)
    BY <1>4 DEF ConfirmFails, At
  <2>2. \A c : Follows(c, d, "plan") => PostFits(c, logs, marked')
    BY DEF Follows, PostFits
  <2>3. /\ "plan" \in SapPC \ {"idle"} /\ "plan" \in QueuePC /\ "plan" \notin LogPC
        /\ d.pc \in EntryPC
    BY <2>1 DEF SapPC, EntryPC, LogPC, QueuePC
  <2>4. CircuitStep(sap, sap') /\ CircuitStep(queue, queue')
    BY <2>1 DEF CircuitStep
  <2>5. d.entry # 0
    BY <1>0, <2>1, <2>3 DEF PlaceFits
  <2> QED
    BY <1>0, <2>1, <2>2, <2>3, <2>4, <2>5, GotoKeeps
<1>5. CASE PlanRetry(p)
  <2> DEFINE x == IF logs[d.entry].retries >= MaxRetries THEN "bury" ELSE "delay"
  <2>1. d.pc = "plan" /\ Goto(p, x) /\ UNCHANGED <<status, marked, logs, sap, queue>>
    BY <1>5 DEF PlanRetry, At
  <2>2. \A c : Follows(c, d, x) => PostFits(c, logs, marked')
    BY DEF Follows, PostFits
  <2>3. x \in SapPC \ {"idle"} /\ x \in QueuePC /\ x \notin LogPC /\ d.pc \in EntryPC
    BY <2>1 DEF SapPC, EntryPC, LogPC, QueuePC
  <2>4. CircuitStep(sap, sap') /\ CircuitStep(queue, queue')
    BY <2>1 DEF CircuitStep
  <2>5. d.entry # 0
    BY <1>0, <2>1, <2>3 DEF PlaceFits
  <2> HIDE DEF x
  <2> QED
    BY <1>0, <2>1, <2>2, <2>3, <2>4, <2>5, GotoKeeps
<1>6. CASE StatementFails(p)
  <2>1. d.pc \in Tried /\ Goto(p, "fail") /\ UNCHANGED <<status, marked, logs, sap, queue>>
    BY <1>6 DEF StatementFails
  <2>2. \A c : Follows(c, d, "fail") => PostFits(c, logs, marked')
    BY DEF Follows, PostFits
  <2>3. /\ "fail" \in SapPC \ {"idle"} /\ "fail" \notin EntryPC
        /\ d.pc \in LogPC /\ d.pc \notin QueuePC /\ d.pc # "idle"
    BY <2>1 DEF SapPC, PushPC, EntryPC, LogPC, QueuePC, Tried
  <2>4. CircuitStep(sap, sap') /\ CircuitStep(queue, queue')
    BY <2>1 DEF CircuitStep
  <2> QED
    BY <1>0, <2>1, <2>2, <2>3, <2>4, GotoKeeps
<1>7. CASE CallFails(p)
  <2>1. Stop(p) /\ UNCHANGED <<status, marked, logs, sap, queue>>
    BY <1>7 DEF CallFails
  <2> QED
    BY <2>1, QuietCircuits, StopKeeps
<1> QED
  BY <1>1, <1>2, <1>3, <1>4, <1>5, <1>6, <1>7

-----------------------------------------------------------------------------
(* The steps that write a row.                                             *)

LEMMA RowGotoKeeps ==
    ASSUME INInv, NEW p \in SapProcs, sapCalls[p].pc # "idle",
           NEW x \in SapPC \ {"idle"}, Goto(p, x),
           NEW n \in DOMAIN logs, NEW r \in LogRow, logs' = [logs EXCEPT ![n] = r],
           RowGrows(logs[n], r),
           \/ sapCalls[p].pc \in LogPC /\ n = sapCalls[p].log
           \/ r.post = logs[n].post /\ r.document = logs[n].document,
           r.status = "success" => logs[n].status = "success",
           UNCHANGED <<status, marked>>,
           CircuitStep(sap, sap'), CircuitStep(queue, queue'),
           x \in LogPC => sapCalls[p].pc \in LogPC,
           x \in EntryPC => sapCalls[p].entry # 0,
           sapCalls[p].pc \in QueuePC => x \in QueuePC,
           \A c : Follows(c, sapCalls[p], x) /\ logs'[n] = r => PostFits(c, logs', marked)
    PROVE  INInv'
<1>0. logs \in Seq(LogRow)
  BY DEF INInv, INTypeOK
<1>1. /\ DOMAIN logs' = DOMAIN logs
      /\ logs'[n] = r
      /\ \A m \in DOMAIN logs : m # n => logs'[m] = logs[m]
  BY <1>0, RowUpdate
<1>2. PICK c \in SapCall : Moves(p, c) /\ Follows(c, sapCalls[p], x)
  BY GotoCall
<1>3. PlaceFits(sapCalls[p], logs)
  BY InFlight
<1>4. \A m \in DOMAIN logs : logs'[m].ent = logs[m].ent
  BY <1>1 DEF RowGrows
<1>5. PlaceFits(c, logs')
  BY <1>1, <1>2, <1>3, <1>4 DEF PlaceFits, Follows
<1>6. PostFits(c, logs', marked)
  BY <1>1, <1>2
<1>7. CallFits(c, logs', marked) /\ NewLog(c, sapCalls[p])
  BY <1>2, <1>5, <1>6 DEF CallFits, NewLog, Follows
<1> QED
  BY <1>2, <1>7, OneRow

LEMMA ReadEntityKeeps ==
    ASSUME INInv, NEW p \in SapProcs, ReadEntity(p)
    PROVE  INInv'
<1> DEFINE d == sapCalls[p]
<1>0. /\ d.pc = "read" /\ UNCHANGED <<status, marked, logs, sap, queue>>
      /\ Goto(p, "log") \/ Answer(p, FALSE)
  BY DEF ReadEntity, At
<1>1. /\ status \in [Entities -> EntityStatuses] /\ marked \subseteq Entities
  BY DEF INInv, INTypeOK
<1>2. CASE Goto(p, "log")
  <2>1. \A c : Follows(c, d, "log") => PostFits(c, logs, marked')
    BY DEF Follows, PostFits
  <2>2. /\ "log" \in SapPC \ {"idle"} /\ "log" \notin LogPC /\ "log" \notin EntryPC
        /\ d.pc \notin QueuePC /\ d.pc # "idle"
    BY <1>0 DEF SapPC, PushPC, EntryPC, LogPC, QueuePC
  <2> QED
    BY <1>0, <1>1, <1>2, <2>1, <2>2, QuietCircuits, GotoKeeps
<1>3. CASE Answer(p, FALSE)
  <2>1. PICK c \in SapCall \cup {IdleCall} :
            Moves(p, c) /\ CallFits(c, logs, marked) /\ NewLog(c, sapCalls[p])
    BY <1>0, <1>3, AnswerCall
  <2> QED
    BY <1>0, <1>1, <2>1, QuietCircuits, SameLogs
<1> QED
  BY <1>0, <1>2, <1>3

LEMMA CreateSyncLogKeeps ==
    ASSUME INInv, NEW p \in SapProcs, CreateSyncLog(p)
    PROVE  INInv'
<1> DEFINE d == sapCalls[p]
           k == Len(logs) + 1
           c == [d EXCEPT !.pc = "send", !.log = k]
           r == [ent |-> d.ent, status |-> "in_progress", retries |-> 0,
                 timed |-> FALSE, post |-> "none", document |-> "none"]
<1>0. d.pc = "log" /\ UNCHANGED <<status, marked, sap, queue>> /\ logs \in Seq(LogRow)
  BY DEF CreateSyncLog, At, INInv, INTypeOK
<1>1. d \in SapCall /\ PlaceFits(d, logs)
  BY <1>0, InFlight
<1>2. r \in LogRow
  BY <1>1 DEF SapCall, LogRow, LogStatuses
<1>3. logs' = Append(logs, r) /\ Moves(p, c)
  BY DEF CreateSyncLog, Moves
<1> HIDE DEF r
<1>4. /\ logs' \in Seq(LogRow)
      /\ Len(logs') = k
      /\ k \in Nat \ {0}
      /\ DOMAIN logs = 1..Len(logs)
      /\ DOMAIN logs' = 1..k
      /\ \A n \in DOMAIN logs : n \in DOMAIN logs' /\ logs'[n] = logs[n]
      /\ logs'[k] = r
  BY <1>0, <1>2, <1>3
<1>5. k \notin DOMAIN logs /\ k \in DOMAIN logs' /\ \A n \in DOMAIN logs' : n = k \/ n \in DOMAIN logs
  BY <1>4
<1>6. c \in SapCall
  BY <1>1, <1>4 DEF SapCall, SapPC, PushPC
<1>7. /\ c.pc = "send" /\ c.log = k
      /\ c.ent = d.ent /\ c.entry = d.entry /\ c.todo = d.todo
  BY <1>1 DEF SapCall
<1>8. r.ent = d.ent /\ r.post = "none" /\ r.status = "in_progress"
  BY DEF r
<1> HIDE DEF c, k
<1>9. PlaceFits(c, logs')
  <2>1. c.todo \subseteq DOMAIN logs'
    BY <1>1, <1>4, <1>7 DEF PlaceFits
  <2>2. c.entry # 0 => c.entry \in DOMAIN logs' /\ logs'[c.entry].ent = c.ent
    BY <1>0, <1>1, <1>4, <1>7 DEF PlaceFits, QueuePC
  <2> QED
    BY <2>1, <2>2, <1>4, <1>5, <1>7, <1>8 DEF PlaceFits, EntryPC
<1>10. PostFits(c, logs', marked')
  BY <1>4, <1>7, <1>8 DEF PostFits
<1>11. CallFits(c, logs', marked')
  BY <1>6, <1>7, <1>9, <1>10 DEF CallFits
<1>12. NewLog(c, d)
  BY <1>5, <1>7 DEF NewLog
<1>13. Grows(logs, logs', 0)
  BY <1>4 DEF Grows, Books
<1>14. RowsFit(logs', marked')
  <2>1. \A n \in DOMAIN logs' : logs'[n].status = "success" =>
            n \in DOMAIN logs /\ logs[n].status = "success"
    BY <1>4, <1>5, <1>8
  <2> QED
    BY <1>0, <1>13, <2>1, RowsStay DEF INInv
<1>15. INTypeOK'
  BY <1>0, <1>3, <1>4, <1>6, MovesType DEF INInv, INTypeOK
<1> QED
  BY <1>0, <1>3, <1>11, <1>12, <1>13, <1>14, <1>15, QuietCircuits, OneCall

LEMMA PostsKeep ==
    ASSUME INInv, NEW p \in SapProcs,
           SapRequest(p) \/ ResponseError(p) \/ RecordSAPDocument(p)
    PROVE  INInv'
<1> DEFINE d == sapCalls[p]
           n == d.log
<1>0. /\ status \in [Entities -> EntityStatuses] /\ marked \subseteq Entities
      /\ logs \in Seq(LogRow)
      /\ d.pc \in LogPC => d.pc # "idle" /\ d.pc \notin QueuePC
  BY DEF INInv, INTypeOK, LogPC, QueuePC
<1>1. d.pc \in LogPC
  BY DEF SapRequest, ResponseError, RecordSAPDocument, At, LogPC
<1>2. d \in SapCall /\ PlaceFits(d, logs) /\ PostFits(d, logs, marked)
  BY <1>0, <1>1, InFlight
<1>3. n \in DOMAIN logs
  BY <1>1, <1>2 DEF PlaceFits
<1>4. logs[n] \in LogRow
  BY <1>0, <1>3
<1>5. \A x \in {"wait", "fail", "refusal", "undo", "complete"} :
          x \in SapPC \ {"idle"} /\ x \in LogPC /\ x \notin EntryPC
  BY DEF SapPC, PushPC, LogPC, EntryPC
<1> DEFINE posted(v) == [logs[n] EXCEPT !.post = v]
           documented(v) == [logs[n] EXCEPT !.document = v]
<1>6. ASSUME NEW v \in {"none", "sent", "taken", "refused"}
      PROVE  /\ posted(v) \in LogRow
             /\ posted(v).ent = logs[n].ent /\ posted(v).status = logs[n].status
             /\ posted(v).post = v /\ posted(v).document = logs[n].document
  BY <1>4 DEF LogRow
<1>7. ASSUME NEW v \in {"none", "posted", "error"}
      PROVE  /\ documented(v) \in LogRow
             /\ documented(v).ent = logs[n].ent /\ documented(v).status = logs[n].status
             /\ documented(v).post = logs[n].post /\ documented(v).document = v
  BY <1>4 DEF LogRow
<1>8. /\ \A v : logs' = [logs EXCEPT ![n].post = v] => logs' = [logs EXCEPT ![n] = posted(v)]
      /\ \A v : logs' = [logs EXCEPT ![n].document = v] =>
            logs' = [logs EXCEPT ![n] = documented(v)]
  OBVIOUS
<1> HIDE DEF posted, documented
<1>9. CASE SapRequest(p) /\ Admits(sap)
  <2>1. /\ d.pc = "send" /\ sap' = Admitted(sap) /\ Goto(p, "wait")
        /\ logs' = [logs EXCEPT ![n].post = "sent"]
        /\ UNCHANGED <<status, marked, queue>>
    BY <1>9 DEF SapRequest, At
  <2>2. logs' = [logs EXCEPT ![n] = posted("sent")]
    BY <1>8, <2>1
  <2>3. logs[n].post = "none"
    BY <1>2, <2>1 DEF PostFits
  <2>4. RowGrows(logs[n], posted("sent"))
    BY <1>6, <2>3 DEF RowGrows
  <2>5. \A c : Follows(c, d, "wait") /\ logs'[n] = posted("sent") => PostFits(c, logs', marked)
    BY <1>6 DEF Follows, PostFits
  <2>6. CircuitStep(sap, sap') /\ CircuitStep(queue, queue')
    BY <1>9, <2>1 DEF CircuitStep
  <2>7. posted("sent") \in LogRow /\ posted("sent").status = logs[n].status
    BY <1>6
  <2> QED
    BY <1>0, <1>1, <1>3, <1>5, <2>1, <2>2, <2>4, <2>5, <2>6, <2>7, RowGotoKeeps
<1>10. CASE SapRequest(p) /\ ~Admits(sap)
  <2>1. /\ d.pc = "send" /\ Goto(p, "fail") /\ UNCHANGED <<status, marked, logs, sap, queue>>
    BY <1>10 DEF SapRequest, At
  <2>2. \A c : Follows(c, d, "fail") => PostFits(c, logs, marked')
    BY DEF Follows, PostFits
  <2> QED
    BY <1>0, <1>1, <1>5, <2>1, <2>2, QuietCircuits, GotoKeeps
<1>11. CASE ResponseError(p)
  <2> DEFINE x == IF RecordsRefusal(d.ent) THEN "refusal" ELSE "undo"
  <2>1. /\ d.pc = "wait" /\ sap' = Succeeded(sap) /\ Goto(p, x)
        /\ logs[n].post = "sent"
        /\ logs' = [logs EXCEPT ![n].post = "refused"]
        /\ UNCHANGED <<status, marked, queue>>
    BY <1>11 DEF ResponseError, At
  <2>2. logs' = [logs EXCEPT ![n] = posted("refused")]
    BY <1>8, <2>1
  <2>4. RowGrows(logs[n], posted("refused"))
    BY <1>6, <2>1 DEF RowGrows
  <2>5. \A c : Follows(c, d, x) /\ logs'[n] = posted("refused") => PostFits(c, logs', marked)
    BY <1>6 DEF Follows, PostFits
  <2>6. CircuitStep(sap, sap') /\ CircuitStep(queue, queue')
    BY <2>1 DEF CircuitStep
  <2>7. posted("refused") \in LogRow /\ posted("refused").status = logs[n].status
    BY <1>6
  <2>8. x \in {"refusal", "undo"}
    OBVIOUS
  <2> HIDE DEF x
  <2>9. x \in SapPC \ {"idle"} /\ x \in LogPC /\ x \notin EntryPC
    BY <1>5, <2>8
  <2> QED
    BY <1>0, <1>1, <1>3, <2>1, <2>2, <2>4, <2>5, <2>6, <2>7, <2>9, RowGotoKeeps
<1>12. CASE d.pc = "document" /\ RecordSAPDocument(p)
  <2>1. PICK x \in {"posted", "error"} :
          /\ logs' = [logs EXCEPT ![n].document = x] /\ Goto(p, "complete")
          /\ UNCHANGED <<status, marked, sap, queue>>
    BY <1>12 DEF RecordSAPDocument, At
  <2>2. logs' = [logs EXCEPT ![n] = documented(x)]
    BY <1>8, <2>1
  <2>3. logs[n].post = "taken" /\ (MarksEntity(d.ent) => d.ent \in marked)
    BY <1>2, <1>12 DEF PostFits
  <2>4. RowGrows(logs[n], documented(x))
    BY <1>7 DEF RowGrows
  <2>5. \A c : Follows(c, d, "complete") /\ logs'[n] = documented(x) =>
            PostFits(c, logs', marked)
    BY <1>7, <2>3 DEF Follows, PostFits
  <2>7. documented(x) \in LogRow /\ documented(x).status = logs[n].status
    BY <1>7
  <2> QED
    BY <1>0, <1>1, <1>3, <1>5, <2>1, <2>2, <2>4, <2>5, <2>7, QuietCircuits, RowGotoKeeps
<1>13. CASE d.pc = "refusal" /\ RecordSAPDocument(p)
  <2>1. /\ logs' = [logs EXCEPT ![n].document = "error"] /\ Goto(p, "undo")
        /\ UNCHANGED <<status, marked, sap, queue>>
    BY <1>13 DEF RecordSAPDocument, At
  <2>2. logs' = [logs EXCEPT ![n] = documented("error")]
    BY <1>8, <2>1
  <2>3. logs[n].post = "refused"
    BY <1>2, <1>13 DEF PostFits
  <2>4. RowGrows(logs[n], documented("error"))
    BY <1>7, <2>3 DEF RowGrows
  <2>5. \A c : Follows(c, d, "undo") /\ logs'[n] = documented("error") =>
            PostFits(c, logs', marked)
    BY <1>7, <2>3 DEF Follows, PostFits
  <2>7. documented("error") \in LogRow /\ documented("error").status = logs[n].status
    BY <1>7
  <2> QED
    BY <1>0, <1>1, <1>3, <1>5, <2>1, <2>2, <2>4, <2>5, <2>7, QuietCircuits, RowGotoKeeps
<1> QED
  BY <1>9, <1>10, <1>11, <1>12, <1>13 DEF RecordSAPDocument, At

\* A request that ends, or answers the retry it serves.
LEMMA CompleteSyncLogKeeps ==
    ASSUME INInv, NEW p \in SapProcs, CompleteSyncLog(p)
    PROVE  INInv'
<1> DEFINE d == sapCalls[p]
           n == d.log
           r == [logs[n] EXCEPT !.status = IF At(p, "complete") THEN "success" ELSE "failed"]
<1>0. /\ d.pc \in {"complete", "undo", "fail"}
      /\ UNCHANGED <<status, marked, sap, queue>>
      /\ logs \in Seq(LogRow)
  BY DEF CompleteSyncLog, INInv, INTypeOK
<1>1. d \in SapCall /\ PlaceFits(d, logs) /\ PostFits(d, logs, marked) /\ d.pc \in LogPC
  BY <1>0, InFlight DEF LogPC
<1>2. n \in DOMAIN logs /\ logs[n].ent = d.ent
  BY <1>1 DEF PlaceFits
<1>3. logs[n] \in LogRow
  BY <1>0, <1>2
<1>4. /\ r \in LogRow /\ r.ent = logs[n].ent /\ r.post = logs[n].post
      /\ r.document = logs[n].document
      /\ r.status = "success" => d.pc = "complete"
  BY <1>3 DEF LogRow, LogStatuses, At
<1>5. logs' = [logs EXCEPT ![n] = r] /\ Answer(p, At(p, "complete"))
  BY DEF CompleteSyncLog
<1> HIDE DEF r
<1>6. /\ DOMAIN logs' = DOMAIN logs
      /\ logs'[n] = r
      /\ \A m \in DOMAIN logs : m # n => logs'[m] = logs[m]
  BY <1>0, <1>2, <1>4, <1>5, RowUpdate
<1>7. d.pc = "complete" => Booked(d.ent, logs', marked)
  BY <1>1, <1>2, <1>4, <1>6 DEF PostFits, Booked, Books
<1>8. \A m \in DOMAIN logs : logs'[m].ent = logs[m].ent
  BY <1>4, <1>6
<1>9. At(p, "complete") => Booked(d.ent, logs', marked)
  BY <1>7 DEF At
<1>10. At(p, "complete") \in BOOLEAN
  BY DEF At
<1>11. PICK c \in SapCall \cup {IdleCall} :
          Moves(p, c) /\ CallFits(c, logs', marked) /\ NewLog(c, sapCalls[p])
  BY <1>1, <1>5, <1>6, <1>8, <1>9, <1>10, AnswerCall
<1>12. RowGrows(logs[n], r)
  BY <1>4 DEF RowGrows
<1> QED
  BY <1>0, <1>1, <1>2, <1>4, <1>5, <1>7, <1>11, <1>12, QuietCircuits, OneRow

\* The rows of retries and of the queue: their statuses and counts alone.
LEMMA RetryRows ==
    ASSUME NEW L \in Seq(LogRow), NEW n \in DOMAIN L, NEW s \in LogStatuses
    PROVE  /\ [L[n] EXCEPT !.status = s] \in LogRow
           /\ [L[n] EXCEPT !.status = s, !.retries = @ + 1] \in LogRow
           /\ [L[n] EXCEPT !.status = s, !.retries = @ + 1, !.timed = TRUE] \in LogRow
           /\ [L[n] EXCEPT !.status = s, !.retries = 0, !.timed = TRUE] \in LogRow
<1>1. L[n] \in LogRow
  OBVIOUS
<1>2. L[n].retries + 1 \in Nat
  BY <1>1 DEF LogRow
<1>3. [L[n] EXCEPT !.status = s] \in LogRow
  BY <1>1 DEF LogRow
<1>4. [L[n] EXCEPT !.status = s, !.retries = @ + 1] \in LogRow
  BY <1>1, <1>2 DEF LogRow
<1>5. [L[n] EXCEPT !.status = s, !.retries = @ + 1, !.timed = TRUE] \in LogRow
  BY <1>1, <1>2 DEF LogRow
<1>6. [L[n] EXCEPT !.status = s, !.retries = 0, !.timed = TRUE] \in LogRow
  BY <1>1 DEF LogRow
<1> QED
  BY <1>3, <1>4, <1>5, <1>6

Touches(r, s) == s.ent = r.ent /\ s.post = r.post /\ s.document = r.document

LEMMA TouchGrows == ASSUME NEW r, NEW s, Touches(r, s) PROVE RowGrows(r, s)
BY DEF Touches, RowGrows

LEMMA HoldTakeKeep ==
    ASSUME INInv, NEW p \in SapProcs, HoldEntry(p) \/ TakeEntry(p)
    PROVE  INInv'
<1> DEFINE d == sapCalls[p]
           n == d.entry
<1>0. logs \in Seq(LogRow)
  BY DEF INInv, INTypeOK
<1>1. d.pc \in {"hold", "take"}
  BY DEF HoldEntry, TakeEntry, At
<1>2. d \in SapCall /\ PlaceFits(d, logs)
  BY <1>1, InFlight
<1>3. n \in DOMAIN logs /\ n # 0
  BY <1>1, <1>2 DEF PlaceFits, EntryPC
<1>4. logs[n] \in LogRow
  BY <1>0, <1>3
<1>5. CASE HoldEntry(p)
  <2> DEFINE r == [logs[n] EXCEPT !.status = "retrying", !.retries = @ + 1]
  <2>1. /\ d.pc = "hold" /\ logs' = [logs EXCEPT ![n] = r] /\ Goto(p, "read")
        /\ UNCHANGED <<status, marked, sap, queue>>
    BY <1>5 DEF HoldEntry, At
  <2>2. r \in LogRow
    BY <1>0, <1>3, RetryRows DEF LogStatuses
  <2>3. Touches(logs[n], r) /\ r.status = "retrying"
    BY <1>4 DEF LogRow, Touches
  <2> HIDE DEF r
  <2>4. \A c : Follows(c, d, "read") => PostFits(c, logs', marked)
    BY DEF Follows, PostFits
  <2>5. /\ "read" \in SapPC \ {"idle"} /\ "read" \notin LogPC /\ "read" \notin EntryPC
        /\ d.pc \notin QueuePC /\ d.pc # "idle"
    BY <2>1 DEF SapPC, PushPC, LogPC, EntryPC, QueuePC
  <2>6. RowGrows(logs[n], r) /\ r.post = logs[n].post /\ r.document = logs[n].document
    BY <2>3, TouchGrows DEF Touches
  <2> QED
    BY <1>3, <2>1, <2>2, <2>3, <2>4, <2>5, <2>6, QuietCircuits, RowGotoKeeps
<1>6. CASE TakeEntry(p)
  <2> DEFINE r == [logs[n] EXCEPT !.status = "in_progress"]
  <2>1. /\ d.pc = "take" /\ logs' = [logs EXCEPT ![n] = r] /\ Goto(p, "confirm")
        /\ UNCHANGED <<status, marked, sap, queue>>
    BY <1>6 DEF TakeEntry, At
  <2>2. r \in LogRow
    BY <1>0, <1>3, RetryRows DEF LogStatuses
  <2>3. Touches(logs[n], r) /\ r.status = "in_progress"
    BY <1>4 DEF LogRow, Touches
  <2> HIDE DEF r
  <2>4. \A c : Follows(c, d, "confirm") => PostFits(c, logs', marked)
    BY DEF Follows, PostFits
  <2>5. /\ "confirm" \in SapPC \ {"idle"} /\ "confirm" \notin LogPC /\ "confirm" \in QueuePC
        /\ d.pc # "idle"
    BY <2>1 DEF SapPC, PushPC, LogPC, EntryPC, QueuePC
  <2>6. RowGrows(logs[n], r) /\ r.post = logs[n].post /\ r.document = logs[n].document
    BY <2>3, TouchGrows DEF Touches
  <2> QED
    BY <1>3, <2>1, <2>2, <2>3, <2>4, <2>5, <2>6, QuietCircuits, RowGotoKeeps
<1> QED
  BY <1>5, <1>6

LEMMA SettleEntryKeeps ==
    ASSUME INInv, NEW p \in SapProcs, SettleEntry(p)
    PROVE  INInv'
<1> DEFINE d == sapCalls[p]
           n == d.entry
           r == [logs[n] EXCEPT !.status = IF d.ok THEN "success" ELSE "failed"]
<1>0. /\ d.pc = "settle" /\ logs' = [logs EXCEPT ![n] = r] /\ Stop(p)
      /\ UNCHANGED <<status, marked, sap, queue>> /\ logs \in Seq(LogRow)
  BY DEF SettleEntry, At, INInv, INTypeOK
<1>1. d \in SapCall /\ PlaceFits(d, logs) /\ PostFits(d, logs, marked)
  BY <1>0, InFlight
<1>2. n \in DOMAIN logs /\ logs[n].ent = d.ent
  BY <1>0, <1>1 DEF PlaceFits, EntryPC, QueuePC
<1>3. r \in LogRow
  BY <1>0, <1>2, RetryRows DEF LogStatuses
<1>4. logs[n] \in LogRow
  BY <1>0, <1>2
<1>5. Touches(logs[n], r) /\ (r.status = "success" => d.ok)
  BY <1>4 DEF LogRow, Touches
<1> HIDE DEF r
<1>6. /\ DOMAIN logs' = DOMAIN logs
      /\ logs'[n] = r
      /\ \A m \in DOMAIN logs : m # n => logs'[m] = logs[m]
  BY <1>0, <1>2, <1>3, RowUpdate
<1>7. Grows(logs, logs', 0)
  BY <1>5, <1>6 DEF Grows, Touches, Books
<1>8. r.status = "success" => Booked(r.ent, logs', marked)
  <2>1. r.status = "success" => Booked(d.ent, logs, marked)
    BY <1>0, <1>1, <1>5 DEF PostFits
  <2> QED
    BY <1>2, <1>5, <1>7, <2>1, BookedStays DEF Touches
<1>9. RowGrows(logs[n], r) /\ r.post = logs[n].post /\ r.document = logs[n].document
  BY <1>5, TouchGrows DEF Touches
<1> QED
  BY <1>0, <1>2, <1>3, <1>8, <1>9, StopCall, QuietCircuits, OneRow

LEMMA GoOnCall ==
    ASSUME INInv, NEW p \in SapProcs, sapCalls[p].pc \in QueuePC, GoOn(p),
           NEW K, DOMAIN K = DOMAIN logs
    PROVE  \E c \in SapCall : Moves(p, c) /\ CallFits(c, K, marked) /\ NewLog(c, sapCalls[p])
<1> DEFINE d == sapCalls[p]
           c == [d EXCEPT !.pc = "next", !.entry = 0]
<1>1. d \in SapCall /\ PlaceFits(d, logs)
  BY InFlight DEF QueuePC
<1>2. c \in SapCall
  BY <1>1 DEF SapCall, SapPC, QueuePC
<1>3. c.pc = "next" /\ c.entry = 0 /\ c.todo = d.todo
  BY <1>1 DEF SapCall
<1>4. Moves(p, c)
  BY DEF GoOn, Moves
<1> HIDE DEF c
<1>5. PlaceFits(c, K) /\ PostFits(c, K, marked)
  BY <1>1, <1>3 DEF PlaceFits, PostFits, LogPC, EntryPC
<1> QED
  BY <1>2, <1>3, <1>4, <1>5 DEF CallFits, NewLog, LogPC

LEMMA NextEntryKeeps ==
    ASSUME INInv, NEW p \in SapProcs, NextEntry(p)
    PROVE  INInv'
<1> DEFINE d == sapCalls[p]
<1>0. /\ d.pc = "next" /\ UNCHANGED <<status, marked, logs, sap>>
      /\ status' \in [Entities -> EntityStatuses] /\ marked' \subseteq Entities
      /\ logs \in Seq(LogRow)
  BY DEF NextEntry, At, INInv, INTypeOK
<1>1. d \in SapCall /\ PlaceFits(d, logs)
  BY <1>0, InFlight
<1>2. CASE d.todo = {} /\ Stop(p) /\ UNCHANGED queue
  BY <1>0, <1>2, QuietCircuits, StopKeeps
<1>3. ASSUME NEW n \in d.todo, Admits(queue), queue' = Admitted(queue),
             Moves(p, [d EXCEPT !.pc = "take", !.entry = n, !.todo = @ \ {n}])
      PROVE  INInv'
  <2> DEFINE c == [d EXCEPT !.pc = "take", !.entry = n, !.todo = @ \ {n}]
  <2>1. n \in DOMAIN logs /\ n \in Nat /\ n # 0
    BY <1>0, <1>1 DEF PlaceFits
  <2>2. d.todo \ {n} \in SUBSET Nat
    BY <1>1 DEF SapCall
  <2>3. c \in SapCall
    BY <1>1, <2>1, <2>2 DEF SapCall, SapPC, QueuePC
  <2>4. c.pc = "take" /\ c.entry = n /\ c.todo = d.todo \ {n} /\ Moves(p, c)
    BY <1>1, <1>3 DEF SapCall
  <2> HIDE DEF c
  <2>5. PlaceFits(c, logs) /\ PostFits(c, logs, marked')
    BY <1>1, <2>1, <2>4 DEF PlaceFits, PostFits, LogPC, QueuePC
  <2>6. CallFits(c, logs, marked') /\ NewLog(c, d)
    BY <2>3, <2>4, <2>5 DEF CallFits, NewLog, LogPC
  <2>7. CircuitStep(queue, queue') /\ CircuitStep(sap, sap')
    BY <1>0, <1>3 DEF CircuitStep
  <2> QED
    BY <1>0, <2>3, <2>4, <2>6, <2>7, SameLogs
<1>4. ASSUME NEW n \in d.todo, UNCHANGED queue, Moves(p, [d EXCEPT !.todo = @ \ {n}])
      PROVE  INInv'
  <2> DEFINE c == [d EXCEPT !.todo = @ \ {n}]
  <2>1. d.todo \ {n} \in SUBSET Nat
    BY <1>1 DEF SapCall
  <2>2. c \in SapCall
    BY <1>1, <2>1 DEF SapCall
  <2>3. /\ c.pc = "next" /\ c.entry = d.entry /\ c.todo = d.todo \ {n} /\ c.ent = d.ent
        /\ Moves(p, c)
    BY <1>0, <1>1, <1>4 DEF SapCall
  <2> HIDE DEF c
  <2>4. PlaceFits(c, logs) /\ PostFits(c, logs, marked')
    BY <1>0, <1>1, <2>3 DEF PlaceFits, PostFits, LogPC, EntryPC
  <2>5. CallFits(c, logs, marked') /\ NewLog(c, d)
    BY <2>2, <2>3, <2>4 DEF CallFits, NewLog, LogPC
  <2> QED
    BY <1>0, <1>4, <2>2, <2>3, <2>5, QuietCircuits, SameLogs
<1> QED
  BY <1>2, <1>3, <1>4 DEF NextEntry, Moves

LEMMA ClosesKeep ==
    ASSUME INInv, NEW p \in SapProcs, ConfirmEntry(p) \/ ScheduleRetry(p)
    PROVE  INInv'
<1> DEFINE d == sapCalls[p]
           n == d.entry
<1>0. logs \in Seq(LogRow) /\ UNCHANGED <<status, marked, sap>> /\ GoOn(p)
  BY DEF INInv, INTypeOK, ConfirmEntry, ScheduleRetry
<1>1. d.pc \in {"confirm", "bury", "delay"}
  BY DEF ConfirmEntry, ScheduleRetry, At
<1>2. d \in SapCall /\ PlaceFits(d, logs) /\ d.pc \in QueuePC
  BY <1>1, InFlight DEF QueuePC
<1>3. n \in DOMAIN logs
  BY <1>1, <1>2 DEF PlaceFits, EntryPC
<1>4. logs[n] \in LogRow
  BY <1>0, <1>3
<1>5. CircuitStep(sap, sap') /\ CircuitStep(queue, queue')
  BY <1>0 DEF CircuitStep, ConfirmEntry, ScheduleRetry
<1>6. ASSUME NEW r \in LogRow, logs' = [logs EXCEPT ![n] = r], Touches(logs[n], r),
             r.status # "success"
      PROVE  INInv'
  <2>1. DOMAIN logs' = DOMAIN logs
    BY <1>0, <1>3, <1>6, RowUpdate
  <2>2. PICK c \in SapCall : Moves(p, c) /\ CallFits(c, logs', marked) /\ NewLog(c, d)
    BY <1>0, <1>2, <2>1, GoOnCall
  <2>3. RowGrows(logs[n], r) /\ r.post = logs[n].post /\ r.document = logs[n].document
    BY <1>6, TouchGrows DEF Touches
  <2> QED
    BY <1>0, <1>3, <1>5, <1>6, <2>2, <2>3, OneRow
<1>7. CASE logs' = [logs EXCEPT ![n].status = "queue_success"]
  <2> DEFINE r == [logs[n] EXCEPT !.status = "queue_success"]
  <2>1. r \in LogRow
    BY <1>0, <1>3, RetryRows DEF LogStatuses
  <2>2. Touches(logs[n], r) /\ r.status # "success"
    BY <1>4 DEF LogRow, Touches
  <2>3. logs' = [logs EXCEPT ![n] = r]
    BY <1>7
  <2> QED
    BY <1>6, <2>1, <2>2, <2>3
<1>8. CASE logs' = [logs EXCEPT ![n].status = "failed"]
  <2> DEFINE r == [logs[n] EXCEPT !.status = "failed"]
  <2>1. r \in LogRow
    BY <1>0, <1>3, RetryRows DEF LogStatuses
  <2>2. Touches(logs[n], r) /\ r.status # "success"
    BY <1>4 DEF LogRow, Touches
  <2>3. logs' = [logs EXCEPT ![n] = r]
    BY <1>8
  <2> QED
    BY <1>6, <2>1, <2>2, <2>3
<1>9. CASE logs' = [logs EXCEPT ![n].status = "retrying", ![n].retries = @ + 1, ![n].timed = TRUE]
  <2> DEFINE r == [logs[n] EXCEPT !.status = "retrying", !.retries = @ + 1, !.timed = TRUE]
  <2>1. r \in LogRow
    BY <1>0, <1>3, RetryRows DEF LogStatuses
  <2>2. Touches(logs[n], r) /\ r.status # "success"
    BY <1>4 DEF LogRow, Touches
  <2>3. logs' = [logs EXCEPT ![n] = r]
    BY <1>9
  <2> QED
    BY <1>6, <2>1, <2>2, <2>3
<1> QED
  BY <1>7, <1>8, <1>9 DEF ConfirmEntry, ScheduleRetry

-----------------------------------------------------------------------------
(* The steps of no request.                                                *)

LEMMA NoRow ==
    ASSUME INInv, UNCHANGED <<marked, sapCalls, logs>>, status' \in [Entities -> EntityStatuses],
           CircuitStep(sap, sap'), CircuitStep(queue, queue')
    PROVE  INInv'
<1>1. INTypeOK'
  BY CircuitKeeps, CircuitType DEF INInv, INTypeOK
<1>2. Grows(logs, logs', 0)
  BY DEF Grows, Books
<1> QED
  BY <1>1, <1>2, NoCall

LEMMA OutsideKeeps ==
    ASSUME INInv,
           \/ \E e \in Entities : RejectInvoice(e)
           \/ \E n \in DOMAIN logs : SapAccepts(n)
           \/ \E S \in SUBSET DOMAIN logs : ResetDeadLetters(S)
           \/ CooldownElapses
           \/ INCrash
    PROVE  INInv'
<1>0. status \in [Entities -> EntityStatuses] /\ logs \in Seq(LogRow)
  BY DEF INInv, INTypeOK
<1>1. ASSUME NEW e \in Entities, RejectInvoice(e)
      PROVE  INInv'
  <2>1. status' \in [Entities -> EntityStatuses] /\ UNCHANGED <<marked, sapCalls, logs, sap, queue>>
    BY <1>0, <1>1 DEF RejectInvoice, EntityStatuses
  <2> QED
    BY <2>1, QuietCircuits, NoRow
<1>2. ASSUME NEW n \in DOMAIN logs, SapAccepts(n)
      PROVE  INInv'
  <2> DEFINE r == [logs[n] EXCEPT !.post = "taken"]
  <2>0. logs[n] \in LogRow
    BY <1>0
  <2>1. r \in LogRow
    BY <2>0 DEF LogRow
  <2>2. r.ent = logs[n].ent /\ r.document = logs[n].document /\ r.status = logs[n].status
        /\ r.post = "taken"
    BY <2>0 DEF LogRow
  <2>3. /\ logs' = [logs EXCEPT ![n] = r] /\ logs[n].post = "sent"
        /\ UNCHANGED <<status, marked, sap, queue, sapCalls>>
    BY <1>2 DEF SapAccepts
  <2> HIDE DEF r
  <2>4. /\ logs' \in Seq(LogRow)
        /\ DOMAIN logs' = DOMAIN logs
        /\ logs'[n] = r
        /\ \A m \in DOMAIN logs : m # n => logs'[m] = logs[m]
    BY <1>0, <2>1, <2>3, RowUpdate
  <2>5. Grows(logs, logs', 0)
    BY <2>2, <2>3, <2>4 DEF Grows, Books
  <2>6. INTypeOK'
    BY <2>3, <2>4 DEF INInv, INTypeOK
  <2> QED
    BY <2>2, <2>3, <2>4, <2>5, <2>6, QuietCircuits, NoCall
<1>3. ASSUME NEW S \in SUBSET DOMAIN logs, ResetDeadLetters(S)
      PROVE  INInv'
  <2> DEFINE r(n) == [logs[n] EXCEPT !.status = "retrying", !.retries = 0, !.timed = TRUE]
             row(n) == IF n \in S THEN r(n) ELSE logs[n]
  <2>1. logs' = [n \in DOMAIN logs |-> row(n)] /\ UNCHANGED <<status, marked, sap, queue, sapCalls>>
    BY <1>3 DEF ResetDeadLetters
  <2>2. ASSUME NEW n \in DOMAIN logs
        PROVE  row(n) \in LogRow /\ Touches(logs[n], row(n))
               /\ (row(n).status = "success" => logs[n].status = "success")
    <3>0. logs[n] \in LogRow
      BY <1>0
    <3>1. r(n) \in LogRow
      BY <1>0, RetryRows DEF LogStatuses
    <3>2. Touches(logs[n], r(n)) /\ r(n).status = "retrying"
      BY <3>0 DEF LogRow, Touches
    <3> QED
      BY <3>0, <3>1, <3>2 DEF Touches
  <2> HIDE DEF row
  <2>3. DOMAIN logs' = DOMAIN logs /\ \A n \in DOMAIN logs : logs'[n] = row(n)
    BY <2>1
  <2>4. DOMAIN logs = 1..Len(logs) /\ Len(logs) \in Nat
    BY <1>0
  <2>5. logs' \in Seq(LogRow)
    <3>1. logs' \in [1..Len(logs) -> LogRow]
      BY <2>1, <2>2, <2>4
    <3> QED
      BY <2>4, <3>1, SeqDef
  <2>6. INTypeOK'
    BY <2>1, <2>5 DEF INInv, INTypeOK
  <2>7. Grows(logs, logs', 0)
    BY <2>2, <2>3 DEF Grows, Touches, Books
  <2>8. \A n \in DOMAIN logs' : n \in DOMAIN logs /\
            (logs'[n].status = "success" => logs[n].status = "success")
    BY <2>2, <2>3
  <2> QED
    BY <2>1, <2>6, <2>7, <2>8, QuietCircuits, NoCall
<1>4. CASE CooldownElapses
  <2>1. /\ UNCHANGED <<status, marked, logs, sapCalls>>
        /\ CircuitStep(sap, sap') /\ CircuitStep(queue, queue')
    BY <1>4 DEF CooldownElapses, CircuitStep
  <2> QED
    BY <1>0, <2>1, NoRow
<1>5. CASE INCrash
  <2>1. /\ sap' = NewCircuit /\ queue' = NewCircuit
        /\ sapCalls' = [p \in SapProcs |-> IdleCall]
        /\ UNCHANGED <<status, marked, logs>>
    BY <1>5 DEF INCrash
  <2>2. CircuitFits(sap') /\ CircuitFits(queue')
    BY <2>1, NewCircuitFits
  <2>3. INTypeOK'
    BY <2>1, <2>2, CircuitType DEF INInv, INTypeOK
  <2>4. \A p \in SapProcs : CallFits(sapCalls'[p], logs', marked')
    BY <2>1 DEF CallFits
  <2>5. OwnLogs(sapCalls')
    BY <2>1 DEF OwnLogs, IdleCall, LogPC
  <2>6. RowsFit(logs', marked')
    BY <2>1 DEF INInv
  <2> QED
    BY <2>2, <2>3, <2>4, <2>5, <2>6 DEF INInv
<1> QED
  BY <1>1, <1>2, <1>3, <1>4, <1>5

-----------------------------------------------------------------------------
(* The invariant, and what follows from it.                                *)

LEMMA INInvInit == ASSUME INInit PROVE INInv
<1>1. /\ status \in [Entities -> {"pending", "approved"}] /\ marked = {} /\ logs = <<>>
      /\ sap = NewCircuit /\ queue = NewCircuit
      /\ sapCalls = [p \in SapProcs |-> IdleCall]
  BY DEF INInit
<1>2. CircuitFits(sap) /\ CircuitFits(queue)
  BY <1>1, NewCircuitFits
<1>3. INTypeOK
  BY <1>1, <1>2, CircuitType DEF INTypeOK, EntityStatuses
<1>4. \A p \in SapProcs : CallFits(sapCalls[p], logs, marked)
  BY <1>1 DEF CallFits
<1>5. OwnLogs(sapCalls)
  BY <1>1 DEF OwnLogs, IdleCall, LogPC
<1>6. RowsFit(logs, marked)
  BY <1>1 DEF RowsFit
<1> QED
  BY <1>2, <1>3, <1>4, <1>5, <1>6 DEF INInv

LEMMA INInvStep == ASSUME INInv, INNext PROVE INInv'
<1>1. ASSUME NEW p \in SapProcs, SapCallStep(p) \/ ConfirmFails(p) \/ StatementFails(p) \/ CallFails(p)
      PROVE  INInv'
  <2>1. CASE PushStep(p)
    BY <2>1, QuietStepsKeep, ReadEntityKeeps, CreateSyncLogKeeps, PostsKeep, CompleteSyncLogKeeps
       DEF PushStep
  <2>2. CASE RetryStep(p)
    BY <2>2, QuietStepsKeep, HoldTakeKeep, SettleEntryKeeps, NextEntryKeeps, ClosesKeep
       DEF RetryStep
  <2>3. CASE ConfirmFails(p) \/ StatementFails(p) \/ CallFails(p)
    BY <2>3, QuietStepsKeep
  <2> QED
    BY <1>1, <2>1, <2>2, <2>3 DEF SapCallStep
<1>2. ASSUME NEW p \in Pushers,
             \/ \E e \in Entities : StartPush(p, e) \/ ApproveInvoice(p, e)
             \/ \E n \in DOMAIN logs : StartRetry(p, n)
      PROVE  INInv'
  BY <1>2, StartsKeep DEF SapProcs
<1>3. ASSUME NEW p \in Queuers, StartProcessing(p)
      PROVE  INInv'
  BY <1>3, StartsKeep DEF SapProcs
<1> QED
  BY <1>1, <1>2, <1>3, OutsideKeeps DEF INNext

LEMMA INInvStutters == ASSUME INInv, UNCHANGED sapVars PROVE INInv'
<1>1. UNCHANGED <<marked, sapCalls, logs, status, sap, queue>>
  BY DEF sapVars
<1> QED
  BY <1>1, QuietCircuits, NoRow DEF INInv, INTypeOK

LEMMA INInvariant == INSpec => []INInv
<1>1. INInv /\ [INNext]_sapVars => INInv'
  BY INInvStep, INInvStutters
<1> QED
  BY INInvInit, <1>1, PTL DEF INSpec

(***************************************************************************)
(* Type correctness: the log, both circuits and every request keep their   *)
(* shapes, whatever is pushed, retried, refused or interrupted.            *)
(***************************************************************************)
THEOREM INTypeCorrect == INSpec => []INTypeOK
<1>1. INInv => INTypeOK
  BY DEF INInv
<1> QED
  BY <1>1, INInvariant, PTL

(***************************************************************************)
(* What the log calls a success is one: SAP took a post of the entity, a   *)
(* row of sap_documents was written for that post, with or without a       *)
(* number, and the entity is marked, whatever statements fail and whenever *)
(* the process crashes between the three tables.                           *)
(***************************************************************************)
THEOREM SuccessIsBookedHolds == INSpec => []SuccessIsBooked
<1>1. INInv => SuccessIsBooked
  BY DEF INInv, RowsFit, Booked, Books, SuccessIsBooked, BookedBy
<1> QED
  BY <1>1, INInvariant, PTL

-----------------------------------------------------------------------------
(* The breakers implement Breaker: which requests are inside after a step. *)

Lands(p, x) ==
    /\ sapCalls'[p].pc = x
    /\ \A q \in SapProcs : q # p => sapCalls'[q] = sapCalls[q]

LEMMA Landings ==
    ASSUME INInv, NEW p \in SapProcs
    PROVE  /\ \A x : Goto(p, x) => Lands(p, x)
           /\ \A x, e, n, todo : Begin(p, x, e, n, todo) => Lands(p, x)
           /\ \A ok : Answer(p, ok) => Lands(p, "idle") \/ Lands(p, "settle")
           /\ Stop(p) => Lands(p, "idle")
           /\ GoOn(p) => Lands(p, "next")
<1>0. sapCalls \in Calls /\ sapCalls[p] \in SapCall \cup {IdleCall}
  BY DEF INInv, INTypeOK, Calls
<1>1. \A x : [sapCalls[p] EXCEPT !.pc = x].pc = x
  BY <1>0 DEF SapCall, IdleCall
<1>2. ASSUME NEW x, Goto(p, x) PROVE Lands(p, x)
  BY <1>0, <1>1, <1>2 DEF Goto, Lands, Calls
<1>3. ASSUME NEW x, NEW e, NEW n, NEW todo, Begin(p, x, e, n, todo) PROVE Lands(p, x)
  BY <1>0, <1>3 DEF Begin, Lands, Calls
<1>4. Stop(p) => Lands(p, "idle")
  BY <1>0 DEF Stop, Lands, Calls, IdleCall
<1>5. ASSUME NEW ok, Answer(p, ok) PROVE Lands(p, "idle") \/ Lands(p, "settle")
  <2>1. [sapCalls[p] EXCEPT !.pc = "settle", !.ok = ok].pc = "settle"
    BY <1>0 DEF SapCall, IdleCall
  <2> QED
    BY <1>0, <1>4, <1>5, <2>1 DEF Answer, Lands, Calls
<1>6. GoOn(p) => Lands(p, "next")
  <2>1. [sapCalls[p] EXCEPT !.pc = "next", !.entry = 0].pc = "next"
    BY <1>0 DEF SapCall, IdleCall
  <2> QED
    BY <1>0, <2>1 DEF GoOn, Lands, Calls
<1> QED
  BY <1>2, <1>3, <1>4, <1>5, <1>6

Outside == SapPC \ {"wait", "take", "confirm"}

\* The steps that no breaker sees.
LEMMA PlainSteps ==
    ASSUME INInv, NEW p \in SapProcs,
           \/ ReadEntity(p) \/ CreateSyncLog(p) \/ MarkEntity(p) \/ RecordSAPDocument(p)
           \/ CompleteSyncLog(p) \/ HoldEntry(p) \/ SettleEntry(p) \/ PlanRetry(p)
           \/ ScheduleRetry(p) \/ StatementFails(p)
           \/ \E e \in Entities : StartPush(p, e) \/ ApproveInvoice(p, e)
           \/ \E n \in DOMAIN logs : StartRetry(p, n)
           \/ StartProcessing(p)
    PROVE  /\ sapCalls[p].pc \in Outside
           /\ \E x \in Outside : Lands(p, x)
           /\ UNCHANGED <<sap, queue>>
<1>0. {"idle", "hold", "settle", "read", "log", "send", "mark", "document", "refusal",
       "complete", "undo", "fail", "next", "plan", "delay", "bury"} \subseteq Outside
  BY DEF Outside, SapPC, PushPC, QueuePC
<1>1. CASE ReadEntity(p)
  <2>1. sapCalls[p].pc = "read" /\ (Goto(p, "log") \/ Answer(p, FALSE)) /\ UNCHANGED <<sap, queue>>
    BY <1>1 DEF ReadEntity, At
  <2> QED
    BY <1>0, <2>1, Landings
<1>2. CASE CreateSyncLog(p)
  <2>0. sapCalls \in Calls /\ sapCalls[p] \in SapCall \cup {IdleCall}
    BY DEF INInv, INTypeOK, Calls
  <2>1. [sapCalls[p] EXCEPT !.pc = "send", !.log = Len(logs) + 1].pc = "send"
    BY <2>0 DEF SapCall, IdleCall
  <2>2. /\ sapCalls[p].pc = "log" /\ UNCHANGED <<sap, queue>>
        /\ sapCalls' = [sapCalls EXCEPT ![p] =
               [sapCalls[p] EXCEPT !.pc = "send", !.log = Len(logs) + 1]]
    BY <1>2 DEF CreateSyncLog, At
  <2>3. Lands(p, "send")
    BY <2>0, <2>1, <2>2 DEF Lands, Calls
  <2> QED
    BY <1>0, <2>2, <2>3
<1>3. CASE MarkEntity(p)
  <2>1. sapCalls[p].pc = "mark" /\ Goto(p, "document") /\ UNCHANGED <<sap, queue>>
    BY <1>3 DEF MarkEntity, At
  <2> QED
    BY <1>0, <2>1, Landings
<1>4. CASE RecordSAPDocument(p)
  <2>1. /\ sapCalls[p].pc \in {"document", "refusal"}
        /\ Goto(p, "complete") \/ Goto(p, "undo")
        /\ UNCHANGED <<sap, queue>>
    BY <1>4 DEF RecordSAPDocument, At
  <2> QED
    BY <1>0, <2>1, Landings
<1>5. CASE CompleteSyncLog(p)
  <2>1. /\ sapCalls[p].pc \in {"complete", "undo", "fail"}
        /\ Answer(p, At(p, "complete"))
        /\ UNCHANGED <<sap, queue>>
    BY <1>5 DEF CompleteSyncLog
  <2> QED
    BY <1>0, <2>1, Landings
<1>6. CASE HoldEntry(p)
  <2>1. sapCalls[p].pc = "hold" /\ Goto(p, "read") /\ UNCHANGED <<sap, queue>>
    BY <1>6 DEF HoldEntry, At
  <2> QED
    BY <1>0, <2>1, Landings
<1>7. CASE SettleEntry(p)
  <2>1. sapCalls[p].pc = "settle" /\ Stop(p) /\ UNCHANGED <<sap, queue>>
    BY <1>7 DEF SettleEntry, At
  <2> QED
    BY <1>0, <2>1, Landings
<1>8. CASE PlanRetry(p)
  <2>1. /\ sapCalls[p].pc = "plan" /\ (Goto(p, "bury") \/ Goto(p, "delay"))
        /\ UNCHANGED <<sap, queue>>
    BY <1>8 DEF PlanRetry, At
  <2> QED
    BY <1>0, <2>1, Landings
<1>9. CASE ScheduleRetry(p)
  <2>1. sapCalls[p].pc \in {"bury", "delay"} /\ GoOn(p) /\ UNCHANGED <<sap, queue>>
    BY <1>9 DEF ScheduleRetry, At
  <2> QED
    BY <1>0, <2>1, Landings
<1>10. CASE StatementFails(p)
  <2>1. sapCalls[p].pc \in Tried /\ Goto(p, "fail") /\ UNCHANGED <<sap, queue>>
    BY <1>10 DEF StatementFails
  <2> QED
    BY <1>0, <2>1, Landings DEF Tried
<1>11. ASSUME NEW e \in Entities, StartPush(p, e) \/ ApproveInvoice(p, e)
       PROVE  sapCalls[p].pc = "idle" /\ Lands(p, "read") /\ UNCHANGED <<sap, queue>>
  <2>1. Begin(p, "read", e, 0, {}) /\ UNCHANGED <<sap, queue>>
    BY <1>11 DEF StartPush, ApproveInvoice
  <2> QED
    BY <2>1, Landings DEF Begin, At
<1>12. ASSUME NEW n \in DOMAIN logs, StartRetry(p, n)
       PROVE  sapCalls[p].pc = "idle" /\ Lands(p, "hold") /\ UNCHANGED <<sap, queue>>
  <2>1. Begin(p, "hold", logs[n].ent, n, {}) /\ UNCHANGED <<sap, queue>>
    BY <1>12 DEF StartRetry
  <2> QED
    BY <2>1, Landings DEF Begin, At
<1>13. ASSUME StartProcessing(p)
       PROVE  sapCalls[p].pc = "idle" /\ Lands(p, "next") /\ UNCHANGED <<sap, queue>>
  <2>1. PICK due \in SUBSET Timed \ {{}} : \E n \in due : Begin(p, "next", logs[n].ent, 0, due)
    BY <1>13 DEF StartProcessing
  <2>2. PICK n \in due : Begin(p, "next", logs[n].ent, 0, due)
    BY <2>1
  <2>3. UNCHANGED <<sap, queue>>
    BY <1>13 DEF StartProcessing
  <2> QED
    BY <2>2, <2>3, Landings DEF Begin, At
<1>14. CASE \E e \in Entities : StartPush(p, e) \/ ApproveInvoice(p, e)
  BY <1>0, <1>11, <1>14
<1>15. CASE \E n \in DOMAIN logs : StartRetry(p, n)
  BY <1>0, <1>12, <1>15
<1>16. CASE StartProcessing(p)
  BY <1>0, <1>13, <1>16
<1> QED
  BY <1>1, <1>2, <1>3, <1>4, <1>5, <1>6, <1>7, <1>8, <1>9, <1>10, <1>14, <1>15, <1>16

LEMMA CallersMove ==
    ASSUME NEW p \in SapProcs, NEW x, Lands(p, x)
    PROVE  /\ InSap' = IF x = "wait" THEN InSap \cup {p} ELSE InSap \ {p}
           /\ InQueue' = IF x \in {"take", "confirm"} THEN InQueue \cup {p} ELSE InQueue \ {p}
           /\ p \in InSap <=> sapCalls[p].pc = "wait"
           /\ p \in InQueue <=> sapCalls[p].pc \in {"take", "confirm"}
BY DEF Lands, InSap, InQueue, At

\* What the two circuits count, in the terms of Breaker.
LEMMA CircuitFacts ==
    ASSUME NEW b, CircuitFits(b)
    PROVE  /\ Admits(b) => b.failures < Threshold \/ b.cooled
           /\ Admits(b) => Admitted(b).failures = b.failures /\ Admitted(b).cooled = b.cooled
           /\ Succeeded(b).failures = 0 /\ Succeeded(b).cooled = b.cooled
           /\ Failed(b).failures = IF b.failures < Threshold THEN b.failures + 1 ELSE b.failures
           /\ Failed(b).cooled = (Failed(b).failures < Threshold)
           /\ Cooled(b).failures = b.failures /\ Cooled(b).cooled = TRUE
BY DEF CircuitFits, Circuit, Admits, Admitted, Succeeded, Failed, CountFailure, Cooled

LEMMA PlainStepsOutside ==
    ASSUME INInv, NEW p \in SapProcs, sapCalls[p].pc \in Outside,
           NEW x \in Outside, Lands(p, x), UNCHANGED <<sap, queue>>
    PROVE  UNCHANGED <<sap, queue, InSap, InQueue>>
BY CallersMove DEF Outside

LEMMA CallsThroughSap ==
    ASSUME INInv, NEW p \in SapProcs,
           SapRequest(p) \/ ResponseOk(p) \/ ResponseError(p) \/ NoResponse(p)
    PROVE  /\ SapBreaker!Next \/ UNCHANGED SapBreaker!breakerVars
           /\ UNCHANGED <<queue, InQueue>>
<1> USE DEF SapBreaker!breakerVars
<1>0. CircuitFits(sap)
  BY DEF INInv
<1>1. CASE SapRequest(p) /\ Admits(sap)
  <2>1. /\ sapCalls[p].pc = "send" /\ sap' = Admitted(sap) /\ Lands(p, "wait")
        /\ UNCHANGED queue
    BY <1>1, Landings DEF SapRequest, At
  <2>2. InSap' = InSap \cup {p} /\ p \notin InSap /\ InQueue' = InQueue
    BY <2>1, CallersMove
  <2>3. SapBreaker!Enter(p)
    BY <1>0, <1>1, <2>1, <2>2, CircuitFacts DEF SapBreaker!Enter
  <2> QED
    BY <2>1, <2>2, <2>3 DEF SapBreaker!Next
<1>2. CASE SapRequest(p) /\ ~Admits(sap)
  <2>1. /\ sapCalls[p].pc = "send" /\ Lands(p, "fail") /\ UNCHANGED <<sap, queue>>
    BY <1>2, Landings DEF SapRequest, At
  <2>2. InSap' = InSap /\ InQueue' = InQueue
    BY <2>1, CallersMove
  <2> QED
    BY <2>1, <2>2
<1>3. CASE ResponseOk(p) \/ ResponseError(p)
  <2>1. PICK x \in {"mark", "document", "refusal", "undo"} : Lands(p, x)
    BY <1>3, Landings DEF ResponseOk, ResponseError
  <2>2. sapCalls[p].pc = "wait" /\ sap' = Succeeded(sap) /\ UNCHANGED queue
    BY <1>3 DEF ResponseOk, ResponseError, At
  <2>3. InSap' = InSap \ {p} /\ p \in InSap /\ InQueue' = InQueue
    BY <2>1, <2>2, CallersMove
  <2>4. SapBreaker!Succeed(p)
    BY <1>0, <2>2, <2>3, CircuitFacts DEF SapBreaker!Succeed
  <2> QED
    BY <2>2, <2>3, <2>4 DEF SapBreaker!Next
<1>4. CASE NoResponse(p)
  <2>1. /\ sapCalls[p].pc = "wait" /\ Lands(p, "fail") /\ sap' = Failed(sap) /\ UNCHANGED queue
    BY <1>4, Landings DEF NoResponse, At
  <2>2. InSap' = InSap \ {p} /\ p \in InSap /\ InQueue' = InQueue
    BY <2>1, CallersMove
  <2>3. SapBreaker!Fail(p)
    BY <1>0, <2>1, <2>2, CircuitFacts DEF SapBreaker!Fail
  <2> QED
    BY <2>1, <2>2, <2>3 DEF SapBreaker!Next
<1> QED
  BY <1>1, <1>2, <1>3, <1>4

LEMMA CallsThroughQueue ==
    ASSUME INInv, NEW p \in SapProcs,
           NextEntry(p) \/ TakeEntry(p) \/ ConfirmEntry(p) \/ ConfirmFails(p) \/ CallFails(p)
    PROVE  /\ QueueBreaker!Next \/ UNCHANGED QueueBreaker!breakerVars
           /\ UNCHANGED <<sap, InSap>>
<1> USE DEF QueueBreaker!breakerVars
<1>0. CircuitFits(queue) /\ sapCalls \in Calls /\ sapCalls[p] \in SapCall \cup {IdleCall}
  BY DEF INInv, INTypeOK, Calls
<1>1. CASE NextEntry(p)
  <2>0. sapCalls[p].pc = "next" /\ UNCHANGED sap
    BY <1>1 DEF NextEntry, At
  <2>1. CASE Stop(p) /\ UNCHANGED queue
    <3>1. Lands(p, "idle")
      BY <2>1, Landings
    <3>2. InSap' = InSap /\ InQueue' = InQueue
      BY <2>0, <3>1, CallersMove
    <3> QED
      BY <2>0, <2>1, <3>2
  <2>2. ASSUME NEW n, Admits(queue), queue' = Admitted(queue),
               sapCalls' = [sapCalls EXCEPT ![p].pc = "take", ![p].entry = n, ![p].todo = @ \ {n}]
        PROVE  QueueBreaker!Enter(p) /\ UNCHANGED <<sap, InSap>>
    <3>1. [sapCalls[p] EXCEPT !.pc = "take", !.entry = n, !.todo = @ \ {n}].pc = "take"
      BY <1>0 DEF SapCall, IdleCall
    <3>2. sapCalls' = [sapCalls EXCEPT ![p] =
              [sapCalls[p] EXCEPT !.pc = "take", !.entry = n, !.todo = @ \ {n}]]
      BY <2>2
    <3>3. Lands(p, "take")
      BY <1>0, <3>1, <3>2 DEF Lands, Calls
    <3>4. InQueue' = InQueue \cup {p} /\ p \notin InQueue /\ InSap' = InSap
      BY <2>0, <3>3, CallersMove
    <3> QED
      BY <1>0, <2>0, <2>2, <3>4, CircuitFacts DEF QueueBreaker!Enter
  <2>3. ASSUME NEW n, sapCalls' = [sapCalls EXCEPT ![p].todo = @ \ {n}], UNCHANGED queue
        PROVE  UNCHANGED QueueBreaker!breakerVars /\ UNCHANGED <<sap, InSap>>
    <3>1. [sapCalls[p] EXCEPT !.todo = @ \ {n}].pc = "next"
      BY <1>0, <2>0 DEF SapCall, IdleCall
    <3>2. sapCalls' = [sapCalls EXCEPT ![p] = [sapCalls[p] EXCEPT !.todo = @ \ {n}]]
      BY <2>3
    <3>3. Lands(p, "next")
      BY <1>0, <3>1, <3>2 DEF Lands, Calls
    <3>4. InQueue' = InQueue /\ InSap' = InSap
      BY <2>0, <3>3, CallersMove
    <3> QED
      BY <2>0, <2>3, <3>4
  <2> QED
    BY <1>1, <2>1, <2>2, <2>3 DEF NextEntry, QueueBreaker!Next
<1>2. CASE TakeEntry(p)
  <2>1. sapCalls[p].pc = "take" /\ Lands(p, "confirm") /\ UNCHANGED <<sap, queue>>
    BY <1>2, Landings DEF TakeEntry, At
  <2>2. InSap' = InSap /\ InQueue' = InQueue
    BY <2>1, CallersMove
  <2> QED
    BY <2>1, <2>2
<1>3. CASE ConfirmEntry(p)
  <2>1. /\ sapCalls[p].pc = "confirm" /\ Lands(p, "next") /\ queue' = Succeeded(queue)
        /\ UNCHANGED sap
    BY <1>3, Landings DEF ConfirmEntry, At
  <2>2. InSap' = InSap /\ InQueue' = InQueue \ {p} /\ p \in InQueue
    BY <2>1, CallersMove
  <2>3. QueueBreaker!Succeed(p)
    BY <1>0, <2>1, <2>2, CircuitFacts DEF QueueBreaker!Succeed
  <2> QED
    BY <2>1, <2>2, <2>3 DEF QueueBreaker!Next
<1>4. CASE ConfirmFails(p)
  <2>1. /\ sapCalls[p].pc = "confirm" /\ Lands(p, "plan") /\ queue' = Failed(queue)
        /\ UNCHANGED sap
    BY <1>4, Landings DEF ConfirmFails, At
  <2>2. InSap' = InSap /\ InQueue' = InQueue \ {p} /\ p \in InQueue
    BY <2>1, CallersMove
  <2>3. QueueBreaker!Fail(p)
    BY <1>0, <2>1, <2>2, CircuitFacts DEF QueueBreaker!Fail
  <2> QED
    BY <2>1, <2>2, <2>3 DEF QueueBreaker!Next
<1>5. CASE CallFails(p)
  <2>1. sapCalls[p].pc # "wait" /\ Lands(p, "idle") /\ UNCHANGED <<sap, queue>>
    BY <1>5, Landings DEF CallFails
  <2>2. InSap' = InSap /\ InQueue' = InQueue \ {p}
    BY <2>1, CallersMove
  <2>3. CASE p \in InQueue
    <3>1. QueueBreaker!Leave(p)
      BY <2>1, <2>2, <2>3 DEF QueueBreaker!Leave
    <3> QED
      BY <2>1, <2>2, <3>1 DEF QueueBreaker!Next
  <2>4. CASE p \notin InQueue
    BY <2>1, <2>2, <2>4
  <2> QED
    BY <2>3, <2>4
<1> QED
  BY <1>1, <1>2, <1>3, <1>4, <1>5

LEMMA BreakerSteps ==
    ASSUME INInv, INNext \/ UNCHANGED sapVars
    PROVE  /\ SapBreaker!Next \/ UNCHANGED SapBreaker!breakerVars
           /\ QueueBreaker!Next \/ UNCHANGED QueueBreaker!breakerVars
<1> USE DEF SapBreaker!breakerVars, QueueBreaker!breakerVars
<1>0. CircuitFits(sap) /\ CircuitFits(queue)
  BY DEF INInv
<1> DEFINE Plain(p) ==
        \/ ReadEntity(p) \/ CreateSyncLog(p) \/ MarkEntity(p) \/ RecordSAPDocument(p)
        \/ CompleteSyncLog(p) \/ HoldEntry(p) \/ SettleEntry(p) \/ PlanRetry(p)
        \/ ScheduleRetry(p) \/ StatementFails(p)
        \/ \E e \in Entities : StartPush(p, e) \/ ApproveInvoice(p, e)
        \/ \E n \in DOMAIN logs : StartRetry(p, n)
        \/ StartProcessing(p)
      Sapped(p) == SapRequest(p) \/ ResponseOk(p) \/ ResponseError(p) \/ NoResponse(p)
      Queued(p) == \/ NextEntry(p) \/ TakeEntry(p) \/ ConfirmEntry(p) \/ ConfirmFails(p)
                   \/ CallFails(p)
<1>1. ASSUME NEW p \in SapProcs, Plain(p)
      PROVE  UNCHANGED <<sap, queue, InSap, InQueue>>
  <2>1. /\ sapCalls[p].pc \in Outside /\ UNCHANGED <<sap, queue>>
        /\ \E x \in Outside : Lands(p, x)
    BY <1>1, PlainSteps
  <2> QED
    BY <2>1, PlainStepsOutside
<1>2. ASSUME NEW p \in SapProcs, Sapped(p)
      PROVE  /\ SapBreaker!Next \/ UNCHANGED SapBreaker!breakerVars
             /\ UNCHANGED <<queue, InQueue>>
  BY <1>2, CallsThroughSap
<1>3. ASSUME NEW p \in SapProcs, Queued(p)
      PROVE  /\ QueueBreaker!Next \/ UNCHANGED QueueBreaker!breakerVars
             /\ UNCHANGED <<sap, InSap>>
  BY <1>3, CallsThroughQueue
<1>4. ASSUME NEW p \in SapProcs,
             SapCallStep(p) \/ ConfirmFails(p) \/ StatementFails(p) \/ CallFails(p)
      PROVE  Plain(p) \/ Sapped(p) \/ Queued(p)
  BY <1>4 DEF SapCallStep, PushStep, RetryStep
<1>5. ASSUME NEW p \in Pushers,
             \/ \E e \in Entities : StartPush(p, e) \/ ApproveInvoice(p, e)
             \/ \E n \in DOMAIN logs : StartRetry(p, n)
      PROVE  p \in SapProcs /\ Plain(p)
  BY <1>5 DEF SapProcs
<1>6. ASSUME NEW p \in Queuers, StartProcessing(p)
      PROVE  p \in SapProcs /\ Plain(p)
  BY <1>6 DEF SapProcs
<1> HIDE DEF Plain, Sapped, Queued
<1>7. CASE \E p \in SapProcs : Plain(p) \/ Sapped(p) \/ Queued(p)
  BY <1>1, <1>2, <1>3, <1>7
<1>8. ASSUME UNCHANGED <<sap, queue, sapCalls>>
      PROVE  UNCHANGED <<sap, queue, InSap, InQueue>>
  BY <1>8 DEF InSap, InQueue, At
<1>9. CASE \/ \E e \in Entities : RejectInvoice(e)
           \/ \E n \in DOMAIN logs : SapAccepts(n)
           \/ \E S \in SUBSET DOMAIN logs : ResetDeadLetters(S)
           \/ UNCHANGED sapVars
  <2>1. UNCHANGED <<sap, queue, sapCalls>>
    BY <1>9 DEF RejectInvoice, SapAccepts, ResetDeadLetters, sapVars
  <2> QED
    BY <1>8, <2>1
<1>10. CASE CooldownElapses
  <2>1. UNCHANGED <<InSap, InQueue>>
    BY <1>10 DEF CooldownElapses, InSap, InQueue, At
  <2>2. CASE sap' = Cooled(sap) /\ UNCHANGED queue
    <3>1. SapBreaker!Rest
      BY <1>0, <2>1, <2>2, CircuitFacts DEF SapBreaker!Rest
    <3> QED
      BY <2>1, <2>2, <3>1 DEF SapBreaker!Next
  <2>3. CASE queue' = Cooled(queue) /\ UNCHANGED sap
    <3>1. QueueBreaker!Rest
      BY <1>0, <2>1, <2>3, CircuitFacts DEF QueueBreaker!Rest
    <3> QED
      BY <2>1, <2>3, <3>1 DEF QueueBreaker!Next
  <2> QED
    BY <1>10, <2>2, <2>3 DEF CooldownElapses
<1>11. CASE INCrash
  <2>1. /\ sap' = NewCircuit /\ queue' = NewCircuit
        /\ sapCalls' = [p \in SapProcs |-> IdleCall]
    BY <1>11 DEF INCrash
  <2>2. InSap' = {} /\ InQueue' = {}
    BY <2>1 DEF InSap, InQueue, At, IdleCall
  <2>3. NewCircuit.failures = 0 /\ NewCircuit.cooled = TRUE
    BY DEF NewCircuit
  <2>4. SapBreaker!Restart /\ QueueBreaker!Restart
    BY <2>1, <2>2, <2>3 DEF SapBreaker!Restart, QueueBreaker!Restart
  <2> QED
    BY <2>4 DEF SapBreaker!Next, QueueBreaker!Next
<1> QED
  BY <1>4, <1>5, <1>6, <1>7, <1>9, <1>10, <1>11 DEF INNext

LEMMA BreakersStart == ASSUME INInit PROVE SapBreaker!Init /\ QueueBreaker!Init
<1>1. /\ sap = NewCircuit /\ queue = NewCircuit
      /\ sapCalls = [p \in SapProcs |-> IdleCall]
  BY DEF INInit
<1>2. InSap = {} /\ InQueue = {}
  BY <1>1 DEF InSap, InQueue, At, IdleCall
<1>3. NewCircuit.failures = 0 /\ NewCircuit.cooled = TRUE
  BY DEF NewCircuit
<1> QED
  BY <1>1, <1>2, <1>3 DEF SapBreaker!Init, QueueBreaker!Init

(***************************************************************************)
(* The breaker around the calls to SAP implements Breaker: after Threshold *)
(* failures in a row no call goes through before the cooldown, though      *)
(* calls admitted earlier come back in any order, or are lost in a crash.  *)
(***************************************************************************)
THEOREM SapBreakerImplements == INSpec => BreakerKept
<1>1. INInit => SapBreaker!Init
  BY BreakersStart
<1>2. INInv /\ [INNext]_sapVars => [SapBreaker!Next]_(SapBreaker!breakerVars)
  BY BreakerSteps
<1> QED
  BY <1>1, <1>2, INInvariant, PTL DEF INSpec, BreakerKept, SapBreaker!Spec

(***************************************************************************)
(* So do the circuits of the retry queue, which its loop asks before each  *)
(* row and informs after it.                                               *)
(***************************************************************************)
THEOREM QueueBreakerImplements == INSpec => QueueBreakerKept
<1>1. INInit => QueueBreaker!Init
  BY BreakersStart
<1>2. INInv /\ [INNext]_sapVars => [QueueBreaker!Next]_(QueueBreaker!breakerVars)
  BY BreakerSteps
<1> QED
  BY <1>1, <1>2, INInvariant, PTL DEF INSpec, QueueBreakerKept, QueueBreaker!Spec

-----------------------------------------------------------------------------
(* The limit of retries: a request that has read a count and is about to   *)
(* raise it is already counted.                                            *)

Raising(n, calls) == {p \in SapProcs : calls[p].pc \in {"hold", "delay"} /\ calls[p].entry = n}

CountsFit(L, calls) ==
    \A n \in DOMAIN L :
        L[n].retries + Cardinality(Raising(n, calls)) < MaxRetries + Cardinality(SapProcs)

LEMMA RaisingFinite ==
    ASSUME NEW n, NEW calls
    PROVE  /\ IsFiniteSet(Raising(n, calls))
           /\ Cardinality(Raising(n, calls)) \in Nat
           /\ Cardinality(Raising(n, calls)) <= Cardinality(SapProcs)
           /\ Cardinality(SapProcs) \in Nat
<1>1. Raising(n, calls) \subseteq SapProcs
  BY DEF Raising
<1>2. IsFiniteSet(SapProcs)
  BY SapAssumption
<1>3. /\ IsFiniteSet(Raising(n, calls))
      /\ Cardinality(Raising(n, calls)) <= Cardinality(SapProcs)
  BY <1>1, <1>2, FS_Subset
<1> QED
  BY <1>2, <1>3, FS_CardinalityType

\* What may become of a row's count in a step.
Accounted(n) ==
    \/ logs'[n].retries < MaxRetries
    \/ /\ n \in DOMAIN logs
       /\ logs'[n].retries = logs[n].retries
       /\ Raising(n, sapCalls') \subseteq Raising(n, sapCalls)
    \/ /\ n \in DOMAIN logs
       /\ logs'[n].retries = logs[n].retries + 1
       /\ \E p \in Raising(n, sapCalls) :
             Raising(n, sapCalls') \subseteq Raising(n, sapCalls) \ {p}

LEMMA CountsStay ==
    ASSUME INInv, INTypeOK', CountsFit(logs, sapCalls), \A n \in DOMAIN logs' : Accounted(n)
    PROVE  CountsFit(logs', sapCalls')
<1> SUFFICES ASSUME NEW n \in DOMAIN logs'
             PROVE  logs'[n].retries + Cardinality(Raising(n, sapCalls'))
                        < MaxRetries + Cardinality(SapProcs)
  BY DEF CountsFit
<1> DEFINE old == Raising(n, sapCalls)
           new == Raising(n, sapCalls')
<1>0. MaxRetries \in Nat /\ logs'[n].retries \in Nat
  <2>1. logs' \in Seq(LogRow)
    BY DEF INTypeOK
  <2>2. logs'[n] \in LogRow
    BY <2>1
  <2> QED
    BY <2>2, SapAssumption DEF LogRow
<1>1. n \in DOMAIN logs => logs[n].retries \in Nat
  <2>1. logs \in Seq(LogRow)
    BY DEF INInv, INTypeOK
  <2>2. n \in DOMAIN logs => logs[n] \in LogRow
    BY <2>1
  <2> QED
    BY <2>2 DEF LogRow
<1>2. /\ IsFiniteSet(old) /\ Cardinality(old) \in Nat
      /\ IsFiniteSet(new) /\ Cardinality(new) \in Nat
      /\ Cardinality(new) <= Cardinality(SapProcs) /\ Cardinality(SapProcs) \in Nat
  BY RaisingFinite
<1>3. n \in DOMAIN logs =>
          logs[n].retries + Cardinality(old) < MaxRetries + Cardinality(SapProcs)
  BY DEF CountsFit
<1>4. Accounted(n)
  OBVIOUS
<1> HIDE DEF old, new
<1>5. CASE logs'[n].retries < MaxRetries
  BY <1>0, <1>2, <1>5 DEF new
<1>6. CASE n \in DOMAIN logs /\ logs'[n].retries = logs[n].retries /\ new \subseteq old
  <2>1. Cardinality(new) <= Cardinality(old)
    BY <1>2, <1>6, FS_Subset
  <2> QED
    BY <1>0, <1>1, <1>2, <1>3, <1>6, <2>1 DEF new
<1>7. ASSUME n \in DOMAIN logs, logs'[n].retries = logs[n].retries + 1,
             NEW p \in old, new \subseteq old \ {p}
      PROVE  logs'[n].retries + Cardinality(new) < MaxRetries + Cardinality(SapProcs)
  <2>1. IsFiniteSet(old \ {p}) /\ Cardinality(old \ {p}) = Cardinality(old) - 1
    BY <1>2, <1>7, FS_RemoveElement
  <2>2. Cardinality(new) <= Cardinality(old \ {p})
    BY <1>7, <2>1, FS_Subset
  <2> QED
    BY <1>0, <1>1, <1>2, <1>3, <1>7, <2>1, <2>2
<1> QED
  BY <1>4, <1>5, <1>6, <1>7 DEF Accounted, old, new

\* A step of p that raises no count, and after which p is not about to.
LEMMA CountsUntouched ==
    ASSUME NEW p \in SapProcs, NEW x, Lands(p, x), x \notin {"hold", "delay"},
           DOMAIN logs' = DOMAIN logs, \A n \in DOMAIN logs : logs'[n].retries = logs[n].retries
    PROVE  \A n \in DOMAIN logs' : Accounted(n)
BY DEF Accounted, Raising, Lands

LEMMA CountsOneRow ==
    ASSUME INInv, NEW n \in DOMAIN logs, NEW v,
           \/ logs' = [logs EXCEPT ![n].status = v]
           \/ logs' = [logs EXCEPT ![n].post = v]
           \/ logs' = [logs EXCEPT ![n].document = v]
    PROVE  DOMAIN logs' = DOMAIN logs /\ \A m \in DOMAIN logs : logs'[m].retries = logs[m].retries
<1>0. logs \in Seq(LogRow)
  BY DEF INInv, INTypeOK
<1>1. logs[n] \in LogRow
  BY <1>0
<1>2. /\ [logs[n] EXCEPT !.status = v].retries = logs[n].retries
      /\ [logs[n] EXCEPT !.post = v].retries = logs[n].retries
      /\ [logs[n] EXCEPT !.document = v].retries = logs[n].retries
  BY <1>1 DEF LogRow
<1> QED
  BY <1>0, <1>2

LEMMA RowOfCall ==
    ASSUME INInv, NEW p \in SapProcs
    PROVE  /\ sapCalls[p].pc \in LogPC => sapCalls[p].log \in DOMAIN logs
           /\ sapCalls[p].pc \in EntryPC => sapCalls[p].entry \in DOMAIN logs
<1>1. sapCalls[p].pc # "idle" => PlaceFits(sapCalls[p], logs)
  BY InFlight
<1> QED
  BY <1>1 DEF PlaceFits, LogPC, EntryPC

LEMMA UntouchedSteps ==
    ASSUME INInv, NEW p \in SapProcs,
           \/ ReadEntity(p) \/ SapRequest(p) \/ ResponseOk(p) \/ ResponseError(p) \/ NoResponse(p)
           \/ MarkEntity(p) \/ RecordSAPDocument(p) \/ CompleteSyncLog(p) \/ SettleEntry(p)
           \/ TakeEntry(p) \/ ConfirmEntry(p) \/ ConfirmFails(p) \/ StatementFails(p) \/ CallFails(p)
           \/ \E e \in Entities : StartPush(p, e) \/ ApproveInvoice(p, e)
           \/ StartProcessing(p)
    PROVE  \A n \in DOMAIN logs' : Accounted(n)
<1> DEFINE d == sapCalls[p]
           Same == DOMAIN logs' = DOMAIN logs
                   /\ \A m \in DOMAIN logs : logs'[m].retries = logs[m].retries
           Away == \E x : Lands(p, x) /\ x \notin {"hold", "delay"}
<1>0. UNCHANGED logs => Same
  OBVIOUS
<1>1. CASE ReadEntity(p) \/ NoResponse(p) \/ ConfirmFails(p) \/ StatementFails(p) \/ CallFails(p)
  <2>1. /\ UNCHANGED logs
        /\ \/ Goto(p, "log") \/ Goto(p, "fail") \/ Goto(p, "plan")
           \/ Answer(p, FALSE) \/ Stop(p)
    BY <1>1 DEF ReadEntity, NoResponse, ConfirmFails, StatementFails, CallFails
  <2>2. \/ Lands(p, "log") \/ Lands(p, "fail") \/ Lands(p, "plan")
        \/ Lands(p, "idle") \/ Lands(p, "settle")
    BY <2>1, Landings
  <2>3. Away
    BY <2>2
  <2> QED
    BY <1>0, <2>1, <2>3, CountsUntouched
<1>2. CASE ResponseOk(p) \/ MarkEntity(p)
  <2>1. UNCHANGED logs /\ \E x \in {"mark", "document"} : Goto(p, x)
    BY <1>2 DEF ResponseOk, MarkEntity
  <2>2. Away
    BY <2>1, Landings
  <2> QED
    BY <1>0, <2>1, <2>2, CountsUntouched
<1>3. CASE SapRequest(p) \/ ResponseError(p) \/ RecordSAPDocument(p)
  <2>1. d.pc \in LogPC
    BY <1>3 DEF SapRequest, ResponseError, RecordSAPDocument, At, LogPC
  <2>2. /\ \/ UNCHANGED logs
           \/ \E v : logs' = [logs EXCEPT ![d.log].post = v]
           \/ \E v : logs' = [logs EXCEPT ![d.log].document = v]
        /\ \E x \in {"wait", "fail", "refusal", "undo", "complete"} : Goto(p, x)
    BY <1>3 DEF SapRequest, ResponseError, RecordSAPDocument
  <2>3. Away
    BY <2>2, Landings
  <2>4. Same
    BY <1>0, <2>1, <2>2, RowOfCall, CountsOneRow
  <2> QED
    BY <2>3, <2>4, CountsUntouched
<1>4. CASE CompleteSyncLog(p)
  <2>1. /\ d.pc \in LogPC /\ Answer(p, At(p, "complete"))
        /\ \E v : logs' = [logs EXCEPT ![d.log].status = v]
    BY <1>4 DEF CompleteSyncLog, LogPC
  <2>2. Away
    BY <2>1, Landings
  <2>3. Same
    BY <2>1, RowOfCall, CountsOneRow
  <2> QED
    BY <2>2, <2>3, CountsUntouched
<1>5. CASE SettleEntry(p) \/ TakeEntry(p) \/ ConfirmEntry(p)
  <2>1. /\ d.pc \in EntryPC
        /\ Stop(p) \/ Goto(p, "confirm") \/ GoOn(p)
        /\ \E v : logs' = [logs EXCEPT ![d.entry].status = v]
    BY <1>5 DEF SettleEntry, TakeEntry, ConfirmEntry, At, EntryPC
  <2>2. Away
    BY <2>1, Landings
  <2>3. Same
    BY <2>1, RowOfCall, CountsOneRow
  <2> QED
    BY <2>2, <2>3, CountsUntouched
<1>6. CASE \E e \in Entities : StartPush(p, e) \/ ApproveInvoice(p, e)
  <2>1. UNCHANGED logs /\ \E e : Begin(p, "read", e, 0, {})
    BY <1>6 DEF StartPush, ApproveInvoice
  <2>2. Away
    BY <2>1, Landings
  <2> QED
    BY <1>0, <2>1, <2>2, CountsUntouched
<1>7. CASE StartProcessing(p)
  <2>1. PICK due \in SUBSET Timed \ {{}} : \E n \in due : Begin(p, "next", logs[n].ent, 0, due)
    BY <1>7 DEF StartProcessing
  <2>2. UNCHANGED logs
    BY <1>7 DEF StartProcessing
  <2>3. Away
    BY <2>1, Landings
  <2> QED
    BY <1>0, <2>2, <2>3, CountsUntouched
<1> QED
  BY <1>1, <1>2, <1>3, <1>4, <1>5, <1>6, <1>7

LEMMA StartRetryCounts ==
    ASSUME INInv, NEW p \in SapProcs, NEW m \in DOMAIN logs, StartRetry(p, m)
    PROVE  \A n \in DOMAIN logs' : Accounted(n)
<1>0. /\ sapCalls \in Calls
      /\ UNCHANGED logs /\ logs[m].retries < MaxRetries
      /\ sapCalls' = [sapCalls EXCEPT ![p] =
            [pc |-> "hold", ent |-> logs[m].ent, log |-> 0, entry |-> m, todo |-> {}, ok |-> FALSE]]
  BY DEF StartRetry, Begin, INInv, INTypeOK, Calls
<1>1. sapCalls'[p].entry = m /\ \A q \in SapProcs : q # p => sapCalls'[q] = sapCalls[q]
  BY <1>0 DEF Calls
<1> QED
  BY <1>0, <1>1 DEF Accounted, Raising

LEMMA PlanRetryCounts ==
    ASSUME INInv, NEW p \in SapProcs, PlanRetry(p)
    PROVE  \A n \in DOMAIN logs' : Accounted(n)
<1> DEFINE m == sapCalls[p].entry
<1>0. /\ sapCalls \in Calls /\ logs \in Seq(LogRow) /\ sapCalls[p] \in SapCall
      /\ UNCHANGED logs /\ m \in DOMAIN logs
  BY InFlight, RowOfCall DEF PlanRetry, At, EntryPC, INInv, INTypeOK, Calls
<1>1. CASE logs[m].retries >= MaxRetries
  <2>1. Lands(p, "bury")
    BY <1>1, Landings DEF PlanRetry
  <2> QED
    BY <1>0, <2>1, CountsUntouched
<1>2. CASE ~(logs[m].retries >= MaxRetries)
  <2>1. logs[m] \in LogRow
    BY <1>0
  <2>2. logs[m].retries < MaxRetries
    BY <1>2, <2>1, SapAssumption DEF LogRow
  <2>3. sapCalls' = [sapCalls EXCEPT ![p] = [sapCalls[p] EXCEPT !.pc = "delay"]]
    BY <1>2 DEF PlanRetry, Goto
  <2>4. [sapCalls[p] EXCEPT !.pc = "delay"].entry = m
    BY <1>0 DEF SapCall
  <2>5. sapCalls'[p].entry = m /\ \A q \in SapProcs : q # p => sapCalls'[q] = sapCalls[q]
    BY <1>0, <2>3, <2>4 DEF Calls
  <2> QED
    BY <1>0, <2>2, <2>5 DEF Accounted, Raising
<1> QED
  BY <1>1, <1>2

LEMMA CreateSyncLogCounts ==
    ASSUME INInv, NEW p \in SapProcs, CreateSyncLog(p)
    PROVE  \A n \in DOMAIN logs' : Accounted(n)
<1> DEFINE r == [ent |-> sapCalls[p].ent, status |-> "in_progress", retries |-> 0,
                 timed |-> FALSE, post |-> "none", document |-> "none"]
<1>0. logs \in Seq(LogRow) /\ logs' = Append(logs, r)
  BY DEF CreateSyncLog, INInv, INTypeOK
<1>1. r.retries = 0
  OBVIOUS
<1> HIDE DEF r
<1>2. \A n \in DOMAIN logs' : (n \in DOMAIN logs /\ logs'[n] = logs[n]) \/ logs'[n] = r
  BY <1>0
<1>3. PICK x \in Outside : Lands(p, x) /\ x \notin {"hold", "delay"}
  <2>1. sapCalls \in Calls /\ sapCalls[p] \in SapCall \cup {IdleCall}
    BY DEF INInv, INTypeOK, Calls
  <2>2. [sapCalls[p] EXCEPT !.pc = "send", !.log = Len(logs) + 1].pc = "send"
    BY <2>1 DEF SapCall, IdleCall
  <2>3. sapCalls' = [sapCalls EXCEPT ![p] =
            [sapCalls[p] EXCEPT !.pc = "send", !.log = Len(logs) + 1]]
    BY DEF CreateSyncLog
  <2>4. Lands(p, "send")
    BY <2>1, <2>2, <2>3 DEF Lands, Calls
  <2>5. "send" \in Outside
    BY DEF Outside, SapPC, PushPC
  <2> QED
    BY <2>4, <2>5
<1>4. \A n : Raising(n, sapCalls') \subseteq Raising(n, sapCalls)
  BY <1>3 DEF Raising, Lands
<1>5. 0 < MaxRetries
  BY SapAssumption
<1> QED
  BY <1>1, <1>2, <1>4, <1>5 DEF Accounted

LEMMA NextEntryCounts ==
    ASSUME INInv, NEW p \in SapProcs, NextEntry(p)
    PROVE  \A n \in DOMAIN logs' : Accounted(n)
<1>0. /\ sapCalls[p].pc = "next" /\ UNCHANGED logs
      /\ sapCalls \in Calls /\ sapCalls[p] \in SapCall
  BY InFlight DEF NextEntry, At, INInv, INTypeOK, Calls
<1>1. CASE Stop(p)
  BY <1>0, <1>1, Landings, CountsUntouched
<1>2. ASSUME NEW m,
             sapCalls' = [sapCalls EXCEPT ![p].pc = "take", ![p].entry = m, ![p].todo = @ \ {m}]
      PROVE  Lands(p, "take")
  <2>1. [sapCalls[p] EXCEPT !.pc = "take", !.entry = m, !.todo = @ \ {m}].pc = "take"
    BY <1>0 DEF SapCall
  <2>2. sapCalls' = [sapCalls EXCEPT ![p] =
            [sapCalls[p] EXCEPT !.pc = "take", !.entry = m, !.todo = @ \ {m}]]
    BY <1>2
  <2> QED
    BY <1>0, <2>1, <2>2 DEF Lands, Calls
<1>3. ASSUME NEW m, sapCalls' = [sapCalls EXCEPT ![p].todo = @ \ {m}]
      PROVE  Lands(p, "next")
  <2>1. [sapCalls[p] EXCEPT !.todo = @ \ {m}].pc = "next"
    BY <1>0 DEF SapCall
  <2>2. sapCalls' = [sapCalls EXCEPT ![p] = [sapCalls[p] EXCEPT !.todo = @ \ {m}]]
    BY <1>3
  <2> QED
    BY <1>0, <2>1, <2>2 DEF Lands, Calls
<1>4. Stop(p) \/ Lands(p, "take") \/ Lands(p, "next")
  BY <1>2, <1>3 DEF NextEntry
<1> QED
  BY <1>0, <1>1, <1>4, CountsUntouched

\* The two statements that raise a count: HoldEntry and scheduleRetry's.
LEMMA RaisesCount ==
    ASSUME INInv, NEW p \in SapProcs, sapCalls[p].pc \in {"hold", "delay"},
           NEW x, x \notin {"hold", "delay"}, Lands(p, x),
           NEW r, r.retries = logs[sapCalls[p].entry].retries + 1,
           logs' = [logs EXCEPT ![sapCalls[p].entry] = r]
    PROVE  \A n \in DOMAIN logs' : Accounted(n)
<1> DEFINE m == sapCalls[p].entry
<1>0. logs \in Seq(LogRow) /\ m \in DOMAIN logs
  BY RowOfCall DEF INInv, INTypeOK, EntryPC
<1>1. DOMAIN logs' = DOMAIN logs /\ logs'[m] = r /\ \A n \in DOMAIN logs : n # m => logs'[n] = logs[n]
  BY <1>0
<1>2. p \in Raising(m, sapCalls) /\ Raising(m, sapCalls') \subseteq Raising(m, sapCalls) \ {p}
  BY DEF Raising, Lands
<1>3. \A n : Raising(n, sapCalls') \subseteq Raising(n, sapCalls)
  BY DEF Raising, Lands
<1>4. Accounted(m)
  BY <1>0, <1>1, <1>2 DEF Accounted
<1>5. \A n \in DOMAIN logs : n # m => Accounted(n)
  BY <1>1, <1>3 DEF Accounted
<1> QED
  BY <1>1, <1>4, <1>5

LEMMA RaisingSteps ==
    ASSUME INInv, NEW p \in SapProcs, HoldEntry(p) \/ ScheduleRetry(p)
    PROVE  \A n \in DOMAIN logs' : Accounted(n)
<1> DEFINE m == sapCalls[p].entry
<1>0. logs \in Seq(LogRow)
  BY DEF INInv, INTypeOK
<1>1. sapCalls[p].pc \in {"hold", "bury", "delay"}
  BY DEF HoldEntry, ScheduleRetry, At
<1>2. m \in DOMAIN logs
  BY <1>1, RowOfCall DEF EntryPC
<1>3. logs[m] \in LogRow
  BY <1>0, <1>2
<1>4. CASE HoldEntry(p)
  <2> DEFINE r == [logs[m] EXCEPT !.status = "retrying", !.retries = @ + 1]
  <2>1. logs' = [logs EXCEPT ![m] = r] /\ sapCalls[p].pc = "hold" /\ Lands(p, "read")
    BY <1>4, Landings DEF HoldEntry, At
  <2>2. r.retries = logs[m].retries + 1
    BY <1>3 DEF LogRow
  <2> HIDE DEF r
  <2> QED
    BY <2>1, <2>2, RaisesCount
<1>5. CASE ScheduleRetry(p) /\ sapCalls[p].pc = "delay"
  <2> DEFINE r == [logs[m] EXCEPT !.status = "retrying", !.retries = @ + 1, !.timed = TRUE]
  <2>1. logs' = [logs EXCEPT ![m] = r] /\ Lands(p, "next")
    BY <1>5, Landings DEF ScheduleRetry, At
  <2>2. r.retries = logs[m].retries + 1
    BY <1>3 DEF LogRow
  <2> HIDE DEF r
  <2> QED
    BY <1>5, <2>1, <2>2, RaisesCount
<1>6. CASE ScheduleRetry(p) /\ sapCalls[p].pc = "bury"
  <2>1. logs' = [logs EXCEPT ![m].status = "failed"] /\ Lands(p, "next")
    BY <1>6, Landings DEF ScheduleRetry, At
  <2> QED
    BY <1>2, <2>1, CountsOneRow, CountsUntouched
<1> QED
  BY <1>4, <1>5, <1>6 DEF ScheduleRetry, At

LEMMA OutsideCounts ==
    ASSUME INInv,
           \/ \E e \in Entities : RejectInvoice(e)
           \/ \E n \in DOMAIN logs : SapAccepts(n)
           \/ \E S \in SUBSET DOMAIN logs : ResetDeadLetters(S)
           \/ CooldownElapses
           \/ INCrash
           \/ UNCHANGED sapVars
    PROVE  \A n \in DOMAIN logs' : Accounted(n)
<1>1. CASE (\E e \in Entities : RejectInvoice(e)) \/ CooldownElapses \/ UNCHANGED sapVars
  <2>1. UNCHANGED <<logs, sapCalls>>
    BY <1>1 DEF RejectInvoice, CooldownElapses, sapVars
  <2> QED
    BY <2>1 DEF Accounted
<1>2. ASSUME NEW n \in DOMAIN logs, SapAccepts(n)
      PROVE  \A k \in DOMAIN logs' : Accounted(k)
  <2>1. logs' = [logs EXCEPT ![n].post = "taken"] /\ UNCHANGED sapCalls
    BY <1>2 DEF SapAccepts
  <2> QED
    BY <2>1, CountsOneRow DEF Accounted
<1>3. ASSUME NEW S \in SUBSET DOMAIN logs, ResetDeadLetters(S)
      PROVE  \A k \in DOMAIN logs' : Accounted(k)
  <2>0. logs \in Seq(LogRow) /\ 0 < MaxRetries
    BY SapAssumption DEF INInv, INTypeOK
  <2> SUFFICES ASSUME NEW k \in DOMAIN logs' PROVE Accounted(k)
    OBVIOUS
  <2>1. k \in DOMAIN logs /\ UNCHANGED sapCalls
    BY <1>3 DEF ResetDeadLetters
  <2>2. CASE k \in S
    <3>1. logs[k] \in LogRow
      BY <2>0, <2>1
    <3>2. logs'[k] = [logs[k] EXCEPT !.status = "retrying", !.retries = 0, !.timed = TRUE]
      BY <1>3, <2>1, <2>2 DEF ResetDeadLetters
    <3>3. logs'[k].retries = 0
      BY <3>1, <3>2 DEF LogRow
    <3> QED
      BY <2>0, <3>3 DEF Accounted
  <2>3. CASE k \notin S
    <3>1. logs'[k] = logs[k]
      BY <1>3, <2>1, <2>3 DEF ResetDeadLetters
    <3> QED
      BY <2>1, <3>1 DEF Accounted
  <2> QED
    BY <2>2, <2>3
<1>4. CASE INCrash
  <2>1. UNCHANGED logs /\ sapCalls' = [p \in SapProcs |-> IdleCall]
    BY <1>4 DEF INCrash
  <2>2. \A n : Raising(n, sapCalls') = {}
    BY <2>1 DEF Raising, IdleCall
  <2> QED
    BY <2>1, <2>2 DEF Accounted
<1> QED
  BY <1>1, <1>2, <1>3, <1>4

LEMMA CountsStep ==
    ASSUME INInv, INInv', CountsFit(logs, sapCalls), INNext \/ UNCHANGED sapVars
    PROVE  CountsFit(logs', sapCalls')
<1>1. ASSUME NEW p \in SapProcs, SapCallStep(p) \/ ConfirmFails(p) \/ StatementFails(p) \/ CallFails(p)
      PROVE  \A n \in DOMAIN logs' : Accounted(n)
  <2>1. CASE PushStep(p)
    BY <2>1, UntouchedSteps, CreateSyncLogCounts DEF PushStep
  <2>2. CASE RetryStep(p)
    BY <2>2, UntouchedSteps, RaisingSteps, NextEntryCounts, PlanRetryCounts DEF RetryStep
  <2>3. CASE ConfirmFails(p) \/ StatementFails(p) \/ CallFails(p)
    BY <2>3, UntouchedSteps
  <2> QED
    BY <1>1, <2>1, <2>2, <2>3 DEF SapCallStep
<1>2. ASSUME NEW p \in Pushers,
             \/ \E e \in Entities : StartPush(p, e) \/ ApproveInvoice(p, e)
             \/ \E n \in DOMAIN logs : StartRetry(p, n)
      PROVE  \A n \in DOMAIN logs' : Accounted(n)
  BY <1>2, UntouchedSteps, StartRetryCounts DEF SapProcs
<1>3. ASSUME NEW p \in Queuers, StartProcessing(p)
      PROVE  \A n \in DOMAIN logs' : Accounted(n)
  BY <1>3, UntouchedSteps DEF SapProcs
<1>4. \A n \in DOMAIN logs' : Accounted(n)
  BY <1>1, <1>2, <1>3, OutsideCounts DEF INNext
<1>5. INTypeOK'
  BY DEF INInv
<1> QED
  BY <1>4, <1>5, CountsStay

(***************************************************************************)
(* The limit of retries is overshot by fewer than there are concurrent     *)
(* requests: each raises a count at most once after having read it.        *)
(***************************************************************************)
THEOREM RetriesBoundedHolds == INSpec => []RetriesBounded
<1>1. INInit => CountsFit(logs, sapCalls)
  BY DEF INInit, CountsFit
<1>2. INInv /\ INInv' /\ CountsFit(logs, sapCalls) /\ [INNext]_sapVars
        => CountsFit(logs, sapCalls)'
  BY CountsStep DEF CountsFit, Raising
<1>3. INInv /\ CountsFit(logs, sapCalls) => RetriesBounded
  <2> SUFFICES ASSUME INInv, CountsFit(logs, sapCalls), NEW n \in DOMAIN logs
               PROVE  logs[n].retries < MaxRetries + Cardinality(SapProcs)
    BY DEF RetriesBounded
  <2>1. logs \in Seq(LogRow)
    BY DEF INInv, INTypeOK
  <2>2. logs[n].retries \in Nat
    <3>1. logs[n] \in LogRow
      BY <2>1
    <3> QED
      BY <3>1 DEF LogRow
  <2>3. /\ Cardinality(Raising(n, sapCalls)) \in Nat /\ Cardinality(SapProcs) \in Nat
        /\ MaxRetries \in Nat
    BY RaisingFinite, SapAssumption
  <2> QED
    BY <2>2, <2>3 DEF CountsFit
<1> QED
  BY <1>1, <1>2, <1>3, INInvariant, PTL DEF INSpec

-----------------------------------------------------------------------------
(* Rows are served: what a step of p owes to the rows.                     *)

Serves(p) ==
    /\ \A q \in SapProcs : q # p => sapCalls'[q] = sapCalls[q]
    /\ \A n \in DOMAIN logs' : Unsettled(n)' =>
          \/ AtWork(sapCalls'[p], n)
          \/ n \in DOMAIN logs /\ Unsettled(n) /\ ~AtWork(sapCalls[p], n)

LEMMA ServesStep ==
    ASSUME RowsAreServed, NEW p \in SapProcs, Serves(p)
    PROVE  RowsAreServed'
<1> SUFFICES ASSUME NEW n \in DOMAIN logs', Unsettled(n)'
             PROVE  \E q \in SapProcs : AtWork(sapCalls'[q], n)
  BY DEF RowsAreServed, AtWork
<1>1. CASE AtWork(sapCalls'[p], n)
  BY <1>1
<1>2. CASE n \in DOMAIN logs /\ Unsettled(n) /\ ~AtWork(sapCalls[p], n)
  <2>1. PICK q \in SapProcs : AtWork(sapCalls[q], n)
    BY <1>2 DEF RowsAreServed
  <2>2. sapCalls'[q] = sapCalls[q]
    BY <1>2, <2>1 DEF Serves
  <2> QED
    BY <2>1, <2>2
<1> QED
  BY <1>1, <1>2 DEF Serves

\* A request that serves a row at the one statement serves it at the other.
GoesOn(x, y) ==
    /\ x \in PushPC \ {"read", "log"} => y \in PushPC \ {"read", "log"}
    /\ x \in PushPC \cup {"settle", "confirm", "plan", "delay", "bury"} =>
         y \in PushPC \cup {"settle", "confirm", "plan", "delay", "bury"}

LEMMA GotoWorks ==
    ASSUME INInv, NEW p \in SapProcs, sapCalls[p].pc # "idle", NEW x \in SapPC, Goto(p, x)
    PROVE  /\ sapCalls'[p].pc = x
           /\ sapCalls'[p].log = sapCalls[p].log /\ sapCalls'[p].entry = sapCalls[p].entry
           /\ \A q \in SapProcs : q # p => sapCalls'[q] = sapCalls[q]
<1>1. PICK c \in SapCall : Moves(p, c) /\ Follows(c, sapCalls[p], x)
  BY GotoCall
<1>2. sapCalls \in Calls
  BY DEF INInv, INTypeOK, Calls
<1> QED
  BY <1>1, <1>2 DEF Moves, Follows, Calls

\* The rows whose status no statement of the step writes.
SameStatus(n) ==
    n \in DOMAIN logs /\ logs'[n].status = logs[n].status /\ logs'[n].timed = logs[n].timed

LEMMA StatusStays ==
    ASSUME INInv, NEW m \in DOMAIN logs, NEW v,
           logs' = [logs EXCEPT ![m].post = v] \/ logs' = [logs EXCEPT ![m].document = v]
    PROVE  DOMAIN logs' = DOMAIN logs /\ \A n \in DOMAIN logs : SameStatus(n)
<1>0. logs \in Seq(LogRow) /\ logs[m] \in LogRow
  BY DEF INInv, INTypeOK
<1>1. /\ [logs[m] EXCEPT !.post = v].status = logs[m].status
      /\ [logs[m] EXCEPT !.post = v].timed = logs[m].timed
      /\ [logs[m] EXCEPT !.document = v].status = logs[m].status
      /\ [logs[m] EXCEPT !.document = v].timed = logs[m].timed
  BY <1>0 DEF LogRow
<1> QED
  BY <1>0, <1>1 DEF SameStatus

LEMMA StatusWritten ==
    ASSUME INInv, NEW m \in DOMAIN logs, NEW v, logs' = [logs EXCEPT ![m].status = v]
    PROVE  /\ DOMAIN logs' = DOMAIN logs
           /\ logs'[m].status = v
           /\ \A n \in DOMAIN logs : n # m => SameStatus(n)
<1>0. logs \in Seq(LogRow) /\ logs[m] \in LogRow
  BY DEF INInv, INTypeOK
<1>1. [logs[m] EXCEPT !.status = v].status = v
  BY <1>0 DEF LogRow
<1> QED
  BY <1>0, <1>1 DEF SameStatus

LEMMA Unwritten ==
    ASSUME NEW n, SameStatus(n), Unsettled(n)'
    PROVE  Unsettled(n)
BY DEF SameStatus, Unsettled

\* A request goes on, and writes no status.
LEMMA GotoServes ==
    ASSUME INInv, NEW p \in SapProcs, sapCalls[p].pc # "idle", NEW x \in SapPC, Goto(p, x),
           GoesOn(sapCalls[p].pc, x),
           DOMAIN logs' = DOMAIN logs, \A n \in DOMAIN logs : SameStatus(n)
    PROVE  Serves(p)
<1>1. /\ sapCalls'[p].pc = x
      /\ sapCalls'[p].log = sapCalls[p].log /\ sapCalls'[p].entry = sapCalls[p].entry
      /\ \A q \in SapProcs : q # p => sapCalls'[q] = sapCalls[q]
  BY GotoWorks
<1>2. \A n : AtWork(sapCalls[p], n) => AtWork(sapCalls'[p], n)
  BY <1>1 DEF AtWork, GoesOn
<1> QED
  BY <1>1, <1>2, Unwritten DEF Serves

LEMMA GoingOnServes ==
    ASSUME INInv, NEW p \in SapProcs,
           \/ SapRequest(p) \/ ResponseOk(p) \/ ResponseError(p) \/ NoResponse(p)
           \/ MarkEntity(p) \/ RecordSAPDocument(p) \/ PlanRetry(p)
           \/ ConfirmFails(p) \/ StatementFails(p)
    PROVE  Serves(p)
<1> DEFINE d == sapCalls[p]
           Quiet == DOMAIN logs' = DOMAIN logs /\ \A n \in DOMAIN logs : SameStatus(n)
<1>1. UNCHANGED logs => Quiet
  BY DEF SameStatus
<1>2. CASE \/ SapRequest(p) \/ ResponseOk(p) \/ ResponseError(p) \/ NoResponse(p)
           \/ MarkEntity(p) \/ RecordSAPDocument(p) \/ StatementFails(p)
  <2>1. d.pc \in LogPC
    BY <1>2 DEF SapRequest, ResponseOk, ResponseError, NoResponse, MarkEntity, RecordSAPDocument,
                StatementFails, Tried, At, LogPC
  <2>2. /\ \/ UNCHANGED logs
           \/ \E v : logs' = [logs EXCEPT ![d.log].post = v]
           \/ \E v : logs' = [logs EXCEPT ![d.log].document = v]
        /\ \E x \in {"wait", "fail", "mark", "document", "refusal", "undo", "complete"} : Goto(p, x)
    BY <1>2 DEF SapRequest, ResponseOk, ResponseError, NoResponse, MarkEntity, RecordSAPDocument,
                StatementFails
  <2>3. Quiet
    BY <1>1, <2>1, <2>2, RowOfCall, StatusStays
  <2>4. PICK x \in {"wait", "fail", "mark", "document", "refusal", "undo", "complete"} : Goto(p, x)
    BY <2>2
  <2>5. d.pc # "idle" /\ x \in SapPC /\ GoesOn(d.pc, x)
    BY <2>1 DEF GoesOn, LogPC, SapPC, PushPC
  <2> QED
    BY <2>3, <2>4, <2>5, GotoServes
<1>3. CASE PlanRetry(p) \/ ConfirmFails(p)
  <2>1. /\ d.pc \in {"plan", "confirm"} /\ UNCHANGED logs
        /\ \E x \in {"bury", "delay", "plan"} : Goto(p, x)
    BY <1>3 DEF PlanRetry, ConfirmFails, At
  <2>2. PICK x \in {"bury", "delay", "plan"} : Goto(p, x)
    BY <2>1
  <2>3. d.pc # "idle" /\ x \in SapPC /\ GoesOn(d.pc, x)
    BY <2>1 DEF GoesOn, SapPC, PushPC, QueuePC
  <2> QED
    BY <1>1, <2>1, <2>2, <2>3, GotoServes
<1> QED
  BY <1>2, <1>3

\* A push that answers leaves its own row; the row it retries waits for the answer.
LEMMA AnswerWorks ==
    ASSUME INInv, NEW p \in SapProcs, sapCalls[p].pc \in LogPC \cup {"read"},
           NEW ok, Answer(p, ok)
    PROVE  /\ \A q \in SapProcs : q # p => sapCalls'[q] = sapCalls[q]
           /\ \A n \in DOMAIN logs : AtWork(sapCalls[p], n) =>
                 \/ sapCalls[p].pc \in LogPC /\ n = sapCalls[p].log
                 \/ AtWork(sapCalls'[p], n)
<1>0. sapCalls \in Calls /\ sapCalls[p] \in SapCall /\ 0 \notin DOMAIN logs
  BY InFlight DEF INInv, INTypeOK, Calls, LogPC
<1>1. \A n : AtWork(sapCalls[p], n) => (sapCalls[p].pc \in LogPC /\ n = sapCalls[p].log) \/ n = sapCalls[p].entry
  BY DEF AtWork, LogPC, PushPC
<1>2. CASE sapCalls[p].entry = 0
  BY <1>0, <1>1, <1>2 DEF Answer, Stop, Calls
<1>3. CASE sapCalls[p].entry # 0
  <2>1. sapCalls' = [sapCalls EXCEPT ![p] = [sapCalls[p] EXCEPT !.pc = "settle", !.ok = ok]]
    BY <1>3 DEF Answer
  <2>2. /\ [sapCalls[p] EXCEPT !.pc = "settle", !.ok = ok].pc = "settle"
        /\ [sapCalls[p] EXCEPT !.pc = "settle", !.ok = ok].entry = sapCalls[p].entry
    BY <1>0 DEF SapCall
  <2>3. /\ sapCalls'[p].pc = "settle" /\ sapCalls'[p].entry = sapCalls[p].entry
        /\ \A q \in SapProcs : q # p => sapCalls'[q] = sapCalls[q]
    BY <1>0, <2>1, <2>2 DEF Calls
  <2> QED
    BY <1>1, <2>3 DEF AtWork
<1> QED
  BY <1>2, <1>3

LEMMA AnsweringServes ==
    ASSUME INInv, NEW p \in SapProcs, ReadEntity(p) \/ CompleteSyncLog(p)
    PROVE  Serves(p)
<1> DEFINE d == sapCalls[p]
<1>1. CASE ReadEntity(p)
  <2>1. d.pc = "read" /\ UNCHANGED logs /\ (Goto(p, "log") \/ Answer(p, FALSE))
    BY <1>1 DEF ReadEntity, At
  <2>2. \A n \in DOMAIN logs : SameStatus(n)
    BY <2>1 DEF SameStatus
  <2>3. CASE Goto(p, "log")
    <3>1. GoesOn(d.pc, "log") /\ "log" \in SapPC
      BY <2>1 DEF GoesOn, PushPC, SapPC
    <3> QED
      BY <2>1, <2>2, <2>3, <3>1, GotoServes
  <2>4. CASE Answer(p, FALSE)
    BY <2>1, <2>2, <2>4, AnswerWorks, Unwritten DEF Serves, LogPC
  <2> QED
    BY <2>1, <2>3, <2>4
<1>2. CASE CompleteSyncLog(p)
  <2>1. d.pc \in LogPC /\ Answer(p, At(p, "complete"))
    BY <1>2 DEF CompleteSyncLog, LogPC
  <2>2. PICK v \in {"success", "failed"} : logs' = [logs EXCEPT ![d.log].status = v]
    BY <1>2 DEF CompleteSyncLog
  <2>3. PICK m \in DOMAIN logs : m = d.log
    BY <2>1, RowOfCall
  <2>4. /\ DOMAIN logs' = DOMAIN logs /\ logs'[m].status = v
        /\ \A n \in DOMAIN logs : n # m => SameStatus(n)
    BY <2>2, <2>3, StatusWritten
  <2>5. ~Unsettled(m)'
    BY <2>4 DEF Unsettled
  <2> QED
    BY <2>1, <2>3, <2>4, <2>5, AnswerWorks, Unwritten DEF Serves
<1> QED
  BY <1>1, <1>2

\* The row of a push is served from its INSERT on.
LEMMA CreateSyncLogServes ==
    ASSUME INInv, NEW p \in SapProcs, CreateSyncLog(p)
    PROVE  Serves(p)
<1> DEFINE r == [ent |-> sapCalls[p].ent, status |-> "in_progress", retries |-> 0,
                 timed |-> FALSE, post |-> "none", document |-> "none"]
           c == [sapCalls[p] EXCEPT !.pc = "send", !.log = Len(logs) + 1]
<1>1. /\ sapCalls[p].pc = "log" /\ logs' = Append(logs, r)
      /\ sapCalls' = [sapCalls EXCEPT ![p] = c]
  BY DEF CreateSyncLog, At
<1>2. sapCalls \in Calls /\ sapCalls[p] \in SapCall /\ logs \in Seq(LogRow)
  BY <1>1, InFlight DEF INInv, INTypeOK, Calls
<1>3. c.pc = "send" /\ c.log = Len(logs) + 1 /\ c.entry = sapCalls[p].entry
  BY <1>2 DEF SapCall
<1> HIDE DEF r, c
<1>4. sapCalls'[p] = c /\ \A q \in SapProcs : q # p => sapCalls'[q] = sapCalls[q]
  BY <1>1, <1>2 DEF Calls
<1>5. \A n \in DOMAIN logs' : n = Len(logs) + 1 \/ (n \in DOMAIN logs /\ logs'[n] = logs[n])
  BY <1>1, <1>2
<1>6. AtWork(c, Len(logs) + 1)
  BY <1>3 DEF AtWork, PushPC
<1>7. \A n : AtWork(sapCalls[p], n) => AtWork(c, n)
  BY <1>1, <1>3 DEF AtWork, PushPC
<1> QED
  BY <1>4, <1>5, <1>6, <1>7, Unwritten DEF Serves, SameStatus

\* A retry takes its row, and settles it.
LEMMA RetryServes ==
    ASSUME INInv, NEW p \in SapProcs, HoldEntry(p) \/ SettleEntry(p) \/ TakeEntry(p)
    PROVE  Serves(p)
<1>p. sapCalls[p].pc \in {"hold", "settle", "take"} /\ sapCalls[p].entry \in DOMAIN logs
  <2>1. sapCalls[p].pc \in {"hold", "settle", "take"}
    BY DEF HoldEntry, SettleEntry, TakeEntry, At
  <2> QED
    BY <2>1, RowOfCall DEF EntryPC
<1>m. PICK m \in DOMAIN logs : m = sapCalls[p].entry
  BY <1>p
<1>0. logs \in Seq(LogRow) /\ logs[m] \in LogRow /\ sapCalls \in Calls
  BY DEF INInv, INTypeOK, Calls
<1>1. DOMAIN logs' = DOMAIN logs /\ \A n \in DOMAIN logs : n # m => SameStatus(n)
  BY <1>m, <1>0 DEF HoldEntry, SettleEntry, TakeEntry, SameStatus
<1>2. \A n : AtWork(sapCalls[p], n) => n = m
  BY <1>p, <1>m DEF AtWork, PushPC
<1>3. CASE HoldEntry(p) \/ TakeEntry(p)
  <2>1. PICK x \in {"read", "confirm"} : Goto(p, x)
    BY <1>3 DEF HoldEntry, TakeEntry
  <2>2. sapCalls[p].pc # "idle" /\ x \in SapPC
    BY <1>p DEF SapPC, PushPC, QueuePC
  <2>3. /\ sapCalls'[p].pc = x /\ sapCalls'[p].entry = m
        /\ \A q \in SapProcs : q # p => sapCalls'[q] = sapCalls[q]
    BY <1>m, <2>1, <2>2, GotoWorks
  <2>4. AtWork(sapCalls'[p], m)
    BY <2>3 DEF AtWork, PushPC
  <2> QED
    BY <1>1, <1>2, <2>3, <2>4, Unwritten DEF Serves
<1>4. CASE SettleEntry(p)
  <2>1. PICK v \in {"success", "failed"} : logs' = [logs EXCEPT ![m].status = v]
    BY <1>m, <1>4 DEF SettleEntry
  <2>2. logs'[m].status = v
    BY <1>0, <2>1, StatusWritten
  <2>3. ~Unsettled(m)'
    BY <2>2 DEF Unsettled
  <2>4. \A q \in SapProcs : q # p => sapCalls'[q] = sapCalls[q]
    BY <1>0, <1>4 DEF SettleEntry, Stop, Calls
  <2> QED
    BY <1>1, <1>2, <2>3, <2>4, Unwritten DEF Serves
<1> QED
  BY <1>3, <1>4

\* The retry queue closes its row, or gives it back with a time.
LEMMA QueueServes ==
    ASSUME INInv, NEW p \in SapProcs, ConfirmEntry(p) \/ ScheduleRetry(p)
    PROVE  Serves(p)
<1>p. sapCalls[p].pc \in {"confirm", "bury", "delay"} /\ sapCalls[p].entry \in DOMAIN logs
  <2>1. sapCalls[p].pc \in {"confirm", "bury", "delay"}
    BY DEF ConfirmEntry, ScheduleRetry, At
  <2> QED
    BY <2>1, RowOfCall DEF EntryPC
<1>m. PICK m \in DOMAIN logs : m = sapCalls[p].entry
  BY <1>p
<1>0. logs \in Seq(LogRow) /\ logs[m] \in LogRow /\ sapCalls \in Calls
  BY DEF INInv, INTypeOK, Calls
<1>1. DOMAIN logs' = DOMAIN logs /\ \A n \in DOMAIN logs : n # m => SameStatus(n)
  BY <1>m, <1>0 DEF ConfirmEntry, ScheduleRetry, SameStatus
<1>2. \A n : AtWork(sapCalls[p], n) => n = m
  BY <1>p, <1>m DEF AtWork, PushPC
<1>3. \A q \in SapProcs : q # p => sapCalls'[q] = sapCalls[q]
  BY <1>0 DEF ConfirmEntry, ScheduleRetry, GoOn, Calls
<1>4. ~Unsettled(m)'
  <2>1. CASE \E v \in {"queue_success", "failed"} : logs' = [logs EXCEPT ![m].status = v]
    BY <1>0, <2>1, StatusWritten DEF Unsettled
  <2>2. CASE logs' = [logs EXCEPT ![m] = [logs[m] EXCEPT !.status = "retrying", !.retries = @ + 1,
                                                         !.timed = TRUE]]
    <3>1. LET r == [logs[m] EXCEPT !.status = "retrying", !.retries = @ + 1, !.timed = TRUE]
          IN  r.status = "retrying" /\ r.timed = TRUE
      BY <1>0 DEF LogRow
    <3> QED
      BY <1>0, <2>2, <3>1 DEF Unsettled
  <2> QED
    BY <1>m, <2>1, <2>2 DEF ConfirmEntry, ScheduleRetry
<1> QED
  BY <1>1, <1>2, <1>3, <1>4, Unwritten DEF Serves

\* Requests that start, and the queue between two rows, serve none.
LEMMA StartsServe ==
    ASSUME INInv, NEW p \in SapProcs,
           \/ \E e \in Entities : StartPush(p, e) \/ ApproveInvoice(p, e)
           \/ \E n \in DOMAIN logs : StartRetry(p, n)
           \/ StartProcessing(p)
           \/ NextEntry(p)
    PROVE  Serves(p)
<1>1. sapCalls[p].pc \in {"idle", "next"} /\ UNCHANGED logs
  BY DEF StartPush, ApproveInvoice, StartRetry, StartProcessing, NextEntry, Begin, At
<1>2. \A n : ~AtWork(sapCalls[p], n)
  BY <1>1 DEF AtWork, PushPC
<1>3. \E c : sapCalls' = [sapCalls EXCEPT ![p] = c]
  <2>1. CASE NextEntry(p)
    BY <2>1 DEF NextEntry, Stop
  <2>2. CASE ~NextEntry(p)
    BY <2>2 DEF StartPush, ApproveInvoice, StartRetry, StartProcessing, Begin
  <2> QED
    BY <2>1, <2>2
<1>4. \A q \in SapProcs : q # p => sapCalls'[q] = sapCalls[q]
  BY <1>3 DEF INInv, INTypeOK
<1> QED
  BY <1>1, <1>2, <1>4, Unwritten DEF Serves, SameStatus

LEMMA OutsideServes ==
    ASSUME INInv, RowsAreServed,
           \/ \E e \in Entities : RejectInvoice(e)
           \/ \E n \in DOMAIN logs : SapAccepts(n)
           \/ \E S \in SUBSET DOMAIN logs : ResetDeadLetters(S)
           \/ CooldownElapses
           \/ UNCHANGED sapVars
    PROVE  RowsAreServed'
<1>0. logs \in Seq(LogRow)
  BY DEF INInv, INTypeOK
<1>1. UNCHANGED sapCalls
  BY DEF RejectInvoice, SapAccepts, ResetDeadLetters, CooldownElapses, sapVars
<1>2. DOMAIN logs' = DOMAIN logs /\ \A n \in DOMAIN logs : SameStatus(n) \/ ~Unsettled(n)'
  <2>1. CASE UNCHANGED logs
    BY <2>1 DEF SameStatus
  <2>2. ASSUME NEW n \in DOMAIN logs, SapAccepts(n)
        PROVE  DOMAIN logs' = DOMAIN logs /\ \A m \in DOMAIN logs : SameStatus(m)
    BY <2>2, StatusStays DEF SapAccepts
  <2>3. ASSUME NEW S \in SUBSET DOMAIN logs, ResetDeadLetters(S)
        PROVE  /\ DOMAIN logs' = DOMAIN logs
               /\ \A m \in DOMAIN logs : SameStatus(m) \/ ~Unsettled(m)'
    <3>1. DOMAIN logs' = DOMAIN logs
      BY <2>3 DEF ResetDeadLetters
    <3> SUFFICES ASSUME NEW m \in DOMAIN logs PROVE SameStatus(m) \/ ~Unsettled(m)'
      BY <3>1
    <3>2. logs[m] \in LogRow
      BY <1>0
    <3>3. CASE m \in S
      <4>1. logs'[m] = [logs[m] EXCEPT !.status = "retrying", !.retries = 0, !.timed = TRUE]
        BY <2>3, <3>3 DEF ResetDeadLetters
      <4>2. logs'[m].status = "retrying" /\ logs'[m].timed = TRUE
        BY <3>2, <4>1 DEF LogRow
      <4> QED
        BY <4>2 DEF Unsettled
    <3>4. CASE m \notin S
      BY <2>3, <3>4 DEF ResetDeadLetters, SameStatus
    <3> QED
      BY <3>3, <3>4
  <2>4. CASE (\E e \in Entities : RejectInvoice(e)) \/ CooldownElapses \/ UNCHANGED sapVars
    <3>1. UNCHANGED logs
      BY <2>4 DEF RejectInvoice, CooldownElapses, sapVars
    <3> QED
      BY <2>1, <3>1
  <2> QED
    BY <2>2, <2>3, <2>4
<1> QED
  BY <1>1, <1>2, Unwritten DEF RowsAreServed

(***************************************************************************)
(* While the process stays up and no statement fails but in a try block,   *)
(* every row in progress, or held by a retry the queue does not know of,   *)
(* has a request that will write it again, whatever retries, the queue and *)
(* resets do to the same row at once: what LogsSettle needs besides the    *)
(* requests going on.                                                      *)
(***************************************************************************)
THEOREM RowsAreServedHolds ==
    ASSUME ~SapFaults
    PROVE  INSpec => []RowsAreServed
<1>1. INInit => RowsAreServed
  BY DEF INInit, RowsAreServed
<1>2. INInv /\ RowsAreServed /\ [INNext]_sapVars => RowsAreServed'
  <2> SUFFICES ASSUME INInv, RowsAreServed, [INNext]_sapVars
               PROVE  RowsAreServed'
    OBVIOUS
  <2>1. ASSUME NEW p \in SapProcs, SapCallStep(p) \/ ConfirmFails(p) \/ StatementFails(p)
        PROVE  RowsAreServed'
    <3>1. Serves(p)
      BY <2>1, GoingOnServes, AnsweringServes, CreateSyncLogServes, RetryServes, QueueServes,
         StartsServe DEF SapCallStep, PushStep, RetryStep
    <3> QED
      BY <3>1, ServesStep
  <2>2. ASSUME NEW p \in SapProcs,
               \/ \E e \in Entities : StartPush(p, e) \/ ApproveInvoice(p, e)
               \/ \E n \in DOMAIN logs : StartRetry(p, n)
               \/ StartProcessing(p)
        PROVE  RowsAreServed'
    BY <2>2, StartsServe, ServesStep
  <2>3. ~INCrash /\ \A p \in SapProcs : ~CallFails(p)
    BY DEF INCrash, CallFails
  <2> QED
    BY <2>1, <2>2, <2>3, OutsideServes DEF INNext, SapProcs
<1> QED
  BY <1>1, <1>2, INInvariant, PTL DEF INSpec
=============================================================================
