------------------------ MODULE ShoppingEventProofs ------------------------
(***************************************************************************)
(* Proofs about ShoppingEvent, for any sets of cars, calls and types and   *)
(* any bounds.                                                             *)
(***************************************************************************)
EXTENDS ShoppingEvent, CarSideEffectsProofs

EventRow == Row(Cars, Types)

-----------------------------------------------------------------------------
(* What the trigger lets through.                                          *)

(***************************************************************************)
(* The trigger keeps a terminal state, lets DISPO_TO_DESTINATION only end, *)
(* and opens DISPO_TO_DESTINATION only from FINAL_APPROVED.                *)
(***************************************************************************)
LEMMA TriggerFacts ==
    ASSUME NEW from \in States, NEW to \in States, NEW type,
           TriggerAccepts(from, to, type)
    PROVE  /\ from \in Terminal => to = from
           /\ from = "DISPO_TO_DESTINATION" => to \in Unindexed
           /\ to = "DISPO_TO_DESTINATION" => from \in {"FINAL_APPROVED", to}
           /\ to = "CLOSED" /\ from # to => MayClose(from, type)
BY DEF TriggerAccepts, States, ForwardStates, Ordinal, Terminal, Unindexed,
       IsReviewLoop, ForwardAllowed

LEMMA TriggeredType ==
    ASSUME NEW row \in EventRow, NEW to \in States
    PROVE  Triggered(row, to) \in EventRow
<1> DEFINE a == IF to = "FINAL_APPROVED" THEN TRUE ELSE row.approved
<1>1. a \in BOOLEAN
  BY DEF EventRow, Row
<1>2. Triggered(row, to) = [row EXCEPT !.state = to, !.approved = a]
  BY DEF Triggered
<1> HIDE DEF a
<1> QED
  BY <1>1, <1>2 DEF EventRow, Row

-----------------------------------------------------------------------------
(* What a step does to the table.                                          *)

\* The three UPDATEs of the service, as relations between old and new row.
Moved(old, new) ==
    \E to \in States \ {"DISPO_TO_DESTINATION"} :
        TriggerAccepts(old.state, to, old.type) /\ new = Triggered(old, to)
DisposedTo(old, new) ==
    \E d \in Dispositions, ref \in Nat :
        /\ TriggerAccepts(old.state, "DISPO_TO_DESTINATION", old.type)
        /\ new = Triggered([old EXCEPT !.dispo = d, !.next = ref, !.chained = FALSE],
                           "DISPO_TO_DESTINATION")
Linked(old, new) == \E k \in Nat : new = [old EXCEPT !.next = k, !.chained = TRUE]
RowStep(old, new) == Moved(old, new) \/ DisposedTo(old, new) \/ Linked(old, new)

\* What the inductive invariants say of one row.
ApprovedRow(r) ==
    r.dispo # Null \/ r.state \in {"FINAL_APPROVED", "DISPO_TO_DESTINATION", "CLOSED"}
    => r.approved
DisposedRow(r) ==
    \/ r.state = "DISPO_TO_DESTINATION"
    \/ r.state = "CLOSED" /\ TypeForbidsShortcut(r.type)
    => r.dispo # Null

LEMMA MovedFacts ==
    ASSUME NEW old \in EventRow, NEW new, Moved(old, new)
    PROVE  /\ new \in EventRow
           /\ new.car = old.car
           /\ old.state \in Terminal => new = old
           /\ old.state = "DISPO_TO_DESTINATION" => new.state \in Unindexed
           /\ ApprovedRow(old) => ApprovedRow(new)
           /\ DisposedRow(old) => DisposedRow(new)
<1>1. PICK to \in States \ {"DISPO_TO_DESTINATION"} :
        TriggerAccepts(old.state, to, old.type) /\ new = Triggered(old, to)
  BY DEF Moved
<1>2. old.state \in States
  BY DEF EventRow, Row
<1>3. /\ new \in EventRow
      /\ new.car = old.car /\ new.type = old.type /\ new.dispo = old.dispo
      /\ new.state = to
      /\ to = "FINAL_APPROVED" => new.approved
      /\ old.approved => new.approved
  <2>1. new \in EventRow
    BY <1>1, TriggeredType
  <2> QED
    BY <2>1, <1>1 DEF EventRow, Row, Triggered
<1>4. /\ old.state \in Terminal => to = old.state
      /\ old.state = "DISPO_TO_DESTINATION" => to \in Unindexed
      /\ to = "CLOSED" /\ old.state # to => MayClose(old.state, old.type)
  BY <1>1, <1>2, TriggerFacts
<1>5. old.state \in Terminal => new = old
  BY <1>1, <1>4 DEF Terminal, EventRow, Row, Triggered
<1>6. ApprovedRow(old) => ApprovedRow(new)
  BY <1>1, <1>2, <1>3, <1>4 DEF ApprovedRow, MayClose
<1>7. DisposedRow(old) => DisposedRow(new)
  BY <1>1, <1>2, <1>3, <1>4 DEF DisposedRow, MayClose
<1> QED
  BY <1>3, <1>4, <1>5, <1>6, <1>7

LEMMA DisposedFacts ==
    ASSUME NEW old \in EventRow, NEW new, DisposedTo(old, new)
    PROVE  /\ new \in EventRow
           /\ new.car = old.car
           /\ old.state \notin Terminal
           /\ new.state = "DISPO_TO_DESTINATION"
           /\ ~new.chained
           /\ old.approved => new.approved
           /\ ApprovedRow(old) => ApprovedRow(new)
           /\ DisposedRow(new)
<1> DEFINE to == "DISPO_TO_DESTINATION"
<1>1. PICK d \in Dispositions, ref \in Nat :
        /\ TriggerAccepts(old.state, to, old.type)
        /\ new = Triggered([old EXCEPT !.dispo = d, !.next = ref, !.chained = FALSE], to)
  BY DEF DisposedTo
<1> DEFINE mid == [old EXCEPT !.dispo = d, !.next = ref, !.chained = FALSE]
<1>2. /\ mid \in EventRow
      /\ mid.car = old.car
      /\ mid.approved = old.approved
      /\ mid.dispo = d
      /\ ~mid.chained
  BY DEF EventRow, Row
<1>3. to \in States /\ old.state \in States
  BY DEF EventRow, Row, States, ForwardStates, Ordinal
<1>4. old.state \in {"FINAL_APPROVED", to} /\ old.state \notin Terminal
  BY <1>1, <1>3, TriggerFacts DEF Terminal
<1> HIDE DEF mid
<1>5. new \in EventRow
  BY <1>1, <1>2, <1>3, TriggeredType DEF mid
<1>6. /\ new.car = mid.car
      /\ new.state = to
      /\ new.dispo = mid.dispo
      /\ new.chained = mid.chained
      /\ mid.approved => new.approved
  BY <1>1, <1>2 DEF mid, EventRow, Row, Triggered
<1>7. ApprovedRow(old) => ApprovedRow(new)
  BY <1>2, <1>4, <1>6 DEF ApprovedRow
<1>8. DisposedRow(new)
  BY <1>2, <1>6 DEF DisposedRow, Dispositions, Null
<1> QED
  BY <1>2, <1>4, <1>5, <1>6, <1>7, <1>8

LEMMA LinkedFacts ==
    ASSUME NEW old \in EventRow, NEW new, Linked(old, new)
    PROVE  /\ new \in EventRow
           /\ new.car = old.car
           /\ new.state = old.state
           /\ new = [old EXCEPT !.next = new.next, !.chained = new.chained]
           /\ ApprovedRow(old) => ApprovedRow(new)
           /\ DisposedRow(old) => DisposedRow(new)
BY DEF Linked, EventRow, Row, ApprovedRow, DisposedRow

(***************************************************************************)
(* What every UPDATE keeps: the car, an end state, the rule that a car on  *)
(* its way to its destination only leaves that state for an end state.     *)
(***************************************************************************)
LEMMA RowStepFacts ==
    ASSUME NEW old \in EventRow, NEW new, RowStep(old, new)
    PROVE  /\ new \in EventRow
           /\ new.car = old.car
           /\ old.state \in Terminal => new = [old EXCEPT !.next = new.next, !.chained = new.chained]
           /\ old.state = "DISPO_TO_DESTINATION" => new.state \in Unindexed
           /\ ApprovedRow(old) => ApprovedRow(new)
           /\ DisposedRow(old) => DisposedRow(new)
<1>1. CASE Moved(old, new)
  <2>1. old = [old EXCEPT !.next = old.next, !.chained = old.chained]
    BY DEF EventRow, Row
  <2> QED
    BY <2>1, <1>1, MovedFacts
<1>2. CASE DisposedTo(old, new)
  BY <1>2, DisposedFacts DEF Unindexed
<1>3. CASE Linked(old, new)
  BY <1>3, LinkedFacts DEF Unindexed
<1> QED
  BY <1>1, <1>2, <1>3 DEF RowStep

\* The three ways a step of the whole system may touch the table.
Inserted ==
    \E c \in Cars, ty \in Types :
        (\A n \in Of(c) : ~InIndex(n)) /\ events' = Append(events, NewRow(c, ty))
Updated ==
    \E n \in DOMAIN events : \E row :
        events' = [events EXCEPT ![n] = row] /\ RowStep(events[n], row)

LEMMA EventsStep ==
    SETypeOK /\ SENext => Inserted \/ Updated \/ UNCHANGED events
<1> SUFFICES ASSUME SETypeOK, SENext
             PROVE  Inserted \/ Updated \/ UNCHANGED events
  OBVIOUS
<1>1. \A p \in Procs : creator[p].pc # "none" => creator[p] \in Creator
  BY DEF SETypeOK, NoCall
<1>2. \A n \in DOMAIN events : events[n] \in EventRow
  BY DEF SETypeOK, EventRow
<1>3. ASSUME NEW p \in Procs, InsertEvent(p)
      PROVE  Inserted \/ UNCHANGED events
  <2>1. creator[p].car \in Cars /\ creator[p].type \in Types
    BY <1>1, <1>3 DEF InsertEvent, Creator
  <2> QED
    BY <2>1, <1>3 DEF InsertEvent, Occupied, Inserted
<1>4. ASSUME NEW p \in Procs, LinkChain(p)
      PROVE  Updated \/ UNCHANGED events
  <2> DEFINE prev == creator[p].prev
             id == creator[p].id
  <2>1. id \in Nat
    BY <1>1, <1>4 DEF LinkChain, Creator
  <2>2. events' = [events EXCEPT ![prev] = [events[prev] EXCEPT !.next = id, !.chained = TRUE]]
    BY <1>1, <1>4, LenProperties DEF LinkChain, SETypeOK, EventRow, Row
  <2>3. CASE prev \in DOMAIN events
    <3>1. Linked(events[prev], [events[prev] EXCEPT !.next = id, !.chained = TRUE])
      BY <2>1 DEF Linked
    <3> QED
      BY <2>2, <2>3, <3>1 DEF Updated, RowStep
  <2>4. CASE prev \notin DOMAIN events
    BY <2>2, <2>4, LenProperties DEF SETypeOK
  <2> QED
    BY <2>3, <2>4
<1>5. ASSUME NEW n \in DOMAIN events, NEW to \in RequestedStates, Transition(n, to)
      PROVE  Updated
  <2>1. to \in States \ {"DISPO_TO_DESTINATION"}
    BY <1>5, ShoppingEventAssumption DEF Transition
  <2>2. /\ TriggerAccepts(events[n].state, to, events[n].type)
        /\ events' = [events EXCEPT ![n] = Triggered(events[n], to)]
    BY <1>5 DEF Transition, Update
  <2>3. Moved(events[n], Triggered(events[n], to))
    BY <2>1, <2>2 DEF Moved
  <2> QED
    BY <2>2, <2>3 DEF Updated, RowStep
<1>6. ASSUME NEW n \in DOMAIN events, NEW d \in Dispositions, NEW ref \in References,
             Dispose(n, d, ref)
      PROVE  Updated
  <2> DEFINE to == "DISPO_TO_DESTINATION"
             mid == [events[n] EXCEPT !.dispo = d, !.next = ref, !.chained = FALSE]
  <2>1. mid.state = events[n].state /\ mid.type = events[n].type /\ ref \in Nat
    BY <1>2, ShoppingEventAssumption DEF EventRow, Row, References
  <2>2. /\ TriggerAccepts(mid.state, to, mid.type)
        /\ events' = [events EXCEPT ![n] = Triggered(mid, to)]
    BY <1>6 DEF Dispose, Update
  <2>3. TriggerAccepts(events[n].state, to, events[n].type)
    BY <2>1, <2>2
  <2>4. DisposedTo(events[n], Triggered(mid, to))
    BY <2>1, <2>3 DEF DisposedTo
  <2> HIDE DEF mid
  <2> QED
    BY <2>2, <2>4 DEF Updated, RowStep
<1>7. ASSUME NEW p \in Procs, NEW n \in DOMAIN events, NEW ty, NEW ref \in References,
             SetDispositionChain(p, n, ty, ref)
      PROVE  Updated
  BY <1>6, <1>7 DEF SetDispositionChain, Dispositions
<1>8. ASSUME NEW n \in DOMAIN events, NEW d \in RequestedDispos,
             NEW ref \in References, SetDisposition(n, d, ref)
      PROVE  Updated
  BY <1>6, <1>8, ShoppingEventAssumption DEF SetDisposition
<1>9. ASSUME NEW p \in Procs, StartChained(p) \/ FindTriage(p)
      PROVE  UNCHANGED events
  BY <1>9 DEF StartChained, FindTriage
<1>10. ASSUME NEW p \in Procs, NEW c \in Cars, NEW ty \in Types, StartCreate(p, c, ty)
       PROVE  UNCHANGED events
  BY <1>10 DEF StartCreate
<1>11. ASSUME NEW c \in Cars, ScrapCompletes(c)
       PROVE  UNCHANGED events
  BY <1>11 DEF ScrapCompletes
<1>12. SideStep \/ Crash => UNCHANGED events
  BY DEF SideStep, Crash
<1> QED
  BY <1>3, <1>4, <1>5, <1>7, <1>8, <1>9, <1>10, <1>11, <1>12 DEF SENext, SEStep, CreatorStep

LEMMA NewRowType ==
    ASSUME NEW c \in Cars, NEW ty \in Types
    PROVE  NewRow(c, ty) \in EventRow
BY DEF NewRow, EventRow, Row, States, ForwardStates, Ordinal

LEMMA EventsTypes ==
    ASSUME SETypeOK, Inserted \/ Updated \/ UNCHANGED events
    PROVE  events' \in Seq(EventRow)
<1> USE DEF SETypeOK, EventRow
<1>1. CASE Inserted
  BY <1>1, NewRowType, AppendProperties DEF Inserted
<1>2. CASE Updated
  <2>1a. PICK n \in DOMAIN events :
          \E row : events' = [events EXCEPT ![n] = row] /\ RowStep(events[n], row)
    BY <1>2 DEF Updated
  <2>1. PICK row : events' = [events EXCEPT ![n] = row] /\ RowStep(events[n], row)
    BY <2>1a
  <2>2. events[n] \in EventRow
    OBVIOUS
  <2>3. row \in EventRow
    BY <2>1, <2>2, RowStepFacts
  <2> QED
    BY <2>1, <2>3, ExceptSeq, LenProperties
<1> QED
  BY <1>1, <1>2

\* The state of a call once its row is inserted.
AsInserted(call, row) == [call EXCEPT !.pc = "triage", !.id = row]

LEMMA InsertedCall ==
    ASSUME NEW call \in Creator, NEW row \in Nat, NEW x, x = AsInserted(call, row)
    PROVE  /\ x \in Creator
           /\ x.pc = "triage" /\ x.id = row /\ x.prev = call.prev /\ x.car = call.car
BY DEF AsInserted, Creator, CreatorPC

LEMMA CreatorTypes ==
    SETypeOK /\ SENext => creator' \in [Procs -> Creator \cup {NoCall}]
<1> SUFFICES ASSUME SETypeOK, SENext
             PROVE  creator' \in [Procs -> Creator \cup {NoCall}]
  OBVIOUS
<1>1. /\ creator \in [Procs -> Creator \cup {NoCall}]
      /\ \A p \in Procs : creator[p].pc # "none" => creator[p] \in Creator
  BY DEF SETypeOK, NoCall
<1>2. Len(events) \in Nat /\ \A n \in DOMAIN events : n \in Nat /\ events[n] \in EventRow
  BY LenProperties DEF SETypeOK, EventRow
<1>3. ASSUME NEW p \in Procs, NEW x \in Creator \cup {NoCall},
             creator' = [creator EXCEPT ![p] = x]
      PROVE  creator' \in [Procs -> Creator \cup {NoCall}]
  BY <1>1, <1>3
<1>4. ASSUME NEW p \in Procs, Return(p)
      PROVE  creator' \in [Procs -> Creator \cup {NoCall}]
  BY <1>3, <1>4 DEF Return
<1>5. ASSUME NEW p \in Procs, creator[p].pc # "none", NEW pc \in CreatorPC, Goto(p, pc)
      PROVE  creator' \in [Procs -> Creator \cup {NoCall}]
  <2>1. creator' = [creator EXCEPT ![p] = [creator[p] EXCEPT !.pc = pc]]
    BY <1>5 DEF Goto
  <2>2. [creator[p] EXCEPT !.pc = pc] \in Creator
    BY <1>1, <1>5 DEF Creator
  <2> QED
    BY <2>1, <2>2, <1>3
<1>6. ASSUME NEW c \in Cars, NEW ty \in Types, NEW prev \in Nat
      PROVE  Numbered(c, ty, prev) \in Creator
  BY <1>2 DEF Numbered, Creator, CreatorPC
<1>7. ASSUME NEW p \in Procs, NEW c \in Cars, NEW ty \in Types, StartCreate(p, c, ty)
      PROVE  creator' \in [Procs -> Creator \cup {NoCall}]
  BY <1>3, <1>6, <1>7 DEF StartCreate
<1>8. ASSUME NEW p \in Procs, CreatorStep(p)
      PROVE  creator' \in [Procs -> Creator \cup {NoCall}]
  <2>1. CASE StartChained(p)
    <3>1. creator[p] \in Creator
      BY <1>1, <2>1 DEF StartChained
    <3>2. Numbered(creator[p].car, creator[p].type, creator[p].prev) \in Creator
      BY <3>1, <1>6 DEF Creator
    <3> QED
      BY <3>2, <2>1, <1>3, <1>4 DEF StartChained
  <2>2. CASE InsertEvent(p)
    <3> DEFINE row == Len(events) + 1
               x == AsInserted(creator[p], row)
    <3>1. creator[p] \in Creator
      BY <1>1, <2>2 DEF InsertEvent
    <3>2. x \in Creator
      BY <3>1, <1>2, InsertedCall
    <3>3. Return(p) \/ creator' = [creator EXCEPT ![p] = x]
      BY <2>2, <1>1 DEF InsertEvent, AsInserted
    <3> QED
      BY <3>2, <3>3, <1>3, <1>4
  <2>3. CASE FindTriage(p)
    BY <2>3, <1>4, <1>5 DEF FindTriage, CreatorPC
  <2>4. CASE LinkChain(p)
    BY <2>4, <1>4 DEF LinkChain
  <2> QED
    BY <1>8, <2>1, <2>2, <2>3, <2>4 DEF CreatorStep
<1>9. ASSUME NEW p \in Procs, NEW n \in DOMAIN events, NEW ref \in References,
             NEW ty \in (Types \ {Null}) \cup {events[n].type}, SetDispositionChain(p, n, ty, ref)
      PROVE  creator' \in [Procs -> Creator \cup {NoCall}]
  <2> DEFINE call == [pc |-> "check", car |-> events[n].car, type |-> ty, prev |-> n,
                      seen |-> 0, id |-> 0]
  <2>1. events[n].car \in Cars /\ ty \in Types
    BY <1>2 DEF EventRow, Row
  <2>2. call \in Creator
    BY <2>1, <1>2 DEF Creator, CreatorPC
  <2>3. creator' = [creator EXCEPT ![p] = call]
    BY <1>9 DEF SetDispositionChain
  <2> QED
    BY <2>2, <2>3, <1>3
<1>10. Crash => creator' \in [Procs -> Creator \cup {NoCall}]
  BY DEF Crash
<1>11. ASSUME NEW n \in DOMAIN events, NEW x, NEW ref, Transition(n, x) \/ SetDisposition(n, x, ref)
       PROVE  UNCHANGED creator
  BY <1>11 DEF Transition, SetDisposition
<1>12. ASSUME NEW c \in Cars, ScrapCompletes(c)
       PROVE  UNCHANGED creator
  BY <1>12 DEF ScrapCompletes
<1>13. SideStep => UNCHANGED creator
  BY DEF SideStep
<1> QED
  BY <1>1, <1>7, <1>8, <1>9, <1>10, <1>11, <1>12, <1>13 DEF SENext, SEStep

LEMMA SideTypes ==
    SETypeOK /\ SENext => SideTypeOK'
<1> SUFFICES ASSUME SETypeOK, SENext
             PROVE  SideTypeOK'
  OBVIOUS
<1>1. SideTypeOK
  BY DEF SETypeOK
<1>2. UNCHANGED sideVars => SideTypeOK'
  BY <1>1 DEF sideVars, SideTypeOK
<1>3. \A p \in Procs : creator[p].pc # "none" => creator[p] \in Creator
  BY DEF SETypeOK, NoCall
<1>4. ASSUME NEW p \in Procs, InsertEvent(p)
      PROVE  SideTypeOK'
  <2> DEFINE task == EventTask("closeIdle", creator[p].car, Len(events) + 1)
  <2>0. Len(events) + 1 \in Nat
    BY LenProperties DEF SETypeOK
  <2>1. task \in Task
    BY <2>0, <1>3, <1>4 DEF InsertEvent, Creator, EventTask, Task, TaskKinds, Sources
  <2>2. tasks' = tasks \/ tasks' = tasks \cup {task}
    BY <1>4 DEF InsertEvent
  <2> HIDE DEF task
  <2> QED
    BY <2>1, <2>2, <1>1, <1>4 DEF InsertEvent, SideTypeOK
<1>5. ASSUME NEW p \in Procs, FindTriage(p)
      PROVE  SideTypeOK'
  <2>1. ASSUME NEW k \in OpenEntries(creator[p].car),
               SpawnResolve(k, "assigned_to_shop", creator[p].id)
        PROVE  resolving' \subseteq ResolveCall
    <3> DEFINE call == [entry |-> k, resolution |-> "assigned_to_shop",
                        src |-> creator[p].id, checked |-> FALSE]
    <3>1. k \in Nat
      BY <1>1, LenProperties DEF OpenEntries, SideTypeOK
    <3>2. call \in ResolveCall
      BY <3>1, <1>3, <1>5 DEF FindTriage, Creator, ResolveCall, Resolutions
    <3>3. resolving' = resolving \cup {call}
      BY <2>1 DEF SpawnResolve
    <3> HIDE DEF call
    <3> QED
      BY <3>2, <3>3, <1>1 DEF SideTypeOK
  <2>2. resolving' \subseteq ResolveCall
    BY <2>1, <1>1, <1>5 DEF FindTriage, SideTypeOK
  <2> QED
    BY <2>2, <1>1, <1>5 DEF FindTriage, SideTypeOK
<1>6. ASSUME NEW n \in DOMAIN events, NEW to, Transition(n, to)
      PROVE  SideTypeOK'
  <2>1. n \in Nat /\ events[n].car \in Cars
    <3>1. n \in Nat /\ events[n] \in EventRow
      BY LenProperties DEF SETypeOK, EventRow
    <3> QED
      BY <3>1 DEF EventRow, Row
  <2>2. CloseTasks(n) \subseteq Task
    BY <2>1 DEF CloseTasks, EventTask, Task, TaskKinds, Sources
  <2> QED
    BY <2>2, <1>1, <1>6 DEF Transition, SideTypeOK
<1>7. ASSUME NEW c \in Cars, ScrapCompletes(c)
      PROVE  SideTypeOK'
  <2>1. ASSUME NEW k \in DOMAIN triage
        PROVE  triage'[k] \in TriageRow
    <3>1. triage[k] \in TriageRow
      BY <1>1 DEF SideTypeOK
    <3>2. [triage[k] EXCEPT !.resolution = "scrap_proposed"] \in TriageRow
      BY <3>1 DEF TriageRow, Resolutions
    <3>3. triage'[k] \in {triage[k], [triage[k] EXCEPT !.resolution = "scrap_proposed"]}
      BY <1>7 DEF ScrapCompletes, CompleteScrapEffects
    <3> QED
      BY <3>1, <3>2, <3>3
  <2>2. triage' = [k \in 1..Len(triage) |-> triage'[k]] /\ Len(triage) \in Nat
    BY <1>1, <1>7, LenProperties DEF ScrapCompletes, CompleteScrapEffects, SideTypeOK
  <2>3. triage' \in Seq(TriageRow)
    <3>1. triage' \in [1..Len(triage) -> TriageRow]
      BY <2>1, <2>2, <1>1, LenProperties DEF SideTypeOK
    <3> QED
      BY <2>2, <3>1, SeqDef
  <2> QED
    BY <2>3, <1>1, <1>7 DEF ScrapCompletes, CompleteScrapEffects, SideTypeOK
<1>8. Crash => SideTypeOK'
  BY <1>1 DEF Crash, SideTypeOK
<1>9. SideStep => SideTypeOK'
  BY <1>1, PromiseTypes DEF SideStep
<1>10. ASSUME NEW p \in Procs, StartChained(p) \/ LinkChain(p)
       PROVE  UNCHANGED sideVars
  BY <1>10 DEF StartChained, LinkChain
<1>11. ASSUME NEW p \in Procs, NEW c \in Cars, NEW ty \in Types, StartCreate(p, c, ty)
       PROVE  UNCHANGED sideVars
  BY <1>11 DEF StartCreate
<1>12. ASSUME NEW p \in Procs, NEW n \in DOMAIN events, NEW ty, NEW ref \in References,
             SetDispositionChain(p, n, ty, ref)
       PROVE  UNCHANGED sideVars
  BY <1>12 DEF SetDispositionChain
<1>13. ASSUME NEW n \in DOMAIN events, NEW d, NEW ref, SetDisposition(n, d, ref)
       PROVE  UNCHANGED sideVars
  BY <1>13 DEF SetDisposition
<1> QED
  BY <1>2, <1>4, <1>5, <1>6, <1>7, <1>8, <1>9, <1>10, <1>11, <1>12, <1>13 DEF SENext, SEStep, CreatorStep

(***************************************************************************)
(* Every reachable state has the declared types: in particular no row of   *)
(* shopping_events_v2 holds a state outside the CHECK of migration 079.    *)
(***************************************************************************)
THEOREM SETypeCorrect == SESpec => []SETypeOK
<1>1. SEInit => SETypeOK
  BY DEF SEInit, SideInit, SETypeOK, SideTypeOK, NoCall
<1>2. SETypeOK /\ [SENext]_seVars => SETypeOK'
  <2> SUFFICES ASSUME SETypeOK, [SENext]_seVars
               PROVE  SETypeOK'
    OBVIOUS
  <2>1. CASE SENext
    <3>1. events' \in Seq(EventRow)
      BY <2>1, EventsStep, EventsTypes
    <3> QED
      BY <2>1, <3>1, CreatorTypes, SideTypes DEF SETypeOK, EventRow
  <2>2. CASE UNCHANGED seVars
    BY <2>2 DEF seVars, sideVars, SETypeOK, SideTypeOK
  <2> QED
    BY <2>1, <2>2
<1> QED
  BY <1>1, <1>2, PTL DEF SESpec

-----------------------------------------------------------------------------
(* Invariants of single rows.                                              *)

(***************************************************************************)
(* R3 and R4 strengthened to what the trigger makes inductive: approval is *)
(* recorded on the way into FINAL_APPROVED, which every way to a           *)
(* disposition or to CLOSED passes, and only an MRU or untyped event may   *)
(* go from FINAL_APPROVED to CLOSED directly.                              *)
(***************************************************************************)
RowsOK == \A n \in DOMAIN events : ApprovedRow(events[n]) /\ DisposedRow(events[n])

LEMMA RowsStep ==
    SETypeOK /\ RowsOK /\ (Inserted \/ Updated \/ UNCHANGED events) => RowsOK'
<1> SUFFICES ASSUME SETypeOK, RowsOK, Inserted \/ Updated \/ UNCHANGED events
             PROVE  RowsOK'
  OBVIOUS
<1>1. events \in Seq(EventRow)
  BY DEF SETypeOK, EventRow
<1>2. CASE Inserted
  <2>1. PICK c \in Cars, ty \in Types : events' = Append(events, NewRow(c, ty))
    BY <1>2 DEF Inserted
  <2>2. ApprovedRow(NewRow(c, ty)) /\ DisposedRow(NewRow(c, ty))
    BY DEF NewRow, ApprovedRow, DisposedRow
  <2>3. NewRow(c, ty) \in EventRow
    BY NewRowType
  <2>4. ASSUME NEW n \in DOMAIN events'
        PROVE  \/ n \in DOMAIN events /\ events'[n] = events[n]
               \/ events'[n] = NewRow(c, ty)
    BY <1>1, <2>1, <2>3, AppendProperties, LenProperties
  <2> QED
    BY <2>2, <2>4 DEF RowsOK
<1>3. CASE Updated
  <2>1a. PICK n \in DOMAIN events :
          \E row : events' = [events EXCEPT ![n] = row] /\ RowStep(events[n], row)
    BY <1>3 DEF Updated
  <2>1. PICK row : events' = [events EXCEPT ![n] = row] /\ RowStep(events[n], row)
    BY <2>1a
  <2>2. ApprovedRow(row) /\ DisposedRow(row)
    <3>1. events[n] \in EventRow /\ ApprovedRow(events[n]) /\ DisposedRow(events[n])
      BY <1>1 DEF RowsOK
    <3> QED
      BY <2>1, <3>1, RowStepFacts
  <2>3. \A m \in DOMAIN events' : m \in DOMAIN events /\ events'[m] \in {events[m], row}
    BY <1>1, <2>1, LenProperties
  <2>4. \A m \in DOMAIN events' : m # n => events'[m] = events[m]
    BY <1>1, <2>1, LenProperties
  <2>5. events'[n] = row
    BY <1>1, <2>1, LenProperties
  <2> QED
    BY <2>2, <2>3, <2>4, <2>5 DEF RowsOK
<1>4. CASE UNCHANGED events
  BY <1>4 DEF RowsOK
<1> QED
  BY <1>2, <1>3, <1>4

LEMMA RowsAlwaysOK == SESpec => []RowsOK
<1>1. SEInit => RowsOK
  BY DEF SEInit, RowsOK
<1>2. SETypeOK /\ RowsOK /\ [SENext]_seVars => RowsOK'
  BY EventsStep, RowsStep DEF seVars
<1> QED
  BY <1>1, <1>2, SETypeCorrect, PTL DEF SESpec

(***************************************************************************)
(* R3 and N2 for every fleet, every number of concurrent calls and every   *)
(* length of the table: no way to a disposition or to CLOSED leads around  *)
(* the final approval.                                                     *)
(***************************************************************************)
THEOREM DispositionNeedsApproval == SESpec => []ApprovedBeforeDisposition
<1>1. RowsOK => ApprovedBeforeDisposition
  BY DEF RowsOK, ApprovedRow, ApprovedBeforeDisposition
<1> QED
  BY <1>1, RowsAlwaysOK, PTL

(***************************************************************************)
(* R4 and N3 for every event that has a type.                              *)
(***************************************************************************)
THEOREM TypedCloseNeedsDisposition == SESpec => []TypedCloseHasDisposition
<1>1. RowsOK => TypedCloseHasDisposition
  BY DEF RowsOK, DisposedRow, TypedCloseHasDisposition
<1> QED
  BY <1>1, RowsAlwaysOK, PTL

-----------------------------------------------------------------------------
(* The order of the events of a car.                                       *)

LEMMA HandoffStep ==
    /\ SETypeOK
    /\ HandoffOrder
    /\ Inserted \/ Updated \/ UNCHANGED events
    => HandoffOrder'
<1> SUFFICES ASSUME SETypeOK, HandoffOrder, Inserted \/ Updated \/ UNCHANGED events
             PROVE  HandoffOrder'
  OBVIOUS
<1>1. events \in Seq(EventRow) /\ Len(events) \in Nat /\ DOMAIN events = 1..Len(events)
  BY LenProperties DEF SETypeOK, EventRow
<1>2. CASE Inserted
  <2>1. PICK c \in Cars, ty \in Types :
          /\ \A n \in Of(c) : ~InIndex(n)
          /\ events' = Append(events, NewRow(c, ty))
    BY <1>2 DEF Inserted
  <2>2. NewRow(c, ty) \in EventRow /\ NewRow(c, ty).car = c
    BY NewRowType DEF NewRow
  <2>3. /\ DOMAIN events' = 1..(Len(events) + 1)
        /\ \A n \in DOMAIN events : events'[n] = events[n]
        /\ events'[Len(events) + 1].car = c
    <3> DEFINE new == NewRow(c, ty)
    <3> HIDE DEF new
    <3>1. new \in EventRow /\ new.car = c /\ events' = Append(events, new)
      BY <2>1, <2>2 DEF new
    <3>2. /\ events' \in Seq(EventRow)
          /\ Len(events') = Len(events) + 1
          /\ \A n \in 1..Len(events) : events'[n] = events[n]
          /\ events'[Len(events) + 1] = new
      <4>1. Append(events, new) \in Seq(EventRow)
        BY <1>1, <3>1, AppendProperties
      <4>2. Len(Append(events, new)) = Len(events) + 1
        BY <1>1, <3>1, AppendProperties
      <4>3. ASSUME NEW n \in 1..Len(events)
            PROVE  Append(events, new)[n] = events[n]
        BY <1>1
      <4>4. Append(events, new)[Len(events) + 1] = new
        BY <1>1, <3>1, AppendProperties
      <4> QED
        BY <3>1, <4>1, <4>2, <4>3, <4>4
    <3>3. DOMAIN events' = 1..Len(events')
      BY <3>2, LenProperties
    <3> QED
      BY <1>1, <3>1, <3>2, <3>3
  <2>4. SUFFICES ASSUME NEW m \in DOMAIN events', NEW n \in DOMAIN events', m < n,
                        events'[m].car = events'[n].car,
                        events'[m].state \notin Terminal, events'[n].state \notin Terminal
                 PROVE  events'[m].state = "DISPO_TO_DESTINATION"
    BY DEF HandoffOrder, IsOpen
  <2>5. m \in DOMAIN events /\ events'[m] = events[m]
    BY <1>1, <2>3, <2>4
  <2>6. CASE n \in DOMAIN events
    BY <2>3, <2>4, <2>5, <2>6 DEF HandoffOrder, IsOpen
  <2>7. CASE n = Len(events) + 1
    <3>1. m \in Of(c)
      BY <2>3, <2>4, <2>5, <2>7 DEF Of
    <3> QED
      BY <2>1, <2>4, <2>5, <3>1 DEF InIndex, Unindexed
  <2> QED
    BY <1>1, <2>3, <2>6, <2>7
<1>3. CASE Updated
  <2>1a. PICK k \in DOMAIN events :
          \E row : events' = [events EXCEPT ![k] = row] /\ RowStep(events[k], row)
    BY <1>3 DEF Updated
  <2>1. PICK row : events' = [events EXCEPT ![k] = row] /\ RowStep(events[k], row)
    BY <2>1a
  <2>2. /\ row.car = events[k].car
        /\ events[k].state \in Terminal => row.state = events[k].state
        /\ events[k].state = "DISPO_TO_DESTINATION" => row.state \in Unindexed
    <3>1. events[k] \in EventRow
      BY <1>1
    <3>2. events[k].state \in Terminal => row = [events[k] EXCEPT !.next = row.next, !.chained = row.chained]
      BY <2>1, <3>1, RowStepFacts
    <3>3. events[k].state \in Terminal => row.state = events[k].state
      BY <3>1, <3>2 DEF EventRow, Row
    <3> QED
      BY <2>1, <3>1, <3>3, RowStepFacts
  <2>3. /\ DOMAIN events' = DOMAIN events
        /\ events'[k] = row
        /\ \A n \in DOMAIN events : n # k => events'[n] = events[n]
    BY <1>1, <2>1
  <2>4. \A n \in DOMAIN events :
          /\ events'[n].car = events[n].car
          /\ events'[n].state \notin Terminal => events[n].state \notin Terminal
          /\ events[n].state = "DISPO_TO_DESTINATION" => events'[n].state \in Unindexed
    BY <2>2, <2>3 DEF Unindexed
  <2>5. ASSUME NEW m \in DOMAIN events, NEW n \in DOMAIN events, m < n,
               events'[m].car = events'[n].car,
               events'[m].state \notin Terminal, events'[n].state \notin Terminal
        PROVE  events'[m].state = "DISPO_TO_DESTINATION"
    <3>1. events[m].state = "DISPO_TO_DESTINATION"
      BY <2>4, <2>5 DEF HandoffOrder, IsOpen
    <3> QED
      BY <2>4, <2>5, <3>1 DEF Unindexed
  <2> QED
    BY <2>3, <2>5 DEF HandoffOrder, IsOpen
<1>4. CASE UNCHANGED events
  BY <1>4 DEF HandoffOrder, IsOpen
<1> QED
  BY <1>2, <1>3, <1>4

(***************************************************************************)
(* R1 for every fleet and every number of calls and events: the unique     *)
(* index tested by each INSERT, and a trigger that never lets an event out *)
(* of DISPO_TO_DESTINATION but to an end state, leave at most the newest   *)
(* event of a car in progress.                                             *)
(***************************************************************************)
THEOREM HandoffOrderHolds == SESpec => []HandoffOrder
<1>1. SEInit => HandoffOrder
  BY DEF SEInit, HandoffOrder
<1>2. SETypeOK /\ HandoffOrder /\ [SENext]_seVars => HandoffOrder'
  BY EventsStep, HandoffStep DEF seVars
<1> QED
  BY <1>1, <1>2, SETypeCorrect, PTL DEF SESpec

(***************************************************************************)
(* Rule 6 as an action property: no step of any actor, a repeated CLOSED   *)
(* request included, changes an event that ended, but for its chain link.  *)
(***************************************************************************)
THEOREM TerminalStaysFinal == SESpec => TerminalIsFinal
<1> DEFINE Kept == \A n \in DOMAIN events :
                     ~IsOpen(n) => events'[n] = [events[n] EXCEPT !.next = events'[n].next,
                                                                  !.chained = events'[n].chained]
<1>1. SETypeOK /\ [SENext]_seVars => [Kept]_events
  <2> SUFFICES ASSUME SETypeOK, SENext, Inserted \/ Updated
               PROVE  Kept
    BY EventsStep DEF seVars
  <2>1. events \in Seq(EventRow)
    BY DEF SETypeOK, EventRow
  <2>2. ASSUME NEW r \in EventRow
        PROVE  r = [r EXCEPT !.next = r.next, !.chained = r.chained]
    BY DEF EventRow, Row
  <2>3. \A n \in DOMAIN events : events[n] \in EventRow
    BY <2>1
  <2>4. CASE Inserted
    <3>1. \A n \in DOMAIN events : events'[n] = events[n]
      BY <2>1, <2>4, NewRowType, AppendProperties, LenProperties DEF Inserted
    <3> QED
      BY <2>2, <2>3, <3>1
  <2>5. CASE Updated
    <3>1a. PICK k \in DOMAIN events :
            \E row : events' = [events EXCEPT ![k] = row] /\ RowStep(events[k], row)
      BY <2>5 DEF Updated
    <3>1. PICK row : events' = [events EXCEPT ![k] = row] /\ RowStep(events[k], row)
      BY <3>1a
    <3>2. ~IsOpen(k) => row = [events[k] EXCEPT !.next = row.next, !.chained = row.chained]
      BY <2>3, <3>1, RowStepFacts DEF IsOpen
    <3>3. events'[k] = row /\ \A n \in DOMAIN events : n # k => events'[n] = events[n]
      BY <2>1, <3>1, LenProperties
    <3> QED
      BY <2>2, <2>3, <3>2, <3>3
  <2> QED
    BY <2>4, <2>5
<1> QED
  BY <1>1, SETypeCorrect, PTL DEF SESpec, TerminalIsFinal

-----------------------------------------------------------------------------
(* The chain links.                                                        *)

\* What a call in flight may rely on when it writes its link at last.
CallFits(ev, call) ==
    /\ call.prev # 0 =>
          /\ call.prev \in DOMAIN ev
          /\ ev[call.prev].car = call.car
          /\ ev[call.prev].approved
          /\ ev[call.prev].state \in Unindexed
    /\ call.pc \in {"triage", "link"} =>
          /\ call.id \in DOMAIN ev
          /\ call.prev < call.id
          /\ ev[call.id].car = call.car
          /\ \A m \in DOMAIN ev : ev[m].chained => ev[m].next # call.id
    /\ call.pc \in {"check", "link"} => call.prev # 0

CallsFit == \A p \in Procs : creator[p].pc # "none" => CallFits(events, creator[p])

\* Two calls never hold the same inserted event.
CallsApart ==
    \A p, q \in Procs :
        /\ creator[p].pc \in {"triage", "link"}
        /\ creator[q].pc \in {"triage", "link"}
        /\ creator[p].id = creator[q].id
        => p = q

LinkInv == ChainLinks /\ CallsFit /\ CallsApart

\* The UPDATEs of a transition and of a disposition, as far as links go.
LinksKept(ev, ev2) ==
    /\ Len(ev2) = Len(ev)
    /\ \A n \in DOMAIN ev :
          /\ ev2[n].car = ev[n].car
          /\ ev[n].approved => ev2[n].approved
          /\ ev[n].state \in Unindexed => ev2[n].state \in Unindexed
          /\ ev2[n].chained => ev[n].chained /\ ev2[n].next = ev[n].next

LEMMA KeptFits ==
    ASSUME NEW ev \in Seq(EventRow), NEW ev2 \in Seq(EventRow), LinksKept(ev, ev2),
           NEW call \in Creator, CallFits(ev, call)
    PROVE  CallFits(ev2, call)
<1>1. DOMAIN ev2 = DOMAIN ev /\ Len(ev) \in Nat
  BY LenProperties DEF LinksKept
<1>2. call.prev \in Nat /\ call.id \in Nat
  BY DEF Creator
<1>3. call.pc \in {"triage", "link"} =>
         \A m \in DOMAIN ev2 : ev2[m].chained => ev2[m].next # call.id
  BY <1>1, <1>2 DEF CallFits, LinksKept
<1> QED
  BY <1>1, <1>2, <1>3 DEF CallFits, LinksKept

LEMMA AppendedFits ==
    ASSUME NEW ev \in Seq(EventRow), NEW row \in EventRow, ~row.chained,
           NEW call \in Creator, CallFits(ev, call)
    PROVE  CallFits(Append(ev, row), call)
<1> DEFINE ev2 == Append(ev, row)
<1>1. /\ Len(ev) \in Nat /\ Len(ev2) = Len(ev) + 1
      /\ DOMAIN ev = 1..Len(ev) /\ DOMAIN ev2 = 1..(Len(ev) + 1)
      /\ \A n \in DOMAIN ev : ev2[n] = ev[n]
      /\ ev2[Len(ev) + 1] = row
  BY AppendProperties, LenProperties
<1>2. call.prev \in Nat /\ call.id \in Nat
  BY DEF Creator
<1> HIDE DEF ev2
<1>3. \A n \in DOMAIN ev : n \in DOMAIN ev2
  BY <1>1
<1>4. \A m \in DOMAIN ev2 : m \in DOMAIN ev \/ ~ev2[m].chained
  BY <1>1
<1>5. call.pc \in {"triage", "link"} =>
         \A m \in DOMAIN ev2 : ev2[m].chained => ev2[m].next # call.id
  BY <1>1, <1>2, <1>4 DEF CallFits
<1>6. CallFits(ev2, call)
  BY <1>1, <1>2, <1>3, <1>5 DEF CallFits
<1> QED
  BY <1>6 DEF ev2

LEMMA KeptLinks ==
    ASSUME SETypeOK, events' \in Seq(EventRow), LinksKept(events, events'), ChainLinks
    PROVE  ChainLinks'
<1>1. events \in Seq(EventRow) /\ DOMAIN events' = DOMAIN events
  BY LenProperties DEF SETypeOK, EventRow, LinksKept
<1>2. \A n \in DOMAIN events' :
         events'[n].chained => events[n].chained /\ events'[n].next = events[n].next
  BY <1>1 DEF LinksKept
<1> QED
  BY <1>1, <1>2 DEF ChainLinks, LinksKept, InIndex

LEMMA UpdateKeepsLinks ==
    ASSUME SETypeOK, NEW n \in DOMAIN events, NEW row,
           Moved(events[n], row) \/ DisposedTo(events[n], row),
           events' = [events EXCEPT ![n] = row]
    PROVE  events' \in Seq(EventRow) /\ LinksKept(events, events')
<1>1. events \in Seq(EventRow) /\ events[n] \in EventRow
  BY DEF SETypeOK, EventRow
<1>2. row \in EventRow /\ row.car = events[n].car
  BY <1>1, RowStepFacts DEF RowStep
<1>3. /\ events[n].approved => row.approved
      /\ row.chained => events[n].chained /\ row.next = events[n].next
  <2>1. CASE Moved(events[n], row)
    <3>1. PICK to \in States : row = Triggered(events[n], to)
      BY <2>1 DEF Moved
    <3> QED
      BY <1>1, <3>1 DEF Triggered, EventRow, Row
  <2>2. CASE DisposedTo(events[n], row)
    BY <1>1, <2>2, DisposedFacts
  <2> QED
    BY <2>1, <2>2
<1>4. events[n].state \in Unindexed => row.state \in Unindexed
  <2>1. events[n].state \in Terminal => row.state = events[n].state
    <3>1. events[n].state \in Terminal =>
             row = [events[n] EXCEPT !.next = row.next, !.chained = row.chained]
      BY <1>1, RowStepFacts DEF RowStep
    <3> QED
      BY <1>1, <3>1 DEF EventRow, Row
  <2> QED
    BY <1>1, <2>1, RowStepFacts DEF RowStep, Unindexed
<1>5. events' \in Seq(EventRow) /\ Len(events') = Len(events)
  BY <1>1, <1>2, ExceptSeq, LenProperties
<1>6. \A m \in DOMAIN events : events'[m] = IF m = n THEN row ELSE events[m]
  BY <1>1, LenProperties
<1> QED
  BY <1>2, <1>3, <1>4, <1>5, <1>6 DEF LinksKept

\* One call changes, the others still fit the table.
LEMMA OneCallChanges ==
    ASSUME SETypeOK, CallsApart,
           NEW p \in Procs, NEW x \in Creator \cup {NoCall},
           creator' = [creator EXCEPT ![p] = x],
           \A q \in Procs \ {p} : creator[q].pc # "none" => CallFits(events', creator[q]),
           x.pc # "none" => CallFits(events', x),
           x.pc \in {"triage", "link"} =>
              \A q \in Procs \ {p} :
                 creator[q].pc \in {"triage", "link"} => creator[q].id # x.id
    PROVE  CallsFit' /\ CallsApart'
<1>1. creator'[p] = x /\ \A q \in Procs \ {p} : creator'[q] = creator[q]
  BY DEF SETypeOK
<1>2. CallsFit'
  BY <1>1 DEF CallsFit
<1>3. CallsApart'
  BY <1>1 DEF CallsApart
<1> QED
  BY <1>2, <1>3

LEMMA InsertKeepsLinks ==
    ASSUME SETypeOK, LinkInv, NEW p \in Procs, InsertEvent(p)
    PROVE  LinkInv'
<1> DEFINE call == creator[p]
<1>1. call \in Creator /\ call.pc = "insert" /\ CallFits(events, call)
  BY DEF SETypeOK, NoCall, InsertEvent, LinkInv, CallsFit
<1>2. events \in Seq(EventRow) /\ Len(events) \in Nat /\ DOMAIN events = 1..Len(events)
  BY LenProperties DEF SETypeOK, EventRow
<1>3. \A q \in Procs : creator[q].pc # "none" => creator[q] \in Creator /\ CallFits(events, creator[q])
  BY DEF SETypeOK, NoCall, LinkInv, CallsFit
<1>4. CASE UNCHANGED events /\ Return(p)
  <2>1. UNCHANGED events /\ creator' = [creator EXCEPT ![p] = NoCall]
    BY <1>4 DEF Return
  <2>2. NoCall \in Creator \cup {NoCall} /\ NoCall.pc = "none"
    BY DEF NoCall
  <2>3. CallsFit' /\ CallsApart'
    BY <1>3, <2>1, <2>2, OneCallChanges DEF LinkInv
  <2> QED
    BY <2>1, <2>3 DEF LinkInv, ChainLinks, InIndex
<1> DEFINE row == NewRow(call.car, call.type)
           x == AsInserted(call, Len(events) + 1)
<1>5. CASE events' = Append(events, row) /\ creator' = [creator EXCEPT ![p] = x]
  <2>1. row \in EventRow /\ ~row.chained /\ row.car = call.car
    BY <1>1, NewRowType DEF NewRow, Creator
  <2>2. events' = Append(events, row) /\ creator' = [creator EXCEPT ![p] = x]
    BY <1>5
  <2>3. /\ x \in Creator /\ x.pc = "triage" /\ x.id = Len(events) + 1
        /\ x.prev = call.prev /\ x.car = call.car
    <3>1. Len(events) + 1 \in Nat /\ call \in Creator
      BY <1>1, <1>2
    <3> HIDE DEF call
    <3> QED
      BY <3>1, InsertedCall
  <2>4. x.prev \in Nat /\ x.prev < x.id
    BY <1>1, <1>2, <2>3 DEF CallFits, Creator
  <2> HIDE DEF row, x
  <2>5. /\ DOMAIN events' = 1..(Len(events) + 1)
        /\ Len(events') = Len(events) + 1
        /\ \A n \in DOMAIN events : events'[n] = events[n]
        /\ events'[Len(events) + 1] = row
    BY <1>2, <2>1, <2>2, AppendProperties, LenProperties
  <2>6. \A n \in DOMAIN events : events[n].chained => events[n].next \in DOMAIN events
    BY DEF LinkInv, ChainLinks
  <2>7. ChainLinks'
    <3>1. \A n \in DOMAIN events' : events'[n].chained => n \in DOMAIN events /\ events'[n] = events[n]
      BY <1>2, <2>1, <2>5
    <3> QED
      BY <1>2, <2>5, <2>6, <3>1 DEF LinkInv, ChainLinks, InIndex
  <2>8. \A q \in Procs : creator[q].pc # "none" => CallFits(events', creator[q])
    BY <1>2, <1>3, <2>1, <2>2, AppendedFits
  <2>9. CallFits(events', x)
    <3>1. CallFits(events', call)
      BY <1>1, <2>8
    <3>2. \A m \in DOMAIN events' : events'[m].chained => events'[m].next # x.id
      BY <1>2, <2>1, <2>3, <2>5, <2>6
    <3>3. x.id \in DOMAIN events' /\ events'[x.id].car = x.car
      BY <1>2, <2>1, <2>3, <2>5
    <3> QED
      BY <1>1, <2>3, <2>4, <3>1, <3>2, <3>3 DEF CallFits
  <2>10. \A q \in Procs : creator[q].pc \in {"triage", "link"} => creator[q].id # x.id
    <3> SUFFICES ASSUME NEW q \in Procs, creator[q].pc \in {"triage", "link"}
                 PROVE  creator[q].id # x.id
      OBVIOUS
    <3>1. creator[q].id \in DOMAIN events
      BY <1>3 DEF CallFits
    <3> QED
      BY <1>2, <2>3, <3>1
  <2>11. CallsFit' /\ CallsApart'
    BY <2>2, <2>3, <2>8, <2>9, <2>10, OneCallChanges DEF LinkInv
  <2> QED
    BY <2>7, <2>11 DEF LinkInv
<1> QED
  BY <1>1, <1>4, <1>5 DEF InsertEvent, AsInserted

LEMMA LinkChainKeepsLinks ==
    ASSUME SETypeOK, LinkInv, NEW p \in Procs, LinkChain(p)
    PROVE  LinkInv'
<1> DEFINE call == creator[p]
           prev == call.prev
           id == call.id
<1>1. call \in Creator /\ call.pc = "link" /\ CallFits(events, call)
  BY DEF SETypeOK, NoCall, LinkChain, LinkInv, CallsFit
<1>2. /\ prev \in DOMAIN events /\ id \in DOMAIN events /\ prev < id
      /\ events[prev].car = call.car /\ events[id].car = call.car
      /\ events[prev].approved /\ events[prev].state \in Unindexed
      /\ \A m \in DOMAIN events : events[m].chained => events[m].next # id
  BY <1>1 DEF CallFits
<1>3. events \in Seq(EventRow) /\ DOMAIN events = 1..Len(events) /\ Len(events) \in Nat
  BY LenProperties DEF SETypeOK, EventRow
<1> DEFINE row == [events[prev] EXCEPT !.next = id, !.chained = TRUE]
<1>4. events' = [events EXCEPT ![prev] = row] /\ creator' = [creator EXCEPT ![p] = NoCall]
  BY <1>2, <1>3 DEF LinkChain, Return, EventRow, Row
<1>5. /\ row.next = id /\ row.car = events[prev].car /\ row.approved = events[prev].approved
      /\ row.state = events[prev].state
      /\ row.chained
      /\ row \in EventRow
  <2>1. events[prev] \in EventRow /\ id \in Nat
    BY <1>1, <1>2, <1>3 DEF Creator
  <2> QED
    BY <2>1 DEF EventRow, Row
<1> HIDE DEF row
<1>6. /\ events' \in Seq(EventRow) /\ DOMAIN events' = DOMAIN events /\ Len(events') = Len(events)
      /\ \A n \in DOMAIN events : events'[n] = IF n = prev THEN row ELSE events[n]
  BY <1>2, <1>3, <1>4, <1>5, ExceptSeq, LenProperties
<1> HIDE DEF call
<1>7. ChainLinks'
  <2>1. ASSUME NEW n \in DOMAIN events', events'[n].chained
        PROVE  /\ events'[n].next \in DOMAIN events' /\ n < events'[n].next
               /\ events'[events'[n].next].car = events'[n].car
               /\ events'[n].approved /\ events'[n].state \in Unindexed
    <3>1. CASE n = prev
      BY <1>2, <1>5, <1>6, <3>1
    <3>2. CASE n # prev
      <4>1. events'[n] = events[n]
        BY <1>6, <3>2
      <4>2. /\ events[n].next \in DOMAIN events /\ n < events[n].next
            /\ events[events[n].next].car = events[n].car /\ events[n].approved
            /\ events[n].state \in Unindexed
        BY <1>6, <2>1, <4>1 DEF LinkInv, ChainLinks, InIndex
      <4>3. \A m \in DOMAIN events : events'[m].car = events[m].car
        BY <1>5, <1>6
      <4> QED
        BY <1>6, <4>1, <4>2, <4>3
    <3> QED
      BY <3>1, <3>2
  <2>2. ASSUME NEW m \in DOMAIN events', NEW n \in DOMAIN events',
               events'[m].next = events'[n].next, events'[m].chained, events'[n].chained
        PROVE  m = n
    BY <1>2, <1>5, <1>6, <2>2 DEF LinkInv, ChainLinks
  <2> QED
    BY <2>1, <2>2 DEF ChainLinks, InIndex
<1>8. ASSUME NEW q \in Procs \ {p}, creator[q].pc # "none"
      PROVE  CallFits(events', creator[q])
  <2>1. creator[q] \in Creator /\ CallFits(events, creator[q])
    BY <1>8 DEF SETypeOK, NoCall, LinkInv, CallsFit
  <2>2. creator[q].pc \in {"triage", "link"} => creator[q].id # id
    BY <1>1 DEF LinkInv, CallsApart, call
  <2>3. creator[q].pc \in {"triage", "link"} =>
           \A m \in DOMAIN events' : events'[m].chained => events'[m].next # creator[q].id
    BY <1>5, <1>6, <2>1, <2>2 DEF CallFits
  <2> QED
    BY <1>5, <1>6, <2>1, <2>3 DEF CallFits
<1>9. CallsFit' /\ CallsApart'
  BY <1>4, <1>8, OneCallChanges DEF LinkInv, NoCall
<1> QED
  BY <1>7, <1>9 DEF LinkInv

LEMMA LinkStep ==
    SETypeOK /\ SETypeOK' /\ RowsOK' /\ LinkInv /\ SENext => LinkInv'
<1> SUFFICES ASSUME SETypeOK, SETypeOK', RowsOK', LinkInv, SENext
             PROVE  LinkInv'
  OBVIOUS
<1>1. /\ events \in Seq(EventRow) /\ Len(events) \in Nat /\ DOMAIN events = 1..Len(events)
      /\ events' \in Seq(EventRow)
      /\ \A q \in Procs : creator[q].pc # "none" => creator[q] \in Creator /\ CallFits(events, creator[q])
  BY LenProperties DEF SETypeOK, EventRow, NoCall, LinkInv, CallsFit
<1>2. \A p \in Procs : creator'[p].pc # "none" => creator'[p] \in Creator
  BY DEF SETypeOK, NoCall
<1>3. ASSUME UNCHANGED events, NEW p \in Procs, NEW x \in Creator \cup {NoCall},
             creator' = [creator EXCEPT ![p] = x],
             x.pc # "none" => CallFits(events, x),
             x.pc \in {"triage", "link"} => creator[p].pc \in {"triage", "link"} /\ creator[p].id = x.id
      PROVE  LinkInv'
  <2>1. x.pc \in {"triage", "link"} =>
          \A q \in Procs \ {p} : creator[q].pc \in {"triage", "link"} => creator[q].id # x.id
    BY <1>3 DEF LinkInv, CallsApart
  <2>2. CallsFit' /\ CallsApart'
    BY <1>1, <1>3, <2>1, OneCallChanges DEF LinkInv
  <2>3. ChainLinks'
    BY <1>3 DEF LinkInv, ChainLinks, InIndex
  <2> QED
    BY <2>2, <2>3 DEF LinkInv
<1>4. ASSUME NEW p \in Procs, NEW c \in Cars, NEW ty \in Types, StartCreate(p, c, ty)
      PROVE  LinkInv'
  <2> DEFINE x == Numbered(c, ty, 0)
  <2>1. x \in Creator /\ x.pc = "insert" /\ x.prev = 0
    BY <1>1 DEF Numbered, Creator, CreatorPC
  <2>2. CallFits(events, x)
    BY <1>1, <2>1 DEF CallFits
  <2>3. UNCHANGED events /\ creator' = [creator EXCEPT ![p] = x]
    BY <1>4 DEF StartCreate
  <2> HIDE DEF x
  <2> QED
    BY <1>3, <2>1, <2>2, <2>3
<1>5. ASSUME NEW p \in Procs, StartChained(p)
      PROVE  LinkInv'
  <2> DEFINE call == creator[p]
             x == Numbered(call.car, call.type, call.prev)
  <2>1. call \in Creator /\ CallFits(events, call)
    BY <1>1, <1>5 DEF StartChained
  <2>2. UNCHANGED events /\ (creator' = [creator EXCEPT ![p] = NoCall] \/ creator' = [creator EXCEPT ![p] = x])
    BY <1>5 DEF StartChained, Return
  <2>3. call.pc = "check"
    BY <1>5 DEF StartChained
  <2>4. /\ x \in Creator /\ x.pc = "insert" /\ x.prev = call.prev
        /\ x.car = call.car
    BY <1>1, <2>1 DEF Numbered, Creator, CreatorPC
  <2>5. CallFits(events, x)
    BY <1>1, <2>1, <2>3, <2>4 DEF CallFits
  <2> HIDE DEF x
  <2> QED
    BY <1>3, <2>2, <2>4, <2>5 DEF NoCall
<1>6. ASSUME NEW p \in Procs, FindTriage(p)
      PROVE  LinkInv'
  <2> DEFINE call == creator[p]
             x == IF call.prev = 0 THEN NoCall ELSE [call EXCEPT !.pc = "link"]
  <2>1. call \in Creator /\ CallFits(events, call) /\ call.pc = "triage"
    BY <1>1, <1>6 DEF FindTriage
  <2>2. UNCHANGED events /\ creator' = [creator EXCEPT ![p] = x]
    BY <1>6 DEF FindTriage, Return, Goto
  <2>3. x \in Creator \cup {NoCall}
    BY <2>1 DEF Creator, CreatorPC
  <2>4. x.pc # "none" => x.pc = "link" /\ call.prev # 0 /\ x.id = call.id /\ x.prev = call.prev /\ x.car = call.car
    BY <2>1 DEF Creator, NoCall
  <2>5. x.pc # "none" => CallFits(events, x)
    BY <2>1, <2>4 DEF CallFits
  <2> HIDE DEF x
  <2> QED
    BY <1>3, <2>1, <2>2, <2>3, <2>4, <2>5
<1>7. ASSUME events' \in Seq(EventRow), LinksKept(events, events'), UNCHANGED creator
      PROVE  LinkInv'
  <2>1. CallsFit' /\ CallsApart'
    BY <1>1, <1>7, KeptFits DEF CallsFit, CallsApart, LinkInv
  <2> QED
    BY <1>7, <2>1, KeptLinks DEF LinkInv
<1>8. ASSUME NEW n \in DOMAIN events, NEW to \in RequestedStates, Transition(n, to)
      PROVE  LinkInv'
  <2>1. to \in States \ {"DISPO_TO_DESTINATION"}
    BY <1>8, ShoppingEventAssumption DEF Transition
  <2>2. /\ Moved(events[n], Triggered(events[n], to))
        /\ events' = [events EXCEPT ![n] = Triggered(events[n], to)]
    BY <1>8, <2>1 DEF Transition, Update, Moved
  <2> QED
    BY <1>7, <1>8, <2>2, UpdateKeepsLinks DEF Transition
<1>9. ASSUME NEW n \in DOMAIN events, NEW d \in Dispositions, NEW ref \in References,
             Dispose(n, d, ref)
      PROVE  LinksKept(events, events') /\ events'[n].state = "DISPO_TO_DESTINATION"
  <2> DEFINE to == "DISPO_TO_DESTINATION"
             mid == [events[n] EXCEPT !.dispo = d, !.next = ref, !.chained = FALSE]
             row == Triggered(mid, to)
  <2>0. events[n] \in EventRow /\ ref \in Nat
    BY <1>1, ShoppingEventAssumption DEF References
  <2>1. mid.state = events[n].state /\ mid.type = events[n].type
    BY <2>0 DEF EventRow, Row
  <2>2. TriggerAccepts(mid.state, to, mid.type) /\ events' = [events EXCEPT ![n] = row]
    BY <1>9 DEF Dispose, Update
  <2>3. DisposedTo(events[n], row)
    BY <2>0, <2>1, <2>2 DEF DisposedTo
  <2> HIDE DEF row, mid
  <2>4. LinksKept(events, events')
    BY <2>2, <2>3, UpdateKeepsLinks
  <2>5. row.state = to
    BY <2>0, <2>3, DisposedFacts
  <2>6. events'[n] = row
    BY <1>1, <2>2
  <2> QED
    BY <2>4, <2>5, <2>6
<1>10. ASSUME NEW n \in DOMAIN events, NEW d \in RequestedDispos,
             NEW ref \in References, SetDisposition(n, d, ref)
       PROVE  LinkInv'
  BY <1>1, <1>7, <1>9, <1>10, ShoppingEventAssumption DEF SetDisposition
<1>11. ASSUME NEW p \in Procs, NEW n \in DOMAIN events, NEW ty, NEW ref \in References,
             SetDispositionChain(p, n, ty, ref)
       PROVE  LinkInv'
  <2> DEFINE x == [pc |-> "check", car |-> events[n].car, type |-> ty, prev |-> n,
                   seen |-> 0, id |-> 0]
  <2>1. LinksKept(events, events') /\ events'[n].state = "DISPO_TO_DESTINATION"
    BY <1>9, <1>11 DEF SetDispositionChain, Dispositions
  <2>2. creator' = [creator EXCEPT ![p] = x] /\ creator[p].pc = "none"
    BY <1>11 DEF SetDispositionChain
  <2>3. x.pc = "check" /\ x.car = events[n].car /\ x.prev = n
    OBVIOUS
  <2> HIDE DEF x
  <2>4. x \in Creator
    <3>1. creator'[p] = x
      BY <2>2 DEF SETypeOK
    <3> QED
      BY <1>2, <2>3, <3>1
  <2>5. n \in DOMAIN events' /\ events'[n].approved /\ events'[n].car = events[n].car
    <3>1. n \in DOMAIN events' /\ events'[n].car = events[n].car
      BY <1>1, <2>1, LenProperties DEF LinksKept
    <3>2. ApprovedRow(events'[n])
      BY <3>1 DEF RowsOK
    <3> QED
      BY <2>1, <3>1, <3>2 DEF ApprovedRow
  <2>6. CallFits(events', x)
    BY <1>1, <2>1, <2>3, <2>5 DEF CallFits, Unindexed
  <2>7. \A q \in Procs : creator[q].pc # "none" => CallFits(events', creator[q])
    BY <1>1, <2>1, KeptFits
  <2>8. CallsFit' /\ CallsApart'
    BY <2>2, <2>3, <2>4, <2>6, <2>7, OneCallChanges DEF LinkInv
  <2> QED
    BY <1>1, <2>1, <2>8, KeptLinks DEF LinkInv
<1>12. ASSUME UNCHANGED <<events, creator>>
       PROVE  LinkInv'
  BY <1>12 DEF LinkInv, ChainLinks, InIndex, CallsFit, CallsApart
<1>13. CASE Crash
  BY <1>13 DEF Crash, LinkInv, ChainLinks, InIndex, CallsFit, CallsApart, NoCall
<1>14. ASSUME NEW c \in Cars, ScrapCompletes(c)
       PROVE  LinkInv'
  BY <1>12, <1>14 DEF ScrapCompletes
<1>15. CASE SideStep
  BY <1>12, <1>15 DEF SideStep
<1> QED
  BY <1>4, <1>5, <1>6, <1>8, <1>10, <1>11, <1>13, <1>14, <1>15,
     InsertKeepsLinks, LinkChainKeepsLinks DEF SENext, SEStep, CreatorStep

(***************************************************************************)
(* Chain shopping for every fleet, every number of concurrent calls and    *)
(* whatever references clients send: the call that writes a link holds the *)
(* id of the row it inserted, no other call does, and the older event is   *)
(* of the same car and in progress no more, whatever happened to it since. *)
(***************************************************************************)
THEOREM ChainLinksHold == SESpec => []ChainLinks
<1>1. SEInit => LinkInv
  BY DEF SEInit, LinkInv, ChainLinks, CallsFit, CallsApart, NoCall
<1>2. SETypeOK /\ SETypeOK' /\ RowsOK' /\ LinkInv /\ [SENext]_seVars => LinkInv'
  <2>1. CASE SENext
    BY <2>1, LinkStep
  <2>2. UNCHANGED seVars => (LinkInv => LinkInv')
    BY DEF seVars, LinkInv, ChainLinks, InIndex, CallsFit, CallsApart
  <2> QED
    BY <2>1, <2>2
<1>3. LinkInv => ChainLinks
  BY DEF LinkInv
<1> QED
  BY <1>1, <1>2, <1>3, SETypeCorrect, RowsAlwaysOK, PTL DEF SESpec

-----------------------------------------------------------------------------
(* The return of a car to storage.                                         *)

(***************************************************************************)
(* When no promise is lost, the promise of a triage entry is pending until *)
(* the car has an open one: completed scraps end entries, but no promise.  *)
(***************************************************************************)
LEMMA DebtsStay ==
    ASSUME SETypeOK, SENext, ~Faults,
           NEW t \in tasks, t.kind = "createTriage"
    PROVE  t \in tasks' \/ OpenEntries(t.car)' # {}
<1>1. ASSUME NEW p \in Procs, CreatorStep(p)
      PROVE  t \in tasks'
  BY <1>1 DEF CreatorStep, StartChained, InsertEvent, FindTriage, LinkChain, sideVars
<1>2. ASSUME NEW p \in Procs, NEW c \in Cars, NEW ty \in Types, StartCreate(p, c, ty)
      PROVE  t \in tasks'
  BY <1>2 DEF StartCreate, sideVars
<1>3. ASSUME NEW p \in Procs, NEW n \in DOMAIN events, NEW ty, NEW ref \in References,
             SetDispositionChain(p, n, ty, ref)
      PROVE  t \in tasks'
  BY <1>3 DEF SetDispositionChain, sideVars
<1>4. ASSUME NEW n \in DOMAIN events, NEW to \in RequestedStates, Transition(n, to)
      PROVE  t \in tasks'
  BY <1>4 DEF Transition
<1>5. ASSUME NEW n \in DOMAIN events, NEW d \in RequestedDispos, NEW ref \in References,
             SetDisposition(n, d, ref)
      PROVE  t \in tasks'
  BY <1>5 DEF SetDisposition, sideVars
<1>6. CASE SideStep
  BY <1>6, PromisesAreKept DEF SideStep, SETypeOK
<1>7. ASSUME NEW c \in Cars, ScrapCompletes(c)
      PROVE  t \in tasks'
  BY <1>7 DEF ScrapCompletes, CompleteScrapEffects
<1>8. ~Crash
  BY DEF Crash
<1> QED
  BY <1>1, <1>2, <1>3, <1>4, <1>5, <1>6, <1>7, <1>8 DEF SENext, SEStep

\* A row that is closed to storage, of whatever table.
ToStorage(r) == r.state = "CLOSED" /\ r.dispo = "to_storage"

LEMMA RowOwes ==
    ASSUME SETypeOK, NEW m \in DOMAIN events, NEW row,
           events' = [events EXCEPT ![m] = row],
           row.car = events[m].car,
           ToStorage(row) => \/ ToStorage(events[m])
                             \/ EventTask("createTriage", events[m].car, m) \in tasks'
    PROVE  \A n \in DOMAIN events' : ToStorage(events'[n]) =>
              /\ n \in DOMAIN events
              /\ events'[n].car = events[n].car
              /\ ToStorage(events[n]) \/ EventTask("createTriage", events[n].car, n) \in tasks'
<1>1. /\ DOMAIN events' = DOMAIN events
      /\ \A n \in DOMAIN events : events'[n] = IF n = m THEN row ELSE events[n]
  BY DEF SETypeOK
<1> QED
  BY <1>1

(***************************************************************************)
(* A step that closes an event to storage starts the promise that tells a  *)
(* planner, for the car of that event; no other step closes one so.        *)
(***************************************************************************)
LEMMA ClosesOwe ==
    ASSUME SETypeOK, SENext
    PROVE  \A n \in DOMAIN events' : ToStorage(events'[n]) =>
              /\ n \in DOMAIN events
              /\ events'[n].car = events[n].car
              /\ ToStorage(events[n]) \/ EventTask("createTriage", events[n].car, n) \in tasks'
<1> DEFINE Owe ==
        \A n \in DOMAIN events' : ToStorage(events'[n]) =>
              /\ n \in DOMAIN events
              /\ events'[n].car = events[n].car
              /\ ToStorage(events[n]) \/ EventTask("createTriage", events[n].car, n) \in tasks'
<1>1. /\ events \in Seq(EventRow)
      /\ \A n \in DOMAIN events : events[n] \in EventRow
      /\ \A p \in Procs : creator[p].pc # "none" => creator[p] \in Creator
  BY DEF SETypeOK, NoCall, EventRow
<1>2. UNCHANGED events => Owe
  OBVIOUS
<1>3. ASSUME NEW p \in Procs, InsertEvent(p)
      PROVE  Owe
  <2>1. CASE UNCHANGED events
    BY <1>2, <2>1
  <2>2. CASE events' = Append(events, NewRow(creator[p].car, creator[p].type))
    <3> DEFINE row == NewRow(creator[p].car, creator[p].type)
    <3>1. row \in EventRow /\ row.state = "EVENT"
      BY <1>1, <1>3, NewRowType DEF InsertEvent, Creator, NewRow
    <3> HIDE DEF row
    <3>2. \A n \in DOMAIN events' :
             \/ events'[n] = row
             \/ n \in DOMAIN events /\ events'[n] = events[n]
      BY <1>1, <2>2, <3>1, AppendProperties, LenProperties DEF row
    <3> QED
      BY <3>1, <3>2 DEF ToStorage
  <2> QED
    BY <1>3, <2>1, <2>2 DEF InsertEvent
<1>4. ASSUME NEW p \in Procs, LinkChain(p)
      PROVE  Owe
  <2> DEFINE prev == creator[p].prev
             row == [events[prev] EXCEPT !.next = creator[p].id, !.chained = TRUE]
  <2>1. events' = [events EXCEPT ![prev] = row]
    BY <1>1, <1>4, LenProperties DEF LinkChain, EventRow, Row
  <2>2. CASE prev \in DOMAIN events
    <3>1. row.car = events[prev].car /\ (ToStorage(row) => ToStorage(events[prev]))
      BY <1>1, <2>2 DEF ToStorage, EventRow, Row
    <3> HIDE DEF row
    <3> QED
      BY <2>1, <2>2, <3>1, RowOwes
  <2>3. CASE prev \notin DOMAIN events
    BY <1>1, <1>2, <2>1, <2>3, LenProperties
  <2> QED
    BY <2>2, <2>3
<1>5. ASSUME NEW m \in DOMAIN events, NEW to \in RequestedStates, Transition(m, to)
      PROVE  Owe
  <2> DEFINE row == Triggered(events[m], to)
  <2>1. events' = [events EXCEPT ![m] = row]
    BY <1>5 DEF Transition, Update
  <2>2. row.car = events[m].car /\ row.state = to /\ row.dispo = events[m].dispo
    BY <1>1 DEF Triggered, EventRow, Row
  <2>3. ToStorage(row) => EventTask("createTriage", events[m].car, m) \in tasks'
    BY <1>5, <2>2 DEF ToStorage, Transition, CloseTasks
  <2> HIDE DEF row
  <2> QED
    BY <2>1, <2>2, <2>3, RowOwes
<1>6. ASSUME NEW m \in DOMAIN events, NEW d \in Dispositions, NEW ref \in References,
             Dispose(m, d, ref)
      PROVE  Owe
  <2> DEFINE mid == [events[m] EXCEPT !.dispo = d, !.next = ref, !.chained = FALSE]
             row == Triggered(mid, "DISPO_TO_DESTINATION")
  <2>1. events' = [events EXCEPT ![m] = row]
    BY <1>6 DEF Dispose, Update
  <2>2. row.car = events[m].car /\ row.state = "DISPO_TO_DESTINATION"
    BY <1>1 DEF Triggered, EventRow, Row
  <2> HIDE DEF row
  <2> QED
    BY <2>1, <2>2, RowOwes DEF ToStorage
<1> HIDE DEF Owe
<1>7. ASSUME NEW p \in Procs, NEW n \in DOMAIN events, NEW ty, NEW ref \in References,
             SetDispositionChain(p, n, ty, ref)
      PROVE  Owe
  BY <1>6, <1>7 DEF SetDispositionChain, Dispositions
<1>8. ASSUME NEW n \in DOMAIN events, NEW d \in RequestedDispos,
             NEW ref \in References, SetDisposition(n, d, ref)
      PROVE  Owe
  BY <1>6, <1>8, ShoppingEventAssumption DEF SetDisposition
<1>9. ASSUME NEW p \in Procs, StartChained(p) \/ FindTriage(p)
      PROVE  Owe
  BY <1>2, <1>9 DEF StartChained, FindTriage
<1>10. ASSUME NEW p \in Procs, NEW c \in Cars, NEW ty \in Types, StartCreate(p, c, ty)
       PROVE  Owe
  BY <1>2, <1>10 DEF StartCreate
<1>11. (\E c \in Cars : ScrapCompletes(c)) \/ SideStep \/ Crash => Owe
  BY <1>2 DEF ScrapCompletes, SideStep, Crash
<1>12. Owe
  BY <1>3, <1>4, <1>5, <1>7, <1>8, <1>9, <1>10, <1>11 DEF SENext, SEStep, CreatorStep
<1> QED
  BY <1>12 DEF Owe

(***************************************************************************)
(* S8 for every fleet, as what no step may do: while no promise is lost,   *)
(* the step that closes an event to storage starts the promise of a triage *)
(* entry for its car, and only a step that leaves the car with an open     *)
(* entry ends the promise.                                                 *)
(***************************************************************************)
THEOREM StorageReturnsAreOwed ==
    ASSUME ~Faults
    PROVE  SESpec => StorageReturnIsOwed
<1> DEFINE Starts ==
              \A n \in DOMAIN events' :
                 ClosedTo(n, "to_storage")' /\ ~ClosedTo(n, "to_storage")
                    => OwesTriage(events[n].car, n)'
           Stays ==
              \A c \in Cars, n \in DOMAIN events :
                 OwesTriage(c, n) => OwesTriage(c, n)' \/ OpenEntries(c)' # {}
<1>1. SETypeOK /\ [SENext]_seVars => [Starts]_seVars
  BY ClosesOwe DEF ClosedTo, ToStorage, OwesTriage
<1>2. SETypeOK /\ [SENext]_seVars => [Stays]_seVars
  <2> SUFFICES ASSUME SETypeOK, SENext, NEW c \in Cars, NEW n \in DOMAIN events,
                      OwesTriage(c, n)
               PROVE  OwesTriage(c, n)' \/ OpenEntries(c)' # {}
    OBVIOUS
  <2> DEFINE t == EventTask("createTriage", c, n)
  <2>1. t \in tasks /\ t.kind = "createTriage" /\ t.car = c
    BY DEF OwesTriage, EventTask
  <2>2. t \in tasks' => OwesTriage(c, n)'
    BY DEF OwesTriage
  <2> HIDE DEF t
  <2> QED
    BY <2>1, <2>2, DebtsStay
<1> QED
  BY <1>1, <1>2, SETypeCorrect, PTL DEF SESpec, StorageReturnIsOwed
=============================================================================
