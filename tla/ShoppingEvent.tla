--------------------------- MODULE ShoppingEvent ---------------------------
(***************************************************************************)
(* shopping-event-v2.service.ts over the table shopping_events_v2.         *)
(*                                                                         *)
(* A statement outside a transaction commits by itself, so a handler of    *)
(* several statements is a process whose steps interleave with those of    *)
(* the others.  createShoppingEvent is such a process (`creator`); a       *)
(* transition is one UPDATE, for the row it read before serves only the    *)
(* audit log, which is left out.  setDisposition transitions and, for a    *)
(* chain, runs createShoppingEvent and then links the two events.          *)
(*                                                                         *)
(* An event is its id, here its position in the table: rows are never      *)
(* deleted, and `RETURNING *` gives the call the row it inserted.  Its     *)
(* event_number is not modelled, only what becomes of it: the MAX + 1 of   *)
(* the day is read before the INSERT, and UNIQUE(event_number) refuses it  *)
(* when a row of the same day came in between.                             *)
(***************************************************************************)
EXTENDS CarSideEffects, ShoppingEventRules

CONSTANTS
    Procs,           \* concurrent createShoppingEvent / setDisposition calls
    Types,           \* shopping_type_code values, Null if it may be left out
    RequestedStates, \* target states clients ask for
    RequestedDispos, \* dispositions clients ask for
    RequestedRefs,   \* events clients name as the reference, 0 for none
    MaxEvents        \* bound: rows of shopping_events_v2

ASSUME ShoppingEventAssumption ==
    /\ RequestedStates \subseteq States
    /\ RequestedDispos \subseteq Dispositions
    /\ RequestedRefs \subseteq Nat
    /\ MaxEvents \in Nat

VARIABLES
    events,  \* rows of shopping_events_v2, in order of creation
    creator  \* [Procs -> state of a createShoppingEvent call]

seVars == <<sideVars, events, creator>>

\* pc: the statement the call runs next.
CreatorPC == {"check", "insert", "triage", "link"}
\* prev: the event of the setDisposition call (0: plain creation);
\* seen: how many rows there were when the number was read;
\* id: the row inserted.
Creator == [pc: CreatorPC, car: Cars, type: Types, prev: Nat, seen: Nat, id: Nat]
NoCall == [pc |-> "none"]

SETypeOK ==
    /\ SideTypeOK
    /\ events \in Seq(Row(Cars, Types))
    /\ creator \in [Procs -> Creator \cup {NoCall}]

SEInit ==
    /\ SideInit
    /\ events = <<>>
    /\ creator = [p \in Procs |-> NoCall]

Of(c) == {n \in DOMAIN events : events[n].car = c}
IsOpen(n) == events[n].state \notin Terminal
InIndex(n) == events[n].state \notin Unindexed

EventTask(kind, c, n) ==
    [kind |-> kind, car |-> c, from |-> "shopping_events_v2", src |-> n]

-----------------------------------------------------------------------------
(* createShoppingEvent.                                                    *)

Goto(p, pc) == creator' = [creator EXCEPT ![p].pc = pc]
Return(p) == creator' = [creator EXCEPT ![p] = NoCall]

\* SELECT the car, refusing a disposed one (R7), and generateEventNumberV2.  The
\* two reads are one step: what others write between them could as well come
\* before the first (events) or after the second (cars).
Numbered(c, ty, prev) ==
    [pc |-> "insert", car |-> c, type |-> ty, prev |-> prev, seen |-> Len(events), id |-> 0]

\* POST /shopping-events-v2, or the dual write of assignment.service.
StartCreate(p, c, ty) ==
    /\ creator[p].pc = "none"
    /\ Len(events) < MaxEvents
    /\ c \notin disposed
    /\ creator' = [creator EXCEPT ![p] = Numbered(c, ty, 0)]
    /\ UNCHANGED <<sideVars, events>>

\* The call setDisposition makes for a chain.
StartChained(p) ==
    LET call == creator[p] IN
    /\ call.pc = "check"
    /\ Len(events) < MaxEvents
    /\ IF call.car \in disposed
       THEN Return(p)
       ELSE creator' = [creator EXCEPT ![p] = Numbered(call.car, call.type, call.prev)]
    /\ UNCHANGED <<sideVars, events>>

\* Mutant: the row starts in the V1 status of the assignment it mirrors.
NewRowV1Status(c, ty) ==
    [car |-> c, type |-> ty, state |-> "Planned", dispo |-> Null, next |-> 0,
     chained |-> FALSE, approved |-> FALSE]

NewRow(c, ty) ==
    [car |-> c, type |-> ty, state |-> "EVENT", dispo |-> Null, next |-> 0,
     chained |-> FALSE, approved |-> FALSE]

\* idx_se_v2_one_active_per_car refuses a row of the car.
Occupied(c) == \E n \in Of(c) : InIndex(n)

\* UNIQUE(event_number) refuses the row when the first row inserted since the
\* number was read bears the prefix of the same day; days are left open.
NumberMayBeTaken(call) == Len(events) > call.seen

\* INSERT: both unique indexes must accept it.  The idle period of the car is
\* then closed by a promise nobody awaits.
InsertEvent(p) ==
    LET call == creator[p]
        row == Len(events) + 1
    IN
    /\ call.pc = "insert"
    /\ \/ /\ Occupied(call.car) \/ NumberMayBeTaken(call)
          /\ Return(p)
          /\ UNCHANGED <<events, tasks>>
       \/ /\ ~Occupied(call.car)
          /\ row <= MaxEvents
          /\ events' = Append(events, NewRow(call.car, call.type))
          /\ tasks' = tasks \cup {EventTask("closeIdle", call.car, row)}
          /\ creator' = [creator EXCEPT ![p].pc = "triage", ![p].id = row]
    /\ UNCHANGED <<disposed, idle, triage, resolving>>

\* SELECT the open triage entry; resolving it is a promise nobody awaits.
FindTriage(p) ==
    LET call == creator[p] IN
    /\ call.pc = "triage"
    /\ \/ /\ OpenEntries(call.car) = {}
          /\ UNCHANGED resolving
       \/ \E k \in OpenEntries(call.car) : SpawnResolve(k, "assigned_to_shop", call.id)
    /\ IF call.prev = 0 THEN Return(p) ELSE Goto(p, "link")
    /\ UNCHANGED <<disposed, idle, triage, tasks, events>>

\* Mutant: the successor is looked up again, as the newest event of the car.
LinkNewest(p) ==
    LET call == creator[p] IN
    /\ call.pc = "link"
    /\ events' = [events EXCEPT
                     ![call.prev].next = CHOOSE n \in Of(call.car) : \A m \in Of(call.car) : m <= n,
                     ![call.prev].chained = TRUE]
    /\ Return(p)
    /\ UNCHANGED sideVars

\* setDisposition: UPDATE ... SET disposition_reference_id = nextEvent.id
LinkChain(p) ==
    /\ creator[p].pc = "link"
    /\ events' = [events EXCEPT ![creator[p].prev].next = creator[p].id,
                                ![creator[p].prev].chained = TRUE]
    /\ Return(p)
    /\ UNCHANGED sideVars

-----------------------------------------------------------------------------
(* transitionShoppingEvent.                                                *)

\* The UPDATE goes through the trigger.
Update(n, to, row) ==
    /\ TriggerAccepts(row.state, to, row.type)
    /\ events' = [events EXCEPT ![n] = Triggered(row, to)]

\* onEventClosed: two promises for a car that goes to storage.
CloseTasks(n) ==
    IF events[n].dispo = "to_storage"
    THEN {EventTask(k, events[n].car, n) : k \in {"openIdle", "createTriage"}}
    ELSE {}

\* Every target but DISPO_TO_DESTINATION.  CLOSED on a CLOSED event is accepted
\* and runs onEventClosed again.
Transition(n, to) ==
    /\ to # "DISPO_TO_DESTINATION"
    /\ Update(n, to, events[n])
    /\ tasks' = IF to = "CLOSED" THEN tasks \cup CloseTasks(n) ELSE tasks
    /\ UNCHANGED <<disposed, idle, triage, resolving, creator>>

\* What a client may send as the reference: nothing, the id of any event there
\* is, or an id that is no event's.
References == RequestedRefs \cap ({0} \cup DOMAIN events)

\* DISPO_TO_DESTINATION overwrites disposition and its reference.
Dispose(n, d, ref) ==
    Update(n, "DISPO_TO_DESTINATION",
           [events[n] EXCEPT !.dispo = d, !.next = ref, !.chained = FALSE])

\* setDisposition without a chain, or the transition route with metadata.
SetDisposition(n, d, ref) ==
    /\ Dispose(n, d, ref)
    /\ UNCHANGED <<sideVars, creator>>

\* setDisposition 'to_another_shop' with next_shop_code: createShoppingEvent is
\* called next, for the type asked for or else that of the event.
SetDispositionChain(p, n, ty, ref) ==
    /\ creator[p].pc = "none"
    /\ Dispose(n, "to_another_shop", ref)
    /\ creator' = [creator EXCEPT ![p] = [pc |-> "check", car |-> events[n].car, type |-> ty,
                                          prev |-> n, seen |-> 0, id |-> 0]]
    /\ UNCHANGED sideVars

-----------------------------------------------------------------------------
\* The transaction of scrap.service completeScrap, as far as it reaches these tables.
CompleteScrapEffects(c) ==
    /\ disposed' = disposed \cup {c}
    /\ idle' = idle \ {c}
    /\ triage' = [k \in DOMAIN triage |->
                    IF k \in OpenEntries(c)
                    THEN [triage[k] EXCEPT !.resolution = "scrap_proposed"]
                    ELSE triage[k]]
    /\ UNCHANGED <<tasks, resolving>>

\* What the module Scrap does in detail; a car may be scrapped twice.
ScrapCompletes(c) ==
    /\ CompleteScrapEffects(c)
    /\ UNCHANGED <<events, creator>>

\* The server process exits: calls and promises are gone, the tables stay.
Crash ==
    /\ Faults
    /\ tasks' = {}
    /\ resolving' = {}
    /\ creator' = [p \in Procs |-> NoCall]
    /\ UNCHANGED <<disposed, idle, triage, events>>

CreatorStep(p) ==
    StartChained(p) \/ InsertEvent(p) \/ FindTriage(p) \/ LinkChain(p)

SideStep == (RunPromise \/ PromiseRejects \/ PlannerStep) /\ UNCHANGED <<events, creator>>

\* A step of this component while the process runs.
SEStep ==
    \/ \E p \in Procs :
        \/ CreatorStep(p)
        \/ \E c \in Cars, ty \in Types : StartCreate(p, c, ty)
        \/ \E n \in DOMAIN events, ref \in References :
           \E ty \in (Types \ {Null}) \cup {events[n].type} :
              "DISPO_TO_DESTINATION" \in RequestedStates /\ SetDispositionChain(p, n, ty, ref)
    \/ \E n \in DOMAIN events, to \in RequestedStates : Transition(n, to)
    \/ \E n \in DOMAIN events, d \in RequestedDispos, ref \in References :
          "DISPO_TO_DESTINATION" \in RequestedStates /\ SetDisposition(n, d, ref)
    \/ SideStep

SENext == SEStep \/ (\E c \in Cars : ScrapCompletes(c)) \/ Crash

SESpec == SEInit /\ [][SENext]_seVars

-----------------------------------------------------------------------------
(***************************************************************************)
(* R1, one active event per car: whenever two events of a car are open,    *)
(* the older one waits for its hand-off in DISPO_TO_DESTINATION, so at     *)
(* most the newest is in progress.  The index tests it only against the    *)
(* rows an INSERT finds; that no later UPDATE brings an older event back   *)
(* beside its successor is for the trigger to see to.                      *)
(***************************************************************************)
HandoffOrder ==
    \A m, n \in DOMAIN events :
        /\ m < n
        /\ events[m].car = events[n].car
        /\ IsOpen(m)
        /\ IsOpen(n)
        => events[m].state = "DISPO_TO_DESTINATION"

(***************************************************************************)
(* R3 and N2: whatever was skipped on the way, an event that has a         *)
(* disposition, waits for one to be carried out or is closed was finally   *)
(* approved, even when it was cancelled since.                             *)
(***************************************************************************)
ApprovedBeforeDisposition ==
    \A n \in DOMAIN events :
        \/ events[n].dispo # Null
        \/ events[n].state \in {"DISPO_TO_DESTINATION", "CLOSED"}
        => events[n].approved

(***************************************************************************)
(* R4 and N3 for the events whose type is known: a closed one that is not  *)
(* an MRU event carries an explicit disposition.                           *)
(***************************************************************************)
TypedCloseHasDisposition ==
    \A n \in DOMAIN events :
        events[n].state = "CLOSED" /\ TypeForbidsShortcut(events[n].type)
        => events[n].dispo # Null

(***************************************************************************)
(* Chain shopping, for the links setDisposition makes: an event is chained *)
(* to a later event of the same car, was finally approved, is not in       *)
(* progress beside its successor, and no event succeeds two.  The link is  *)
(* written by id several statements after the successor was inserted, when *)
(* other requests may have disposed the event again, ended either, or let  *)
(* a third event in.  A reference a client sends instead promises nothing. *)
(***************************************************************************)
ChainLinks ==
    /\ \A n \in DOMAIN events : events[n].chained =>
          /\ events[n].next \in DOMAIN events
          /\ n < events[n].next
          /\ events[events[n].next].car = events[n].car
          /\ events[n].approved
          /\ ~InIndex(n)
    /\ \A m, n \in DOMAIN events :
          events[m].chained /\ events[n].chained /\ events[m].next = events[n].next => m = n

(***************************************************************************)
(* Rule 6: a closed or cancelled event keeps its state, disposition        *)
(* and approval; only the link of a chain may still arrive.                *)
(***************************************************************************)
TerminalIsFinal ==
    [][\A n \in DOMAIN events : ~IsOpen(n) =>
          events'[n] = [events[n] EXCEPT !.next = events'[n].next,
                                         !.chained = events'[n].chained]]_events

(***************************************************************************)
(* The return of a car to storage is never forgotten: the step that closes *)
(* its event starts the promise of a triage entry, and the promise stays   *)
(* pending until a step after which the car has an open entry, though      *)
(* promises of one source are one member, closes are repeated, entries of  *)
(* earlier returns are there and the scrap of the car may end one.         *)
(***************************************************************************)
ClosedTo(n, d) == n \in DOMAIN events /\ events[n].state = "CLOSED" /\ events[n].dispo = d
OwesTriage(c, n) == EventTask("createTriage", c, n) \in tasks

StorageReturnIsOwed ==
    /\ [][\A n \in DOMAIN events' :
             ClosedTo(n, "to_storage")' /\ ~ClosedTo(n, "to_storage")
                => OwesTriage(events[n].car, n)']_seVars
    /\ [][\A c \in Cars, n \in DOMAIN events :
             OwesTriage(c, n) => OwesTriage(c, n)' \/ OpenEntries(c)' # {}]_seVars

(***************************************************************************)
(* A car sent to storage reaches the triage screen (S8): when nothing      *)
(* fails, the promise is kept after every close, whatever became of the    *)
(* entries the car had before.  The open entry it finds may be one that a  *)
(* call resolves already, for an event created before the close: the code  *)
(* makes no other then.  The event loop keeps running promises, which is   *)
(* the fairness assumed.                                                   *)
(***************************************************************************)
RunTask(t) == RunOpenIdle(t) \/ RunCloseIdle(t) \/ RunCreateTriage(t)
Fairness ==
    \A t \in {EventTask(k, c, n) : k \in TaskKinds, c \in Cars, n \in 1..MaxEvents} :
        WF_seVars(RunTask(t) /\ UNCHANGED <<events, creator>>)
SEFairSpec == SESpec /\ Fairness

StorageReturnIsTriaged ==
    /\ StorageReturnIsOwed
    /\ \A c \in Cars, n \in 1..MaxEvents :
          OwesTriage(c, n) ~> ~OwesTriage(c, n) /\ OpenEntries(c) # {}
=============================================================================
