--------------------------- MODULE CarSideEffects ---------------------------
(***************************************************************************)
(* The tables every car workflow writes as a side effect, and the way it   *)
(* writes them.                                                            *)
(*                                                                         *)
(* idle_periods and triage_queue hold at most one open row per car (unique *)
(* partial indexes of migration 078).  The services touch them through     *)
(* promises nobody awaits: `openIdlePeriod(..).catch(log)`.  Such a        *)
(* promise runs its statement at some later time, in any order with the    *)
(* others, or rejects (pool timeout, constraint) and is only logged, or is *)
(* lost with the process.  A pending promise is a member of `tasks` (one   *)
(* statement) or of `resolving` (resolveTriageEntry: a read, then an       *)
(* UPDATE).  A promise started twice by the same source is one member: the *)
(* second start is possible again once the first has run.                  *)
(***************************************************************************)
EXTENDS Naturals, Sequences

CONSTANTS
    Cars,              \* rows of cars
    ManualResolutions, \* resolutions planners choose on the triage screen
    MaxTriage,         \* bound: rows of triage_queue
    Faults             \* TRUE: promises may reject and the process may crash

Open == "open"  \* resolved_at IS NULL

ASSUME SideEffectAssumption ==
    /\ Open \notin ManualResolutions
    /\ MaxTriage \in Nat
    /\ Faults \in BOOLEAN

VARIABLES
    disposed,  \* cars whose fleet_status is 'disposed'
    idle,      \* cars with an idle period whose end_date IS NULL
    triage,    \* rows of triage_queue, in order of creation
    tasks,     \* pending one-statement promises
    resolving  \* resolveTriageEntry calls in flight

sideVars == <<disposed, idle, triage, tasks, resolving>>

Resolutions == ManualResolutions \cup {"assigned_to_shop", "scrap_proposed"}

TaskKinds == {"openIdle", "closeIdle", "createTriage"}

\* The table and the row on whose behalf a promise is started.
Sources == {"shopping_events_v2", "rider_cars", "car_releases"}
Task == [kind: TaskKinds, car: Cars, from: Sources, src: Nat]
TriageRow == [car: Cars, resolution: Resolutions \cup {Open}]
ResolveCall == [entry: Nat, resolution: Resolutions, src: Nat, checked: BOOLEAN]

SideTypeOK ==
    /\ disposed \subseteq Cars
    /\ idle \subseteq Cars
    /\ triage \in Seq(TriageRow)
    /\ tasks \subseteq Task
    /\ resolving \subseteq ResolveCall

SideInit ==
    /\ disposed = {}
    /\ idle \in SUBSET Cars
    /\ triage = <<>>
    /\ tasks = {}
    /\ resolving = {}

-----------------------------------------------------------------------------
(* Statements.                                                             *)

OpenEntries(c) == {k \in DOMAIN triage : triage[k] = [car |-> c, resolution |-> Open]}

\* Mutant: the index covers the resolved rows as well.
InsertTriageOnce(c) ==
    triage' = IF \A k \in DOMAIN triage : triage[k].car # c
              THEN Append(triage, [car |-> c, resolution |-> Open])
              ELSE triage

\* INSERT of an unresolved row; idx_triage_one_active rejects a second one.
InsertTriage(c) ==
    triage' = IF OpenEntries(c) = {}
              THEN Append(triage, [car |-> c, resolution |-> Open])
              ELSE triage

\* A new row only while the table has room (the bound of the model).
TriageRoom == Len(triage) < MaxTriage

SpawnResolve(k, res, s) ==
    resolving' = resolving \cup
        {[entry |-> k, resolution |-> res, src |-> s, checked |-> FALSE]}

-----------------------------------------------------------------------------
(* Promises.                                                               *)

\* INSERT INTO idle_periods; a duplicate is rejected and only logged.
RunOpenIdle(t) ==
    /\ t \in tasks
    /\ t.kind = "openIdle"
    /\ idle' = idle \cup {t.car}
    /\ tasks' = tasks \ {t}
    /\ UNCHANGED <<disposed, triage, resolving>>

\* UPDATE idle_periods ... WHERE end_date IS NULL: a no-op without an open row.
RunCloseIdle(t) ==
    /\ t \in tasks
    /\ t.kind = "closeIdle"
    /\ idle' = idle \ {t.car}
    /\ tasks' = tasks \ {t}
    /\ UNCHANGED <<disposed, triage, resolving>>

RunCreateTriage(t) ==
    /\ t \in tasks
    /\ t.kind = "createTriage"
    /\ TriageRoom \/ OpenEntries(t.car) # {}
    /\ InsertTriage(t.car)
    /\ tasks' = tasks \ {t}
    /\ UNCHANGED <<disposed, idle, resolving>>

\* resolveTriageEntry, first statement: read the row, throw if it is resolved.
CheckResolve(r) ==
    /\ r \in resolving
    /\ ~r.checked
    /\ resolving' = (resolving \ {r}) \cup
          IF triage[r.entry].resolution = Open THEN {[r EXCEPT !.checked = TRUE]} ELSE {}
    /\ UNCHANGED <<disposed, idle, triage, tasks>>

\* Second statement: UPDATE ... WHERE id = $5, whatever the row is by now.
ApplyResolve(r) ==
    /\ r \in resolving
    /\ r.checked
    /\ triage' = [triage EXCEPT ![r.entry].resolution = r.resolution]
    /\ resolving' = resolving \ {r}
    /\ UNCHANGED <<disposed, idle, tasks>>

\* A promise rejects (for instance no pool connection within 2 s): logged only.
PromiseRejects ==
    /\ Faults
    /\ \/ \E t \in tasks : tasks' = tasks \ {t} /\ UNCHANGED resolving
       \/ \E r \in resolving : resolving' = resolving \ {r} /\ UNCHANGED tasks
    /\ UNCHANGED <<disposed, idle, triage>>

RunPromise ==
    \/ \E t \in tasks : RunOpenIdle(t) \/ RunCloseIdle(t) \/ RunCreateTriage(t)
    \/ \E r \in resolving : CheckResolve(r) \/ ApplyResolve(r)

-----------------------------------------------------------------------------
(* Planner requests on the triage screen.                                  *)

\* POST /triage-queue
ManualTriage(c) ==
    /\ TriageRoom
    /\ OpenEntries(c) = {}
    /\ InsertTriage(c)
    /\ UNCHANGED <<disposed, idle, tasks, resolving>>

\* PUT /triage-queue/:id/resolve: resolveTriageEntry starts.
ManualResolve(k, res) ==
    /\ SpawnResolve(k, res, 0)
    /\ UNCHANGED <<disposed, idle, triage, tasks>>

PlannerStep ==
    \/ \E c \in Cars : ManualTriage(c)
    \/ \E k \in DOMAIN triage, res \in ManualResolutions : ManualResolve(k, res)
=============================================================================
