------------------------ MODULE CarSideEffectsProofs ------------------------
(***************************************************************************)
(* What the promises and the planner requests keep, for every component    *)
(* that has these side effects.                                            *)
(***************************************************************************)
EXTENDS CarSideEffects, SequenceTheorems, TLAPS

(***************************************************************************)
(* Running or losing a promise, and the triage screen, keep the types of   *)
(* the tables.                                                             *)
(***************************************************************************)
LEMMA PromiseTypes ==
    SideTypeOK /\ (RunPromise \/ PromiseRejects \/ PlannerStep) => SideTypeOK'
<1> SUFFICES ASSUME SideTypeOK, RunPromise \/ PromiseRejects \/ PlannerStep
             PROVE  SideTypeOK'
  OBVIOUS
<1> USE DEF SideTypeOK
<1>1. ASSUME NEW t \in tasks, RunOpenIdle(t) \/ RunCloseIdle(t)
      PROVE  SideTypeOK'
  BY <1>1 DEF RunOpenIdle, RunCloseIdle, Task
<1>2. ASSUME NEW c \in Cars, InsertTriage(c)
      PROVE  triage' \in Seq(TriageRow)
  <2>1. [car |-> c, resolution |-> Open] \in TriageRow
    BY DEF TriageRow
  <2>2. Append(triage, [car |-> c, resolution |-> Open]) \in Seq(TriageRow)
    BY <2>1, AppendProperties
  <2> QED
    BY <2>2, <1>2 DEF InsertTriage
<1>3. ASSUME NEW t \in tasks, RunCreateTriage(t)
      PROVE  SideTypeOK'
  BY <1>3, <1>2 DEF RunCreateTriage, Task
<1>4. ASSUME NEW r \in resolving, CheckResolve(r)
      PROVE  SideTypeOK'
  BY <1>4 DEF CheckResolve, ResolveCall
<1>5. ASSUME NEW r \in resolving, ApplyResolve(r)
      PROVE  SideTypeOK'
  <2>1. triage' = [triage EXCEPT ![r.entry] = [triage[r.entry] EXCEPT !.resolution = r.resolution]]
    BY <1>5 DEF ApplyResolve
  <2>2. CASE r.entry \in DOMAIN triage
    <3>1. triage[r.entry] \in TriageRow /\ r.resolution \in Resolutions
      BY <2>2 DEF ResolveCall
    <3>2. [triage[r.entry] EXCEPT !.resolution = r.resolution] \in TriageRow
      BY <3>1 DEF TriageRow
    <3> QED
      BY <2>1, <2>2, <3>2, <1>5, ExceptSeq, LenProperties DEF ApplyResolve
  <2>3. CASE r.entry \notin DOMAIN triage
    <3>1. triage' = triage
      BY <2>1, <2>3, LenProperties
    <3> QED
      BY <3>1, <1>5 DEF ApplyResolve
  <2> QED
    BY <2>2, <2>3
<1>6. CASE PromiseRejects
  BY <1>6 DEF PromiseRejects
<1>7. ASSUME NEW c \in Cars, ManualTriage(c)
      PROVE  SideTypeOK'
  BY <1>7, <1>2 DEF ManualTriage
<1>8. ASSUME NEW k \in DOMAIN triage, NEW res \in ManualResolutions, ManualResolve(k, res)
      PROVE  SideTypeOK'
  <2> DEFINE call == [entry |-> k, resolution |-> res, src |-> 0, checked |-> FALSE]
  <2>1. k \in Nat
    BY LenProperties
  <2>2. call \in ResolveCall
    BY <2>1 DEF ResolveCall, Resolutions
  <2>3. resolving' = resolving \cup {call}
    BY <1>8 DEF ManualResolve, SpawnResolve
  <2> HIDE DEF call
  <2> QED
    BY <2>2, <2>3, <1>8 DEF ManualResolve
<1> QED
  BY <1>1, <1>3, <1>4, <1>5, <1>6, <1>7, <1>8 DEF RunPromise, PlannerStep

-----------------------------------------------------------------------------
(* A planner who is owed a car stays owed it.                              *)

(***************************************************************************)
(* Whether the index accepts the row or refuses it, the car has an open    *)
(* entry afterwards.                                                       *)
(***************************************************************************)
LEMMA InsertTriages ==
    ASSUME SideTypeOK, NEW d \in Cars, InsertTriage(d)
    PROVE  OpenEntries(d)' # {}
<1> DEFINE row == [car |-> d, resolution |-> Open]
<1>1. CASE OpenEntries(d) = {}
  <2>1. row \in TriageRow
    BY DEF TriageRow
  <2>2. triage' = Append(triage, row) /\ triage \in Seq(TriageRow)
    BY <1>1 DEF InsertTriage, SideTypeOK
  <2> HIDE DEF row
  <2>3. Len(triage) + 1 \in DOMAIN triage' /\ triage'[Len(triage) + 1] = row
    BY <2>1, <2>2, AppendProperties, LenProperties
  <2> QED
    BY <2>3 DEF OpenEntries, row
<1>2. CASE OpenEntries(d) # {}
  BY <1>2 DEF InsertTriage, OpenEntries
<1> QED
  BY <1>1, <1>2

(***************************************************************************)
(* When no promise is lost, the promise of a triage entry is pending until *)
(* the car has an open one.                                                *)
(***************************************************************************)
LEMMA PromisesAreKept ==
    ASSUME SideTypeOK, ~Faults, RunPromise \/ PromiseRejects \/ PlannerStep,
           NEW t \in tasks, t.kind = "createTriage"
    PROVE  t \in tasks' \/ OpenEntries(t.car)' # {}
<1>1. ASSUME NEW u \in tasks, RunOpenIdle(u) \/ RunCloseIdle(u)
      PROVE  t \in tasks'
  BY <1>1 DEF RunOpenIdle, RunCloseIdle
<1>2. ASSUME NEW u \in tasks, RunCreateTriage(u)
      PROVE  t \in tasks' \/ OpenEntries(t.car)' # {}
  <2>1. t.car \in Cars
    BY DEF SideTypeOK, Task
  <2> QED
    BY <1>2, <2>1, InsertTriages DEF RunCreateTriage
<1>3. ASSUME NEW r \in resolving, CheckResolve(r) \/ ApplyResolve(r)
      PROVE  UNCHANGED tasks
  BY <1>3 DEF CheckResolve, ApplyResolve
<1>4. PlannerStep => UNCHANGED tasks
  BY DEF PlannerStep, ManualTriage, ManualResolve
<1>5. ~PromiseRejects
  BY DEF PromiseRejects
<1> QED
  BY <1>1, <1>2, <1>3, <1>4, <1>5 DEF RunPromise
=============================================================================
