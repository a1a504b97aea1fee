------------------------------- MODULE Scrap -------------------------------
(***************************************************************************)
(* scrap.service.ts over the table scraps, together with the shopping      *)
(* events, the idle periods and the triage queue it reads and writes.      *)
(*                                                                         *)
(* createScrapProposal reads seven times before its INSERT and nothing in  *)
(* the table repeats those tests.  A transition is one UPDATE through the  *)
(* trigger; completing and cancelling test the status they read first, and *)
(* the row may have moved by the time they write it.                       *)
(***************************************************************************)
EXTENDS ShoppingEvent, FiniteSets

CONSTANTS
    ScrapProcs,    \* concurrent requests on scraps
    ScrapRequests, \* statuses clients ask for
    MaxScraps      \* bound: rows of scraps

\* Mutants: approval may be skipped; work underway may be cancelled.
ScrapGraphSkipsApproval == [
    proposed     |-> {"under_review", "cancelled"},
    under_review |-> {"approved", "scheduled", "cancelled"},
    approved     |-> {"scheduled"},
    scheduled    |-> {"in_progress", "cancelled"},
    in_progress  |-> {"completed"},
    completed    |-> {},
    cancelled    |-> {}]
ScrapGraphCancelsLate ==
    [ScrapGraphSkipsApproval EXCEPT !.under_review = {"approved", "cancelled"},
                                    !.in_progress = {"completed", "cancelled"}]

\* enforce_scrap_status_transition
ScrapGraph == [
    proposed     |-> {"under_review", "cancelled"},
    under_review |-> {"approved", "cancelled"},
    approved     |-> {"scheduled"},
    scheduled    |-> {"in_progress", "cancelled"},
    in_progress  |-> {"completed"},
    completed    |-> {},
    cancelled    |-> {}]

ScrapStatuses == DOMAIN ScrapGraph
ScrapTerminal == {"completed", "cancelled"}

ASSUME ScrapAssumption ==
    /\ ScrapRequests \subseteq ScrapStatuses
    /\ MaxScraps \in Nat

VARIABLES
    scraps,     \* rows of scraps, in order of creation
    scrapCalls  \* [ScrapProcs -> state of a request]

scVars == <<seVars, scraps, scrapCalls>>

\* The stages whose *_at column the trigger fills and scheduling depends on.
Stamps == {"under_review", "approved", "scheduled"}
ScrapRow == [car: Cars, status: ScrapStatuses, stamps: SUBSET Stamps]

\* What createScrapProposal tests, in order, and what comes next.
AfterCheck == [
    idle   |-> "events",
    events |-> "lease",
    lease  |-> "scraps",
    scraps |-> "recheck",
    recheck |-> "insert"]
ScrapPC == {"triage", "insert", "complete", "cancel", "retriage"} \cup DOMAIN AfterCheck

\* found: an open triage entry was read; k: the row the request is about.
ScrapCall == [pc: ScrapPC, car: Cars, k: Nat, found: BOOLEAN]
NoScrapCall == [pc |-> "none"]

ScTypeOK ==
    /\ SETypeOK
    /\ scraps \in Seq(ScrapRow)
    /\ scrapCalls \in [ScrapProcs -> ScrapCall \cup {NoScrapCall}]
    /\ \A s \in ScrapProcs : scrapCalls[s].pc \in {"complete", "cancel", "retriage"} =>
          scrapCalls[s].k \in DOMAIN scraps

ScInit ==
    /\ SEInit
    /\ scraps = <<>>
    /\ scrapCalls = [s \in ScrapProcs |-> NoScrapCall]

ScrapGoto(s, pc) == scrapCalls' = [scrapCalls EXCEPT ![s].pc = pc]
ScrapReturn(s) == scrapCalls' = [scrapCalls EXCEPT ![s] = NoScrapCall]

-----------------------------------------------------------------------------
(* createScrapProposal.                                                    *)

Proposing == {s \in ScrapProcs : scrapCalls[s].pc \in {"triage", "insert"} \cup DOMAIN AfterCheck}

\* Read the car; a disposed one is refused.
StartProposal(s, c) ==
    /\ scrapCalls[s].pc = "none"
    /\ Len(scraps) + Cardinality(Proposing) < MaxScraps
    /\ c \notin disposed
    /\ scrapCalls' = [scrapCalls EXCEPT ![s] =
                        [pc |-> "triage", car |-> c, k |-> 0, found |-> FALSE]]
    /\ UNCHANGED <<seVars, scraps>>

ReadTriage(s) ==
    /\ scrapCalls[s].pc = "triage"
    /\ scrapCalls' = [scrapCalls EXCEPT ![s].pc = "idle",
                                        ![s].found = OpenEntries(scrapCalls[s].car) # {}]
    /\ UNCHANGED <<seVars, scraps>>

\* The lease is read from tables of another component: either answer is possible.
ProposalPasses(call) ==
    CASE call.pc = "idle" -> call.found \/ call.car \in idle
      [] call.pc \in {"events", "recheck"} -> \A n \in Of(call.car) : ~IsOpen(n)
      [] call.pc = "scraps" ->
            \A k \in DOMAIN scraps :
                scraps[k].car = call.car => scraps[k].status \in ScrapTerminal
      [] OTHER -> TRUE
ProposalFails(call) == call.pc = "lease" \/ ~ProposalPasses(call)

CheckProposal(s) ==
    LET call == scrapCalls[s] IN
    /\ call.pc \in DOMAIN AfterCheck
    /\ \/ ProposalPasses(call) /\ ScrapGoto(s, AfterCheck[call.pc])
       \/ ProposalFails(call) /\ ScrapReturn(s)
    /\ UNCHANGED <<seVars, scraps>>

InsertScrap(s) ==
    /\ scrapCalls[s].pc = "insert"
    /\ scraps' = Append(scraps, [car |-> scrapCalls[s].car, status |-> "proposed", stamps |-> {}])
    /\ ScrapReturn(s)
    /\ UNCHANGED seVars

-----------------------------------------------------------------------------
(* transitionScrap.                                                        *)

\* Both triggers: the status graph, and no update of a completed row.
ScrapAccepts(from, to) ==
    /\ from # "completed"
    /\ from = to \/ to \in ScrapGraph[from]

\* Mutant: every status has a stamp of its own.
ScrapUpdateStampsAll(k, to) ==
    scraps' = [scraps EXCEPT ![k].status = to, ![k].stamps = @ \cup {to}]

ScrapUpdate(k, to) ==
    scraps' = [scraps EXCEPT ![k].status = to,
                             ![k].stamps = @ \cup ({to} \cap Stamps)]

\* under_review, approved, scheduled, in_progress: one UPDATE.  The row read
\* before serves the log only.
TransitionScrap(k, to) ==
    /\ to \notin ScrapTerminal
    /\ ScrapAccepts(scraps[k].status, to)
    /\ ScrapUpdate(k, to)
    /\ UNCHANGED <<seVars, scrapCalls>>

Routed(s, k, pc) ==
    /\ scrapCalls[s].pc = "none"
    /\ scrapCalls' = [scrapCalls EXCEPT ![s] =
                        [pc |-> pc, car |-> scraps[k].car, k |-> k, found |-> FALSE]]
    /\ UNCHANGED <<seVars, scraps>>

\* completeScrap, on the row getScrap read.
StartComplete(s, k) ==
    /\ scraps[k].status = "in_progress"
    /\ Routed(s, k, "complete")

\* Mutant: the car is written outside the transaction of the scrap.
CompleteScrapInTwo(s) ==
    LET call == scrapCalls[s] IN
    /\ call.pc = "complete"
    /\ ScrapAccepts(scraps[call.k].status, "completed")
    /\ ScrapUpdate(call.k, "completed")
    /\ CompleteScrapEffects(call.car) \/ (Faults /\ UNCHANGED sideVars)
    /\ ScrapReturn(s)
    /\ UNCHANGED <<events, creator>>

\* Mutant: the triage entry of the car is forgotten.
CompleteScrapKeepsTriage(s) ==
    LET call == scrapCalls[s] IN
    /\ call.pc = "complete"
    /\ ScrapAccepts(scraps[call.k].status, "completed")
    /\ ScrapUpdate(call.k, "completed")
    /\ disposed' = disposed \cup {call.car}
    /\ idle' = idle \ {call.car}
    /\ ScrapReturn(s)
    /\ UNCHANGED <<triage, tasks, resolving, events, creator>>

\* Its transaction.  Rolled back when the trigger refuses the row.
CompleteScrap(s) ==
    LET call == scrapCalls[s] IN
    /\ call.pc = "complete"
    /\ IF ScrapAccepts(scraps[call.k].status, "completed")
       THEN /\ ScrapUpdate(call.k, "completed")
            /\ CompleteScrapEffects(call.car)
       ELSE UNCHANGED <<sideVars, scraps>>
    /\ ScrapReturn(s)
    /\ UNCHANGED <<events, creator>>

\* cancelScrap, on the row getScrap read: R9.
StartCancel(s, k) ==
    /\ scraps[k].status \notin ScrapTerminal \cup {"in_progress"}
    /\ Routed(s, k, "cancel")

\* Mutant: the triage entry (S6) is only asked for when the car is idle.
CancelScrapIfIdle(s) ==
    LET call == scrapCalls[s] IN
    /\ call.pc = "cancel"
    /\ IF ScrapAccepts(scraps[call.k].status, "cancelled")
       THEN /\ ScrapUpdate(call.k, "cancelled")
            /\ IF call.car \in idle THEN ScrapGoto(s, "retriage") ELSE ScrapReturn(s)
       ELSE UNCHANGED scraps /\ ScrapReturn(s)
    /\ UNCHANGED seVars

CancelScrap(s) ==
    LET call == scrapCalls[s] IN
    /\ call.pc = "cancel"
    /\ IF ScrapAccepts(scraps[call.k].status, "cancelled")
       THEN ScrapUpdate(call.k, "cancelled") /\ ScrapGoto(s, "retriage")
       ELSE UNCHANGED scraps /\ ScrapReturn(s)
    /\ UNCHANGED seVars

\* The awaited createTriageEntry (S6); a duplicate is caught and logged.
RetriageCancelled(s) ==
    /\ scrapCalls[s].pc = "retriage"
    /\ TriageRoom \/ OpenEntries(scrapCalls[s].car) # {}
    /\ InsertTriage(scrapCalls[s].car)
    /\ ScrapReturn(s)
    /\ UNCHANGED <<disposed, idle, tasks, resolving, events, creator, scraps>>

\* Any statement may fail; the error ends the request.
ScrapCallFails(s) ==
    /\ Faults
    /\ scrapCalls[s].pc # "none"
    /\ ScrapReturn(s)
    /\ UNCHANGED <<seVars, scraps>>

ScrapRequest(s) ==
    \/ \E c \in Cars : "proposed" \in ScrapRequests /\ StartProposal(s, c)
    \/ \E k \in DOMAIN scraps :
        \/ "completed" \in ScrapRequests /\ StartComplete(s, k)
        \/ "cancelled" \in ScrapRequests /\ StartCancel(s, k)

ScrapCallStep(s) ==
    ReadTriage(s) \/ CheckProposal(s) \/ InsertScrap(s) \/ CompleteScrap(s)
        \/ CancelScrap(s) \/ RetriageCancelled(s)

ScCrash == Crash /\ scrapCalls' = [s \in ScrapProcs |-> NoScrapCall] /\ UNCHANGED scraps

ScNext ==
    \/ SEStep /\ UNCHANGED <<scraps, scrapCalls>>
    \/ \E s \in ScrapProcs : ScrapRequest(s) \/ ScrapCallStep(s) \/ ScrapCallFails(s)
    \/ \E k \in DOMAIN scraps, to \in ScrapRequests : TransitionScrap(k, to)
    \/ ScCrash

ScSpec == ScInit /\ [][ScNext]_scVars

-----------------------------------------------------------------------------
(***************************************************************************)
(* R5: a car leaves the fleet with its completed scrap and not otherwise,  *)
(* although the scrap row, the car, its idle period and its triage entry   *)
(* are four tables and requests, failures and crashes come in between.     *)
(***************************************************************************)
DisposedIffScrapped ==
    \A c \in Cars : c \in disposed <=>
        \E k \in DOMAIN scraps : scraps[k].car = c /\ scraps[k].status = "completed"

(***************************************************************************)
(* A scrap is irreversible, so none is completed, or even underway, that   *)
(* was not reviewed, approved and scheduled, in whatever order and however *)
(* often clients sent the transitions.                                     *)
(***************************************************************************)
ScrapUnderwayWasApproved ==
    \A k \in DOMAIN scraps :
        scraps[k].status \in {"in_progress", "completed"} => scraps[k].stamps = Stamps

(***************************************************************************)
(* The workflow implements Disposal: R9 (work once begun is finished, even *)
(* when a cancellation read the scrap before it began), ended scraps stay  *)
(* as they ended, and cars go exactly when their work is finished.         *)
(***************************************************************************)
Stage(status) ==
    CASE status = "in_progress" -> "begun"
      [] status = "completed" -> "finished"
      [] status = "cancelled" -> "dropped"
      [] OTHER -> "planned"

WorkItem(row) == [car |-> row.car, stage |-> Stage(row.status)]
Work == [k \in DOMAIN scraps |-> WorkItem(scraps[k])]

Promised == INSTANCE Disposal WITH work <- Work, gone <- disposed

DisposalKept == Promised!Spec

(***************************************************************************)
(* Scraps leave the shopping events and their side effects as ShoppingEvent*)
(* describes them: every step is one of that module's own, a completed     *)
(* scrap as its ScrapCompletes, a cancelled one as a planner's triage      *)
(* entry.  All that holds of ShoppingEvent holds of the composition.       *)
(***************************************************************************)
ShoppingEventKept == SESpec

(***************************************************************************)
(* The car of a cancelled scrap is never forgotten: the step that cancels  *)
(* the scrap leaves a request that will put the car before a planner, and  *)
(* the request does not end but by a step after which the car has an open  *)
(* entry, though two requests cancel at once, the car may have been        *)
(* proposed without an entry and entries of earlier times are resolved.    *)
(***************************************************************************)
Retriages(s, c) == scrapCalls[s].pc = "retriage" /\ scrapCalls[s].car = c

CancelledScrapIsOwed ==
    /\ [][\A k \in DOMAIN scraps :
             scraps[k].status # "cancelled" /\ scraps'[k].status = "cancelled"
                => \E s \in ScrapProcs : Retriages(s, scraps[k].car)']_scVars
    /\ [][\A s \in ScrapProcs, c \in Cars :
             Retriages(s, c) => Retriages(s, c)' \/ OpenEntries(c)' # {}]_scVars

(***************************************************************************)
(* S6: when nothing fails, every cancelled scrap ends with an open triage  *)
(* entry for its car, its own or the one that stood in its way.  The event *)
(* loop runs every request and every promise on, the fairness assumed.     *)
(***************************************************************************)
ScFairness ==
    /\ \A s \in ScrapProcs : WF_scVars(ScrapCallStep(s))
    /\ \A t \in {EventTask(kind, c, n) : kind \in TaskKinds, c \in Cars, n \in 1..MaxEvents} :
          WF_scVars(RunTask(t) /\ UNCHANGED <<events, creator, scraps, scrapCalls>>)
ScFairSpec == ScSpec /\ ScFairness

CancelledScrapIsTriaged ==
    /\ CancelledScrapIsOwed
    /\ \A s \in ScrapProcs, c \in Cars :
          Retriages(s, c) ~> ~Retriages(s, c) /\ OpenEntries(c) # {}
=============================================================================
