---------------------------- MODULE Notifications ----------------------------
(***************************************************************************)
(* internal/notifications: what becomes of the evaluator's transitions.    *)
(* The dispatcher suppresses, defers or sends each of them by the delivery *)
(* policy; the flusher releases deferred ones when quiet hours are over;   *)
(* sends are detached goroutines.                                          *)
(*                                                                         *)
(* The shared channels and each subscriber's personal ones are served by   *)
(* the same steps from their own policy, rows and channels; there is one   *)
(* such owner here, with one channel.  Severities matter through their     *)
(* mode only, quiet windows through whether the clock is in one.           *)
(***************************************************************************)
EXTENDS Alerts

CONSTANT DefaultMode     \* DefaultSeverities of the rule's severity

Modes == {"dashboard", "quiet", "always"}

ASSUME NotificationsAssumption == DefaultMode \in Modes

VARIABLES mode,          \* Policy.ModeFor of the rule's severity
          quiet,         \* Policy.InQuietHours
          pending,       \* notification_pending: a set of rows
          emitted,       \* transitions dispatched so far; numbers and orders the rows
          sends,         \* goroutines inside deliver
          flush          \* the FlushPending under way

notifyVars == <<mode, quiet, pending, emitted, sends, flush>>
vars == <<clock, rule, breach, inst, ev, mode, quiet, pending, emitted, sends, flush>>

Init ==
    /\ AlertsInit
    /\ mode = DefaultMode   \* DefaultPolicy: no quiet windows
    /\ quiet = FALSE
    /\ pending = {}
    /\ emitted = 0
    /\ sends = {}
    /\ flush = None

-----------------------------------------------------------------------------
\* The clock enters or leaves a quiet window, or the operator edits it.
QuietChanges ==
    /\ quiet' = ~quiet
    /\ UNCHANGED <<alertVars, mode, pending, emitted, sends, flush>>

SetPolicy(m) ==
    /\ m # mode
    /\ mode' = m
    /\ UNCHANGED <<alertVars, quiet, pending, emitted, sends, flush>>

\* What a policy says to do with a transition of this severity.
Plan(m, q) == IF m = "dashboard" THEN "suppress" ELSE IF m = "quiet" /\ q THEN "defer" ELSE "send"

Begin(plan) ==
    /\ Reconciled /\ ev.out # <<>>
    /\ ev' = [pc |-> "emit", out |-> ev.out, plan |-> plan]
    /\ UNCHANGED <<clock, rule, breach, inst, notifyVars>>

\* Emit: channels and policy are read once for the batch.
EmitStart == Begin(Plan(mode, quiet))

\* GetPolicy fails: the default policy, which has no quiet windows.
EmitByDefault == Begin(Plan(DefaultMode, FALSE))

\* The channels cannot be listed: the batch is dropped.
EmitFails ==
    /\ Reconciled /\ ev.out # <<>>
    /\ ev' = None
    /\ UNCHANGED <<clock, rule, breach, inst, notifyVars>>

Row(t) == [sys |-> t.sys, kind |-> t.kind, n |-> emitted + 1]

NextTransition == ev' = IF Len(ev.out) = 1 THEN None ELSE [ev EXCEPT !.out = Tail(@)]

Enqueue ==
    /\ At("emit") /\ ev.plan = "defer"
    /\ pending' = pending \cup {Row(Head(ev.out))}
    /\ emitted' = emitted + 1
    /\ NextTransition
    /\ UNCHANGED <<clock, rule, breach, inst, mode, quiet, sends, flush>>

\* Suppressed by the policy: nothing but a line in the delivery log.
Suppress ==
    /\ At("emit") /\ ev.plan = "suppress"
    /\ emitted' = emitted + 1
    /\ NextTransition
    /\ UNCHANGED <<clock, rule, breach, inst, mode, quiet, pending, sends, flush>>

\* The INSERT fails: the transition is gone.
EnqueueFails ==
    /\ At("emit") /\ ev.plan = "defer"
    /\ emitted' = emitted + 1
    /\ NextTransition
    /\ UNCHANGED <<clock, rule, breach, inst, mode, quiet, pending, sends, flush>>

\* To the enabled channels the rule is routed to, of which there may be none.
fanOut(m) == sends' \in {sends, sends \cup {m}}

FanOut ==
    /\ At("emit") /\ ev.plan = "send"
    /\ fanOut(Row(Head(ev.out)))
    /\ emitted' = emitted + 1
    /\ NextTransition
    /\ UNCHANGED <<clock, rule, breach, inst, mode, quiet, pending, flush>>

\* Goroutines run in any order; a send that fails is recorded, not retried.
Deliver(m) ==
    /\ m \in sends
    /\ sends' = sends \ {m}
    /\ UNCHANGED <<alertVars, mode, quiet, pending, emitted, flush>>

-----------------------------------------------------------------------------
FlushPending ==
    /\ flush = None /\ pending # {}
    /\ flush' = [rows |-> pending, quiet |-> quiet, todo |-> {}, done |-> {}, pc |-> "policy"]
    /\ UNCHANGED <<alertVars, mode, quiet, pending, emitted, sends>>

Release == flush' = [flush EXCEPT !.pc = "groups", !.todo = {m.sys : m \in flush.rows}]

\* The owner's policy is read after the rows and the clock: the answer is
\* that of either moment.  While it is quiet, all rows stay.
Governing ==
    /\ flush # None /\ flush.pc = "policy"
    /\ \E q \in {flush.quiet, quiet} : IF q THEN flush' = None ELSE Release
    /\ UNCHANGED <<alertVars, mode, quiet, pending, emitted, sends>>

\* GetPolicy fails: the default policy is never quiet.
GoverningByDefault ==
    /\ flush # None /\ flush.pc = "policy"
    /\ Release
    /\ UNCHANGED <<alertVars, mode, quiet, pending, emitted, sends>>

Group(s) == {m \in flush.rows : m.sys = s}

\* ListPending is oldest first, and the last row of a group is the one sent.
Newest(items) == CHOOSE m \in items : \A k \in items : k.n <= m.n

collapses(items) == {m.kind : m \in items} = {"fired", "resolved"}

\* Mutant: a collapsed group is skipped before it is marked processed.
FlushGroup_unmarked(s) ==
    LET items == Group(s)
    IN  /\ flush # None /\ flush.pc = "groups" /\ s \in flush.todo
        /\ flush' = [flush EXCEPT !.todo = @ \ {s},
              !.done = IF collapses(items) THEN @ ELSE @ \cup items]
        /\ IF collapses(items) THEN sends' = sends ELSE fanOut(Newest(items))
        /\ UNCHANGED <<alertVars, mode, quiet, pending, emitted>>

FlushGroup(s) ==
    LET items == Group(s)
    IN  /\ flush # None /\ flush.pc = "groups" /\ s \in flush.todo
        /\ flush' = [flush EXCEPT !.todo = @ \ {s}, !.done = @ \cup items]
        /\ IF collapses(items) THEN sends' = sends ELSE fanOut(Newest(items))
        /\ UNCHANGED <<alertVars, mode, quiet, pending, emitted>>

Flushed == flush # None /\ flush.pc = "groups" /\ flush.todo = {}

\* Mutant: the table is emptied, rows queued since the listing included.
DeletePending_all ==
    /\ Flushed
    /\ pending' = {}
    /\ flush' = None
    /\ UNCHANGED <<alertVars, mode, quiet, emitted, sends>>

DeletePending ==
    /\ Flushed
    /\ pending' = pending \ flush.done
    /\ flush' = None
    /\ UNCHANGED <<alertVars, mode, quiet, emitted, sends>>

\* The DELETE fails: the rows stay for the next round.
DeletePendingFails ==
    /\ Flushed
    /\ flush' = None
    /\ UNCHANGED <<alertVars, mode, quiet, pending, emitted, sends>>

-----------------------------------------------------------------------------
\* The process dies: evaluation, flush and sends are lost, the tables stay.
Crash ==
    /\ ev # None \/ flush # None \/ sends # {}
    /\ ev' = None /\ flush' = None /\ sends' = {}
    /\ UNCHANGED <<clock, rule, breach, inst, mode, quiet, pending, emitted>>

Evaluate == UNCHANGED notifyVars /\ Evaluation

EditRule == UNCHANGED notifyVars /\ \E state \in {"on", "off", "gone"} : Update(state)

World == \/ UNCHANGED notifyVars /\ (Advance \/ \E s \in Systems : BreachChanges(s))
         \/ QuietChanges

EditPolicy == \E m \in Modes : SetPolicy(m)

Dispatch == \/ EmitStart \/ Enqueue \/ Suppress \/ FanOut
            \/ \E m \in sends : Deliver(m)

Flush == \/ FlushPending \/ Governing \/ DeletePending
         \/ \E s \in Systems : FlushGroup(s)

\* A statement fails, or the process dies.
Fault == \/ UNCHANGED notifyVars /\ EvaluateFails
         \/ EmitByDefault \/ EmitFails \/ EnqueueFails
         \/ GoverningByDefault \/ DeletePendingFails
         \/ Crash

Next == Evaluate \/ EditRule \/ EditPolicy \/ World \/ Dispatch \/ Flush \/ Fault

Spec == Init /\ [][Next]_vars

-----------------------------------------------------------------------------
Rows == [sys : Systems, kind : {"fired", "resolved"}, n : Nat]

Emits == [pc : {"emit"}, out : Seq(Transitions) \ {<<>>}, plan : {"suppress", "defer", "send"}]

Flushes == [rows : SUBSET Rows, quiet : BOOLEAN, todo : SUBSET Systems,
            done : SUBSET Rows, pc : {"policy", "groups"}]

ASSUME NoneAssumption == None \notin Instance \cup Loads \cup Reconciles \cup Emits \cup Flushes

\* As AlertsTypeOK, with the evaluation, the deferred rows, the flush and
\* the sends.
TypeOK ==
    /\ AlertsTypeOK
    /\ ev \in Loads \cup Reconciles \cup Emits \cup {None}
    /\ mode \in Modes /\ quiet \in BOOLEAN
    /\ emitted \in Nat
    /\ pending \subseteq Rows
    /\ sends \subseteq Rows
    /\ flush \in Flushes \cup {None}

(* A deferred row leaves the table only after the flusher has dealt with   *)
(* its group, also when the evaluator queues rows between the flusher's    *)
(* listing and its delete.                                                 *)
DeferredRowsAreProcessed ==
    [][\A m \in pending \ pending' : flush # None /\ m \in flush.done]_vars
=============================================================================
