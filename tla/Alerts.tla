------------------------------- MODULE Alerts -------------------------------
(***************************************************************************)
(* internal/alerts: the evaluator that turns breaches of one rule into     *)
(* pending and firing instances and into fired / resolved transitions.     *)
(* Rules are evaluated one after the other and share nothing but the batch *)
(* of transitions, so that there is one rule here.                         *)
(*                                                                         *)
(* An evaluation reads the rule, the breaches and the instances once, then *)
(* writes one statement per system from that copy, while operators edit    *)
(* the rule.  The transitions leave it through Emit: see Notifications.    *)
(***************************************************************************)
EXTENDS Integers, Sequences, FiniteSets

CONSTANTS Systems,       \* the systems the rule targets
          For,           \* Rule.ForSeconds, in ticks of the clock
          MaxTime,       \* bound on the clock
          None           \* no instance; no evaluation under way

ASSUME AlertsAssumption == IsFiniteSet(Systems) /\ For \in Nat /\ MaxTime \in Nat

VARIABLES clock,         \* wall clock
          rule,          \* alert_rules: "on", "off" or "gone"
          breach,        \* environment: the systems over the threshold
          inst,          \* alert_instances
          ev             \* the evaluation under way

alertVars == <<clock, rule, breach, inst, ev>>

AlertsInit ==
    /\ clock = 0
    /\ rule = "on"
    /\ breach = {}
    /\ inst = [s \in Systems |-> None]
    /\ ev = None

-----------------------------------------------------------------------------
\* The environment and the operator.
BreachChanges(s) ==
    /\ breach' = IF s \in breach THEN breach \ {s} ELSE breach \cup {s}
    /\ UNCHANGED <<clock, rule, inst, ev>>

Advance ==
    /\ clock < MaxTime
    /\ clock' = clock + 1
    /\ UNCHANGED <<rule, breach, inst, ev>>

\* A rule that is disabled or deleted takes its instances along.
Update(state) ==
    /\ rule # "gone" /\ state # rule
    /\ rule' = state
    /\ inst' = IF state = "on" THEN inst ELSE [s \in Systems |-> None]
    /\ UNCHANGED <<clock, breach, ev>>

-----------------------------------------------------------------------------
At(place) == ev # None /\ ev.pc = place

\* EvaluateOnce: the clock is read once, for all rules.
ListEnabled ==
    /\ ev = None /\ rule = "on"
    /\ ev' = [pc |-> "load", at |-> clock]
    /\ UNCHANGED <<clock, rule, breach, inst>>

\* breachingSystems and InstancesForRule.
LoadRule ==
    /\ At("load")
    /\ ev' = [pc |-> "reconcile", at |-> ev.at, seen |-> inst, put |-> breach,
              del |-> {s \in Systems : inst[s] # None} \ breach, out |-> <<>>]
    /\ UNCHANGED <<clock, rule, breach, inst>>

\* The query, a read or a statement fails: the rule is given up for this
\* round, the transitions it had gathered included.
EvaluateFails ==
    /\ At("load") \/ (At("reconcile") /\ ev.put \cup ev.del # {})
    /\ ev' = None
    /\ UNCHANGED <<clock, rule, breach, inst>>

\* Pending long enough at the time of this evaluation.
Promoted(old) == old # None /\ old.state = "pending" /\ ev.at - old.since >= For

Fires(old) == (old = None /\ For = 0) \/ Promoted(old)

Transition(s, kind) == [sys |-> s, kind |-> kind]

\* Mutant: the promotion is announced and not stored.
PutInstance_unstored(s) ==
    LET old == ev.seen[s]
    IN  /\ At("reconcile") /\ s \in ev.put
        /\ inst' = [inst EXCEPT ![s] =
              IF old = None THEN [state |-> "pending", since |-> ev.at] ELSE old]
        /\ ev' = [ev EXCEPT !.put = @ \ {s},
              !.out = IF Fires(old) THEN Append(@, Transition(s, "fired")) ELSE @]
        /\ UNCHANGED <<clock, rule, breach>>

\* The row is written from the copy read before, whatever it is by now.
PutInstance(s) ==
    LET old == ev.seen[s]
    IN  /\ At("reconcile") /\ s \in ev.put
        /\ inst' = [inst EXCEPT ![s] =
              [state |-> IF Fires(old) THEN "firing" ELSE IF old = None THEN "pending" ELSE old.state,
               since |-> IF old = None THEN ev.at ELSE old.since]]
        /\ ev' = [ev EXCEPT !.put = @ \ {s},
              !.out = IF Fires(old) THEN Append(@, Transition(s, "fired")) ELSE @]
        /\ UNCHANGED <<clock, rule, breach>>

\* Mutant: only instances that alerted somebody are cleared.
DeleteInstance_firingOnly(s) ==
    LET firing == ev.seen[s].state = "firing"
    IN  /\ At("reconcile") /\ ev.put = {} /\ s \in ev.del
        /\ inst' = IF firing THEN [inst EXCEPT ![s] = None] ELSE inst
        /\ ev' = [ev EXCEPT !.del = @ \ {s},
              !.out = IF firing THEN Append(@, Transition(s, "resolved")) ELSE @]
        /\ UNCHANGED <<clock, rule, breach>>

\* A pending instance that clears never alerted anyone.
DeleteInstance(s) ==
    /\ At("reconcile") /\ ev.put = {} /\ s \in ev.del
    /\ inst' = [inst EXCEPT ![s] = None]
    /\ ev' = [ev EXCEPT !.del = @ \ {s},
          !.out = IF ev.seen[s].state = "firing" THEN Append(@, Transition(s, "resolved")) ELSE @]
    /\ UNCHANGED <<clock, rule, breach>>

\* Everything is written: the batch goes to the sink, if there is any.
Reconciled == At("reconcile") /\ ev.put \cup ev.del = {}

NothingToEmit ==
    /\ Reconciled /\ ev.out = <<>>
    /\ ev' = None
    /\ UNCHANGED <<clock, rule, breach, inst>>

Evaluation == \/ ListEnabled \/ LoadRule \/ NothingToEmit
              \/ \E s \in Systems : PutInstance(s) \/ DeleteInstance(s)

-----------------------------------------------------------------------------
Instance == [state : {"pending", "firing"}, since : 0..MaxTime]
Transitions == [sys : Systems, kind : {"fired", "resolved"}]

Loads == [pc : {"load"}, at : 0..MaxTime]
Reconciles == [pc : {"reconcile"}, at : 0..MaxTime, seen : [Systems -> Instance \cup {None}],
               put : SUBSET Systems, del : SUBSET Systems, out : Seq(Transitions)]

\* The rule and its instances keep their types.
AlertsTypeOK ==
    /\ clock \in 0..MaxTime
    /\ rule \in {"on", "off", "gone"}
    /\ breach \subseteq Systems
    /\ inst \in [Systems -> Instance \cup {None}]
=============================================================================
