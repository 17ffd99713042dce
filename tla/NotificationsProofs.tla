------------------------- MODULE NotificationsProofs -------------------------
(***************************************************************************)
(* For any set of systems, any For and any bounds: alerts fire only after  *)
(* For, what was announced agrees with the table of instances, and a       *)
(* deferred row is handled once, however evaluator, dispatcher, flusher    *)
(* and operators interleave.                                               *)
(*                                                                         *)
(* For any week: quiet hours are the windows that were set.                *)
(*                                                                         *)
(* For any users, groups, channels, batch and settings: nobody is told of  *)
(* a system they could not read during the batch, and every owner gets the *)
(* batch as their own settings say, whatever happens to the others.        *)
(***************************************************************************)
EXTENDS MCNotifications, QuietHours, Recipients, SequenceTheorems, WellFoundedInduction, TLAPS

Waiting(i) == i # None /\ i.state = "pending"
Firing(i) == i # None /\ i.state = "firing"

HistoryOK ==
    /\ faults \in Nat /\ edits \in Nat /\ edited \in BOOLEAN
    /\ announced \in [Systems -> {"fired", "resolved"}]
    /\ clear \in [Systems -> 0..MaxTime]
    /\ handed \subseteq Rows

(* No pending instance is older than the last time its system was found    *)
(* healthy, in the table, unless it is about to be deleted, and in the     *)
(* copy the evaluation writes from.                                        *)
SinceFollowsClear ==
    faults = 0 =>
        /\ \A s \in Systems : clear[s] <= clock
        /\ At("load") \/ At("reconcile") => ev.at <= clock /\ \A s \in Systems : clear[s] <= ev.at
        /\ \A s \in Systems : Waiting(inst[s]) /\ ~(At("reconcile") /\ s \in ev.del) =>
                                 clear[s] <= inst[s].since
        /\ At("reconcile") => \A s \in ev.put : Waiting(ev.seen[s]) => clear[s] <= ev.seen[s].since

(* The table is what will have been announced once the evaluation's batch  *)
(* is, and where it was not yet written it is what the evaluation read.    *)
TableIsAnnounced ==
    faults = 0 /\ ~edited =>
        IF At("reconcile")
        THEN /\ \A s \in ev.put \cup ev.del : inst[s] = ev.seen[s]
             /\ \A s \in ev.del : ev.seen[s] # None /\ s \notin ev.put
             /\ \A s \in Systems : LastKind(s) = "fired" <=> Firing(inst[s])
        ELSE \A s \in Systems : announced[s] = "fired" <=> Firing(inst[s])

Listed == IF flush = None THEN {} ELSE flush.rows

(* Row numbers are those of transitions dispatched.                        *)
RowsAreNumbered ==
    /\ \A m \in pending \cup handed \cup Listed : m.n <= emitted
    /\ flush # None => flush.todo \subseteq {m.sys : m \in flush.rows}

(* What was handed to the channels is out of the table, but for the rows   *)
(* the flusher has marked and not yet deleted.                             *)
HandedIsDone ==
    faults = 0 =>
        IF flush = None THEN pending \cap handed = {}
        ELSE /\ pending \cap handed \subseteq flush.done
             /\ flush.pc = "policy" => flush.done = {}
             /\ \A m \in flush.rows : flush.pc = "policy" \/ m.sys \in flush.todo => m \notin handed

IInv == /\ TypeOK /\ HistoryOK /\ SinceFollowsClear /\ TableIsAnnounced
        /\ RowsAreNumbered /\ HandedIsDone

-----------------------------------------------------------------------------
\* What an evaluation under way holds, by where it is.
LEMMA EvaluationFields ==
  ASSUME TypeOK
  PROVE  /\ At("load") => ev \in Loads
         /\ At("reconcile") => ev \in Reconciles
         /\ At("emit") => ev \in Emits
  BY DEF TypeOK, At, Loads, Reconciles, Emits

\* The row that is sent for a group is one of the group.
LEMMA NewestIsThere ==
  ASSUME NEW items, items \subseteq Rows, items # {},
         NEW last \in Nat, \A m \in items : m.n <= last
  PROVE  Newest(items) \in items
  <1> DEFINE Ages == {last - m.n : m \in items}
  <1>1. Ages \subseteq Nat /\ Ages # {}
    BY DEF Rows
  <1> DEFINE Less == {ss \in Nat \X Nat : ss[1] < ss[2]}
  <1>2. IsWellFoundedOn(Less, Nat)
    BY NatLessThanWellFounded, Zenon DEF OpToRel
  <1>3. PICK age \in Ages : \A older \in Ages : <<older, age>> \notin Less
    <2> HIDE DEF Ages, Less
    <2> QED BY <1>1, <1>2, WFMin
  <1>4. PICK m \in items : age = last - m.n
    OBVIOUS
  <1>5. ASSUME NEW k \in items PROVE k.n <= m.n
    <2>1. last - k.n \in Ages /\ last - k.n \in Nat /\ last - m.n \in Nat
      BY DEF Rows
    <2>2. ~(last - k.n < last - m.n)
      BY <1>3, <1>4, <2>1
    <2>3. k.n \in Nat /\ m.n \in Nat
      BY DEF Rows
    <2> QED BY <2>2, <2>3
  <1> QED BY <1>5 DEF Newest

\* A transition that is appended is its system's last.
LEMMA LastOfAppended ==
  ASSUME NEW out \in Seq(Transitions), NEW t \in Transitions, NEW s, NEW kind
  PROVE  LastIs(Append(out, t), s, kind) <=>
            IF t.sys = s THEN t.kind = kind ELSE LastIs(out, s, kind)
  <1> DEFINE more == Append(out, t)
  <1>1. /\ Len(out) \in Nat /\ Len(more) = Len(out) + 1
        /\ \A i \in 1..Len(out) : more[i] = out[i]
        /\ more[Len(out) + 1] = t
    BY AppendProperties, LenProperties
  <1> HIDE DEF more
  <1>2. CASE t.sys = s
    <2>1. ASSUME LastIs(more, s, kind) PROVE t.kind = kind
      <3>1. PICK i \in 1..Len(more) : /\ more[i] = Transition(s, kind)
                                      /\ \A j \in i + 1..Len(more) : more[j].sys # s
        BY <2>1 DEF LastIs
      <3>2. i = Len(out) + 1
        BY <1>1, <1>2, <3>1
      <3> QED BY <1>1, <3>1, <3>2 DEF Transition
    <2>2. ASSUME t.kind = kind PROVE LastIs(more, s, kind)
      <3>1. t = Transition(s, kind)
        BY <1>2, <2>2 DEF Transition, Transitions
      <3> QED BY <1>1, <3>1 DEF LastIs
    <2> QED BY <1>2, <2>1, <2>2 DEF more
  <1>3. CASE t.sys # s
    <2>1. ASSUME LastIs(more, s, kind) PROVE LastIs(out, s, kind)
      <3>1. PICK i \in 1..Len(more) : /\ more[i] = Transition(s, kind)
                                      /\ \A j \in i + 1..Len(more) : more[j].sys # s
        BY <2>1 DEF LastIs
      <3>2. i # Len(out) + 1
        BY <1>1, <1>3, <3>1 DEF Transition
      <3>3. i \in 1..Len(out) /\ \A j \in i + 1..Len(out) : j \in 1..Len(out) /\ j \in i + 1..Len(more)
        BY <1>1, <3>2
      <3> QED BY <1>1, <3>1, <3>3 DEF LastIs
    <2>2. ASSUME LastIs(out, s, kind) PROVE LastIs(more, s, kind)
      <3>1. PICK i \in 1..Len(out) : /\ out[i] = Transition(s, kind)
                                     /\ \A j \in i + 1..Len(out) : out[j].sys # s
        BY <2>2 DEF LastIs
      <3>2. \A j \in i + 1..Len(more) : more[j].sys # s
        BY <1>1, <1>3, <3>1
      <3> QED BY <1>1, <3>1, <3>2 DEF LastIs
    <2> QED BY <1>3, <2>1, <2>2 DEF more
  <1> QED BY <1>2, <1>3

-----------------------------------------------------------------------------
\* Types.
LEMMA InitType == MCInit => TypeOK /\ HistoryOK
  <1> SUFFICES ASSUME MCInit PROVE TypeOK /\ HistoryOK
    OBVIOUS
  <1>1. AlertsTypeOK
    BY AlertsAssumption DEF MCInit, Init, AlertsInit, AlertsTypeOK
  <1>2. TypeOK
    BY <1>1, NotificationsAssumption DEF MCInit, Init, AlertsInit, TypeOK
  <1>3. HistoryOK
    <2>1. clear \in [Systems -> 0..MaxTime]
      BY AlertsAssumption DEF MCInit
    <2>2. faults \in Nat /\ edits \in Nat /\ handed \subseteq Rows
      BY DEF MCInit
    <2>3. edited \in BOOLEAN /\ announced \in [Systems -> {"fired", "resolved"}]
      BY DEF MCInit
    <2> QED BY <2>1, <2>2, <2>3 DEF HistoryOK
  <1> QED BY <1>2, <1>3

LEMMA WriteType ==
  ASSUME TypeOK, NEW s \in Systems, PutInstance(s) \/ DeleteInstance(s)
  PROVE  ev \in Reconciles /\ ev' \in Reconciles /\ inst' \in [Systems -> Instance \cup {None}]
  <1> USE DEF TypeOK, AlertsTypeOK
  <1>1. ASSUME PutInstance(s) PROVE ev' \in Reconciles /\ inst' \in [Systems -> Instance \cup {None}]
    <2>1. ev \in Reconciles
      BY <1>1, EvaluationFields DEF PutInstance
    <2>2. ev.seen[s] \in Instance \cup {None} /\ ev.at \in 0..MaxTime
      BY <2>1 DEF Reconciles
    <2> DEFINE old == ev.seen[s]
               row == [state |-> IF Fires(old) THEN "firing" ELSE IF old = None THEN "pending" ELSE old.state,
                       since |-> IF old = None THEN ev.at ELSE old.since]
               out == IF Fires(old) THEN Append(ev.out, Transition(s, "fired")) ELSE ev.out
    <2>3. row \in Instance
      BY <2>2 DEF Instance
    <2>4. out \in Seq(Transitions)
      BY <2>1, AppendProperties DEF Reconciles, Transitions, Transition
    <2>5. /\ ev' = [ev EXCEPT !.put = ev.put \ {s}, !.out = out]
          /\ inst' = [inst EXCEPT ![s] = row]
      BY <1>1 DEF PutInstance
    <2> HIDE DEF row, out, old
    <2>6. ev' \in Reconciles
      BY <2>1, <2>4, <2>5 DEF Reconciles
    <2> QED BY <1>1, <2>3, <2>5, <2>6 DEF PutInstance
  <1>2. ASSUME DeleteInstance(s) PROVE ev' \in Reconciles /\ inst' \in [Systems -> Instance \cup {None}]
    <2>1. ev \in Reconciles
      BY <1>2, EvaluationFields DEF DeleteInstance
    <2> DEFINE out == IF ev.seen[s].state = "firing" THEN Append(ev.out, Transition(s, "resolved")) ELSE ev.out
    <2>2. out \in Seq(Transitions)
      BY <2>1, AppendProperties DEF Reconciles, Transitions, Transition
    <2>3. ev' = [ev EXCEPT !.del = ev.del \ {s}, !.out = out]
      BY <1>2 DEF DeleteInstance
    <2> HIDE DEF out
    <2>4. ev' \in Reconciles
      BY <2>1, <2>2, <2>3 DEF Reconciles
    <2> QED BY <1>2, <2>4 DEF DeleteInstance
  <1> QED BY <1>1, <1>2, EvaluationFields DEF PutInstance, DeleteInstance

\* What is put is a row.
LEMMA PutRow ==
  ASSUME TypeOK, NEW s \in Systems, PutInstance(s)
  PROVE  inst'[s] # None
  <1>1. ev \in Reconciles /\ inst'[s] \in Instance \cup {None}
    BY WriteType
  <1>2. ev.seen[s] \in Instance \cup {None} /\ ev.at \in 0..MaxTime
    BY <1>1 DEF Reconciles
  <1> DEFINE old == ev.seen[s]
             row == [state |-> IF Fires(old) THEN "firing" ELSE IF old = None THEN "pending" ELSE old.state,
                     since |-> IF old = None THEN ev.at ELSE old.since]
  <1>3. row \in Instance
    BY <1>2 DEF Instance
  <1>4. inst'[s] = row
    BY DEF PutInstance, TypeOK, AlertsTypeOK
  <1> QED BY <1>3, <1>4, NoneAssumption

LEMMA EvaluateType ==
  ASSUME TypeOK, Evaluate
  PROVE  TypeOK'
  <1> USE DEF TypeOK, AlertsTypeOK, Evaluate, notifyVars
  <1>1. CASE ListEnabled
    BY <1>1 DEF ListEnabled, Loads
  <1>2. CASE LoadRule
    <2>1. ev.at \in 0..MaxTime /\ <<>> \in Seq(Transitions)
      BY <1>2, EvaluationFields, EmptySeq DEF LoadRule, Loads
    <2> DEFINE read == [pc |-> "reconcile", at |-> ev.at, seen |-> inst, put |-> breach,
                        del |-> {s \in Systems : inst[s] # None} \ breach, out |-> <<>>]
    <2>2. read \in Reconciles
      BY <2>1 DEF Reconciles
    <2> QED BY <1>2, <2>2 DEF LoadRule
  <1>3. CASE NothingToEmit
    BY <1>3 DEF NothingToEmit
  <1>4. ASSUME NEW s \in Systems, PutInstance(s) \/ DeleteInstance(s) PROVE TypeOK'
    BY <1>4, WriteType DEF PutInstance, DeleteInstance
  <1> QED BY <1>1, <1>2, <1>3, <1>4 DEF Evaluation

\* The batch a dispatch works through, with what is left of it.
LEMMA BatchType ==
  ASSUME TypeOK
  PROVE  /\ \A plan \in {"suppress", "defer", "send"} : Begin(plan) => ev' \in Emits
         /\ At("emit") => Head(ev.out) \in Transitions
         /\ At("emit") /\ NextTransition => ev' \in Emits \cup {None}
  <1>1. ASSUME NEW plan \in {"suppress", "defer", "send"}, Begin(plan) PROVE ev' \in Emits
    <2>1. ev \in Reconciles /\ ev.out # <<>>
      BY <1>1, EvaluationFields DEF Begin, Reconciled
    <2> QED BY <1>1, <2>1 DEF Begin, Emits, Reconciles
  <1>2. ASSUME At("emit") PROVE ev \in Emits /\ ev.out \in Seq(Transitions) /\ ev.out # <<>>
    BY <1>2, EvaluationFields DEF Emits
  <1>3. ASSUME At("emit") PROVE Head(ev.out) \in Transitions
    BY <1>2, <1>3, HeadTailProperties
  <1>4. ASSUME At("emit"), NextTransition, Len(ev.out) # 1 PROVE ev' \in Emits
    <2> DEFINE rest == Tail(ev.out)
    <2>1. rest \in Seq(Transitions) /\ Len(rest) = Len(ev.out) - 1 /\ Len(ev.out) \in Nat
      BY <1>2, <1>4, HeadTailProperties, LenProperties
    <2>2. ev' = [ev EXCEPT !.out = rest]
      BY <1>4 DEF NextTransition
    <2> HIDE DEF rest
    <2>3. rest # <<>>
      <3>1. Len(rest) # 0
        BY <1>4, <2>1
      <3> QED BY <3>1, EmptySeq
    <2> QED BY <1>2, <1>4, <2>1, <2>2, <2>3 DEF Emits
  <1> QED BY <1>1, <1>3, <1>4 DEF NextTransition

LEMMA DispatchType ==
  ASSUME TypeOK, \/ Dispatch \/ EmitByDefault \/ EmitFails \/ EnqueueFails
  PROVE  TypeOK'
  <1> USE DEF TypeOK, AlertsTypeOK
  <1>1. ASSUME NEW plan \in {"suppress", "defer", "send"}, Begin(plan) PROVE TypeOK'
    BY <1>1, BatchType DEF Begin, notifyVars
  <1>2. \A m \in Modes, q \in BOOLEAN : Plan(m, q) \in {"suppress", "defer", "send"}
    BY DEF Plan
  <1>3. CASE EmitStart
    BY <1>1, <1>2, <1>3 DEF EmitStart
  <1>4. CASE EmitByDefault
    BY <1>1, <1>2, <1>4, NotificationsAssumption DEF EmitByDefault
  <1>5. CASE EmitFails
    BY <1>5 DEF EmitFails, notifyVars
  <1>6. At("emit") => Row(Head(ev.out)) \in Rows /\ emitted + 1 \in Nat
    BY BatchType DEF Row, Rows, Transitions
  <1>7. CASE Enqueue
    BY <1>6, <1>7, BatchType DEF Enqueue
  <1>8. CASE Suppress
    BY <1>6, <1>8, BatchType DEF Suppress
  <1>9. CASE EnqueueFails
    BY <1>6, <1>9, BatchType DEF EnqueueFails
  <1>10. CASE FanOut
    BY <1>6, <1>10, BatchType DEF FanOut, fanOut
  <1>11. ASSUME NEW m \in sends, Deliver(m) PROVE TypeOK'
    BY <1>11 DEF Deliver, alertVars
  <1> QED BY <1>3, <1>4, <1>5, <1>7, <1>8, <1>9, <1>10, <1>11 DEF Dispatch

\* The newest row of a group that is to be flushed is a row of the flush.
LEMMA NewestOfGroup ==
  ASSUME TypeOK, RowsAreNumbered, NEW s \in Systems, FlushGroup(s)
  PROVE  Newest(Group(s)) \in Group(s)
  <1>1. flush \in Flushes /\ s \in flush.todo
    BY DEF TypeOK, FlushGroup
  <1>2. Group(s) \subseteq Rows /\ Group(s) # {}
    BY <1>1 DEF Group, RowsAreNumbered, Flushes, FlushGroup
  <1>3. emitted \in Nat /\ \A m \in Group(s) : m.n <= emitted
    BY <1>1 DEF Group, RowsAreNumbered, Listed, TypeOK, FlushGroup
  <1> QED BY <1>2, <1>3, NewestIsThere

LEMMA GroupType ==
  ASSUME TypeOK, RowsAreNumbered, NEW s \in Systems, FlushGroup(s)
  PROVE  flush' \in Flushes /\ sends' \subseteq Rows
  <1>1. flush \in Flushes /\ Group(s) \subseteq Rows
    BY DEF TypeOK, FlushGroup, Flushes, Group
  <1>2. flush' \in Flushes
    BY <1>1 DEF FlushGroup, Flushes
  <1>3. Newest(Group(s)) \in Rows
    BY <1>1, NewestOfGroup
  <1>4. sends' = sends \/ fanOut(Newest(Group(s)))
    BY DEF FlushGroup
  <1> QED BY <1>2, <1>3, <1>4 DEF fanOut, TypeOK

LEMMA FlushType ==
  ASSUME TypeOK, RowsAreNumbered,
         \/ Flush \/ GoverningByDefault \/ DeletePendingFails
  PROVE  TypeOK'
  <1> USE DEF TypeOK, AlertsTypeOK
  <1>1. CASE FlushPending
    BY <1>1 DEF FlushPending, Flushes, alertVars
  <1>2. ASSUME flush # None, Release PROVE flush' \in Flushes
    <2>1. flush \in Flushes /\ {m.sys : m \in flush.rows} \subseteq Systems
      BY <1>2 DEF Flushes, Rows
    <2> QED BY <1>2, <2>1 DEF Flushes, Release
  <1>3. CASE Governing
    BY <1>2, <1>3 DEF Governing, alertVars
  <1>4. CASE GoverningByDefault
    BY <1>2, <1>4 DEF GoverningByDefault, alertVars
  <1>5. ASSUME NEW s \in Systems, FlushGroup(s) PROVE TypeOK'
    BY <1>5, GroupType DEF FlushGroup, alertVars
  <1>6. CASE DeletePending
    BY <1>6 DEF DeletePending, alertVars
  <1>7. CASE DeletePendingFails
    BY <1>7 DEF DeletePendingFails, alertVars
  <1> QED BY <1>1, <1>3, <1>4, <1>5, <1>6, <1>7 DEF Flush

LEMMA OtherType ==
  ASSUME TypeOK,
         \/ EditRule \/ EditPolicy \/ World \/ Crash
         \/ UNCHANGED notifyVars /\ EvaluateFails
  PROVE  TypeOK'
  <1> USE DEF TypeOK, AlertsTypeOK
  <1>1. CASE EditRule
    BY <1>1 DEF EditRule, Update, notifyVars
  <1>2. CASE EditPolicy
    BY <1>2 DEF EditPolicy, SetPolicy, alertVars
  <1>3. CASE UNCHANGED notifyVars /\ Advance
    BY <1>3, AlertsAssumption DEF Advance, notifyVars
  <1>4. ASSUME NEW s \in Systems, UNCHANGED notifyVars, BreachChanges(s) PROVE TypeOK'
    BY <1>4 DEF BreachChanges, notifyVars
  <1>5. CASE QuietChanges
    BY <1>5 DEF QuietChanges, alertVars
  <1>6. CASE Crash
    BY <1>6 DEF Crash
  <1>7. CASE UNCHANGED notifyVars /\ EvaluateFails
    BY <1>7 DEF EvaluateFails, notifyVars
  <1> QED BY <1>1, <1>2, <1>3, <1>4, <1>5, <1>6, <1>7 DEF World

LEMMA NextType == TypeOK /\ RowsAreNumbered /\ Next => TypeOK'
  BY EvaluateType, DispatchType, FlushType, OtherType DEF Next, Fault

\* The steps there are, and what they do to the history.
LEMMA HistoryType == TypeOK /\ TypeOK' /\ HistoryOK /\ MCNext => HistoryOK'
  <1> SUFFICES ASSUME TypeOK, TypeOK', HistoryOK, MCNext PROVE HistoryOK'
    OBVIOUS
  <1>1. faults' \in Nat /\ edits' \in Nat
    <2>1. /\ faults' = faults \/ faults' = faults + 1
          /\ edits' = edits \/ edits' = edits + 1
      BY DEF MCNext
    <2> QED BY <2>1 DEF HistoryOK
  <1>2. edited' \in BOOLEAN
    BY Zenon DEF MCNext, HistoryOK
  <1>3. announced' \in [Systems -> {"fired", "resolved"}]
    BY DEF MCNext, HistoryOK, LastKind
  <1>4. At("load") => ev.at \in 0..MaxTime
    BY EvaluationFields DEF Loads
  <1>5. clear' \in [Systems -> 0..MaxTime]
    BY <1>4 DEF MCNext, HistoryOK
  <1>6. handed' \subseteq Rows
    BY DEF MCNext, HistoryOK, TypeOK
  <1> QED BY <1>1, <1>2, <1>3, <1>5, <1>6 DEF HistoryOK

-----------------------------------------------------------------------------
\* What a step without a fault does to the evaluation and the table.
LEMMA EvaluatorSteps ==
  ASSUME TypeOK, MCNext, faults \in Nat, faults' = 0
  PROVE  /\ faults = 0
         /\ (EditRule /\ edited') \/ edited' = edited
         /\ \/ UNCHANGED <<clock, inst, ev>>
            \/ Advance \/ (EditRule /\ edited') \/ ListEnabled \/ LoadRule
            \/ \E s \in Systems : PutInstance(s) \/ DeleteInstance(s)
            \/ /\ Reconciled /\ UNCHANGED <<clock, inst>>
               /\ (ev.out = <<>> /\ ev' = None) \/ ev' \in Emits
            \/ At("emit") /\ UNCHANGED <<clock, inst>> /\ ev' \in Emits \cup {None}
  <1>1. /\ faults = 0
        /\ Evaluate \/ World \/ Dispatch \/ Flush \/ EditPolicy \/ (EditRule /\ edited')
        /\ edited' = edited \/ (EditRule /\ edited')
    BY DEF MCNext
  <1>2. CASE Evaluate
    BY <1>1, <1>2 DEF Evaluate, Evaluation, NothingToEmit
  <1>3. CASE World
    BY <1>1, <1>3 DEF World, BreachChanges, QuietChanges, alertVars
  <1>4. CASE Dispatch
    <2>1. CASE EmitStart
      <3>1. Plan(mode, quiet) \in {"suppress", "defer", "send"}
        BY DEF Plan
      <3>2. ev' \in Emits
        BY <2>1, <3>1, BatchType DEF EmitStart
      <3> QED BY <1>1, <2>1, <3>2 DEF EmitStart, Begin
    <2>2. CASE Enqueue \/ Suppress \/ FanOut
      <3>1. At("emit") /\ NextTransition /\ UNCHANGED <<clock, inst>>
        BY <2>2 DEF Enqueue, Suppress, FanOut
      <3> QED BY <1>1, <3>1, BatchType
    <2>3. ASSUME NEW m \in sends, Deliver(m) PROVE UNCHANGED <<clock, inst, ev>>
      BY <2>3 DEF Deliver, alertVars
    <2> QED BY <1>1, <1>4, <2>1, <2>2, <2>3 DEF Dispatch
  <1>5. CASE Flush
    <2>1. UNCHANGED <<clock, inst, ev>>
      BY <1>5 DEF Flush, FlushPending, Governing, DeletePending, FlushGroup, alertVars
    <2> QED BY <1>1, <2>1
  <1>6. CASE EditPolicy
    BY <1>1, <1>6 DEF EditPolicy, SetPolicy, alertVars
  <1> QED BY <1>1, <1>2, <1>3, <1>4, <1>5, <1>6

LEMMA SinceFollowsClearKept ==
  TypeOK /\ HistoryOK /\ SinceFollowsClear /\ MCNext => SinceFollowsClear'
  <1> SUFFICES ASSUME TypeOK, HistoryOK, SinceFollowsClear, MCNext, faults' = 0
               PROVE  SinceFollowsClear'
    BY DEF SinceFollowsClear
  <1>1. faults = 0 /\ clock \in Nat /\ \A s \in Systems : clear[s] \in Nat
    BY EvaluatorSteps, AlertsAssumption DEF HistoryOK, TypeOK, AlertsTypeOK
  <1>2. clear' = IF At("load") /\ At("reconcile")'
                 THEN [s \in Systems |-> IF s \in breach THEN clear[s] ELSE ev.at] ELSE clear
    BY DEF MCNext
  <1> USE DEF SinceFollowsClear
  <1>3. CASE UNCHANGED <<clock, inst, ev>>
    <2>1. clear' = clear
      BY <1>2, <1>3 DEF At
    <2> QED BY <1>1, <1>3, <2>1 DEF At
  <1>4. CASE Advance
    <2>1. clear' = clear
      BY <1>2, <1>4 DEF At, Advance
    <2>2. At("load") \/ At("reconcile") => ev.at \in Nat
      BY EvaluationFields, AlertsAssumption DEF Loads, Reconciles
    <2> QED BY <1>1, <1>4, <2>1, <2>2 DEF At, Advance
  <1>5. CASE EditRule
    <2>1. UNCHANGED <<clock, ev>> /\ (inst' = inst \/ inst' = [s \in Systems |-> None])
      BY <1>5 DEF EditRule, Update
    <2>2. clear' = clear
      BY <1>2, <2>1 DEF At
    <2> QED BY <1>1, <2>1, <2>2 DEF At, Waiting
  <1>6. CASE ListEnabled
    <2>1. ev' \in Loads
      BY <1>6 DEF ListEnabled, Loads, TypeOK, AlertsTypeOK
    <2>2. ev = None /\ ev'.pc = "load" /\ ev'.at = clock /\ UNCHANGED <<clock, inst>>
      BY <1>6 DEF ListEnabled
    <2>3. clear' = clear
      BY <1>2, <2>2 DEF At
    <2> QED BY <1>1, <2>1, <2>2, <2>3, NoneAssumption DEF At
  <1>7. CASE LoadRule
    <2>1. /\ At("load") /\ UNCHANGED <<clock, inst>>
          /\ ev'.at = ev.at /\ ev'.pc = "reconcile" /\ ev'.seen = inst
          /\ ev'.put = breach /\ ev'.del = {s \in Systems : inst[s] # None} \ breach
      BY <1>7 DEF LoadRule
    <2>2. ev.at \in Nat /\ breach \subseteq Systems
      BY <2>1, EvaluationFields, AlertsAssumption DEF Loads, TypeOK, AlertsTypeOK
    <2>3. \A s \in Systems : clear'[s] = IF s \in breach THEN clear[s] ELSE clear'[s]
      BY <1>2, <2>1 DEF At
    <2>4. \A s \in Systems : clear'[s] <= ev.at
      BY <1>1, <1>2, <2>1, <2>2 DEF At
    <2>5. ~At("reconcile")
      BY <2>1 DEF At
    <2>6. \A s \in Systems : clear'[s] <= clock'
      BY <1>1, <1>2, <2>1, <2>2 DEF At
    <2>7. ASSUME NEW s \in Systems, Waiting(inst'[s]), ~(At("reconcile")' /\ s \in ev'.del)
          PROVE  clear'[s] <= inst'[s].since
      <3>1. s \in breach \/ clear' = clear
        BY <1>2, <2>1, <2>7 DEF Waiting
      <3> QED BY <1>1, <2>1, <2>3, <2>5, <2>7, <3>1
    <2>8. ASSUME NEW s \in ev'.put, Waiting(ev'.seen[s]) PROVE clear'[s] <= ev'.seen[s].since
      BY <1>1, <2>1, <2>2, <2>3, <2>5, <2>8
    <2> QED BY <1>1, <2>1, <2>4, <2>6, <2>7, <2>8 DEF At
  <1>8. ASSUME NEW s \in Systems, PutInstance(s) PROVE SinceFollowsClear'
    <2>1. ev \in Reconciles /\ ev' # None
      BY <1>8, WriteType, NoneAssumption
    <2>2. /\ At("reconcile") /\ s \in ev.put /\ UNCHANGED clock
          /\ ev'.at = ev.at /\ ev'.pc = ev.pc /\ ev'.seen = ev.seen /\ ev'.put = ev.put \ {s} /\ ev'.del = ev.del
      BY <1>8, <2>1 DEF PutInstance, Reconciles
    <2>3. ev.at \in Nat /\ clear' = clear
      BY <1>2, <2>1, <2>2, AlertsAssumption DEF Reconciles, At
    <2>4. /\ \A t \in Systems \ {s} : inst'[t] = inst[t]
          /\ Waiting(inst'[s]) => /\ ev.seen[s] = None => inst'[s].since = ev.at
                                  /\ ev.seen[s] # None => Waiting(ev.seen[s]) /\ inst'[s].since = ev.seen[s].since
      BY <1>8 DEF PutInstance, TypeOK, AlertsTypeOK, Waiting
    <2>5. ASSUME NEW t \in Systems, Waiting(inst'[t]), ~(At("reconcile")' /\ t \in ev'.del)
          PROVE  clear[t] <= inst'[t].since
      <3>1. CASE t = s
        BY <1>1, <2>2, <2>4, <2>5, <3>1
      <3>2. CASE t # s
        BY <1>1, <2>1, <2>2, <2>4, <2>5, <3>2 DEF At
      <3> QED BY <3>1, <3>2
    <2> QED BY <1>1, <2>2, <2>3, <2>5 DEF At
  <1>9. ASSUME NEW s \in Systems, DeleteInstance(s) PROVE SinceFollowsClear'
    <2>1. ev \in Reconciles /\ ev' # None
      BY <1>9, WriteType, NoneAssumption
    <2>2. /\ At("reconcile") /\ UNCHANGED clock
          /\ ev'.at = ev.at /\ ev'.pc = ev.pc /\ ev'.seen = ev.seen /\ ev'.put = ev.put /\ ev'.del = ev.del \ {s}
      BY <1>9, <2>1 DEF DeleteInstance, Reconciles
    <2>3. clear' = clear
      BY <1>2, <2>2 DEF At
    <2>4. \A t \in Systems : inst'[t] = IF t = s THEN None ELSE inst[t]
      BY <1>9 DEF DeleteInstance, TypeOK, AlertsTypeOK
    <2> QED BY <1>1, <2>1, <2>2, <2>3, <2>4 DEF At, Waiting
  <1>10. CASE Reconciled /\ UNCHANGED <<clock, inst>> /\ ((ev.out = <<>> /\ ev' = None) \/ ev' \in Emits)
    <2>1. At("reconcile") /\ ev.del = {}
      BY <1>10 DEF Reconciled
    <2>2. ~At("load")' /\ ~At("reconcile")' /\ clear' = clear
      BY <1>2, <1>10 DEF At, Emits
    <2> QED BY <1>1, <1>10, <2>1, <2>2
  <1>11. CASE At("emit") /\ UNCHANGED <<clock, inst>> /\ ev' \in Emits \cup {None}
    <2>1. ~At("reconcile") /\ ~At("load")' /\ ~At("reconcile")' /\ clear' = clear
      BY <1>2, <1>11 DEF At, Emits
    <2> QED BY <1>1, <1>11, <2>1
  <1> QED BY <1>3, <1>4, <1>5, <1>6, <1>7, <1>8, <1>9, <1>10, <1>11, EvaluatorSteps DEF HistoryOK

LEMMA TableIsAnnouncedKept ==
  TypeOK /\ HistoryOK /\ TableIsAnnounced /\ MCNext => TableIsAnnounced'
  <1> SUFFICES ASSUME TypeOK, HistoryOK, TableIsAnnounced, MCNext, faults' = 0, ~edited'
               PROVE  TableIsAnnounced'
    BY DEF TableIsAnnounced
  <1>1. faults = 0 /\ ~edited
    BY EvaluatorSteps DEF HistoryOK
  <1>2. announced' = IF At("reconcile") /\ At("emit")' THEN [s \in Systems |-> LastKind(s)] ELSE announced
    BY DEF MCNext
  <1>3. CASE UNCHANGED <<clock, inst, ev>>
    <2>1. announced' = announced
      BY <1>2, <1>3 DEF At
    <2> QED BY <1>1, <1>3, <2>1 DEF At, TableIsAnnounced, LastKind
  <1>4. CASE Advance
    <2>1. announced' = announced /\ UNCHANGED <<inst, ev>>
      BY <1>2, <1>4 DEF At, Advance
    <2> QED BY <1>1, <2>1 DEF At, TableIsAnnounced, LastKind
  <1>5. CASE ListEnabled
    <2>1. ev = None /\ ev'.pc = "load" /\ UNCHANGED inst
      BY <1>5 DEF ListEnabled
    <2> QED BY <1>1, <1>2, <2>1 DEF At, TableIsAnnounced
  <1>6. CASE LoadRule
    <2>1. /\ At("load") /\ UNCHANGED inst
          /\ ev'.pc = "reconcile" /\ ev'.seen = inst /\ ev'.out = <<>>
          /\ ev'.put = breach /\ ev'.del = {s \in Systems : inst[s] # None} \ breach
      BY <1>6 DEF LoadRule
    <2>2. announced' = announced /\ ~At("reconcile")
      BY <1>2, <2>1 DEF At
    <2>3. Len(<<>>) = 0
      BY EmptySeq
    <2>4. \A s \in Systems : LastKind(s)' = announced[s]
      BY <2>1, <2>2, <2>3 DEF LastKind, LastIs
    <2> QED BY <1>1, <2>1, <2>2, <2>4 DEF TableIsAnnounced
  <1>7. ASSUME NEW s \in Systems, PutInstance(s) PROVE TableIsAnnounced'
    <2>1. ev \in Reconciles /\ ev' # None /\ Transition(s, "fired") \in Transitions
      BY <1>7, WriteType, NoneAssumption DEF Transition, Transitions
    <2>2. /\ At("reconcile") /\ s \in ev.put /\ At("reconcile")'
          /\ ev'.seen = ev.seen /\ ev'.put = ev.put \ {s} /\ ev'.del = ev.del
          /\ ev'.out = IF Fires(ev.seen[s]) THEN Append(ev.out, Transition(s, "fired")) ELSE ev.out
      BY <1>7, <2>1 DEF PutInstance, Reconciles, At
    <2>3. announced' = announced
      BY <1>2, <2>2 DEF At
    <2>4. ev.put \subseteq Systems /\ ev.del \subseteq Systems /\ ev.out \in Seq(Transitions)
      BY <2>1 DEF Reconciles
    <2>5. /\ \A t \in ev.put \cup ev.del : inst[t] = ev.seen[t]
          /\ \A t \in ev.del : ev.seen[t] # None /\ t \notin ev.put
          /\ \A t \in Systems : LastKind(t) = "fired" <=> Firing(inst[t])
      BY <1>1, <2>2 DEF TableIsAnnounced
    <2>6. \A t \in Systems \ {s} : inst'[t] = inst[t] /\ LastKind(t)' = LastKind(t)
      <3> SUFFICES ASSUME NEW t \in Systems \ {s} PROVE inst'[t] = inst[t] /\ LastKind(t)' = LastKind(t)
        OBVIOUS
      <3>1. \A kind : LastIs(ev'.out, t, kind) <=> LastIs(ev.out, t, kind)
        BY <2>1, <2>2, <2>4, LastOfAppended DEF Transition
      <3> QED BY <1>7, <2>3, <3>1 DEF PutInstance, TypeOK, AlertsTypeOK, LastKind
    <2>7. LastKind(s)' = "fired" <=> Firing(inst'[s])
      <3>1. inst'[s].state = IF Fires(ev.seen[s]) THEN "firing" ELSE IF ev.seen[s] = None THEN "pending" ELSE ev.seen[s].state
        BY <1>7 DEF PutInstance, TypeOK, AlertsTypeOK
      <3>2. inst'[s] # None
        BY <1>7, PutRow
      <3>3. CASE Fires(ev.seen[s])
        <4>1. LastIs(ev'.out, s, "fired")
          BY <2>1, <2>2, <2>4, <3>3, LastOfAppended DEF Transition
        <4> QED BY <3>1, <3>2, <3>3, <4>1 DEF LastKind, Firing
      <3>4. CASE ~Fires(ev.seen[s])
        <4>1. LastKind(s)' = LastKind(s)
          BY <2>2, <2>3, <3>4 DEF LastKind
        <4> QED BY <2>2, <2>4, <2>5, <3>1, <3>2, <3>4, <4>1 DEF Firing
      <3> QED BY <3>3, <3>4
    <2>8. ASSUME NEW t \in ev'.put \cup ev'.del PROVE inst'[t] = ev'.seen[t]
      <3>1. t \in ev.put \cup ev.del /\ t \in Systems \ {s}
        BY <2>2, <2>4, <2>5
      <3> QED BY <2>2, <2>5, <2>6, <3>1
    <2> QED BY <2>2, <2>5, <2>6, <2>7, <2>8 DEF TableIsAnnounced
  <1>8. ASSUME NEW s \in Systems, DeleteInstance(s) PROVE TableIsAnnounced'
    <2>1. ev \in Reconciles /\ ev' # None /\ Transition(s, "resolved") \in Transitions
      BY <1>8, WriteType, NoneAssumption DEF Transition, Transitions
    <2>2. /\ At("reconcile") /\ s \in ev.del /\ At("reconcile")'
          /\ ev'.seen = ev.seen /\ ev.put = {} /\ ev'.put = {} /\ ev'.del = ev.del \ {s}
          /\ ev'.out = IF ev.seen[s].state = "firing" THEN Append(ev.out, Transition(s, "resolved")) ELSE ev.out
      BY <1>8, <2>1 DEF DeleteInstance, Reconciles, At
    <2>3. announced' = announced
      BY <1>2, <2>2 DEF At
    <2>4. ev.del \subseteq Systems /\ ev.out \in Seq(Transitions)
      BY <2>1 DEF Reconciles
    <2>5. /\ \A t \in ev.del : inst[t] = ev.seen[t] /\ ev.seen[t] # None
          /\ \A t \in Systems : LastKind(t) = "fired" <=> Firing(inst[t])
      BY <1>1, <2>2 DEF TableIsAnnounced
    <2>6. \A t \in Systems \ {s} : inst'[t] = inst[t] /\ LastKind(t)' = LastKind(t)
      <3> SUFFICES ASSUME NEW t \in Systems \ {s} PROVE inst'[t] = inst[t] /\ LastKind(t)' = LastKind(t)
        OBVIOUS
      <3>1. \A kind : LastIs(ev'.out, t, kind) <=> LastIs(ev.out, t, kind)
        BY <2>1, <2>2, <2>4, LastOfAppended DEF Transition
      <3> QED BY <1>8, <2>3, <3>1 DEF DeleteInstance, TypeOK, AlertsTypeOK, LastKind
    <2>7. inst'[s] = None
      BY <1>8 DEF DeleteInstance, TypeOK, AlertsTypeOK
    <2>8. LastKind(s)' # "fired"
      <3>1. CASE ev.seen[s].state = "firing"
        <4>1. LastIs(ev'.out, s, "resolved") /\ ~LastIs(ev'.out, s, "fired")
          BY <2>1, <2>2, <2>4, <3>1, LastOfAppended DEF Transition
        <4> QED BY <4>1 DEF LastKind
      <3>2. CASE ev.seen[s].state # "firing"
        <4>1. LastKind(s)' = LastKind(s)
          BY <2>2, <2>3, <3>2 DEF LastKind
        <4> QED BY <2>2, <2>5, <3>2, <4>1 DEF Firing
      <3> QED BY <3>1, <3>2
    <2>9. ASSUME NEW t \in ev'.put \cup ev'.del PROVE inst'[t] = ev'.seen[t]
      <3>1. t \in ev.del /\ t \in Systems \ {s}
        BY <2>2, <2>4
      <3> QED BY <2>2, <2>5, <2>6, <3>1
    <2> QED BY <2>2, <2>5, <2>6, <2>7, <2>8, <2>9 DEF TableIsAnnounced, Firing
  <1>9. CASE Reconciled /\ UNCHANGED <<clock, inst>> /\ ((ev.out = <<>> /\ ev' = None) \/ ev' \in Emits)
    <2>1. At("reconcile") /\ ~At("reconcile")' /\ \A s \in Systems : LastKind(s) = "fired" <=> Firing(inst'[s])
      BY <1>1, <1>9 DEF TableIsAnnounced, Reconciled, At, Emits
    <2>2. ASSUME NEW s \in Systems PROVE announced'[s] = LastKind(s)
      <3>1. CASE ev' \in Emits
        BY <1>2, <2>1, <3>1, NoneAssumption DEF At, Emits
      <3>2. CASE ev.out = <<>> /\ ev' = None
        BY <1>2, <3>2, EmptySeq DEF At, LastKind, LastIs
      <3> QED BY <1>9, <3>1, <3>2
    <2> QED BY <2>1, <2>2 DEF TableIsAnnounced
  <1>10. CASE At("emit") /\ UNCHANGED <<clock, inst>> /\ ev' \in Emits \cup {None}
    <2>1. ~At("reconcile") /\ ~At("reconcile")' /\ announced' = announced
      BY <1>2, <1>10 DEF At, Emits
    <2> QED BY <1>1, <1>10, <2>1 DEF TableIsAnnounced
  <1> QED BY <1>3, <1>4, <1>5, <1>6, <1>7, <1>8, <1>9, <1>10, EvaluatorSteps DEF HistoryOK

-----------------------------------------------------------------------------
\* What a step does to the deferred rows, the flush and the sends.
New(row) == row.n = emitted + 1 /\ emitted' = emitted + 1 /\ flush' = flush

LEMMA QueueSteps ==
  ASSUME MCNext
  PROVE  /\ handed' = handed \cup (sends' \ sends)
         /\ faults' \in {faults, faults + 1}
         /\ \/ UNCHANGED <<pending, emitted, flush>> /\ sends' \subseteq sends
            \/ \E row : New(row) /\ pending' \in {pending, pending \cup {row}} /\ UNCHANGED sends
            \/ \E row : New(row) /\ fanOut(row) /\ UNCHANGED pending
            \/ FlushPending
            \/ /\ flush # None /\ flush.pc = "policy"
               /\ flush' = None \/ Release
               /\ UNCHANGED <<pending, emitted, sends>>
            \/ \E s \in Systems : FlushGroup(s)
            \/ DeletePending
            \/ /\ faults' = faults + 1 /\ flush' = None /\ sends' \subseteq sends /\ UNCHANGED <<pending, emitted>>
  <1>1. CASE Evaluate \/ EditRule \/ EditPolicy \/ World
    BY <1>1 DEF MCNext, Evaluate, EditRule, EditPolicy, World, SetPolicy, QuietChanges, notifyVars
  <1>2. CASE Dispatch
    <2>1. CASE EmitStart
      BY <2>1 DEF MCNext, EmitStart, Begin, notifyVars
    <2>2. CASE Enqueue
      BY <2>2 DEF MCNext, Enqueue, New, Row
    <2>3. CASE Suppress
      <3>1. New([n |-> emitted + 1]) /\ pending' = pending /\ UNCHANGED sends
        BY <2>3 DEF Suppress, New
      <3> QED BY <3>1 DEF MCNext
    <2>4. CASE FanOut
      BY <2>4 DEF MCNext, FanOut, New, Row
    <2>5. ASSUME NEW m \in sends, Deliver(m) PROVE UNCHANGED <<pending, emitted, flush>> /\ sends' \subseteq sends
      BY <2>5 DEF Deliver
    <2> QED BY <1>2, <2>1, <2>2, <2>3, <2>4, <2>5 DEF MCNext, Dispatch
  <1>3. CASE Flush
    BY <1>3 DEF MCNext, Flush, Governing
  <1>4. CASE Fault /\ faults' = faults + 1
    <2>1. CASE UNCHANGED notifyVars /\ EvaluateFails
      BY <1>4, <2>1 DEF MCNext, notifyVars
    <2>2. CASE EmitByDefault \/ EmitFails
      BY <1>4, <2>2 DEF MCNext, EmitByDefault, EmitFails, Begin, notifyVars
    <2>3. CASE EnqueueFails
      <3>1. New([n |-> emitted + 1]) /\ pending' = pending /\ UNCHANGED sends
        BY <2>3 DEF EnqueueFails, New
      <3> QED BY <1>4, <3>1 DEF MCNext
    <2>4. CASE GoverningByDefault
      BY <1>4, <2>4 DEF MCNext, GoverningByDefault
    <2>5. CASE DeletePendingFails \/ Crash
      BY <1>4, <2>5 DEF MCNext, DeletePendingFails, Crash
    <2> QED BY <1>4, <2>1, <2>2, <2>3, <2>4, <2>5 DEF Fault
  <1> QED BY <1>1, <1>2, <1>3, <1>4 DEF MCNext

LEMMA RowsAreNumberedKept ==
  TypeOK /\ HistoryOK /\ RowsAreNumbered /\ MCNext => RowsAreNumbered'
  <1> SUFFICES ASSUME TypeOK, HistoryOK, RowsAreNumbered, MCNext PROVE RowsAreNumbered'
    OBVIOUS
  <1> USE DEF RowsAreNumbered, Listed
  <1>1. /\ handed' = handed \cup (sends' \ sends)
        /\ emitted \in Nat /\ \A m \in pending \cup handed \cup Listed : m.n \in Nat /\ m.n <= emitted
    BY QueueSteps DEF TypeOK, HistoryOK, Rows, Flushes
  <1>2. CASE UNCHANGED <<pending, emitted, flush>> /\ sends' \subseteq sends
    BY <1>1, <1>2
  <1>3. ASSUME NEW row, New(row), pending' \in {pending, pending \cup {row}}, UNCHANGED sends
        PROVE  RowsAreNumbered'
    BY <1>1, <1>3 DEF New
  <1>4. ASSUME NEW row, New(row), fanOut(row), UNCHANGED pending
        PROVE  RowsAreNumbered'
    BY <1>1, <1>4 DEF New, fanOut
  <1>5. CASE FlushPending
    BY <1>1, <1>5 DEF FlushPending
  <1>6. CASE flush # None /\ (flush' = None \/ Release) /\ UNCHANGED <<pending, emitted, sends>>
    <2>1. CASE flush' = None
      BY <1>1, <1>6, <2>1
    <2>2. CASE Release
      <3>1. flush'.rows = flush.rows /\ flush'.todo = {m.sys : m \in flush.rows}
        BY <1>6, <2>2 DEF Release, TypeOK, Flushes
      <3> QED BY <1>1, <1>6, <3>1
    <2> QED BY <1>6, <2>1, <2>2
  <1>7. ASSUME NEW s \in Systems, FlushGroup(s) PROVE RowsAreNumbered'
    <2>1. /\ flush'.rows = flush.rows /\ flush'.todo = flush.todo \ {s}
          /\ flush # None /\ UNCHANGED <<pending, emitted>>
          /\ sends' = sends \/ fanOut(Newest(Group(s)))
      BY <1>7 DEF FlushGroup, TypeOK, Flushes
    <2>2. Newest(Group(s)) \in flush.rows
      BY <1>7, NewestOfGroup DEF Group
    <2>3. sends' \ sends \subseteq flush.rows
      BY <2>1, <2>2 DEF fanOut
    <2> QED BY <1>1, <2>1, <2>3
  <1>8. CASE DeletePending
    BY <1>1, <1>8 DEF DeletePending
  <1>9. CASE flush' = None /\ sends' \subseteq sends /\ UNCHANGED <<pending, emitted>>
    BY <1>1, <1>9
  <1> QED BY <1>2, <1>3, <1>4, <1>5, <1>6, <1>7, <1>8, <1>9, QueueSteps

LEMMA HandedIsDoneKept ==
  TypeOK /\ HistoryOK /\ RowsAreNumbered /\ HandedIsDone /\ MCNext => HandedIsDone'
  <1> SUFFICES ASSUME TypeOK, HistoryOK, RowsAreNumbered, HandedIsDone, MCNext, faults' = 0
               PROVE  HandedIsDone'
    BY DEF HandedIsDone
  <1>1. /\ handed' = handed \cup (sends' \ sends)
        /\ faults = 0 /\ faults' # faults + 1
        /\ emitted \in Nat /\ \A m \in pending \cup handed \cup Listed : m.n \in Nat /\ m.n <= emitted
    BY QueueSteps DEF TypeOK, HistoryOK, RowsAreNumbered, Rows, Flushes, Listed
  <1> USE DEF HandedIsDone, Listed
  <1>2. CASE UNCHANGED <<pending, emitted, flush>> /\ sends' \subseteq sends
    BY <1>1, <1>2
  <1>3. ASSUME NEW row, New(row), pending' \in {pending, pending \cup {row}}, UNCHANGED sends
        PROVE  HandedIsDone'
    BY <1>1, <1>3 DEF New
  <1>4. ASSUME NEW row, New(row), fanOut(row), UNCHANGED pending
        PROVE  HandedIsDone'
    BY <1>1, <1>4 DEF New, fanOut
  <1>5. CASE FlushPending
    BY <1>1, <1>5 DEF FlushPending
  <1>6. CASE flush # None /\ flush.pc = "policy" /\ (flush' = None \/ Release) /\ UNCHANGED <<pending, emitted, sends>>
    <2>1. CASE flush' = None
      BY <1>1, <1>6, <2>1
    <2>2. CASE Release
      <3>1. flush'.rows = flush.rows /\ flush'.done = flush.done /\ flush'.pc = "groups"
        BY <1>6, <2>2 DEF Release, TypeOK, Flushes
      <3> QED BY <1>1, <1>6, <3>1
    <2> QED BY <1>6, <2>1, <2>2
  <1>7. ASSUME NEW s \in Systems, FlushGroup(s) PROVE HandedIsDone'
    <2>1. /\ flush'.rows = flush.rows /\ flush'.todo = flush.todo \ {s}
          /\ flush'.done = flush.done \cup Group(s) /\ flush'.pc = flush.pc
          /\ flush # None /\ flush.pc = "groups" /\ s \in flush.todo /\ UNCHANGED pending
          /\ sends' = sends \/ fanOut(Newest(Group(s)))
      BY <1>7 DEF FlushGroup, TypeOK, Flushes
    <2>2. Newest(Group(s)) \in Group(s)
      BY <1>7, NewestOfGroup
    <2>3. sends' \ sends \subseteq Group(s) /\ \A m \in Group(s) : m.sys = s
      BY <2>1, <2>2 DEF Group, fanOut
    <2>4. flush' # None
      BY <1>7, GroupType, NoneAssumption
    <2> QED BY <1>1, <2>1, <2>3, <2>4
  <1>8. CASE DeletePending
    BY <1>1, <1>8 DEF DeletePending
  <1> QED BY <1>1, <1>2, <1>3, <1>4, <1>5, <1>6, <1>7, <1>8, QueueSteps DEF HistoryOK

-----------------------------------------------------------------------------
LEMMA IInvInit == MCInit => IInv
  <1> SUFFICES ASSUME MCInit PROVE IInv
    OBVIOUS
  <1>1. SinceFollowsClear /\ TableIsAnnounced
    BY AlertsAssumption
       DEF MCInit, Init, AlertsInit, SinceFollowsClear, TableIsAnnounced, At, Waiting, Firing
  <1>2. RowsAreNumbered /\ HandedIsDone
    BY DEF MCInit, Init, RowsAreNumbered, HandedIsDone, Listed
  <1> QED BY <1>1, <1>2, InitType DEF IInv

LEMMA IInvNext == IInv /\ [MCNext]_mcVars => IInv'
  <1> SUFFICES ASSUME IInv, [MCNext]_mcVars PROVE IInv'
    OBVIOUS
  <1>1. CASE MCNext
    <2>1. Next
      BY <1>1, Zenon DEF MCNext, Next
    <2>2. TypeOK' /\ HistoryOK'
      BY <1>1, <2>1, NextType, HistoryType DEF IInv
    <2> QED BY <1>1, <2>2, SinceFollowsClearKept, TableIsAnnouncedKept,
               RowsAreNumberedKept, HandedIsDoneKept DEF IInv
  <1>2. CASE UNCHANGED mcVars
    <2> USE <1>2 DEF mcVars, vars
    <2>1. TypeOK' /\ HistoryOK'
      BY DEF IInv, TypeOK, AlertsTypeOK, HistoryOK
    <2>2. SinceFollowsClear' /\ TableIsAnnounced'
      BY DEF IInv, SinceFollowsClear, TableIsAnnounced, At, LastKind
    <2>3. RowsAreNumbered' /\ HandedIsDone'
      BY DEF IInv, RowsAreNumbered, HandedIsDone, Listed
    <2> QED BY <2>1, <2>2, <2>3 DEF IInv
  <1> QED BY <1>1, <1>2

LEMMA IInvAlways == MCSpec => []IInv
  BY IInvInit, IInvNext, PTL DEF MCSpec

(* Evaluator, tables, flush and sends keep their types, and between two    *)
(* evaluations the channels have been told what alert_instances says,      *)
(* unless a statement failed or the rule was edited.                       *)
THEOREM AlertingAlways == MCSpec => []AlertingInv
  <1>1. IInv => AlertingInv
    BY DEF IInv, AlertingInv, AnnouncedMatchesInstances, TableIsAnnounced, Firing, At
  <1> QED BY <1>1, IInvAlways, PTL

(* evaluator.go fires an alert only after every evaluation of the last For *)
(* found the breach, whatever edits of the rule come between.              *)
THEOREM FiresOnlyAfterForAlways == MCSpec => FiresOnlyAfterFor
  <1>1. ASSUME IInv, NEW s \in Systems, faults = 0, PutInstance(s), Fires(ev.seen[s])
        PROVE  clear[s] + For <= ev.at
    <2>1. /\ At("reconcile") /\ s \in ev.put /\ ev \in Reconciles
      BY <1>1, EvaluationFields DEF PutInstance, IInv
    <2>2. /\ clear[s] <= ev.at
          /\ Waiting(ev.seen[s]) => clear[s] <= ev.seen[s].since
      BY <1>1, <2>1 DEF IInv, SinceFollowsClear
    <2>3. /\ clear[s] \in Nat /\ ev.at \in Nat /\ For \in Nat
          /\ Waiting(ev.seen[s]) => ev.seen[s].since \in Nat
      BY <1>1, <2>1, AlertsAssumption DEF IInv, HistoryOK, Reconciles, Instance, Waiting
    <2> QED BY <1>1, <2>2, <2>3 DEF Fires, Promoted, Waiting
  <1> DEFINE Late == \A s \in Systems : (faults = 0 /\ PutInstance(s) /\ Fires(ev.seen[s])) => clear[s] + For <= ev.at
  <1>2. IInv /\ [MCNext]_mcVars => [Late]_mcVars
    BY <1>1
  <1> QED BY <1>2, IInvAlways, PTL DEF MCSpec, FiresOnlyAfterFor

(* flusher.go: a deferred row leaves the table only once its group was     *)
(* dealt with, and no row is handed to the channels twice, also when rows  *)
(* are queued between the flusher's listing and its delete.                *)
THEOREM DeferredRowsHandledOnceAlways == MCSpec => DeferredRowsHandledOnce
  <1>1. ASSUME IInv, MCNext, NEW m \in pending \ pending' PROVE flush # None /\ m \in flush.done
    BY <1>1, QueueSteps DEF New, FlushPending, FlushGroup, DeletePending, Flushed
  <1>2. ASSUME IInv, MCNext, faults = 0 PROVE handed \cap (sends' \ sends) = {}
    <2>1. \A m \in handed : m.n \in Nat /\ m.n <= emitted /\ emitted \in Nat
      BY <1>2 DEF IInv, RowsAreNumbered, HistoryOK, TypeOK, Rows
    <2>2. ASSUME NEW row, New(row), fanOut(row) PROVE handed \cap (sends' \ sends) = {}
      BY <2>1, <2>2 DEF New, fanOut
    <2>3. ASSUME NEW s \in Systems, FlushGroup(s) PROVE handed \cap (sends' \ sends) = {}
      <3>1. sends' = sends \/ fanOut(Newest(Group(s)))
        BY <2>3 DEF FlushGroup
      <3>2. Newest(Group(s)) \in flush.rows /\ Newest(Group(s)).sys = s
        BY <1>2, <2>3, NewestOfGroup DEF IInv, Group
      <3>3. Newest(Group(s)) \notin handed
        BY <1>2, <2>3, <3>2 DEF IInv, HandedIsDone, FlushGroup
      <3> QED BY <3>1, <3>3 DEF fanOut
    <2> QED BY <1>2, <2>2, <2>3, QueueSteps DEF FlushPending, DeletePending
  <1> DEFINE Processed == \A m \in pending \ pending' : flush # None /\ m \in flush.done
             Once == faults = 0 => handed \cap (sends' \ sends) = {}
  <1>3. IInv /\ [MCNext]_mcVars => [Processed]_vars
    <2>1. ASSUME IInv, MCNext PROVE Processed
      BY <1>1, <2>1
    <2> QED BY <2>1 DEF mcVars
  <1>4. IInv /\ [MCNext]_mcVars => [Once]_mcVars
    BY <1>2
  <1> QED BY <1>3, <1>4, IInvAlways, PTL
          DEF MCSpec, DeferredRowsHandledOnce, DeferredRowsAreProcessed, HandedOnce

-----------------------------------------------------------------------------
\* Quiet hours: the remainder of a time in the week.
LEMMA Remainder ==
  ASSUME NEW n \in Nat \ {0}, NEW r \in 0..(n - 1), NEW q \in {0, 1, 2}
  PROVE  (r + q * n) % n = r
  <1> DEFINE x == r + q * n
             e == x \div n
             t == x % n
  <1>1. e \in Int /\ t \in 0..(n - 1) /\ x = n * e + t /\ x \in Nat
    OBVIOUS
  <1> HIDE DEF e, t
  <1>2. n * (e - q) = r - t
    BY <1>1
  <1>3. e - q < 1
    <2>1. e - q >= 1 => n * (e - q) >= n
      BY <1>1
    <2> QED BY <1>1, <1>2, <2>1
  <1>4. e - q > -1
    <2>1. e - q <= -1 => n * (e - q) <= -n
      BY <1>1
    <2> QED BY <1>1, <1>2, <2>1
  <1>5. e - q = 0
    BY <1>1, <1>3, <1>4
  <1> QED BY <1>1, <1>2, <1>5 DEF t

Ago(day, d) == IF day >= d THEN day - d ELSE day - d + WeekDays

LEMMA DaysAgo ==
  ASSUME NEW day \in 0..(WeekDays - 1), NEW d \in 0..(WeekDays - 1),
         NEW k, k = Ago(day, d), NEW D, D = DayMinutes
  PROVE  /\ k \in 0..(WeekDays - 1)
         /\ day * D - d * D \in Int /\ k * D \in Nat /\ Week \in Nat \ {0}
         /\ day * D - d * D = k * D \/ (k > 0 /\ day * D - d * D = k * D - Week)
         /\ k = 0 => k * D = 0
         /\ k = 1 => k * D = D
         /\ k >= 2 => k * D >= 2 * D
         /\ k * D <= Week - D /\ Week >= 2 * D
         /\ k = 0 <=> d = day
         /\ k = 1 <=> d = prevDay(day)
  <1>1. WeekDays \in Nat /\ WeekDays >= 2 /\ D \in Nat \ {0}
    BY QuietAssumption
  <1>2. k \in 0..(WeekDays - 1)
    BY <1>1 DEF Ago
  <1>3. day * D - d * D = (day - d) * D /\ (k - WeekDays) * D = k * D - Week /\ Week = WeekDays * D
    BY <1>1, <1>2 DEF Week
  <1>4. k >= 2 => k * D >= 2 * D
    BY <1>1, <1>2
  <1>5. k * D <= (WeekDays - 1) * D /\ WeekDays * D >= 2 * D
    BY <1>1, <1>2
  <1>6. prevDay(day) = IF day = 0 THEN WeekDays - 1 ELSE day - 1
    <2>1. CASE day = 0
      <3>1. WeekDays - 1 \in 0..(WeekDays - 1) /\ 0 + WeekDays - 1 = WeekDays - 1 + 0 * WeekDays
        BY <1>1
      <3> QED BY <1>1, <2>1, <3>1, Remainder DEF prevDay
    <2>2. CASE day # 0
      <3>1. day - 1 \in 0..(WeekDays - 1) /\ day + WeekDays - 1 = day - 1 + 1 * WeekDays
        BY <1>1, <2>2
      <3> QED BY <1>1, <2>2, <3>1, Remainder DEF prevDay
    <2> QED BY <2>1, <2>2
  <1>7. k = 0 <=> d = day
    BY <1>1 DEF Ago
  <1>8. k = 1 <=> d = prevDay(day)
    BY <1>1, <1>6 DEF Ago
  <1>9. day * D - d * D = k * D \/ (k > 0 /\ day * D - d * D = k * D - Week)
    <2>1. CASE day >= d
      BY <1>1, <1>3, <2>1 DEF Ago
    <2>2. CASE day < d
      <3>1. k - WeekDays = day - d /\ k > 0
        BY <1>1, <2>2 DEF Ago
      <3> QED BY <1>3, <3>1
    <2> QED BY <2>1, <2>2
  <1> QED BY <1>1, <1>2, <1>3, <1>4, <1>5, <1>7, <1>8, <1>9

\* How far into the window's stretch a moment is.
LEMMA FromTheStart ==
  ASSUME NEW w, ValidWindow(w), NEW day \in 0..(WeekDays - 1), NEW m \in 0..(DayMinutes - 1),
         minute = day * DayMinutes + m, NEW d \in 0..(WeekDays - 1),
         NEW k, k = Ago(day, d)
  PROVE  (minute + 2 * Week - (d * DayMinutes + w.start)) % Week =
           IF k = 0 /\ m < w.start THEN Week + m - w.start ELSE k * DayMinutes + m - w.start
  <1> DEFINE D == DayMinutes
             s == w.start
             W == Week
             kD == k * D
             x == minute + 2 * W - (d * D + s)
  <1>1. D \in Nat \ {0} /\ s \in 0..D /\ m \in 0..(D - 1)
    BY QuietAssumption DEF ValidWindow, Clock
  <1>2. /\ k \in Nat /\ kD \in Nat /\ W \in Nat \ {0} /\ day * D \in Int /\ d * D \in Int
        /\ day * D - d * D = kD \/ (k > 0 /\ day * D - d * D = kD - W)
        /\ k = 0 => kD = 0
        /\ kD <= W - D /\ W >= 2 * D
    <2>1. k \in 0..(WeekDays - 1) /\ kD \in Nat /\ W \in Nat \ {0} /\ kD <= W - D /\ W >= 2 * D
      BY DaysAgo
    <2>2. day * D - d * D = kD \/ (k > 0 /\ day * D - d * D = kD - W)
      BY DaysAgo
    <2>3. k = 0 => kD = 0
      BY DaysAgo
    <2>4. day * D \in Int /\ d * D \in Int
      BY <1>1, QuietAssumption
    <2> QED BY <2>1, <2>2, <2>3, <2>4
  <1>3. k > 0 => kD >= D
    <2>1. CASE k = 1
      <3>1. k * D = D
        BY <1>1, <2>1
      <3> QED BY <1>1, <3>1
    <2>2. CASE k >= 2
      <3>1. k * D >= 2 * D
        BY <1>1, <1>2, <2>2
      <3> HIDE DEF D
      <3> QED BY <1>1, <1>2, <3>1
    <2> QED BY <1>2, <2>1, <2>2
  <1> DEFINE a == day * D
             b == d * D
  <1>4. x = a - b + m - s + 2 * W /\ a \in Int /\ b \in Int
    BY <1>1, <1>2
  <1>5. /\ a - b = kD \/ (k > 0 /\ a - b = kD - W)
        /\ k = 0 => a - b = 0
    BY <1>2
  <1> HIDE DEF D, s, W, kD, a, b, x
  <1>6. CASE k = 0 /\ m < s
    <2>1. W + m - s \in 0..(W - 1) /\ x = (W + m - s) + 1 * W
      BY <1>1, <1>2, <1>4, <1>5, <1>6
    <2>2. x % W = W + m - s
      BY <1>2, <2>1, Remainder
    <2> QED BY <1>6, <2>2 DEF x, W, s, D
  <1>7. CASE ~(k = 0 /\ m < s)
    <2>1. kD + m - s \in 0..(W - 1)
      BY <1>1, <1>2, <1>3, <1>7
    <2>2. x = (kD + m - s) + 2 * W \/ x = (kD + m - s) + 1 * W
      BY <1>1, <1>2, <1>4, <1>5, <1>7
    <2>3. x % W = kD + m - s
      BY <1>2, <2>1, <2>2, Remainder
    <2> QED BY <1>7, <2>3 DEF x, W, s, D, kD
  <1> QED BY <1>6, <1>7

LEMMA ALengthOfADay ==
  ASSUME NEW w, ValidWindow(w)
  PROVE  Length(w) \in 0..DayMinutes
  BY QuietAssumption DEF ValidWindow, Clock, Length

\* What the code asks of today and of yesterday.
LEMMA OfTheDay ==
  ASSUME NEW w, ValidWindow(w), NEW day \in 0..(WeekDays - 1), NEW m \in 0..(DayMinutes - 1),
         minute = day * DayMinutes + m, NEW d \in 0..(WeekDays - 1)
  PROVE  Within(w, d) <=> \/ d = day /\ m >= w.start /\ (w.start < w.end => m < w.end)
                          \/ d = prevDay(day) /\ ~(w.start < w.end) /\ m < w.end
  <1> DEFINE k == Ago(day, d)
             kD == k * DayMinutes
             r == (minute + 2 * Week - (d * DayMinutes + w.start)) % Week
  <1>1. DayMinutes \in Nat \ {0} /\ w.start \in 0..DayMinutes /\ w.end \in 0..DayMinutes
    BY QuietAssumption DEF ValidWindow, Clock
  <1>2. /\ k \in Nat /\ kD \in Nat /\ Week \in Nat
        /\ k = 0 => kD = 0
        /\ k = 1 => kD = DayMinutes
        /\ k >= 2 => kD >= 2 * DayMinutes
        /\ Week >= 2 * DayMinutes
    BY DaysAgo
  <1>3. (k = 0 <=> d = day) /\ (k = 1 <=> d = prevDay(day))
    BY DaysAgo
  <1>4. r = IF k = 0 /\ m < w.start THEN Week + m - w.start ELSE kD + m - w.start
    BY FromTheStart
  <1>5. Length(w) = IF w.start < w.end THEN w.end - w.start ELSE w.end + DayMinutes - w.start
    BY DEF Length
  <1>6. Length(w) \in Nat /\ Length(w) <= DayMinutes
    BY ALengthOfADay, <1>1
  <1>7. Within(w, d) <=> r < Length(w)
    BY DEF Within
  <1> HIDE DEF k, kD, r
  <1>8. CASE k = 0
    <2>1. CASE m < w.start
      <3>1. ~(r < Length(w))
        BY <1>1, <1>2, <1>4, <1>5, <1>8, <2>1
      <3> QED BY <1>1, <1>3, <1>7, <1>8, <2>1, <3>1
    <2>2. CASE m >= w.start
      <3>1. r = m - w.start
        BY <1>1, <1>2, <1>4, <1>8, <2>2
      <3>2. r < Length(w) <=> (w.start < w.end => m < w.end)
        BY <1>1, <1>5, <2>2, <3>1
      <3> QED BY <1>3, <1>7, <1>8, <2>2, <3>2
    <2> QED BY <1>1, <2>1, <2>2
  <1>9. CASE k = 1
    <2>1. r = DayMinutes + m - w.start
      BY <1>1, <1>2, <1>4, <1>9
    <2>2. r < Length(w) <=> (~(w.start < w.end) /\ m < w.end)
      BY <1>1, <1>5, <1>6, <2>1
    <2> QED BY <1>3, <1>7, <1>9, <2>2
  <1>10. CASE k >= 2
    <2>1. r \in Int /\ r >= DayMinutes
      BY <1>1, <1>2, <1>4, <1>10
    <2>2. ~(r < Length(w))
      BY <1>1, <1>6, <2>1
    <2> QED BY <1>3, <1>7, <1>10, <2>2
  <1> QED BY <1>2, <1>8, <1>9, <1>10

LEMMA InWindowIsWithin ==
  ASSUME NEW w, ValidWindow(w), NEW day \in 0..(WeekDays - 1), NEW m \in 0..(DayMinutes - 1),
         minute = day * DayMinutes + m
  PROVE  InWindow(w, day, m) <=>
           \E d \in 0..(WeekDays - 1) : dayCovered(w.days, d) /\ Within(w, d)
  <1>1. /\ prevDay(day) \in 0..(WeekDays - 1)
        /\ w.start \in Nat /\ w.end \in Nat /\ w.start # w.end
    BY QuietAssumption DEF prevDay, ValidWindow, Clock
  <1>2. CASE w.start < w.end
    <2>1. InWindow(w, day, m) <=> dayCovered(w.days, day) /\ m >= w.start /\ m < w.end
      BY <1>2 DEF InWindow
    <2>2. \A d \in 0..(WeekDays - 1) :
             Within(w, d) <=> d = day /\ m >= w.start /\ m < w.end
      BY <1>2, OfTheDay
    <2> QED BY <1>1, <2>1, <2>2
  <1>3. CASE ~(w.start < w.end)
    <2>1. InWindow(w, day, m) <=> \/ dayCovered(w.days, day) /\ m >= w.start
                                  \/ dayCovered(w.days, prevDay(day)) /\ m < w.end
      BY <1>3 DEF InWindow
    <2>2. \A d \in 0..(WeekDays - 1) :
             Within(w, d) <=> \/ d = day /\ m >= w.start
                              \/ d = prevDay(day) /\ m < w.end
      BY <1>3, OfTheDay
    <2> QED BY <1>1, <2>1, <2>2
  <1> QED BY <1>2, <1>3

-----------------------------------------------------------------------------
\* The windows stay what Validate let through and the minute one of the week.
QuietIInv == (\A w \in windows : ValidWindow(w)) /\ minute \in 0..(Week - 1)

LEMMA ADayOfTheWeek ==
  ASSUME minute \in 0..(Week - 1)
  PROVE  /\ minute \div DayMinutes \in 0..(WeekDays - 1)
         /\ minute % DayMinutes \in 0..(DayMinutes - 1)
         /\ minute = (minute \div DayMinutes) * DayMinutes + (minute % DayMinutes)
  <1> DEFINE D == DayMinutes
             e == minute \div D
             m == minute % D
  <1>1. D \in Nat \ {0} /\ WeekDays \in Nat \ {0} /\ Week = WeekDays * D /\ Week \in Nat \ {0}
    BY QuietAssumption DEF Week
  <1>2. e \in Int /\ m \in 0..(D - 1) /\ minute = D * e + m
    BY <1>1
  <1> HIDE DEF e, m
  <1>3. e >= 0
    <2>1. e <= -1 => D * e <= -D
      BY <1>1, <1>2
    <2> QED BY <1>1, <1>2, <2>1
  <1>4. e <= WeekDays - 1
    <2>1. e >= WeekDays => D * e >= WeekDays * D
      BY <1>1, <1>2
    <2> QED BY <1>1, <1>2, <2>1
  <1>5. D * e = e * D
    BY <1>1, <1>2
  <1> QED BY <1>1, <1>2, <1>3, <1>4, <1>5 DEF e, m

LEMMA QuietHoursFollow == QuietIInv => QuietHoursAreTheWindows
  <1> SUFFICES ASSUME QuietIInv PROVE QuietHoursAreTheWindows
    OBVIOUS
  <1> DEFINE day == minute \div DayMinutes
             m == minute % DayMinutes
  <1>1. day \in 0..(WeekDays - 1) /\ m \in 0..(DayMinutes - 1) /\ minute = day * DayMinutes + m
    BY ADayOfTheWeek DEF QuietIInv
  <1>2. InQuietHours <=> \E w \in windows : InWindow(w, day, m)
    BY DEF InQuietHours
  <1> HIDE DEF day, m
  <1>3. \A w \in windows :
          InWindow(w, day, m) <=> \E d \in 0..(WeekDays - 1) : dayCovered(w.days, d) /\ Within(w, d)
    BY <1>1, InWindowIsWithin DEF QuietIInv
  <1> QED BY <1>2, <1>3 DEF QuietHoursAreTheWindows

(* Whatever windows Validate lets through, at every minute of the week:    *)
(* the question that InQuietHours asks of today and of yesterday is        *)
(* whether a stretch begun on a covered day still runs.                    *)
THEOREM QuietHoursAreTheWindowsAlways == QuietSpec => []QuietHoursAreTheWindows
  <1>1. QuietInit => QuietIInv
    BY QuietAssumption DEF QuietInit, QuietIInv, Week
  <1>2. QuietIInv /\ [QuietNext]_quietVars => QuietIInv'
    <2> SUFFICES ASSUME QuietIInv, [QuietNext]_quietVars PROVE QuietIInv'
      OBVIOUS
    <2>1. CASE QuietNext
      <3>1. Week \in Nat \ {0} /\ minute + 1 \in Nat
        BY QuietAssumption DEF Week, QuietIInv
      <3>2. minute' \in 0..(Week - 1)
        BY <2>1, <3>1 DEF QuietNext, Week
      <3> QED BY <2>1, <3>2 DEF QuietNext, QuietIInv, ValidWindow, Clock, Week
    <2>2. CASE UNCHANGED quietVars
      BY <2>2 DEF quietVars, QuietIInv, ValidWindow, Clock, Week
    <2> QED BY <2>1, <2>2
  <1> QED BY <1>1, <1>2, QuietHoursFollow, PTL DEF QuietSpec

-----------------------------------------------------------------------------
\* Whom an alert is sent to.

\* The channels of an owner, whatever their state.
Own(o) == {c \in Chans : OwnerOf[c] = o}

InPc(pcs) == emit.pc \in pcs

\* Where users are being served, and where the group is known.
Serving == {"users", "enqueue", "send"}
Resolved == {"subs", "scope"} \cup Serving

Routes == {NotRead, [mode |-> "all"]} \cup [mode : {"selected"}, ids : SUBSET Chans]

EmitState ==
    [pc : {"idle", "policy", "shared", "route", "routeIds", "system", "done"} \cup Resolved,
     n : 1..Batch, night : BOOLEAN, group : Groups \cup {NoGroup},
     enabled : SUBSET Own(Shared), policy : Policy, route : Routes,
     pols : [Users -> Policy \cup {NotRead}], chans : [Users -> SUBSET (Chans \cup {"unread"})],
     todo : SUBSET Users, users : SUBSET Users]

RecipientsTypeOK ==
    /\ tables \in Tables /\ night \in BOOLEAN /\ emit \in EmitState
    /\ deferred \subseteq Owners \X (1..Batch)
    /\ sent \in [(1..Batch) \X Chans -> Nat]
    /\ late \subseteq (1..Batch) \X Chans
    /\ could \in [Users -> SUBSET (Groups \cup {NoGroup})]
    /\ was \in [1..Batch -> SUBSET (Groups \cup {NoGroup, Gone})]
    /\ disturbed \subseteq Owners

-----------------------------------------------------------------------------
\* An edit leaves alone what the owners it does not disturb have set.
Untold(o, t) ==
    /\ t.policy[o] = tables.policy[o]
    /\ \A c \in Own(o) : t.chans[c] = tables.chans[c]
    /\ o = Shared => t.routing = tables.routing
    /\ o # Shared => t.home = tables.home /\ t.roles[o] = tables.roles[o] /\ t.subs[o] = tables.subs[o]

Spared == \E os \in SUBSET Owners, t \in Tables : Edit(os, t) /\ \A o \in Owners \ os : Untold(o, t)

LEMMA OwnersDiffer == Shared \in Owners /\ Users \subseteq Owners /\ Shared \notin Users
  BY RecipientsAssumption DEF Owners

LEMMA EditsSpare ==
  ASSUME RecipientsTypeOK, Edits
  PROVE  Spared
  <1> USE OwnersDiffer DEF Spared
  <1>1. ASSUME NEW u \in Users, NEW g \in Groups \cup {NoGroup}, GrantRole(u, g) \/ RevokeRole(u, g)
        PROVE  Spared
    <2>1. Auditor(g) \in Assignment
      BY DEF Auditor, Assignment, Role
    <2>2. CASE GrantRole(u, g)
      <3> DEFINE t == [tables EXCEPT !.roles[u] = @ \cup {Auditor(g)}]
      <3>1. t \in Tables
        BY <2>1 DEF RecipientsTypeOK, Tables
      <3>2. \A o \in Owners \ {u} : Untold(o, t)
        BY DEF RecipientsTypeOK, Tables, Untold
      <3>3. Edit({u}, t)
        BY <2>2 DEF GrantRole
      <3> QED BY <3>1, <3>2, <3>3
    <2>3. CASE RevokeRole(u, g)
      <3> DEFINE t == [tables EXCEPT !.roles[u] = @ \ {Auditor(g)}]
      <3>1. t \in Tables
        BY DEF RecipientsTypeOK, Tables
      <3>2. \A o \in Owners \ {u} : Untold(o, t)
        BY DEF RecipientsTypeOK, Tables, Untold
      <3>3. Edit({u}, t)
        BY <2>3 DEF RevokeRole
      <3> QED BY <3>1, <3>2, <3>3
    <2> QED BY <1>1, <2>2, <2>3
  <1>2. ASSUME NEW u \in Users, NEW s \in Subscriptions, SetSubscription(u, s)
        PROVE  Spared
    <2> DEFINE t == [tables EXCEPT !.subs[u] = s]
    <2>1. t \in Tables
      BY RecipientsAssumption DEF RecipientsTypeOK, Tables
    <2>2. \A o \in Owners \ {u} : Untold(o, t)
      BY DEF RecipientsTypeOK, Tables, Untold
    <2> QED BY <1>2, <2>1, <2>2 DEF SetSubscription
  <1>3. ASSUME NEW o1 \in Owners, NEW p \in Policies, Edit({o1}, [tables EXCEPT !.policy[o1] = p])
        PROVE  Spared
    <2> DEFINE t == [tables EXCEPT !.policy[o1] = p]
    <2>1. t \in Tables
      BY RecipientsAssumption DEF RecipientsTypeOK, Tables
    <2>2. \A o \in Owners \ {o1} : Untold(o, t)
      BY DEF RecipientsTypeOK, Tables, Untold
    <2> QED BY <1>3, <2>1, <2>2
  <1>4. ASSUME NEW n \in 1..Batch, NEW g \in Groups \cup {NoGroup, Gone}, SetHome(n, g)
        PROVE  Spared
    <2> DEFINE t == [tables EXCEPT !.home[n] = g]
    <2>1. t \in Tables
      BY DEF RecipientsTypeOK, Tables
    <2>2. \A o \in Owners \ Users : Untold(o, t)
      BY DEF RecipientsTypeOK, Tables, Untold, Owners
    <2> QED BY <1>4, <2>1, <2>2 DEF SetHome
  <1>5. ASSUME NEW c \in Chans, NEW st \in {"on", "off", "deleted"},
               Edit({OwnerOf[c]}, [tables EXCEPT !.chans[c] = st])
        PROVE  Spared
    <2> DEFINE t == [tables EXCEPT !.chans[c] = st]
    <2>1. t \in Tables /\ OwnerOf[c] \in Owners
      BY RecipientsAssumption DEF RecipientsTypeOK, Tables
    <2>2. \A o \in Owners \ {OwnerOf[c]} : Untold(o, t)
      BY DEF RecipientsTypeOK, Tables, Untold, Own
    <2> QED BY <1>5, <2>1, <2>2
  <1>6. ASSUME NEW c \in Chans, DeleteSharedChannel(c)
        PROVE  Spared
    <2> DEFINE t == [tables EXCEPT !.chans[c] = "deleted", !.routing.ids = @ \ {c}]
    <2>1. t \in Tables
      BY DEF RecipientsTypeOK, Tables
    <2>2. \A o \in Owners \ {Shared} : Untold(o, t)
      BY <1>6 DEF RecipientsTypeOK, Tables, Untold, Own, DeleteSharedChannel
    <2> QED BY <1>6, <2>1, <2>2 DEF DeleteSharedChannel
  <1>7. ASSUME NEW md \in {"all", "selected"},
               NEW ids \in SUBSET {c \in Chans : OwnerOf[c] = Shared}, SetRouting(md, ids)
        PROVE  Spared
    <2> DEFINE t == [tables EXCEPT !.routing = ValidRouting(md, ids)]
    <2>1. t \in Tables
      BY DEF RecipientsTypeOK, Tables, ValidRouting
    <2>2. \A o \in Owners \ {Shared} : Untold(o, t)
      BY DEF RecipientsTypeOK, Tables, Untold
    <2> QED BY <1>7, <2>1, <2>2 DEF SetRouting
  <1> HIDE DEF Spared
  <1>8. ASSUME NEW u \in Users, NEW p \in Policies, SetUserPolicy(u, p)
        PROVE  Edit({u}, [tables EXCEPT !.policy[u] = p])
    BY <1>8 DEF SetUserPolicy
  <1>9. ASSUME NEW c \in Chans, NEW st \in {"on", "off"}, CreateChannel(c, st) \/ UpdateChannel(c, st)
        PROVE  Edit({OwnerOf[c]}, [tables EXCEPT !.chans[c] = st])
    BY <1>9 DEF CreateChannel, UpdateChannel
  <1>10. ASSUME NEW c \in Chans, DeleteUserChannel(c)
         PROVE  Edit({OwnerOf[c]}, [tables EXCEPT !.chans[c] = "deleted"])
    BY <1>10 DEF DeleteUserChannel
  <1>11. ASSUME NEW p \in Policies, SetSharedPolicy(p)
         PROVE  Edit({Shared}, [tables EXCEPT !.policy[Shared] = p])
    BY <1>11 DEF SetSharedPolicy
  <1>12. ASSUME NEW u \in Users, NEW p \in Policies, SetUserPolicy(u, p) PROVE Spared
    BY <1>3, <1>8, <1>12
  <1>13. ASSUME NEW p \in Policies, SetSharedPolicy(p) PROVE Spared
    BY <1>3, <1>11, <1>13
  <1>14. ASSUME NEW c \in Chans, NEW st \in {"on", "off"}, CreateChannel(c, st) \/ UpdateChannel(c, st)
         PROVE  Spared
    BY <1>5, <1>9, <1>14
  <1>15. ASSUME NEW c \in Chans, DeleteUserChannel(c) PROVE Spared
    BY <1>5, <1>10, <1>15
  <1> QED BY <1>1, <1>2, <1>4, <1>6, <1>7, <1>12, <1>13, <1>14, <1>15, Zenon DEF Edits

-----------------------------------------------------------------------------
\* The type of the tables and of Emit's own state.
LEMMA RecipientsInitType == RecipientsInit => RecipientsTypeOK
  <1> SUFFICES ASSUME RecipientsInit PROVE RecipientsTypeOK
    OBVIOUS
  <1>1. tables \in Tables /\ night \in BOOLEAN /\ 1 \in 1..Batch
    BY RecipientsAssumption DEF RecipientsInit
  <1>2. DefaultPolicy \in Policy
    BY DEF DefaultPolicy, Policy, DeliveryModes
  <1>3. emit \in EmitState
    BY <1>1, <1>2 DEF RecipientsInit, Before, EmitState, Routes, Resolved, Serving
  <1>4. \A n \in 1..Batch : tables.home[n] \in Groups \cup {NoGroup, Gone}
    BY <1>1 DEF Tables
  <1>5. /\ could \in [Users -> SUBSET (Groups \cup {NoGroup})]
        /\ was \in [1..Batch -> SUBSET (Groups \cup {NoGroup, Gone})]
    BY <1>4 DEF RecipientsInit, Readable
  <1> QED BY <1>1, <1>3, <1>5 DEF RecipientsInit, RecipientsTypeOK

LEMMA EditType ==
  ASSUME RecipientsTypeOK, NEW os \in SUBSET Owners, NEW t \in Tables, Edit(os, t)
  PROVE  RecipientsTypeOK'
  <1>1. tables' = t /\ disturbed' = disturbed \cup os
    BY DEF Edit, Disturb
  <1>2. \A n \in 1..Batch : t.home[n] \in Groups \cup {NoGroup, Gone}
    BY DEF Tables
  <1>3. was' \in [1..Batch -> SUBSET (Groups \cup {NoGroup, Gone})]
    BY <1>2 DEF Edit, RecipientsTypeOK
  <1>4. could' \in [Users -> SUBSET (Groups \cup {NoGroup})]
    BY DEF Edit, RecipientsTypeOK, Readable
  <1> QED BY <1>1, <1>3, <1>4 DEF Edit, RecipientsTypeOK

\* What stays as it is in every step of Emit.
LEMMA GoesType ==
  ASSUME RecipientsTypeOK, NEW e \in EmitState, Goes(e), NEW ok \in BOOLEAN,
         NEW os \in SUBSET Owners, Works(ok, os) \/ UNCHANGED disturbVars,
         deferred' \subseteq Owners \X (1..Batch),
         sent' \in [(1..Batch) \X Chans -> Nat]
  PROVE  RecipientsTypeOK'
  BY DEF Goes, Works, Disturb, disturbVars, RecipientsTypeOK

LEMMA ReadsType ==
  ASSUME RecipientsTypeOK, NEW e \in EmitState, Goes(e), NEW ok \in BOOLEAN,
         NEW os \in SUBSET Owners, Works(ok, os) \/ UNCHANGED disturbVars, UNCHANGED <<deferred, sent>>
  PROVE  RecipientsTypeOK'
  <1>1. deferred' \subseteq Owners \X (1..Batch) /\ sent' \in [(1..Batch) \X Chans -> Nat]
    BY DEF RecipientsTypeOK
  <1> QED BY <1>1, GoesType

LEMMA SendsType ==
  ASSUME RecipientsTypeOK, NEW e \in EmitState, Goes(e), NEW ok \in BOOLEAN,
         NEW os \in SUBSET Owners, Works(ok, os) \/ UNCHANGED disturbVars,
         NEW cs, FanOutTo(cs), UNCHANGED deferred
  PROVE  RecipientsTypeOK'
  <1>1. deferred' \subseteq Owners \X (1..Batch) /\ sent' \in [(1..Batch) \X Chans -> Nat]
    BY DEF RecipientsTypeOK, FanOutTo
  <1> QED BY <1>1, GoesType

LEMMA EnqueuesType ==
  ASSUME RecipientsTypeOK, NEW e \in EmitState, Goes(e), NEW ok \in BOOLEAN,
         NEW o \in Owners, enqueue(o, ok)
  PROVE  RecipientsTypeOK'
  <1>1. deferred' \subseteq Owners \X (1..Batch) /\ sent' \in [(1..Batch) \X Chans -> Nat]
    BY DEF RecipientsTypeOK, enqueue, EmitState
  <1>2. Works(ok, {o})
    BY DEF enqueue
  <1> QED BY <1>1, <1>2, GoesType

LEMMA FanOutType ==
  ASSUME RecipientsTypeOK, NEW cs, FanOutTo(cs)
  PROVE  /\ sent' \in [(1..Batch) \X Chans -> Nat]
         /\ \A n \in 1..Batch, c \in Chans :
                sent'[<<n, c>>] = IF n = emit.n /\ c \in cs THEN sent[<<n, c>>] + 1 ELSE sent[<<n, c>>]
  BY DEF FanOutTo, RecipientsTypeOK

LEMMA OnOwn == RecipientsTypeOK => \A o \in Owners : On(o) \subseteq Own(o)
  BY DEF On, Own

LEMMA NextOfBatchType ==
  ASSUME RecipientsTypeOK
  PROVE  NextOfBatch \in EmitState
  <1> DEFINE m == IF emit.n = Batch THEN emit.n ELSE emit.n + 1
  <1>1. m \in 1..Batch /\ emit \in EmitState
    BY RecipientsAssumption DEF RecipientsTypeOK, EmitState
  <1> HIDE DEF m
  <1>2. NextOfBatch = [emit EXCEPT !.pc = IF emit.n = Batch THEN "done" ELSE "shared", !.n = m]
    BY <1>1 DEF NextOfBatch, m, EmitState
  <1> QED BY <1>1, <1>2 DEF EmitState

\* The steps of the shared path.
LEMMA SharedStepsType ==
  ASSUME RecipientsTypeOK, NEW ok \in BOOLEAN,
         EmitList(ok) \/ EmitPolicy(ok) \/ EmitShared(ok) \/ RouteMode(ok) \/ routeChannelIDs(ok)
  PROVE  RecipientsTypeOK'
  <1> DefaultPolicy \in Policy
    BY DEF DefaultPolicy, Policy, DeliveryModes
  <1> USE OwnersDiffer
  <1>1. CASE EmitList(ok)
    <2> DEFINE e == IF ok THEN [Before EXCEPT !.pc = "policy", !.enabled = On(Shared)]
                    ELSE [Before EXCEPT !.pc = "done", !.night = night]
    <2>1. Before \in EmitState
      BY RecipientsAssumption DEF Before, EmitState, Routes
    <2>2. On(Shared) \in SUBSET Own(Shared) /\ night \in BOOLEAN
      BY OnOwn DEF RecipientsTypeOK
    <2>3. e \in EmitState
      BY <2>1, <2>2 DEF EmitState
    <2>4. Goes(e) /\ Works(ok, Owners) /\ UNCHANGED <<deferred, sent>>
      BY <1>1 DEF EmitList
    <2> HIDE DEF e
    <2> QED BY <2>3, <2>4, ReadsType
  <1>2. CASE EmitPolicy(ok)
    <2> DEFINE e == [emit EXCEPT !.pc = "shared", !.night = night,
                         !.policy = IF ok THEN tables.policy[Shared] ELSE DefaultPolicy]
    <2>1. e \in EmitState
      BY DEF EmitState, RecipientsTypeOK, Tables
    <2>2. Goes(e) /\ Works(ok, {Shared}) /\ UNCHANGED <<deferred, sent>>
      BY <1>2 DEF EmitPolicy
    <2> HIDE DEF e
    <2> QED BY <2>1, <2>2, ReadsType
  <1>3. CASE EmitShared(ok)
    <2> DEFINE s == [emit EXCEPT !.pc = "system"]
               r == [emit EXCEPT !.pc = "route"]
    <2>1. s \in EmitState /\ r \in EmitState
      BY DEF EmitState, RecipientsTypeOK
    <2>2. \/ UNCHANGED disturbVars /\ UNCHANGED <<deferred, sent>> /\ (Goes(s) \/ Goes(r))
          \/ enqueue(Shared, ok) /\ Goes(s)
      BY <1>3 DEF EmitShared, ModeFor
    <2> HIDE DEF s, r
    <2> QED BY <2>1, <2>2, ReadsType, EnqueuesType
  <1>4. ASSUME NEW x \in Routes, Routed(x), Works(ok, {Shared}), UNCHANGED deferred
        PROVE  RecipientsTypeOK'
    <2> DEFINE e == [emit EXCEPT !.pc = "system", !.route = x]
               cs == targetsFor(x, emit.enabled)
    <2>1. e \in EmitState
      BY DEF EmitState, RecipientsTypeOK
    <2>2. Goes(e) /\ FanOutTo(cs)
      BY <1>4 DEF Routed
    <2> HIDE DEF e, cs
    <2> QED BY <1>4, <2>1, <2>2, SendsType
  <1>5. emit.route \in Routes /\ [mode |-> "all"] \in Routes
        /\ [mode |-> "selected", ids |-> tables.routing.ids] \in Routes
    BY DEF Routes, RecipientsTypeOK, EmitState, Tables
  <1>6. CASE RouteMode(ok)
    <2> DEFINE e == [emit EXCEPT !.pc = "routeIds"]
    <2>1. e \in EmitState
      BY DEF EmitState, RecipientsTypeOK
    <2>2. /\ Works(ok, {Shared}) /\ UNCHANGED deferred
          /\ Routed(emit.route) \/ Routed([mode |-> "all"]) \/ (Goes(e) /\ UNCHANGED sent)
      BY <1>6 DEF RouteMode
    <2> HIDE DEF e
    <2>3. CASE Goes(e) /\ UNCHANGED sent
      BY <2>1, <2>2, <2>3, ReadsType
    <2> QED BY <1>4, <1>5, <2>2, <2>3
  <1>7. CASE routeChannelIDs(ok)
    BY <1>4, <1>5, <1>7 DEF routeChannelIDs
  <1> QED BY <1>1, <1>2, <1>3, <1>6, <1>7

\* Some user is being served where one is needed.
SomeoneServed == InPc({"enqueue", "send"}) => emit.users # {}

\* The steps of the personal path.
LEMMA PersonalStepsType ==
  ASSUME RecipientsTypeOK, SomeoneServed, NEW ok \in BOOLEAN,
         \/ ResolveSystem(ok) \/ ListSubscriptions(ok) \/ ResolveScope(ok)
         \/ PersonalPolicy(ok) \/ PersonalEnqueue(ok) \/ PersonalSend(ok)
  PROVE  RecipientsTypeOK'
  <1> DefaultPolicy \in Policy
    BY DEF DefaultPolicy, Policy, DeliveryModes
  <1> USE OwnersDiffer
  <1>1. CASE ResolveSystem(ok)
    <2> DEFINE e == [emit EXCEPT !.pc = "subs", !.group = tables.home[emit.n]]
    <2>1. ok /\ tables.home[emit.n] # Gone => e \in EmitState
      BY DEF EmitState, RecipientsTypeOK, Tables, Resolved
    <2>2. /\ Works(ok, Users) /\ UNCHANGED <<deferred, sent>>
          /\ (ok /\ tables.home[emit.n] # Gone /\ Goes(e)) \/ Goes(NextOfBatch)
      BY <1>1 DEF ResolveSystem
    <2> HIDE DEF e
    <2> QED BY <2>1, <2>2, ReadsType, NextOfBatchType
  <1>2. CASE ListSubscriptions(ok)
    <2> DEFINE e == [emit EXCEPT !.pc = "scope",
                            !.todo = {u \in Users : Wanted(tables.subs[u], emit.group)},
                            !.users = {}]
    <2>1. e \in EmitState
      BY DEF EmitState, RecipientsTypeOK, Resolved
    <2>2. Works(ok, Users) /\ UNCHANGED <<deferred, sent>> /\ (Goes(e) \/ Goes(NextOfBatch))
      BY <1>2 DEF ListSubscriptions
    <2> HIDE DEF e
    <2> QED BY <2>1, <2>2, ReadsType, NextOfBatchType
  <1>3. CASE ResolveScope(ok)
    <2> DEFINE u == First(emit.todo)
               e == [emit EXCEPT !.todo = @ \ {u},
                        !.users = IF ok /\ emit.group \in Readable(tables, u)
                                  THEN @ \cup {u} ELSE @]
               e2 == [emit EXCEPT !.pc = "users"]
    <2>1. emit.todo # {} => u \in Users
      BY DEF First, EmitState, RecipientsTypeOK
    <2>2. emit.todo # {} => e \in EmitState
      BY <2>1 DEF EmitState, RecipientsTypeOK
    <2>3. e2 \in EmitState
      BY DEF EmitState, RecipientsTypeOK, Resolved, Serving
    <2>4. emit.todo # {} => Works(ok, {u}) /\ Goes(e)
      BY <1>3 DEF ResolveScope
    <2>5. emit.todo = {} => UNCHANGED disturbVars /\ Goes(e2)
      BY <1>3 DEF ResolveScope
    <2>6. UNCHANGED <<deferred, sent>>
      BY <1>3 DEF ResolveScope
    <2> HIDE DEF e, u, e2
    <2> QED BY <2>1, <2>2, <2>3, <2>4, <2>5, <2>6, ReadsType
  <1>4. ASSUME emit.users # {} PROVE First(emit.users) \in emit.users /\ First(emit.users) \in Users
    BY <1>4 DEF First, EmitState, RecipientsTypeOK
  <1>5. CASE PersonalPolicy(ok)
    <2> DEFINE u == First(emit.users)
               done == [emit EXCEPT !.users = @ \ {u}, !.pols[u] = policy(u, ok)]
               e1 == [done EXCEPT !.pc = "enqueue", !.users = emit.users]
               e2 == [done EXCEPT !.pc = "send", !.users = emit.users]
    <2>1. CASE emit.users = {}
      <3>1. Goes(NextOfBatch) /\ UNCHANGED disturbVars /\ UNCHANGED <<deferred, sent>>
        BY <1>5, <2>1 DEF PersonalPolicy
      <3> QED BY <3>1, ReadsType, NextOfBatchType
    <2>2. CASE emit.users # {}
      <3>1. u \in Users
        BY <1>4, <2>2
      <3>2. policy(u, ok) \in Policy
        BY <3>1 DEF policy, RecipientsTypeOK, EmitState, Tables
      <3>3. Works(ok, {u}) /\ UNCHANGED <<deferred, sent>> /\ (Goes(done) \/ Goes(e1) \/ Goes(e2))
        BY <1>5, <2>2 DEF PersonalPolicy
      <3> HIDE DEF u
      <3>4. done \in EmitState /\ e1 \in EmitState /\ e2 \in EmitState
        BY <3>1, <3>2 DEF EmitState, RecipientsTypeOK, Resolved, Serving
      <3> HIDE DEF done, e1, e2
      <3> QED BY <3>1, <3>3, <3>4, ReadsType
    <2> QED BY <2>1, <2>2
  <1>6. CASE PersonalEnqueue(ok)
    <2> DEFINE u == First(emit.users)
               e == [emit EXCEPT !.pc = "users", !.users = @ \ {First(@)}]
    <2>1. u \in Users
      BY <1>4, <1>6 DEF SomeoneServed, InPc, PersonalEnqueue, Reached
    <2>2. e \in EmitState
      BY DEF EmitState, RecipientsTypeOK, Resolved, Serving
    <2>3. enqueue(u, ok) /\ Goes(e)
      BY <1>6 DEF PersonalEnqueue
    <2> HIDE DEF u, e
    <2> QED BY <2>1, <2>2, <2>3, EnqueuesType
  <1>7. CASE PersonalSend(ok)
    <2> DEFINE u == First(emit.users)
               cs == channels(u, ok)
               e == [emit EXCEPT !.pc = "users", !.users = @ \ {u}, !.chans[u] = cs]
    <2>1. u \in Users
      BY <1>4, <1>7 DEF SomeoneServed, InPc, PersonalSend, Reached
    <2>2. Works(ok, {u}) /\ FanOutTo(cs) /\ Goes(e) /\ UNCHANGED deferred
      BY <1>7 DEF PersonalSend
    <2>3. cs \in SUBSET (Chans \cup {"unread"})
      BY <2>1 DEF channels, On, EmitState, RecipientsTypeOK
    <2> HIDE DEF u, cs
    <2>4. e \in EmitState
      BY <2>1, <2>3 DEF EmitState, RecipientsTypeOK, Resolved, Serving
    <2> HIDE DEF e
    <2> QED BY <2>1, <2>2, <2>4, SendsType
  <1> QED BY <1>1, <1>2, <1>3, <1>5, <1>6, <1>7

\* The edits, the clock and the flusher.
Outside == Edits \/ NightTurns \/ \E r \in deferred : FlushRow(r)

LEMMA OutsideType ==
  ASSUME RecipientsTypeOK, Outside
  PROVE  RecipientsTypeOK' /\ UNCHANGED <<emit, sent>> /\ disturbed \subseteq disturbed'
  <1>1. CASE Edits
    <2>1. PICK os \in SUBSET Owners, t \in Tables : Edit(os, t)
      BY <1>1, EditsSpare DEF Spared
    <2> QED BY <2>1, EditType DEF Edit, Disturb
  <1>2. CASE NightTurns
    BY <1>2 DEF NightTurns, RecipientsTypeOK, disturbVars
  <1>3. ASSUME NEW r \in deferred, FlushRow(r)
        PROVE  RecipientsTypeOK' /\ UNCHANGED <<emit, sent>> /\ disturbed \subseteq disturbed'
    BY <1>3 DEF FlushRow, RecipientsTypeOK, disturbVars, On, targetsFor, Tables
  <1> QED BY <1>1, <1>2, <1>3 DEF Outside

\* What a step of Emit leaves to the others.
LEMMA StepsSpare ==
  ASSUME Steps
  PROVE  UNCHANGED <<tables, night, late, could, was>> /\ disturbed \subseteq disturbed'
  <1> USE DEF Goes, Works, Disturb, disturbVars, enqueue
  <1> SUFFICES ASSUME NEW ok \in BOOLEAN,
                 \/ EmitList(ok) \/ EmitPolicy(ok) \/ EmitShared(ok) \/ RouteMode(ok) \/ routeChannelIDs(ok)
                 \/ ResolveSystem(ok) \/ ListSubscriptions(ok) \/ ResolveScope(ok)
                 \/ PersonalPolicy(ok) \/ PersonalEnqueue(ok) \/ PersonalSend(ok)
               PROVE  UNCHANGED <<tables, night, late, could, was>> /\ disturbed \subseteq disturbed'
    BY DEF Steps
  <1>1. CASE EmitList(ok) \/ EmitPolicy(ok)
    BY <1>1 DEF EmitList, EmitPolicy
  <1>2. CASE EmitShared(ok)
    BY <1>2 DEF EmitShared, ModeFor
  <1>3. CASE RouteMode(ok) \/ routeChannelIDs(ok)
    BY <1>3 DEF RouteMode, routeChannelIDs, Routed
  <1>4. CASE ResolveSystem(ok) \/ ListSubscriptions(ok) \/ ResolveScope(ok)
    BY <1>4 DEF ResolveSystem, ListSubscriptions, ResolveScope
  <1>5. CASE PersonalPolicy(ok)
    BY <1>5 DEF PersonalPolicy
  <1>6. CASE PersonalEnqueue(ok) \/ PersonalSend(ok)
    BY <1>6 DEF PersonalEnqueue, PersonalSend
  <1> QED BY <1>1, <1>2, <1>3, <1>4, <1>5, <1>6

-----------------------------------------------------------------------------
(* Emit's own state: someone is being served where one is needed, a user   *)
(* has only channels of theirs, and a batch ends at its last transition    *)
(* unless the channels could not be listed.                                *)
EmitOK ==
    /\ SomeoneServed
    /\ \A u \in Users : emit.chans[u] = {"unread"} \/ emit.chans[u] \subseteq Own(u)
    /\ InPc({"done"}) => Owners \subseteq disturbed \/ emit.n = Batch
    /\ InPc({"idle", "policy"}) => emit.n = 1

LEMMA EmitOKKept ==
  ASSUME RecipientsTypeOK, EmitOK, RecipientsNext
  PROVE  EmitOK'
  <1>1. CASE Outside
    BY <1>1, OutsideType DEF EmitOK, SomeoneServed, InPc, Own
  <1>2. ASSUME NEW ok \in BOOLEAN,
                 \/ EmitList(ok) \/ EmitPolicy(ok) \/ EmitShared(ok) \/ RouteMode(ok) \/ routeChannelIDs(ok)
                 \/ ResolveSystem(ok) \/ ListSubscriptions(ok) \/ ResolveScope(ok)
                 \/ PersonalPolicy(ok) \/ PersonalEnqueue(ok) \/ PersonalSend(ok)
        PROVE  EmitOK'
    <2> USE DEF EmitOK, SomeoneServed, InPc, Goes, Reached, RecipientsTypeOK, EmitState
    <2>1. CASE EmitList(ok)
      <3>1. ok \/ Owners \subseteq disturbed'
        BY <2>1 DEF EmitList, Works, Disturb
      <3>2. emit' = IF ok THEN [Before EXCEPT !.pc = "policy", !.enabled = On(Shared)]
                    ELSE [Before EXCEPT !.pc = "done", !.night = night]
        BY <2>1 DEF EmitList
      <3>3. /\ emit'.pc = IF ok THEN "policy" ELSE "done"
            /\ emit'.chans = [u \in Users |-> {"unread"}] /\ emit'.n = 1
        BY <3>2 DEF Before
      <3> QED BY <3>1, <3>3
    <2>2. CASE EmitPolicy(ok) \/ EmitShared(ok) \/ RouteMode(ok) \/ routeChannelIDs(ok)
      <3>1. emit'.pc \in {"shared", "system", "route", "routeIds"} /\ emit'.chans = emit.chans
        BY <2>2 DEF EmitPolicy, EmitShared, ModeFor, RouteMode, routeChannelIDs, Routed
      <3> QED BY <3>1 DEF Own
    <2>3. NextOfBatch.chans = emit.chans /\ (NextOfBatch.pc = "shared" \/ (NextOfBatch.pc = "done" /\ NextOfBatch.n = Batch))
      <3>1. CASE emit.n = Batch
        BY <3>1 DEF NextOfBatch
      <3>2. CASE emit.n # Batch
        BY <3>2 DEF NextOfBatch
      <3> QED BY <3>1, <3>2
    <2>4. CASE ResolveSystem(ok) \/ ListSubscriptions(ok) \/ ResolveScope(ok)
      <3>1. \/ emit' = NextOfBatch
            \/ emit'.pc \in {"subs", "scope", "users"} /\ emit'.chans = emit.chans
        <4>1. CASE ResolveSystem(ok)
          BY <4>1 DEF ResolveSystem
        <4>2. CASE ListSubscriptions(ok)
          BY <4>2 DEF ListSubscriptions
        <4>3. CASE ResolveScope(ok)
          BY <4>3 DEF ResolveScope
        <4> QED BY <2>4, <4>1, <4>2, <4>3
      <3> QED BY <2>3, <3>1 DEF Own
    <2>5. CASE PersonalPolicy(ok)
      <3>1. \/ emit' = NextOfBatch
            \/ emit'.pc = "users" /\ emit'.chans = emit.chans
            \/ emit'.pc \in {"enqueue", "send"} /\ emit'.users = emit.users /\ emit.users # {} /\ emit'.chans = emit.chans
        <4> DEFINE u == First(emit.users)
                   done == [emit EXCEPT !.users = @ \ {u}, !.pols[u] = policy(u, ok)]
                   e1 == [done EXCEPT !.pc = "enqueue", !.users = emit.users]
                   e2 == [done EXCEPT !.pc = "send", !.users = emit.users]
        <4>1. \/ emit' = NextOfBatch
              \/ emit.users # {} /\ (emit' = done \/ emit' = e1 \/ emit' = e2)
          BY <2>5 DEF PersonalPolicy
        <4>2. /\ done.pc = emit.pc /\ done.chans = emit.chans
              /\ e1.pc = "enqueue" /\ e1.users = emit.users /\ e1.chans = emit.chans
              /\ e2.pc = "send" /\ e2.users = emit.users /\ e2.chans = emit.chans
          OBVIOUS
        <4> HIDE DEF done, e1, e2
        <4>3. emit.pc = "users"
          BY <2>5 DEF PersonalPolicy
        <4> QED BY <4>1, <4>2, <4>3
      <3> QED BY <2>3, <3>1 DEF Own
    <2>6. CASE PersonalEnqueue(ok)
      BY <2>6 DEF PersonalEnqueue, Own
    <2>7. CASE PersonalSend(ok)
      <3> DEFINE u == First(emit.users)
                 cs == channels(u, ok)
      <3>1. u \in Users
        BY <2>7 DEF PersonalSend, First
      <3>2. cs = {"unread"} \/ cs \subseteq Own(u)
        BY <3>1 DEF channels, On, Own
      <3>3. emit' = [emit EXCEPT !.pc = "users", !.users = @ \ {u}, !.chans[u] = cs]
        BY <2>7 DEF PersonalSend
      <3> HIDE DEF u, cs
      <3>4. emit'.pc = "users" /\ emit'.chans = [emit.chans EXCEPT ![u] = cs]
        BY <3>3
      <3>5. \A v \in Users : emit'.chans[v] = {"unread"} \/ emit'.chans[v] \subseteq Own(v)
        BY <3>1, <3>2, <3>4
      <3> QED BY <3>4, <3>5 DEF Own
    <2> QED BY <1>2, <2>1, <2>2, <2>4, <2>5, <2>6, <2>7
  <1> QED BY <1>1, <1>2 DEF RecipientsNext, Outside, Steps

LEMMA RecipientsTypeKept ==
  ASSUME RecipientsTypeOK, EmitOK, RecipientsNext
  PROVE  RecipientsTypeOK'
  <1>1. CASE Outside
    BY <1>1, OutsideType
  <1>2. CASE Steps
    BY <1>2, SharedStepsType, PersonalStepsType DEF Steps, EmitOK
  <1> QED BY <1>1, <1>2 DEF RecipientsNext, Outside

-----------------------------------------------------------------------------
\* What u may be told of n: a group they could read, and n was in.
Known(u, n) == could[u] \cap was[n] # {}

(* The observers are up to date, the group that Emit found was one of the  *)
(* system's, and those being served could read it.                         *)
KnownOK ==
    /\ \A u \in Users : Readable(tables, u) \subseteq could[u]
    /\ \A n \in 1..Batch : tables.home[n] \in was[n]
    /\ InPc(Resolved) => emit.group \in was[emit.n]
    /\ InPc({"scope"} \cup Serving) => \A u \in emit.users : Known(u, emit.n)

\* Nothing of n for u, nor on any of their channels.
Silent(u, n) ==
    /\ <<u, n>> \notin deferred
    /\ \A c \in Own(u) : sent[<<n, c>>] = 0 /\ <<n, c>> \notin late

ToldOK == \A u \in Users, n \in 1..Batch : Known(u, n) \/ Silent(u, n)

LEMMA KnownGrows ==
  ASSUME RecipientsTypeOK, KnownOK, Outside
  PROVE  KnownOK' /\ \A u \in Users, n \in 1..Batch : Known(u, n) => Known(u, n)'
  <1>1. CASE Edits
    <2>1. PICK os \in SUBSET Owners, t \in Tables : Edit(os, t)
      BY <1>1, EditsSpare DEF Spared
    <2>2. /\ \A u \in Users : could'[u] = could[u] \cup Readable(t, u)
          /\ \A n \in 1..Batch : was'[n] = was[n] \cup {t.home[n]}
          /\ tables' = t /\ emit' = emit
      BY <2>1 DEF Edit
    <2>3. \A u \in Users, n \in 1..Batch : Known(u, n) => Known(u, n)'
      BY <2>2 DEF Known
    <2>4. \A u \in Users : Readable(tables, u)' = Readable(t, u)
      BY <2>2 DEF Readable
    <2>5. emit.n \in 1..Batch /\ emit.users \subseteq Users
      BY DEF RecipientsTypeOK, EmitState
    <2> QED BY <2>2, <2>3, <2>4, <2>5 DEF KnownOK, InPc
  <1>2. CASE NightTurns \/ \E r \in deferred : FlushRow(r)
    <2>1. UNCHANGED <<tables, emit, could, was>>
      BY <1>2 DEF NightTurns, FlushRow
    <2>2. \A u \in Users, n \in 1..Batch : Known(u, n)' = Known(u, n)
      BY <2>1 DEF Known
    <2>3. \A u \in Users : Readable(tables, u)' = Readable(tables, u)
      BY <2>1 DEF Readable
    <2>4. emit.n \in 1..Batch /\ emit.users \subseteq Users
      BY DEF RecipientsTypeOK, EmitState
    <2> QED BY <2>1, <2>2, <2>3, <2>4 DEF KnownOK, InPc
  <1> QED BY <1>1, <1>2 DEF Outside

LEMMA KnownInEmit ==
  ASSUME RecipientsTypeOK, KnownOK, Steps
  PROVE  KnownOK' /\ \A u \in Users, n \in 1..Batch : Known(u, n)' = Known(u, n)
  <1>1. UNCHANGED <<tables, could, was>>
    BY StepsSpare
  <1>2. \A u \in Users, n \in 1..Batch : Known(u, n)' = Known(u, n)
    BY <1>1 DEF Known
  <1>3. \A u \in Users : Readable(tables, u)' = Readable(tables, u)
    BY <1>1 DEF Readable
  <1>4. emit \in EmitState /\ emit.n \in 1..Batch /\ emit.users \subseteq Users /\ emit.todo \subseteq Users
    BY DEF RecipientsTypeOK, EmitState
  <1>5. SUFFICES /\ emit'.pc \in Resolved => emit'.group \in was[emit'.n]
                 /\ emit'.pc \in {"scope"} \cup Serving =>
                      emit'.users \subseteq Users /\ emit'.n = emit.n /\ \A u \in emit'.users : Known(u, emit.n)
    BY <1>1, <1>2, <1>3, <1>4 DEF KnownOK, InPc
  <1> USE DEF Goes, InPc, Reached, Resolved, Serving, EmitState
  <1>6. NextOfBatch.pc \in {"shared", "done"}
    BY DEF NextOfBatch
  <1>7. ASSUME NEW ok \in BOOLEAN,
                 EmitList(ok) \/ EmitPolicy(ok) \/ EmitShared(ok) \/ RouteMode(ok) \/ routeChannelIDs(ok)
        PROVE  emit'.pc \notin Resolved
    <2>1. CASE EmitList(ok)
      BY <2>1 DEF EmitList, Before
    <2>2. CASE ~EmitList(ok)
      BY <1>4, <1>7, <2>2 DEF EmitPolicy, EmitShared, ModeFor, RouteMode, routeChannelIDs, Routed
    <2> QED BY <2>1, <2>2
  <1>8. ASSUME NEW ok \in BOOLEAN, ResolveSystem(ok)
        PROVE  emit'.pc \in {"shared", "done"} \/ (emit'.pc = "subs" /\ emit'.group \in was[emit'.n])
    <2>1. \/ emit' = NextOfBatch
          \/ emit' = [emit EXCEPT !.pc = "subs", !.group = tables.home[emit.n]]
      BY <1>8 DEF ResolveSystem
    <2> QED BY <1>4, <1>6, <2>1 DEF KnownOK
  <1>9. ASSUME NEW ok \in BOOLEAN, ListSubscriptions(ok)
        PROVE  \/ emit'.pc \in {"shared", "done"}
               \/ emit'.pc = "scope" /\ emit'.group \in was[emit'.n] /\ emit'.n = emit.n /\ emit'.users = {}
    <2>1. \/ emit' = NextOfBatch
          \/ emit.pc = "subs" /\ emit' = [emit EXCEPT !.pc = "scope",
                  !.todo = {u \in Users : Wanted(tables.subs[u], emit.group)}, !.users = {}]
      BY <1>9 DEF ListSubscriptions
    <2> QED BY <1>4, <1>6, <2>1 DEF KnownOK
  <1>10. ASSUME NEW ok \in BOOLEAN, ResolveScope(ok)
         PROVE  /\ emit'.group \in was[emit'.n] /\ emit'.n = emit.n
                /\ emit'.users \subseteq Users /\ \A u \in emit'.users : Known(u, emit.n)
    <2> DEFINE u == First(emit.todo)
    <2>1. \/ emit' = [emit EXCEPT !.pc = "users"]
          \/ emit' = [emit EXCEPT !.todo = @ \ {u}, !.users = @]
          \/ /\ emit.todo # {} /\ emit.group \in Readable(tables, u)
             /\ emit' = [emit EXCEPT !.todo = @ \ {u}, !.users = @ \cup {u}]
      BY <1>10 DEF ResolveScope
    <2>2. emit.group \in was[emit.n] /\ \A v \in emit.users : Known(v, emit.n)
      BY <1>10 DEF ResolveScope, KnownOK
    <2>3. emit.todo # {} => u \in Users
      BY <1>4 DEF First
    <2> HIDE DEF u
    <2>4. emit.todo # {} /\ emit.group \in Readable(tables, u) => Known(u, emit.n)
      BY <2>2, <2>3 DEF KnownOK, Known
    <2>5. emit' = [emit EXCEPT !.pc = "users"] => emit'.users = emit.users /\ emit'.n = emit.n /\ emit'.group = emit.group
      BY <1>4
    <2>6. emit' = [emit EXCEPT !.todo = @ \ {u}, !.users = @] =>
             emit'.users = emit.users /\ emit'.n = emit.n /\ emit'.group = emit.group
      BY <1>4
    <2>7. emit' = [emit EXCEPT !.todo = @ \ {u}, !.users = @ \cup {u}] =>
             emit'.users = emit.users \cup {u} /\ emit'.n = emit.n /\ emit'.group = emit.group
      BY <1>4
    <2> QED BY <1>4, <2>1, <2>2, <2>3, <2>4, <2>5, <2>6, <2>7
  <1>11. ASSUME NEW ok \in BOOLEAN, PersonalPolicy(ok) \/ PersonalEnqueue(ok) \/ PersonalSend(ok)
         PROVE  \/ emit'.pc \in {"shared", "done"}
                \/ emit'.group = emit.group /\ emit'.n = emit.n /\ emit'.users \subseteq emit.users
    <2> DEFINE u == First(emit.users)
               done == [emit EXCEPT !.users = @ \ {u}, !.pols[u] = policy(u, ok)]
    <2> DEFINE e1 == [done EXCEPT !.pc = "enqueue", !.users = emit.users]
               e2 == [done EXCEPT !.pc = "send", !.users = emit.users]
    <2>1. \/ emit' = NextOfBatch
          \/ emit' = done \/ emit' = e1 \/ emit' = e2
          \/ emit' = [emit EXCEPT !.pc = "users", !.users = @ \ {First(@)}]
          \/ emit' = [emit EXCEPT !.pc = "users", !.users = @ \ {u}, !.chans[u] = channels(u, ok)]
      BY <1>11 DEF PersonalPolicy, PersonalEnqueue, PersonalSend
    <2> HIDE DEF u
    <2>2. /\ done.users \subseteq emit.users /\ done.n = emit.n /\ done.group = emit.group
          /\ e1.users = emit.users /\ e1.n = emit.n /\ e1.group = emit.group
          /\ e2.users = emit.users /\ e2.n = emit.n /\ e2.group = emit.group
      BY <1>4
    <2> HIDE DEF done, e1, e2
    <2>3. emit' = done \/ emit' = e1 \/ emit' = e2 =>
            emit'.group = emit.group /\ emit'.n = emit.n /\ emit'.users \subseteq emit.users
      BY <2>2
    <2>4. emit' = [emit EXCEPT !.pc = "users", !.users = @ \ {First(@)}] =>
            emit'.group = emit.group /\ emit'.n = emit.n /\ emit'.users \subseteq emit.users
      BY <1>4
    <2>5. emit' = [emit EXCEPT !.pc = "users", !.users = @ \ {u}, !.chans[u] = channels(u, ok)] =>
            emit'.group = emit.group /\ emit'.n = emit.n /\ emit'.users \subseteq emit.users
      BY <1>4
    <2> QED BY <1>6, <2>1, <2>3, <2>4, <2>5
  <1>12. \A ok \in BOOLEAN : PersonalPolicy(ok) \/ PersonalEnqueue(ok) \/ PersonalSend(ok) => InPc(Serving)
    BY DEF PersonalPolicy, PersonalEnqueue, PersonalSend
  <1>13. PICK ok \in BOOLEAN :
                 \/ EmitList(ok) \/ EmitPolicy(ok) \/ EmitShared(ok) \/ RouteMode(ok) \/ routeChannelIDs(ok)
                 \/ ResolveSystem(ok) \/ ListSubscriptions(ok) \/ ResolveScope(ok)
                 \/ PersonalPolicy(ok) \/ PersonalEnqueue(ok) \/ PersonalSend(ok)
    BY DEF Steps
  <1>14. CASE PersonalPolicy(ok) \/ PersonalEnqueue(ok) \/ PersonalSend(ok)
    BY <1>4, <1>11, <1>12, <1>14 DEF KnownOK
  <1> QED BY <1>7, <1>8, <1>9, <1>10, <1>13, <1>14

\* Emit sends to one owner's channels at a time, or queues a row of theirs.
LEMMA StepsDeliver ==
  ASSUME RecipientsTypeOK, EmitOK, Steps
  PROVE  \/ UNCHANGED <<deferred, sent>>
         \/ \E o \in Owners :
              /\ o = Shared \/ (InPc(Serving) /\ o \in emit.users)
              /\ \/ UNCHANGED deferred /\ \E cs \in SUBSET Own(o) : FanOutTo(cs)
                 \/ \E ok \in BOOLEAN : enqueue(o, ok)
  <1> DEFINE Delivers == \/ UNCHANGED <<deferred, sent>>
                         \/ \E o \in Owners :
                              /\ o = Shared \/ (InPc(Serving) /\ o \in emit.users)
                              /\ \/ UNCHANGED deferred /\ \E cs \in SUBSET Own(o) : FanOutTo(cs)
                                 \/ \E ok \in BOOLEAN : enqueue(o, ok)
  <1>1. PICK ok \in BOOLEAN :
                 \/ EmitList(ok) \/ EmitPolicy(ok) \/ EmitShared(ok) \/ RouteMode(ok) \/ routeChannelIDs(ok)
                 \/ ResolveSystem(ok) \/ ListSubscriptions(ok) \/ ResolveScope(ok)
                 \/ PersonalPolicy(ok) \/ PersonalEnqueue(ok) \/ PersonalSend(ok)
    BY DEF Steps
  <1>2. CASE EmitList(ok) \/ EmitPolicy(ok) \/ ResolveSystem(ok) \/ ListSubscriptions(ok) \/ ResolveScope(ok)
    BY <1>2 DEF EmitList, EmitPolicy, ResolveSystem, ListSubscriptions, ResolveScope
  <1>3. CASE EmitShared(ok)
    <2>1. UNCHANGED <<deferred, sent>> \/ enqueue(Shared, ok)
      BY <1>3 DEF EmitShared, ModeFor
    <2> QED BY <2>1, OwnersDiffer
  <1>4. ASSUME NEW r, Routed(r), UNCHANGED deferred PROVE Delivers
    <2>1. targetsFor(r, emit.enabled) \in SUBSET Own(Shared)
      BY DEF targetsFor, RecipientsTypeOK, EmitState
    <2> QED BY <1>4, <2>1, OwnersDiffer DEF Routed
  <1>5. CASE RouteMode(ok) \/ routeChannelIDs(ok)
    <2>1. UNCHANGED deferred /\ (UNCHANGED sent \/ \E r : Routed(r))
      BY <1>5 DEF RouteMode, routeChannelIDs
    <2> QED BY <1>4, <2>1
  <1>6. CASE PersonalPolicy(ok)
    BY <1>6 DEF PersonalPolicy
  <1>7. emit.users \subseteq Owners /\ (emit.users # {} => First(emit.users) \in emit.users)
    BY OwnersDiffer DEF First, RecipientsTypeOK, EmitState
  <1>8. CASE PersonalEnqueue(ok)
    <2>1. InPc(Serving) /\ enqueue(First(emit.users), ok) /\ emit.users # {}
      BY <1>8 DEF PersonalEnqueue, EmitOK, SomeoneServed, InPc, Reached, Serving
    <2> QED BY <1>7, <2>1
  <1>9. CASE PersonalSend(ok)
    <2> DEFINE u == First(emit.users)
               cs == channels(u, ok)
    <2>1. InPc(Serving) /\ FanOutTo(cs) /\ emit.users # {} /\ UNCHANGED deferred
      BY <1>9 DEF PersonalSend, EmitOK, SomeoneServed, InPc, Reached, Serving
    <2>2. u \in Users
      BY <2>1 DEF First, RecipientsTypeOK, EmitState
    <2>3. cs \in SUBSET Own(u)
      BY <2>2 DEF channels, EmitOK, On, Own
    <2> HIDE DEF u, cs
    <2> QED BY <1>7, <2>1, <2>3 DEF u
  <1> QED BY <1>1, <1>2, <1>3, <1>5, <1>6, <1>8, <1>9

LEMMA ToldOKKept ==
  ASSUME RecipientsTypeOK, EmitOK, KnownOK, ToldOK, RecipientsNext
  PROVE  ToldOK'
  <1>1. CASE Outside
    <2> SUFFICES ASSUME NEW u \in Users, NEW n \in 1..Batch, Silent(u, n), ~Known(u, n)
                 PROVE  Silent(u, n)'
      BY <1>1, KnownGrows DEF ToldOK
    <2>1. CASE Edits
      <3>1. PICK os \in SUBSET Owners, t \in Tables : Edit(os, t)
        BY <2>1, EditsSpare DEF Spared
      <3> QED BY <3>1 DEF Edit, Silent, Own
    <2>2. CASE NightTurns
      BY <2>2 DEF NightTurns, Silent, Own
    <2>3. ASSUME NEW r \in deferred, FlushRow(r) PROVE Silent(u, n)'
      <3> DEFINE cs == IF r[1] = Shared THEN targetsFor(tables.routing, On(Shared)) ELSE On(r[1])
      <3>1. r[1] \in Owners /\ r[2] \in 1..Batch /\ r = <<r[1], r[2]>>
        BY DEF RecipientsTypeOK
      <3>2. deferred' \subseteq deferred /\ sent' = sent /\ late' = late \cup {<<r[2], c>> : c \in cs}
        BY <2>3 DEF FlushRow
      <3>3. cs \subseteq Own(r[1])
        BY <3>1, OnOwn, OwnersDiffer DEF targetsFor
      <3> HIDE DEF cs
      <3>4. \A c \in Own(u) : <<n, c>> \notin late'
        <4> SUFFICES ASSUME NEW c \in Own(u), <<n, c>> \in late', <<n, c>> \notin late PROVE FALSE
          BY DEF Silent
        <4>1. r[2] = n /\ c \in cs
          BY <3>2
        <4>2. r[1] = u
          BY <3>3, <4>1 DEF Own
        <4> QED BY <3>1, <4>1, <4>2 DEF Silent
      <3> QED BY <3>2, <3>4 DEF Silent, Own
    <2> QED BY <1>1, <2>1, <2>2, <2>3 DEF Outside
  <1>2. CASE Steps
    <2> SUFFICES ASSUME NEW u \in Users, NEW n \in 1..Batch, Silent(u, n), ~Known(u, n)
                 PROVE  Silent(u, n)'
      BY <1>2, KnownInEmit DEF ToldOK
    <2>1. late' = late
      BY <1>2, StepsSpare
    <2>2. CASE UNCHANGED <<deferred, sent>>
      BY <2>1, <2>2 DEF Silent, Own
    <2>3. ASSUME NEW o \in Owners, o = Shared \/ (InPc(Serving) /\ o \in emit.users),
                 \/ UNCHANGED deferred /\ \E cs \in SUBSET Own(o) : FanOutTo(cs)
                 \/ \E ok \in BOOLEAN : enqueue(o, ok)
          PROVE  Silent(u, n)'
      <3>1. o # u \/ n # emit.n
        BY <2>3, OwnersDiffer DEF KnownOK, InPc, Serving
      <3>2. ASSUME NEW cs \in SUBSET Own(o), FanOutTo(cs), UNCHANGED deferred PROVE Silent(u, n)'
        <4>1. \A c \in Own(u) : sent'[<<n, c>>] = sent[<<n, c>>]
          BY <3>1, <3>2, FanOutType DEF Own
        <4> QED BY <2>1, <3>2, <4>1 DEF Silent, Own
      <3>3. ASSUME NEW ok \in BOOLEAN, enqueue(o, ok) PROVE Silent(u, n)'
        <4>1. <<u, n>> \notin deferred'
          BY <3>1, <3>3 DEF enqueue, Silent
        <4> QED BY <2>1, <3>3, <4>1 DEF Silent, Own, enqueue
      <3> QED BY <2>3, <3>2, <3>3
    <2> QED BY <1>2, <2>2, <2>3, StepsDeliver
  <1> QED BY <1>1, <1>2 DEF RecipientsNext, Outside

ToldIInv == RecipientsTypeOK /\ EmitOK /\ KnownOK /\ ToldOK

LEMMA ToldIInvInit == RecipientsInit => ToldIInv
  <1> SUFFICES ASSUME RecipientsInit PROVE ToldIInv
    OBVIOUS
  <1>1. RecipientsTypeOK
    BY RecipientsInitType
  <1>2. EmitOK
    BY DEF RecipientsInit, Before, EmitOK, SomeoneServed, InPc
  <1>3. KnownOK
    BY DEF RecipientsInit, Before, KnownOK, InPc, Resolved, Serving
  <1>4. ToldOK
    BY DEF RecipientsInit, ToldOK, Silent, Own
  <1> QED BY <1>1, <1>2, <1>3, <1>4 DEF ToldIInv

LEMMA ToldIInvNext == ToldIInv /\ [RecipientsNext]_recVars => ToldIInv'
  <1>1. ASSUME ToldIInv, RecipientsNext PROVE ToldIInv'
    <2>1. RecipientsTypeOK' /\ EmitOK' /\ ToldOK'
      BY <1>1, RecipientsTypeKept, EmitOKKept, ToldOKKept DEF ToldIInv
    <2>2. KnownOK'
      BY <1>1, KnownGrows, KnownInEmit DEF ToldIInv, RecipientsNext, Outside
    <2> QED BY <2>1, <2>2 DEF ToldIInv
  <1>2. ASSUME ToldIInv, UNCHANGED recVars PROVE ToldIInv'
    <2> USE <1>2 DEF ToldIInv, recVars, disturbVars
    <2>1. RecipientsTypeOK'
      BY DEF RecipientsTypeOK
    <2>2. EmitOK'
      BY DEF EmitOK, SomeoneServed, InPc
    <2>3. KnownOK'
      BY DEF KnownOK, Known, Readable, InPc
    <2>4. ToldOK'
      BY DEF ToldOK, Silent, Known
    <2> QED BY <2>1, <2>2, <2>3, <2>4
  <1> QED BY <1>1, <1>2

(* For any users, groups, channels, batch and settings, whatever is edited *)
(* or fails while Emit and the flusher run: nobody is told of a system in  *)
(* no group that they could read during the batch.                         *)
THEOREM ToldOfTheirOwnAlways == RecipientsSpec => []ToldOfTheirOwn
  <1>1. ToldIInv => ToldOfTheirOwn
    BY DEF ToldIInv, ToldOK, Known, Silent, Own, ToldOfTheirOwn
  <1> QED BY <1>1, ToldIInvInit, ToldIInvNext, PTL DEF RecipientsSpec

-----------------------------------------------------------------------------
\* What owner o has of transition n is what their settings say; is nothing.
Delivered(o, n) ==
    /\ \A c \in Own(o) : sent[<<n, c>>] = IF Due(o, n) = "send" /\ c \in Targets(o) THEN 1 ELSE 0
    /\ night = emit.night => (<<o, n>> \in deferred <=> Due(o, n) = "defer")

Untouched(o, n) == (\A c \in Own(o) : sent[<<n, c>>] = 0) /\ <<o, n>> \notin deferred

\* Emit has done with n as the shared owner, as a user, is concerned.
SharedHandled(n) ==
    \/ n < emit.n
    \/ n = emit.n /\ InPc({"system", "done"} \cup Resolved)
UserHandled(u, n) ==
    \/ n < emit.n
    \/ n = emit.n /\ (InPc({"done"}) \/ (InPc(Serving) /\ u \notin emit.users))

(* While the shared settings are undisturbed, what Emit has read is what   *)
(* they are, and every transition has been handled as they say or not yet. *)
SharedOK ==
    Shared \notin disturbed =>
        /\ ~InPc({"idle"}) => emit.enabled = On(Shared)
        /\ ~InPc({"idle", "policy"}) => emit.policy = tables.policy[Shared]
        /\ emit.route # NotRead => targetsFor(emit.route, On(Shared)) = Targets(Shared)
        /\ InPc({"routeIds"}) => tables.routing.mode = "selected"
        /\ InPc({"route", "routeIds"}) => ModeFor(tables.policy[Shared], emit.night) = "send"
        /\ \A n \in 1..Batch :
              IF SharedHandled(n) THEN Delivered(Shared, n) ELSE Untouched(Shared, n)

\* The same of a user: the subscription and the scope have been asked too.
UserOK(u) ==
    u \notin disturbed =>
        /\ emit.pols[u] \in {NotRead, tables.policy[u]}
        /\ emit.chans[u] \in {{"unread"}, On(u)}
        /\ InPc(Resolved) => emit.group = tables.home[emit.n]
        /\ InPc({"scope"}) =>
              IF u \in emit.todo THEN Wanted(tables.subs[u], emit.group) /\ u \notin emit.users
              ELSE u \in emit.users <=> Covered(u, emit.n)
        /\ InPc(Serving) /\ u \in emit.users => Covered(u, emit.n)
        /\ InPc({"enqueue"}) /\ u = First(emit.users) => ModeFor(tables.policy[u], emit.night) = "defer"
        /\ InPc({"send"}) /\ u = First(emit.users) => ModeFor(tables.policy[u], emit.night) = "send"
        /\ \A n \in 1..Batch : IF UserHandled(u, n) THEN Delivered(u, n) ELSE Untouched(u, n)

\* What is due to an owner follows from their settings.
LEMMA SettingsStay ==
  ASSUME RecipientsTypeOK, RecipientsTypeOK', NEW o \in Owners, Untold(o, tables')
  PROVE  /\ On(o)' = On(o) /\ Targets(o)' = Targets(o)
         /\ tables'.policy[o] = tables.policy[o]
         /\ \A n \in 1..Batch : (Covered(o, n)' <=> Covered(o, n))
         /\ emit'.night = emit.night => \A n \in 1..Batch : Due(o, n)' = Due(o, n)
  <1>1. On(o)' = On(o)
    BY DEF On, Own, Untold
  <1>2. Targets(o)' = Targets(o)
    BY <1>1 DEF Targets, Untold
  <1>3. \A n \in 1..Batch : (Covered(o, n)' <=> Covered(o, n))
    BY DEF Covered, Readable, Untold
  <1> QED BY <1>1, <1>2, <1>3 DEF Due, Untold

LEMMA OutsideSpares ==
  ASSUME RecipientsTypeOK, Outside, NEW o \in Owners, o \notin disturbed'
  PROVE  /\ o \notin disturbed /\ Untold(o, tables')
         /\ \A n \in 1..Batch : /\ Delivered(o, n) => Delivered(o, n)'
                                /\ Untouched(o, n) => Untouched(o, n)'
  <1>1. RecipientsTypeOK' /\ UNCHANGED <<emit, sent>> /\ o \notin disturbed
    BY OutsideType
  <1>2. Untold(o, tables')
    <2>1. CASE Edits
      BY <2>1, EditsSpare DEF Spared, Edit, Disturb
    <2>2. CASE ~Edits
      BY <2>2 DEF Outside, NightTurns, FlushRow, Untold
    <2> QED BY <2>1, <2>2
  <1>3. ASSUME NEW n \in 1..Batch
        PROVE  /\ Delivered(o, n) => Delivered(o, n)'
               /\ Untouched(o, n) => Untouched(o, n)'
    <2>1. Due(o, n)' = Due(o, n) /\ Targets(o)' = Targets(o)
      BY <1>1, <1>2, SettingsStay
    <2>2. SUFFICES /\ <<o, n>> \in deferred' => <<o, n>> \in deferred
                   /\ night' = emit.night =>
                        /\ night = emit.night
                        /\ Delivered(o, n) /\ <<o, n>> \in deferred => <<o, n>> \in deferred'
      BY <1>1, <2>1 DEF Delivered, Untouched, Own
    <2>3. CASE Edits
      BY <2>3, EditsSpare DEF Spared, Edit
    <2>4. CASE NightTurns
      BY <2>4 DEF NightTurns, RecipientsTypeOK, EmitState
    <2>5. ASSUME NEW r \in deferred, FlushRow(r), night = emit.night, Delivered(o, n), <<o, n>> \in deferred
          PROVE  r # <<o, n>>
      <3>1. Due(o, n) = "defer"
        BY <2>5 DEF Delivered
      <3>2. tables.policy[o].windows /\ emit.night
        BY <3>1 DEF Due, ModeFor
      <3> QED BY <2>5, <3>2 DEF FlushRow
    <2>6. ASSUME NEW r \in deferred, FlushRow(r)
          PROVE  deferred' = deferred \ {r} /\ night' = night
      BY <2>6 DEF FlushRow
    <2> QED BY <2>3, <2>4, <2>5, <2>6 DEF Outside
  <1> QED BY <1>1, <1>2, <1>3

LEMMA OutsideSharedOK ==
  ASSUME RecipientsTypeOK, SharedOK, Outside
  PROVE  SharedOK'
  <1> SUFFICES ASSUME Shared \notin disturbed' PROVE SharedOK'
    BY DEF SharedOK
  <1>1. RecipientsTypeOK' /\ UNCHANGED <<emit, sent>>
    BY OutsideType
  <1>2. /\ Shared \notin disturbed /\ Untold(Shared, tables')
        /\ \A n \in 1..Batch : /\ Delivered(Shared, n) => Delivered(Shared, n)'
                               /\ Untouched(Shared, n) => Untouched(Shared, n)'
    BY OutsideSpares, OwnersDiffer
  <1>3. /\ On(Shared)' = On(Shared) /\ Targets(Shared)' = Targets(Shared)
        /\ tables'.policy[Shared] = tables.policy[Shared] /\ tables'.routing = tables.routing
    BY <1>1, <1>2, SettingsStay, OwnersDiffer DEF Untold
  <1>4. \A n \in 1..Batch : SharedHandled(n)' <=> SharedHandled(n)
    BY <1>1 DEF SharedHandled, InPc
  <1>5. \A n \in 1..Batch :
          IF SharedHandled(n)' THEN Delivered(Shared, n)' ELSE Untouched(Shared, n)'
    <2> SUFFICES ASSUME NEW n \in 1..Batch
                 PROVE  IF SharedHandled(n)' THEN Delivered(Shared, n)' ELSE Untouched(Shared, n)'
      OBVIOUS
    <2>1. IF SharedHandled(n) THEN Delivered(Shared, n) ELSE Untouched(Shared, n)
      BY <1>2 DEF SharedOK
    <2>2. SharedHandled(n)' <=> SharedHandled(n)
      BY <1>4
    <2>3. CASE SharedHandled(n)
      BY <1>2, <2>1, <2>2, <2>3
    <2>4. CASE ~SharedHandled(n)
      BY <1>2, <2>1, <2>2, <2>4
    <2> QED BY <2>3, <2>4
  <1>6. /\ (~InPc({"idle"}))' => emit'.enabled = On(Shared)'
        /\ (~InPc({"idle", "policy"}))' => emit'.policy = tables'.policy[Shared]
        /\ InPc({"routeIds"})' => tables'.routing.mode = "selected"
        /\ InPc({"route", "routeIds"})' => ModeFor(tables'.policy[Shared], emit'.night) = "send"
    BY <1>1, <1>2, <1>3 DEF SharedOK, InPc
  <1>7. emit'.route # NotRead => targetsFor(emit'.route, On(Shared)') = Targets(Shared)'
    BY <1>1, <1>2, <1>3 DEF SharedOK
  <1> QED BY <1>5, <1>6, <1>7 DEF SharedOK

LEMMA OutsideUserOK ==
  ASSUME RecipientsTypeOK, NEW u \in Users, UserOK(u), Outside
  PROVE  UserOK(u)'
  <1> SUFFICES ASSUME u \notin disturbed' PROVE UserOK(u)'
    BY DEF UserOK
  <1>1. RecipientsTypeOK' /\ UNCHANGED <<emit, sent>> /\ emit.n \in 1..Batch
    BY OutsideType DEF RecipientsTypeOK, EmitState
  <1>2. /\ u \notin disturbed /\ Untold(u, tables')
        /\ \A n \in 1..Batch : /\ Delivered(u, n) => Delivered(u, n)'
                               /\ Untouched(u, n) => Untouched(u, n)'
    BY OutsideSpares, OwnersDiffer
  <1>3. /\ On(u)' = On(u) /\ tables'.policy[u] = tables.policy[u]
        /\ tables'.home = tables.home /\ tables'.subs[u] = tables.subs[u]
        /\ (Covered(u, emit.n)' <=> Covered(u, emit.n))
    BY <1>1, <1>2, SettingsStay, OwnersDiffer DEF Untold
  <1>4. \A n \in 1..Batch : UserHandled(u, n)' <=> UserHandled(u, n)
    BY <1>1 DEF UserHandled, InPc
  <1>5. \A n \in 1..Batch :
          IF UserHandled(u, n)' THEN Delivered(u, n)' ELSE Untouched(u, n)'
    <2> SUFFICES ASSUME NEW n \in 1..Batch
                 PROVE  IF UserHandled(u, n)' THEN Delivered(u, n)' ELSE Untouched(u, n)'
      OBVIOUS
    <2>1. IF UserHandled(u, n) THEN Delivered(u, n) ELSE Untouched(u, n)
      BY <1>2 DEF UserOK
    <2>2. UserHandled(u, n)' <=> UserHandled(u, n)
      BY <1>4
    <2>3. CASE UserHandled(u, n)
      BY <1>2, <2>1, <2>2, <2>3
    <2>4. CASE ~UserHandled(u, n)
      BY <1>2, <2>1, <2>2, <2>4
    <2> QED BY <2>3, <2>4
  <1>6. Covered(u, emit.n)' <=> Covered(u, emit.n)
    BY <1>1, <1>3
  <1> HIDE DEF First
  <1>7. /\ emit'.pols[u] \in {NotRead, tables'.policy[u]}
        /\ emit'.chans[u] \in {{"unread"}, On(u)'}
        /\ InPc(Resolved)' => emit'.group = tables'.home[emit'.n]
    BY <1>1, <1>2, <1>3 DEF UserOK, InPc
  <1>8. InPc({"scope"})' =>
              IF u \in emit'.todo THEN Wanted(tables'.subs[u], emit'.group) /\ u \notin emit'.users
              ELSE u \in emit'.users <=> Covered(u, emit.n)'
    BY <1>1, <1>2, <1>3, <1>6 DEF UserOK, InPc
  <1>9. /\ InPc(Serving)' /\ u \in emit'.users => Covered(u, emit.n)'
        /\ InPc({"enqueue"})' /\ u = First(emit'.users) => ModeFor(tables'.policy[u], emit'.night) = "defer"
        /\ InPc({"send"})' /\ u = First(emit'.users) => ModeFor(tables'.policy[u], emit'.night) = "send"
    BY <1>1, <1>2, <1>3, <1>6 DEF UserOK, InPc
  <1> QED BY <1>5, <1>7, <1>8, <1>9 DEF UserOK

-----------------------------------------------------------------------------
\* A step leaves what o has of n as it is.
Undelivered(o, n) ==
    /\ \A c \in Own(o) : sent'[<<n, c>>] = sent[<<n, c>>]
    /\ <<o, n>> \in deferred' <=> <<o, n>> \in deferred

LEMMA StepFrame ==
  ASSUME RecipientsTypeOK, RecipientsTypeOK', Steps, NEW o \in Owners
  PROVE  /\ On(o)' = On(o) /\ Targets(o)' = Targets(o) /\ tables' = tables
         /\ \A n \in 1..Batch : Covered(o, n)' <=> Covered(o, n)
         /\ emit'.night = emit.night => \A n \in 1..Batch : Due(o, n)' = Due(o, n)
         /\ \A n \in 1..Batch : Undelivered(o, n) /\ Untouched(o, n) => Untouched(o, n)'
         /\ emit'.night = emit.night =>
              \A n \in 1..Batch : Undelivered(o, n) /\ Delivered(o, n) => Delivered(o, n)'
  <1>1. tables' = tables /\ night' = night
    BY StepsSpare
  <1>2. Untold(o, tables')
    BY <1>1 DEF Untold
  <1>3. /\ On(o)' = On(o) /\ Targets(o)' = Targets(o)
        /\ \A n \in 1..Batch : Covered(o, n)' <=> Covered(o, n)
        /\ emit'.night = emit.night => \A n \in 1..Batch : Due(o, n)' = Due(o, n)
    BY <1>2, SettingsStay
  <1>4. \A n \in 1..Batch : Undelivered(o, n) /\ Untouched(o, n) => Untouched(o, n)'
    BY DEF Undelivered, Untouched, Own
  <1>5. ASSUME emit'.night = emit.night, NEW n \in 1..Batch, Undelivered(o, n), Delivered(o, n)
        PROVE  Delivered(o, n)'
    <2>1. Due(o, n)' = Due(o, n) /\ Targets(o)' = Targets(o)
      BY <1>3, <1>5
    <2> QED BY <1>1, <1>5, <2>1 DEF Undelivered, Delivered, Own
  <1> QED BY <1>1, <1>3, <1>4, <1>5

\* What goes to p of the transition at hand goes to nobody else.
LEMMA FanOutSpares ==
  ASSUME RecipientsTypeOK, NEW p \in Owners, NEW cs \in SUBSET Own(p), FanOutTo(cs), UNCHANGED deferred,
         NEW o \in Owners, NEW n \in 1..Batch, o # p \/ n # emit.n
  PROVE  Undelivered(o, n)
  BY FanOutType DEF Undelivered, Own

LEMMA EnqueueSpares ==
  ASSUME RecipientsTypeOK, NEW p \in Owners, NEW ok \in BOOLEAN, enqueue(p, ok),
         NEW o \in Owners, NEW n \in 1..Batch, o # p \/ n # emit.n
  PROVE  Undelivered(o, n)
  BY DEF Undelivered, enqueue

\* What is due is delivered, once.
LEMMA FanOutDelivers ==
  ASSUME RecipientsTypeOK, RecipientsTypeOK', Steps, NEW o \in Owners,
         FanOutTo(Targets(o)), UNCHANGED deferred, Untouched(o, emit.n),
         Due(o, emit.n) = "send", emit'.night = emit.night
  PROVE  \A n \in 1..Batch : n = emit.n => Delivered(o, n)'
  <1> SUFFICES ASSUME NEW n \in 1..Batch, n = emit.n PROVE Delivered(o, n)'
    OBVIOUS
  <1>1. Due(o, n)' = "send" /\ Targets(o)' = Targets(o)
    BY StepFrame
  <1>2. \A c \in Own(o) : sent'[<<n, c>>] = IF c \in Targets(o) THEN 1 ELSE 0
    BY FanOutType DEF Untouched, Own
  <1>3. <<o, n>> \notin deferred'
    BY DEF Untouched
  <1> QED BY <1>1, <1>2, <1>3 DEF Delivered, Own

LEMMA EnqueueDelivers ==
  ASSUME RecipientsTypeOK, RecipientsTypeOK', Steps, NEW o \in Owners,
         enqueue(o, TRUE), Untouched(o, emit.n),
         Due(o, emit.n) = "defer", emit'.night = emit.night
  PROVE  \A n \in 1..Batch : n = emit.n => Delivered(o, n)'
  <1> SUFFICES ASSUME NEW n \in 1..Batch, n = emit.n PROVE Delivered(o, n)'
    OBVIOUS
  <1>1. Due(o, n)' = "defer" /\ Targets(o)' = Targets(o)
    BY StepFrame
  <1>2. sent' = sent /\ <<o, n>> \in deferred'
    BY DEF enqueue
  <1> QED BY <1>1, <1>2 DEF Delivered, Untouched, Own

LEMMA NothingDelivers ==
  ASSUME RecipientsTypeOK, RecipientsTypeOK', Steps, NEW o \in Owners, NEW n \in 1..Batch,
         Undelivered(o, n), Untouched(o, n),
         Due(o, n) \notin {"send", "defer"}, emit'.night = emit.night
  PROVE  Delivered(o, n)'
  <1>1. Due(o, n)' \notin {"send", "defer"}
    BY StepFrame
  <1>2. Untouched(o, n)'
    BY StepFrame
  <1> QED BY <1>1, <1>2 DEF Delivered, Untouched, Own

\* The fields of emit after the step to the next transition.
LEMMA NextOfBatchIs ==
  ASSUME RecipientsTypeOK
  PROVE  /\ NextOfBatch.enabled = emit.enabled /\ NextOfBatch.policy = emit.policy
         /\ NextOfBatch.route = emit.route /\ NextOfBatch.night = emit.night
         /\ NextOfBatch.pols = emit.pols /\ NextOfBatch.chans = emit.chans
         /\ \/ emit.n = Batch /\ NextOfBatch.pc = "done" /\ NextOfBatch.n = emit.n
            \/ emit.n < Batch /\ NextOfBatch.pc = "shared" /\ NextOfBatch.n = emit.n + 1
  <1>1. emit \in EmitState /\ Batch \in Nat /\ emit.n \in 1..Batch
    BY RecipientsAssumption DEF RecipientsTypeOK, EmitState
  <1>2. CASE emit.n = Batch
    BY <1>1, <1>2 DEF NextOfBatch, EmitState
  <1>3. CASE emit.n # Batch
    BY <1>1, <1>3 DEF NextOfBatch, EmitState
  <1> QED BY <1>2, <1>3

-----------------------------------------------------------------------------
\* The shared path keeps to the shared settings.
LEMMA SharedStepsShared ==
  ASSUME RecipientsTypeOK, RecipientsTypeOK', EmitOK, SharedOK, Steps, NEW ok \in BOOLEAN,
         EmitList(ok) \/ EmitPolicy(ok) \/ EmitShared(ok) \/ RouteMode(ok) \/ routeChannelIDs(ok)
  PROVE  SharedOK'
  <1> SUFFICES ASSUME Shared \notin disturbed' PROVE SharedOK'
    BY DEF SharedOK
  <1> DEFINE Handled == \A n \in 1..Batch :
               IF SharedHandled(n)' THEN Delivered(Shared, n)' ELSE Untouched(Shared, n)'
  <1>1. /\ Shared \notin disturbed /\ Shared \in Owners
        /\ emit \in EmitState /\ emit.n \in 1..Batch /\ Batch \in Nat
        /\ tables' = tables /\ night' = night
    BY StepsSpare, OwnersDiffer, RecipientsAssumption DEF RecipientsTypeOK, EmitState
  <1>2. On(Shared)' = On(Shared) /\ Targets(Shared)' = Targets(Shared)
    BY <1>1, StepFrame
  <1>3. \A n \in 1..Batch : Undelivered(Shared, n) /\ Untouched(Shared, n) => Untouched(Shared, n)'
    BY <1>1, StepFrame
  <1>4. emit'.night = emit.night =>
          \A n \in 1..Batch : Undelivered(Shared, n) /\ Delivered(Shared, n) => Delivered(Shared, n)'
    BY <1>1, StepFrame
  <1>5. /\ ~InPc({"idle"}) => emit.enabled = On(Shared)
        /\ ~InPc({"idle", "policy"}) => emit.policy = tables.policy[Shared]
        /\ emit.route # NotRead => targetsFor(emit.route, On(Shared)) = Targets(Shared)
        /\ InPc({"routeIds"}) => tables.routing.mode = "selected"
        /\ InPc({"route", "routeIds"}) => ModeFor(tables.policy[Shared], emit.night) = "send"
        /\ \A n \in 1..Batch :
              IF SharedHandled(n) THEN Delivered(Shared, n) ELSE Untouched(Shared, n)
    BY <1>1 DEF SharedOK
  <1>6. ASSUME UNCHANGED <<deferred, sent>> PROVE \A n \in 1..Batch : Undelivered(Shared, n)
    BY <1>6 DEF Undelivered
  <1>7. \A n \in 1..Batch : Due(Shared, n) = ModeFor(tables.policy[Shared], emit.night)
    BY DEF Due, Covered
  <1>8. CASE EmitList(ok)
    <2>1. ok
      BY <1>1, <1>8 DEF EmitList, Works, Disturb
    <2>2. emit' = [Before EXCEPT !.pc = "policy", !.enabled = On(Shared)]
      BY <1>8, <2>1 DEF EmitList, Goes
    <2>3. emit'.pc = "policy" /\ emit'.n = 1 /\ emit'.enabled = On(Shared) /\ emit'.route = NotRead
      BY <2>2 DEF Before
    <2>4. emit.pc = "idle" /\ emit.n = 1 /\ UNCHANGED <<deferred, sent>>
      BY <1>8 DEF EmitList, Reached, EmitOK, InPc
    <2>5. Handled
      BY <1>3, <1>5, <1>6, <2>3, <2>4 DEF SharedHandled, InPc, Resolved, Serving
    <2> QED BY <1>2, <2>3, <2>5 DEF SharedOK, InPc
  <1>9. CASE EmitPolicy(ok)
    <2>1. ok
      BY <1>1, <1>9 DEF EmitPolicy, Works, Disturb
    <2>2. emit' = [emit EXCEPT !.pc = "shared", !.night = night, !.policy = tables.policy[Shared]]
      BY <1>9, <2>1 DEF EmitPolicy, Goes
    <2>3. /\ emit'.pc = "shared" /\ emit'.n = emit.n /\ emit'.enabled = emit.enabled
          /\ emit'.route = emit.route /\ emit'.policy = tables.policy[Shared]
      BY <1>1, <2>2 DEF EmitState
    <2>4. emit.pc = "policy" /\ emit.n = 1 /\ UNCHANGED <<deferred, sent>>
      BY <1>9 DEF EmitPolicy, Reached, EmitOK, InPc
    <2>5. Handled
      BY <1>3, <1>5, <1>6, <2>3, <2>4 DEF SharedHandled, InPc, Resolved, Serving
    <2> QED BY <1>1, <1>2, <1>5, <2>3, <2>4, <2>5 DEF SharedOK, InPc
  <1>10. ASSUME emit.pc \in {"shared", "route", "routeIds"}, emit'.pc = "system",
                emit'.n = emit.n, emit'.night = emit.night,
                \A n \in 1..Batch : n = emit.n => Delivered(Shared, n)',
                \A n \in 1..Batch : n # emit.n => Undelivered(Shared, n)
         PROVE  Handled
    <2> SUFFICES ASSUME NEW n \in 1..Batch
                 PROVE  IF SharedHandled(n)' THEN Delivered(Shared, n)' ELSE Untouched(Shared, n)'
      OBVIOUS
    <2>1. SharedHandled(n)' <=> n <= emit.n
      BY <1>1, <1>10 DEF SharedHandled, InPc
    <2>2. SharedHandled(n) <=> n < emit.n
      BY <1>1, <1>10 DEF SharedHandled, InPc, Resolved, Serving
    <2>3. CASE n = emit.n
      BY <1>1, <1>10, <2>1, <2>3
    <2>4. CASE n # emit.n
      BY <1>1, <1>3, <1>4, <1>5, <1>10, <2>1, <2>2, <2>4
    <2> QED BY <2>3, <2>4
  <1>11. ASSUME emit.pc \in {"shared", "route", "routeIds"}
         PROVE  Untouched(Shared, emit.n)
    BY <1>1, <1>5, <1>11 DEF SharedHandled, InPc, Resolved, Serving
  <1>12. CASE EmitShared(ok)
    <2> DEFINE plan == ModeFor(emit.policy, emit.night)
    <2>1. emit.pc = "shared" /\ plan = ModeFor(tables.policy[Shared], emit.night)
      BY <1>5, <1>12 DEF EmitShared, Reached, InPc
    <2>2. plan \in {"suppress", "defer", "send"}
      BY DEF ModeFor
    <2>3. \A n \in 1..Batch : Due(Shared, n) = plan
      BY <1>7, <2>1
    <2> HIDE DEF plan
    <2>4. CASE plan = "send"
      <3>1. emit' = [emit EXCEPT !.pc = "route"] /\ UNCHANGED <<deferred, sent>>
        BY <1>12, <2>4 DEF EmitShared, Goes, plan
      <3>2. /\ emit'.pc = "route" /\ emit'.n = emit.n /\ emit'.enabled = emit.enabled /\ emit'.night = emit.night
            /\ emit'.route = emit.route /\ emit'.policy = emit.policy
        BY <1>1, <3>1 DEF EmitState
      <3>3. \A n \in 1..Batch : SharedHandled(n)' <=> SharedHandled(n)
        BY <2>1, <3>2 DEF SharedHandled, InPc, Resolved, Serving
      <3>4. Handled
        BY <1>3, <1>4, <1>5, <1>6, <3>1, <3>2, <3>3
      <3> QED BY <1>1, <1>2, <1>5, <2>1, <2>4, <3>2, <3>4 DEF SharedOK, InPc
    <2>5. CASE plan # "send"
      <3>1. emit' = [emit EXCEPT !.pc = "system"]
        BY <1>12, <2>2, <2>5 DEF EmitShared, Goes, plan
      <3>2. /\ emit'.pc = "system" /\ emit'.n = emit.n /\ emit'.enabled = emit.enabled /\ emit'.night = emit.night
            /\ emit'.route = emit.route /\ emit'.policy = emit.policy
        BY <1>1, <3>1 DEF EmitState
      <3>3. ASSUME plan = "defer" PROVE Handled
        <4>1. enqueue(Shared, ok)
          BY <1>12, <3>3 DEF EmitShared, plan
        <4>2. ok
          BY <1>1, <4>1 DEF enqueue, Works, Disturb
        <4>3. \A n \in 1..Batch : n = emit.n => Delivered(Shared, n)'
          BY <1>1, <1>11, <2>1, <2>3, <3>2, <3>3, <4>1, <4>2, EnqueueDelivers
        <4>4. \A n \in 1..Batch : n # emit.n => Undelivered(Shared, n)
          BY <1>1, <4>1, EnqueueSpares
        <4> QED BY <1>10, <2>1, <3>2, <4>3, <4>4
      <3>4. ASSUME plan = "suppress" PROVE Handled
        <4>1. UNCHANGED <<deferred, sent>>
          BY <1>12, <3>4 DEF EmitShared, plan
        <4>2. \A n \in 1..Batch : Undelivered(Shared, n)
          BY <1>6, <4>1
        <4>3. \A n \in 1..Batch : n = emit.n => Delivered(Shared, n)'
          BY <1>1, <1>11, <2>1, <2>3, <3>2, <3>4, <4>2, NothingDelivers
        <4> QED BY <1>10, <2>1, <3>2, <4>2, <4>3
      <3>5. Handled
        BY <2>2, <2>5, <3>3, <3>4
      <3> QED BY <1>1, <1>2, <1>5, <2>1, <3>2, <3>5 DEF SharedOK, InPc
    <2> QED BY <2>4, <2>5
  <1>13. ASSUME NEW r, Routed(r), UNCHANGED deferred, emit.pc \in {"route", "routeIds"},
                targetsFor(r, On(Shared)) = Targets(Shared)
         PROVE  SharedOK'
    <2>1. emit' = [emit EXCEPT !.pc = "system", !.route = r] /\ FanOutTo(targetsFor(r, emit.enabled))
      BY <1>13 DEF Routed, Goes
    <2>2. emit.enabled = On(Shared)
      BY <1>5, <1>13 DEF InPc
    <2>3. FanOutTo(Targets(Shared)) /\ Targets(Shared) \in SUBSET Own(Shared)
      BY <1>1, <1>13, <2>1, <2>2, OnOwn DEF Targets, targetsFor
    <2>4. /\ emit'.pc = "system" /\ emit'.n = emit.n /\ emit'.enabled = emit.enabled /\ emit'.night = emit.night
          /\ emit'.route = r /\ emit'.policy = emit.policy
      BY <1>1, <2>1 DEF EmitState
    <2>5. Due(Shared, emit.n) = "send"
      BY <1>1, <1>5, <1>7, <1>13 DEF InPc
    <2>6. \A n \in 1..Batch : n = emit.n => Delivered(Shared, n)'
      BY <1>1, <1>11, <1>13, <2>3, <2>4, <2>5, FanOutDelivers
    <2>7. \A n \in 1..Batch : n # emit.n => Undelivered(Shared, n)
      BY <1>1, <1>13, <2>3, FanOutSpares
    <2>8. Handled
      BY <1>10, <1>13, <2>4, <2>6, <2>7
    <2> QED BY <1>1, <1>2, <1>5, <1>13, <2>4, <2>8 DEF SharedOK, InPc
  <1>14. CASE RouteMode(ok)
    <2>1. emit.pc = "route" /\ ok /\ UNCHANGED deferred
      BY <1>1, <1>14 DEF RouteMode, Reached, Works, Disturb
    <2>2. CASE emit.route # NotRead
      <3>1. Routed(emit.route)
        BY <1>14, <2>2 DEF RouteMode
      <3> QED BY <1>5, <1>13, <2>1, <2>2, <3>1
    <2>3. CASE emit.route = NotRead /\ tables.routing.mode = "selected"
      <3>1. emit' = [emit EXCEPT !.pc = "routeIds"] /\ UNCHANGED <<deferred, sent>>
        BY <1>14, <2>1, <2>3 DEF RouteMode, Goes
      <3>2. /\ emit'.pc = "routeIds" /\ emit'.n = emit.n /\ emit'.enabled = emit.enabled /\ emit'.night = emit.night
            /\ emit'.route = emit.route /\ emit'.policy = emit.policy
        BY <1>1, <3>1 DEF EmitState
      <3>3. \A n \in 1..Batch : SharedHandled(n)' <=> SharedHandled(n)
        BY <2>1, <3>2 DEF SharedHandled, InPc, Resolved, Serving
      <3>4. Handled
        BY <1>3, <1>4, <1>5, <1>6, <3>1, <3>2, <3>3
      <3> QED BY <1>1, <1>2, <1>5, <2>1, <2>3, <3>2, <3>4 DEF SharedOK, InPc
    <2>4. CASE emit.route = NotRead /\ tables.routing.mode # "selected"
      <3>1. Routed([mode |-> "all"])
        BY <1>14, <2>4 DEF RouteMode
      <3>2. targetsFor([mode |-> "all"], On(Shared)) = Targets(Shared)
        BY <2>4 DEF targetsFor, Targets
      <3> QED BY <1>13, <2>1, <3>1, <3>2
    <2> QED BY <2>2, <2>3, <2>4
  <1>15. CASE routeChannelIDs(ok)
    <2> DEFINE r == [mode |-> "selected", ids |-> tables.routing.ids]
    <2>1. emit.pc = "routeIds" /\ ok /\ UNCHANGED deferred /\ Routed(r)
      BY <1>1, <1>15 DEF routeChannelIDs, Reached, Works, Disturb
    <2>2. tables.routing.mode = "selected"
      BY <1>5, <2>1 DEF InPc
    <2>3. targetsFor(r, On(Shared)) = Targets(Shared)
      BY <2>2 DEF targetsFor, Targets
    <2> HIDE DEF r
    <2> QED BY <1>13, <2>1, <2>3
  <1> QED BY <1>8, <1>9, <1>12, <1>14, <1>15

\* The personal path does not touch what is shared.
LEMMA PersonalMoves ==
  ASSUME RecipientsTypeOK, EmitOK, NEW ok \in BOOLEAN,
         \/ ResolveSystem(ok) \/ ListSubscriptions(ok) \/ ResolveScope(ok)
         \/ PersonalPolicy(ok) \/ PersonalEnqueue(ok) \/ PersonalSend(ok)
  PROVE  /\ emit.pc \in {"system"} \cup Resolved
         /\ emit'.enabled = emit.enabled /\ emit'.policy = emit.policy
         /\ emit'.route = emit.route /\ emit'.night = emit.night
         /\ emit' = NextOfBatch \/ (emit'.pc \in Resolved /\ emit'.n = emit.n)
  <1> DEFINE Kept(e) == /\ e.enabled = emit.enabled /\ e.policy = emit.policy
                        /\ e.route = emit.route /\ e.night = emit.night
                        /\ e = NextOfBatch \/ (e.pc \in Resolved /\ e.n = emit.n)
  <1>1. emit \in EmitState
    BY DEF RecipientsTypeOK
  <1>2. emit.pc \in {"system"} \cup Resolved
    BY DEF ResolveSystem, ListSubscriptions, ResolveScope, PersonalPolicy, PersonalEnqueue, PersonalSend,
           Reached, Resolved, Serving
  <1>3. Kept(NextOfBatch)
    BY NextOfBatchIs
  <1>4. CASE ResolveSystem(ok)
    <2>1. emit' = NextOfBatch \/ emit' = [emit EXCEPT !.pc = "subs", !.group = tables.home[emit.n]]
      BY <1>4 DEF ResolveSystem, Goes
    <2> QED BY <1>1, <1>2, <1>3, <2>1 DEF EmitState, Resolved
  <1>5. CASE ListSubscriptions(ok)
    <2> DEFINE td == {u \in Users : Wanted(tables.subs[u], emit.group)}
    <2>1. emit' = NextOfBatch \/ emit' = [emit EXCEPT !.pc = "scope", !.todo = td, !.users = {}]
      BY <1>5 DEF ListSubscriptions, Goes
    <2> HIDE DEF td
    <2> QED BY <1>1, <1>2, <1>3, <2>1 DEF EmitState, Resolved
  <1>6. CASE ResolveScope(ok)
    <2> DEFINE us == IF ok /\ emit.group \in Readable(tables, First(emit.todo))
                     THEN emit.users \cup {First(emit.todo)} ELSE emit.users
               td == emit.todo \ {First(emit.todo)}
    <2>1. emit.pc = "scope"
      BY <1>6 DEF ResolveScope, Reached
    <2>2. \/ emit' = [emit EXCEPT !.pc = "users"]
          \/ emit' = [emit EXCEPT !.todo = td, !.users = us]
      BY <1>1, <1>6 DEF ResolveScope, Goes, EmitState
    <2> HIDE DEF us, td
    <2> QED BY <1>1, <1>2, <2>1, <2>2 DEF EmitState, Resolved, Serving
  <1>7. CASE PersonalPolicy(ok)
    <2> DEFINE u == First(emit.users)
               ps == [emit.pols EXCEPT ![u] = policy(u, ok)]
    <2>1. emit.pc = "users"
      BY <1>7 DEF PersonalPolicy, Reached
    <2>2. \/ emit' = NextOfBatch
          \/ emit' = [emit EXCEPT !.users = emit.users \ {u}, !.pols = ps]
          \/ emit' = [emit EXCEPT !.pc = "enqueue", !.pols = ps]
          \/ emit' = [emit EXCEPT !.pc = "send", !.pols = ps]
      BY <1>1, <1>7 DEF PersonalPolicy, Goes, EmitState
    <2> HIDE DEF u, ps
    <2> QED BY <1>1, <1>2, <1>3, <2>1, <2>2 DEF EmitState, Resolved, Serving
  <1>8. CASE PersonalEnqueue(ok)
    <2> DEFINE us == emit.users \ {First(emit.users)}
    <2>1. emit' = [emit EXCEPT !.pc = "users", !.users = us]
      BY <1>1, <1>8 DEF PersonalEnqueue, Goes, EmitState
    <2> HIDE DEF us
    <2> QED BY <1>1, <1>2, <2>1 DEF EmitState, Resolved, Serving
  <1>9. CASE PersonalSend(ok)
    <2> DEFINE us == emit.users \ {First(emit.users)}
               cs == [emit.chans EXCEPT ![First(emit.users)] = channels(First(emit.users), ok)]
    <2>1. emit' = [emit EXCEPT !.pc = "users", !.users = us, !.chans = cs]
      BY <1>1, <1>9 DEF PersonalSend, Goes, EmitState
    <2> HIDE DEF us, cs
    <2> QED BY <1>1, <1>2, <2>1 DEF EmitState, Resolved, Serving
  <1> QED BY <1>2, <1>4, <1>5, <1>6, <1>7, <1>8, <1>9

LEMMA PersonalStepsShared ==
  ASSUME RecipientsTypeOK, RecipientsTypeOK', EmitOK, SharedOK, Steps, NEW ok \in BOOLEAN,
         \/ ResolveSystem(ok) \/ ListSubscriptions(ok) \/ ResolveScope(ok)
         \/ PersonalPolicy(ok) \/ PersonalEnqueue(ok) \/ PersonalSend(ok)
  PROVE  SharedOK'
  <1> SUFFICES ASSUME Shared \notin disturbed' PROVE SharedOK'
    BY DEF SharedOK
  <1>1. /\ Shared \notin disturbed /\ Shared \in Owners /\ emit.n \in 1..Batch /\ Batch \in Nat
        /\ tables' = tables
    BY StepsSpare, OwnersDiffer, RecipientsAssumption DEF RecipientsTypeOK, EmitState
  <1>2. /\ emit.pc \in {"system"} \cup Resolved
        /\ emit'.enabled = emit.enabled /\ emit'.policy = emit.policy
        /\ emit'.route = emit.route /\ emit'.night = emit.night
        /\ emit' = NextOfBatch \/ (emit'.pc \in Resolved /\ emit'.n = emit.n)
    BY PersonalMoves
  <1>3. On(Shared)' = On(Shared) /\ Targets(Shared)' = Targets(Shared)
    BY <1>1, StepFrame
  <1>4. \A n \in 1..Batch : Undelivered(Shared, n)
    <2>1. CASE UNCHANGED <<deferred, sent>>
      BY <2>1 DEF Undelivered
    <2>2. CASE PersonalEnqueue(ok)
      <3>1. enqueue(First(emit.users), ok) /\ First(emit.users) \in Users
        BY <2>2 DEF PersonalEnqueue, EmitOK, SomeoneServed, InPc, Reached, First, RecipientsTypeOK, EmitState
      <3> QED BY <3>1, EnqueueSpares, OwnersDiffer
    <2>3. CASE PersonalSend(ok)
      <3> DEFINE u == First(emit.users)
                 cs == channels(u, ok)
      <3>1. FanOutTo(cs) /\ u \in Users /\ UNCHANGED deferred
        BY <2>3 DEF PersonalSend, EmitOK, SomeoneServed, InPc, Reached, First, RecipientsTypeOK, EmitState
      <3>2. cs \in SUBSET Own(u)
        BY <3>1 DEF channels, EmitOK, On, Own
      <3> HIDE DEF u, cs
      <3> QED BY <3>1, <3>2, FanOutSpares, OwnersDiffer
    <2> QED BY <2>1, <2>2, <2>3 DEF ResolveSystem, ListSubscriptions, ResolveScope, PersonalPolicy
  <1>5. emit' = NextOfBatch =>
          \/ emit.n = Batch /\ emit'.pc = "done" /\ emit'.n = emit.n
          \/ emit.n < Batch /\ emit'.pc = "shared" /\ emit'.n = emit.n + 1
    BY NextOfBatchIs
  <1>6. \A n \in 1..Batch : SharedHandled(n)' <=> SharedHandled(n)
    <2> SUFFICES ASSUME NEW n \in 1..Batch PROVE SharedHandled(n)' <=> SharedHandled(n)
      OBVIOUS
    <2>1. SharedHandled(n) <=> n <= emit.n
      BY <1>1, <1>2 DEF SharedHandled, InPc
    <2>2. SharedHandled(n)' <=> n <= emit.n
      BY <1>1, <1>2, <1>5 DEF SharedHandled, InPc, Resolved, Serving
    <2> QED BY <2>1, <2>2
  <1>7. \A n \in 1..Batch : IF SharedHandled(n)' THEN Delivered(Shared, n)' ELSE Untouched(Shared, n)'
    BY <1>1, <1>2, <1>4, <1>6, StepFrame DEF SharedOK
  <1>8. emit'.pc \notin {"idle", "policy", "route", "routeIds"}
    BY <1>2, <1>5 DEF Resolved, Serving
  <1> QED BY <1>1, <1>2, <1>3, <1>7, <1>8 DEF SharedOK, InPc, Resolved, Serving

-----------------------------------------------------------------------------
\* The shared path does not touch what is a user's.
LEMMA SharedMoves ==
  ASSUME RecipientsTypeOK, EmitOK, NEW u \in Users, u \notin disturbed', NEW ok \in BOOLEAN,
         EmitList(ok) \/ EmitPolicy(ok) \/ EmitShared(ok) \/ RouteMode(ok) \/ routeChannelIDs(ok)
  PROVE  /\ emit.pc \in {"idle", "policy", "shared", "route", "routeIds"}
         /\ emit'.pc \in {"policy", "shared", "route", "routeIds", "system"}
         /\ emit'.n = emit.n
         /\ emit.n # 1 => emit'.night = emit.night
         /\ emit'.pols[u] \in {NotRead, emit.pols[u]} /\ emit'.chans[u] \in {{"unread"}, emit.chans[u]}
         /\ \A n \in 1..Batch : Undelivered(u, n)
  <1>1. emit \in EmitState /\ u \in Owners /\ u # Shared /\ Shared \in Owners
    BY OwnersDiffer DEF RecipientsTypeOK
  <1>2. emit.pc \in {"idle", "policy", "shared", "route", "routeIds"}
    BY DEF EmitList, EmitPolicy, EmitShared, RouteMode, routeChannelIDs, Reached
  <1>3. ASSUME UNCHANGED <<deferred, sent>> PROVE \A n \in 1..Batch : Undelivered(u, n)
    BY <1>3 DEF Undelivered
  <1>4. CASE EmitList(ok)
    <2>1. ok
      BY <1>1, <1>4 DEF EmitList, Works, Disturb
    <2>2. emit' = [Before EXCEPT !.pc = "policy", !.enabled = On(Shared)]
      BY <1>4, <2>1 DEF EmitList, Goes
    <2>3. emit'.pc = "policy" /\ emit'.n = 1 /\ emit'.pols[u] = NotRead /\ emit'.chans[u] = {"unread"}
      BY <2>2 DEF Before
    <2>4. emit.n = 1 /\ UNCHANGED <<deferred, sent>>
      BY <1>4 DEF EmitList, Reached, EmitOK, InPc
    <2> QED BY <1>2, <1>3, <2>3, <2>4
  <1>5. CASE EmitPolicy(ok)
    <2> DEFINE q == IF ok THEN tables.policy[Shared] ELSE DefaultPolicy
    <2>1. emit' = [emit EXCEPT !.pc = "shared", !.night = night, !.policy = q]
      BY <1>5 DEF EmitPolicy, Goes
    <2> HIDE DEF q
    <2>2. emit'.pc = "shared" /\ emit'.n = emit.n /\ emit'.pols = emit.pols /\ emit'.chans = emit.chans
      BY <1>1, <2>1 DEF EmitState
    <2>3. emit.n = 1 /\ UNCHANGED <<deferred, sent>>
      BY <1>5 DEF EmitPolicy, Reached, EmitOK, InPc
    <2> QED BY <1>2, <1>3, <2>2, <2>3
  <1>6. ASSUME NEW r, Routed(r), UNCHANGED deferred
        PROVE  /\ emit' = [emit EXCEPT !.pc = "system", !.route = r]
               /\ \A n \in 1..Batch : Undelivered(u, n)
    <2> DEFINE cs == targetsFor(r, emit.enabled)
    <2>1. FanOutTo(cs) /\ cs \in SUBSET Own(Shared)
      BY <1>1, <1>6 DEF Routed, targetsFor, EmitState
    <2> HIDE DEF cs
    <2>2. \A n \in 1..Batch : Undelivered(u, n)
      BY <1>1, <1>6, <2>1, FanOutSpares
    <2> QED BY <1>6, <2>2 DEF Routed, Goes
  <1>7. CASE EmitShared(ok)
    <2>1. \/ UNCHANGED <<deferred, sent>>
          \/ enqueue(Shared, ok)
      BY <1>7 DEF EmitShared, ModeFor
    <2>2. \A n \in 1..Batch : Undelivered(u, n)
      BY <1>1, <1>3, <2>1, EnqueueSpares
    <2>3. emit' = [emit EXCEPT !.pc = "system"] \/ emit' = [emit EXCEPT !.pc = "route"]
      BY <1>7 DEF EmitShared, ModeFor, Goes
    <2> QED BY <1>1, <1>2, <2>2, <2>3 DEF EmitState
  <1>8. CASE RouteMode(ok) \/ routeChannelIDs(ok)
    <2>1. \/ emit' = [emit EXCEPT !.pc = "routeIds"] /\ UNCHANGED <<deferred, sent>>
          \/ UNCHANGED deferred /\ \E r : Routed(r)
      BY <1>8 DEF RouteMode, routeChannelIDs, Goes
    <2>2. /\ emit' = [emit EXCEPT !.pc = "routeIds"] \/ \E r : emit' = [emit EXCEPT !.pc = "system", !.route = r]
          /\ \A n \in 1..Batch : Undelivered(u, n)
      BY <1>3, <1>6, <2>1
    <2> QED BY <1>1, <1>2, <2>2 DEF EmitState
  <1> QED BY <1>4, <1>5, <1>7, <1>8

LEMMA SharedStepsUser ==
  ASSUME RecipientsTypeOK, RecipientsTypeOK', EmitOK, NEW u \in Users, UserOK(u), Steps, NEW ok \in BOOLEAN,
         EmitList(ok) \/ EmitPolicy(ok) \/ EmitShared(ok) \/ RouteMode(ok) \/ routeChannelIDs(ok)
  PROVE  UserOK(u)'
  <1> SUFFICES ASSUME u \notin disturbed' PROVE UserOK(u)'
    BY DEF UserOK
  <1>1. /\ u \notin disturbed /\ u \in Owners /\ emit.n \in 1..Batch /\ tables' = tables
    BY StepsSpare, OwnersDiffer DEF RecipientsTypeOK, EmitState
  <1>2. /\ emit.pc \in {"idle", "policy", "shared", "route", "routeIds"}
        /\ emit'.pc \in {"policy", "shared", "route", "routeIds", "system"}
        /\ emit'.n = emit.n
        /\ emit.n # 1 => emit'.night = emit.night
        /\ emit'.pols[u] \in {NotRead, emit.pols[u]} /\ emit'.chans[u] \in {{"unread"}, emit.chans[u]}
        /\ \A n \in 1..Batch : Undelivered(u, n)
    BY SharedMoves
  <1>3. On(u)' = On(u)
    BY <1>1, StepFrame
  <1>4. ASSUME NEW n \in 1..Batch
        PROVE  IF UserHandled(u, n)' THEN Delivered(u, n)' ELSE Untouched(u, n)'
    <2>1. (UserHandled(u, n) <=> n < emit.n) /\ (UserHandled(u, n)' <=> n < emit.n)
      BY <1>1, <1>2 DEF UserHandled, InPc, Serving
    <2>2. CASE n < emit.n
      <3>1. Delivered(u, n) /\ emit'.night = emit.night
        BY <1>1, <1>2, <2>1, <2>2 DEF UserOK
      <3> QED BY <1>1, <1>2, <2>1, <2>2, <3>1, StepFrame
    <2>3. CASE ~(n < emit.n)
      <3>1. Untouched(u, n)
        BY <1>1, <2>1, <2>3 DEF UserOK
      <3> QED BY <1>1, <1>2, <2>1, <2>3, <3>1, StepFrame
    <2> QED BY <2>2, <2>3
  <1>5. emit.pols[u] \in {NotRead, tables.policy[u]} /\ emit.chans[u] \in {{"unread"}, On(u)}
    BY <1>1 DEF UserOK
  <1> QED BY <1>1, <1>2, <1>3, <1>4, <1>5 DEF UserOK, InPc, Resolved, Serving

\* The next transition begins when this one is as it should be for u.
LEMMA NextUser ==
  ASSUME RecipientsTypeOK, RecipientsTypeOK', NEW u \in Users, UserOK(u), Steps, u \notin disturbed',
         emit' = NextOfBatch, UNCHANGED <<deferred, sent>>,
         \/ UserHandled(u, emit.n)
         \/ Untouched(u, emit.n) /\ Due(u, emit.n) = "nothing"
  PROVE  UserOK(u)'
  <1>1. /\ u \notin disturbed /\ u \in Owners /\ emit.n \in 1..Batch /\ Batch \in Nat /\ tables' = tables
    BY StepsSpare, OwnersDiffer, RecipientsAssumption DEF RecipientsTypeOK, EmitState
  <1>2. /\ emit'.night = emit.night /\ emit'.pols = emit.pols /\ emit'.chans = emit.chans
        /\ \/ emit.n = Batch /\ emit'.pc = "done" /\ emit'.n = emit.n
           \/ emit.n < Batch /\ emit'.pc = "shared" /\ emit'.n = emit.n + 1
    BY NextOfBatchIs
  <1>3. \A n \in 1..Batch : Undelivered(u, n)
    BY DEF Undelivered
  <1>4. On(u)' = On(u)
    BY <1>1, StepFrame
  <1>5. ASSUME NEW n \in 1..Batch
        PROVE  IF UserHandled(u, n)' THEN Delivered(u, n)' ELSE Untouched(u, n)'
    <2>1. UserHandled(u, n)' <=> n <= emit.n
      BY <1>1, <1>2 DEF UserHandled, InPc, Serving
    <2>2. CASE n < emit.n
      <3>1. Delivered(u, n)
        BY <1>1, <2>2 DEF UserOK, UserHandled
      <3> QED BY <1>1, <1>2, <1>3, <2>1, <2>2, <3>1, StepFrame
    <2>3. CASE n = emit.n
      <3>1. Delivered(u, n)'
        <4>1. CASE UserHandled(u, emit.n)
          <5>1. Delivered(u, n)
            BY <1>1, <2>3, <4>1 DEF UserOK
          <5> QED BY <1>1, <1>2, <1>3, <5>1, StepFrame
        <4>2. CASE Untouched(u, emit.n) /\ Due(u, emit.n) = "nothing"
          BY <1>1, <1>2, <1>3, <2>3, <4>2, NothingDelivers
        <4> QED BY <4>1, <4>2
      <3> QED BY <1>1, <2>1, <2>3, <3>1
    <2>4. CASE n > emit.n
      <3>1. Untouched(u, n)
        BY <1>1, <2>4 DEF UserOK, UserHandled
      <3> QED BY <1>1, <1>3, <2>1, <2>4, <3>1, StepFrame
    <2> QED BY <1>1, <2>2, <2>3, <2>4
  <1>6. emit'.pc \in {"done", "shared"}
    BY <1>2
  <1>7. emit.pols[u] \in {NotRead, tables.policy[u]} /\ emit.chans[u] \in {{"unread"}, On(u)}
    BY <1>1 DEF UserOK
  <1> QED BY <1>1, <1>2, <1>4, <1>5, <1>6, <1>7 DEF UserOK, InPc, Resolved, Serving

\* Within one transition: what is handled for u was, or has been just now.
LEMMA SameTransition ==
  ASSUME RecipientsTypeOK, RecipientsTypeOK', NEW u \in Users, UserOK(u), Steps, u \notin disturbed',
         emit'.n = emit.n, emit'.night = emit.night,
         \A n \in 1..Batch : n # emit.n => Undelivered(u, n),
         \/ /\ UserHandled(u, emit.n) <=> UserHandled(u, emit.n)'
            /\ Undelivered(u, emit.n)
         \/ /\ UserHandled(u, emit.n)'
            /\ \A n \in 1..Batch : n = emit.n => Delivered(u, n)'
  PROVE  \A n \in 1..Batch : IF UserHandled(u, n)' THEN Delivered(u, n)' ELSE Untouched(u, n)'
  <1> SUFFICES ASSUME NEW n \in 1..Batch
               PROVE  IF UserHandled(u, n)' THEN Delivered(u, n)' ELSE Untouched(u, n)'
    OBVIOUS
  <1>1. u \notin disturbed /\ u \in Owners /\ emit.n \in 1..Batch
    BY StepsSpare, OwnersDiffer DEF RecipientsTypeOK, EmitState
  <1>2. IF UserHandled(u, n) THEN Delivered(u, n) ELSE Untouched(u, n)
    BY <1>1 DEF UserOK
  <1>3. CASE n # emit.n
    <2>1. UserHandled(u, n)' <=> UserHandled(u, n)
      BY <1>3 DEF UserHandled
    <2>2. (Delivered(u, n) => Delivered(u, n)') /\ (Untouched(u, n) => Untouched(u, n)')
      BY <1>1, <1>3, StepFrame
    <2> QED BY <1>2, <2>1, <2>2
  <1>4. CASE n = emit.n
    <2>1. CASE UserHandled(u, emit.n)' /\ Delivered(u, n)'
      BY <1>4, <2>1
    <2>2. CASE (UserHandled(u, emit.n) <=> UserHandled(u, emit.n)') /\ Undelivered(u, emit.n)
      <3>1. (Delivered(u, n) => Delivered(u, n)') /\ (Untouched(u, n) => Untouched(u, n)')
        BY <1>1, <1>4, <2>2, StepFrame
      <3> QED BY <1>2, <1>4, <2>2, <3>1
    <2> QED BY <1>4, <2>1, <2>2
  <1> QED BY <1>3, <1>4

\* The personal path keeps to what u has set and may read.
LEMMA FindingStepsUser ==
  ASSUME RecipientsTypeOK, RecipientsTypeOK', EmitOK, NEW u \in Users, UserOK(u), Steps, NEW ok \in BOOLEAN,
         ResolveSystem(ok) \/ ListSubscriptions(ok) \/ ResolveScope(ok)
  PROVE  UserOK(u)'
  <1> SUFFICES ASSUME u \notin disturbed' PROVE UserOK(u)'
    BY DEF UserOK
  <1>1. /\ u \notin disturbed /\ u \in Owners /\ u # Shared /\ emit.n \in 1..Batch /\ tables' = tables
        /\ emit \in EmitState /\ tables \in Tables
    BY StepsSpare, OwnersDiffer DEF RecipientsTypeOK, EmitState
  <1>2. emit'.night = emit.night /\ UNCHANGED <<deferred, sent>>
    BY PersonalMoves DEF ResolveSystem, ListSubscriptions, ResolveScope
  <1>3. \A n \in 1..Batch : Undelivered(u, n)
    BY <1>2 DEF Undelivered
  <1>4. On(u)' = On(u) /\ (Covered(u, emit.n)' <=> Covered(u, emit'.n))
    <2>1. On(u)' = On(u)
      BY <1>1, StepFrame
    <2>2. Covered(u, emit.n)' <=> Covered(u, emit'.n)
      BY <1>1 DEF Covered, Readable
    <2> QED BY <2>1, <2>2
  <1>5. emit.pols[u] \in {NotRead, tables.policy[u]} /\ emit.chans[u] \in {{"unread"}, On(u)}
    BY <1>1 DEF UserOK
  <1>6. Covered(u, emit.n) <=> /\ tables.home[emit.n] # Gone
                               /\ Wanted(tables.subs[u], tables.home[emit.n])
                               /\ tables.home[emit.n] \in Readable(tables, u)
    BY <1>1 DEF Covered
  <1>7. emit.pc \in {"system", "subs", "scope"} => ~UserHandled(u, emit.n)
    BY <1>1 DEF UserHandled, InPc, Serving
  <1>8. CASE ResolveSystem(ok)
    <2>1. ok /\ emit.pc = "system"
      BY <1>1, <1>8 DEF ResolveSystem, Works, Disturb, Reached
    <2>2. CASE tables.home[emit.n] = Gone
      <3>1. emit' = NextOfBatch
        BY <1>8, <2>2 DEF ResolveSystem, Goes
      <3>2. Due(u, emit.n) = "nothing"
        BY <1>6, <2>2 DEF Due
      <3>3. Untouched(u, emit.n)
        BY <1>1, <1>7, <2>1 DEF UserOK
      <3> QED BY <1>2, <3>1, <3>2, <3>3, NextUser
    <2>3. CASE tables.home[emit.n] # Gone
      <3>1. emit' = [emit EXCEPT !.pc = "subs", !.group = tables.home[emit.n]]
        BY <1>8, <2>1, <2>3 DEF ResolveSystem, Goes
      <3>2. /\ emit'.pc = "subs" /\ emit'.group = tables.home[emit.n] /\ emit'.n = emit.n
            /\ emit'.pols = emit.pols /\ emit'.chans = emit.chans
        BY <1>1, <3>1 DEF EmitState
      <3>3. UserHandled(u, emit.n) <=> UserHandled(u, emit.n)'
        BY <2>1, <3>2 DEF UserHandled, InPc, Serving
      <3>4. \A n \in 1..Batch : IF UserHandled(u, n)' THEN Delivered(u, n)' ELSE Untouched(u, n)'
        BY <1>1, <1>2, <1>3, <3>2, <3>3, SameTransition
      <3> QED BY <1>1, <1>4, <1>5, <3>2, <3>4 DEF UserOK, InPc, Resolved, Serving
    <2> QED BY <2>2, <2>3
  <1>9. CASE ListSubscriptions(ok)
    <2> DEFINE td == {v \in Users : Wanted(tables.subs[v], emit.group)}
    <2>1. ok /\ emit.pc = "subs"
      BY <1>1, <1>9 DEF ListSubscriptions, Works, Disturb, Reached
    <2>2. emit' = [emit EXCEPT !.pc = "scope", !.todo = td, !.users = {}]
      BY <1>9, <2>1 DEF ListSubscriptions, Goes
    <2>3. u \in td <=> Wanted(tables.subs[u], emit.group)
      OBVIOUS
    <2> HIDE DEF td
    <2>4. /\ emit'.pc = "scope" /\ emit'.group = emit.group /\ emit'.n = emit.n
          /\ emit'.pols = emit.pols /\ emit'.chans = emit.chans
          /\ emit'.todo = td /\ emit'.users = {}
      BY <1>1, <2>2 DEF EmitState
    <2>5. emit.group = tables.home[emit.n]
      BY <1>1, <2>1 DEF UserOK, InPc, Resolved
    <2>6. UserHandled(u, emit.n) <=> UserHandled(u, emit.n)'
      BY <2>1, <2>4 DEF UserHandled, InPc, Serving
    <2>7. \A n \in 1..Batch : IF UserHandled(u, n)' THEN Delivered(u, n)' ELSE Untouched(u, n)'
      BY <1>1, <1>2, <1>3, <2>4, <2>6, SameTransition
    <2>8. u \notin td => ~Covered(u, emit.n)'
      BY <1>4, <1>6, <2>3, <2>4, <2>5
    <2> QED BY <1>1, <1>4, <1>5, <2>3, <2>4, <2>5, <2>7, <2>8 DEF UserOK, InPc, Resolved, Serving
  <1>10. CASE ResolveScope(ok)
    <2>1. /\ emit.pc = "scope" /\ emit.group = tables.home[emit.n]
          /\ IF u \in emit.todo THEN Wanted(tables.subs[u], emit.group) /\ u \notin emit.users
             ELSE u \in emit.users <=> Covered(u, emit.n)
      BY <1>1, <1>10 DEF ResolveScope, Reached, UserOK, InPc, Resolved
    <2>2. ~UserHandled(u, emit.n) /\ Untouched(u, emit.n)
      BY <1>1, <1>7, <2>1 DEF UserOK
    <2>3. CASE emit.todo = {}
      <3>1. emit' = [emit EXCEPT !.pc = "users"]
        BY <1>10, <2>3 DEF ResolveScope, Goes
      <3>2. /\ emit'.pc = "users" /\ emit'.group = emit.group /\ emit'.n = emit.n /\ emit'.users = emit.users
            /\ emit'.pols = emit.pols /\ emit'.chans = emit.chans
        BY <1>1, <3>1 DEF EmitState
      <3>3. UserHandled(u, emit.n)' <=> u \notin emit.users
        BY <1>1, <3>2 DEF UserHandled, InPc, Serving
      <3>4. CASE u \in emit.users
        <4>1. \A n \in 1..Batch : IF UserHandled(u, n)' THEN Delivered(u, n)' ELSE Untouched(u, n)'
          BY <1>1, <1>2, <1>3, <2>2, <3>2, <3>3, <3>4, SameTransition
        <4>2. Covered(u, emit.n)'
          BY <1>4, <2>1, <2>3, <3>2, <3>4
        <4> QED BY <1>1, <1>4, <1>5, <2>1, <3>2, <4>1, <4>2 DEF UserOK, InPc, Resolved, Serving
      <3>5. CASE u \notin emit.users
        <4>1. Due(u, emit.n) = "nothing"
          BY <2>1, <2>3, <3>5 DEF Due
        <4>2. \A n \in 1..Batch : n = emit.n => Delivered(u, n)'
          BY <1>1, <1>2, <1>3, <2>2, <4>1, NothingDelivers
        <4>3. \A n \in 1..Batch : IF UserHandled(u, n)' THEN Delivered(u, n)' ELSE Untouched(u, n)'
          BY <1>1, <1>2, <1>3, <3>2, <3>3, <3>5, <4>2, SameTransition
        <4> QED BY <1>1, <1>4, <1>5, <2>1, <3>2, <3>5, <4>3 DEF UserOK, InPc, Resolved, Serving
      <3> QED BY <3>4, <3>5
    <2>4. CASE emit.todo # {}
      <3> DEFINE v == First(emit.todo)
                 us == IF ok /\ emit.group \in Readable(tables, v) THEN emit.users \cup {v} ELSE emit.users
      <3>1. v \in emit.todo
        BY <2>4 DEF First
      <3>2. Works(ok, {v})
        BY <1>10, <2>4 DEF ResolveScope
      <3>3. v = u => ok
        BY <1>1, <3>2 DEF Works, Disturb
      <3>4. emit' = [emit EXCEPT !.todo = emit.todo \ {v}, !.users = us]
        BY <1>1, <1>10, <2>4 DEF ResolveScope, Goes, EmitState
      <3>5. u \in us <=> IF v = u THEN emit.group \in Readable(tables, u) \/ u \in emit.users ELSE u \in emit.users
        BY <3>3
      <3> HIDE DEF v, us
      <3>6. /\ emit'.pc = "scope" /\ emit'.group = emit.group /\ emit'.n = emit.n
            /\ emit'.pols = emit.pols /\ emit'.chans = emit.chans
            /\ emit'.todo = emit.todo \ {v} /\ emit'.users = us
        BY <1>1, <2>1, <3>4 DEF EmitState
      <3>7. UserHandled(u, emit.n) <=> UserHandled(u, emit.n)'
        BY <2>1, <3>6 DEF UserHandled, InPc, Serving
      <3>8. \A n \in 1..Batch : IF UserHandled(u, n)' THEN Delivered(u, n)' ELSE Untouched(u, n)'
        BY <1>1, <1>2, <1>3, <3>6, <3>7, SameTransition
      <3>9. emit.group # Gone
        BY <1>1, RecipientsAssumption DEF EmitState
      <3>10. IF u \in emit.todo \ {v} THEN Wanted(tables.subs[u], emit.group) /\ u \notin us
             ELSE u \in us <=> Covered(u, emit.n)
        BY <1>6, <2>1, <3>1, <3>5, <3>9
      <3> QED BY <1>1, <1>4, <1>5, <2>1, <3>6, <3>8, <3>10 DEF UserOK, InPc, Resolved, Serving
    <2> QED BY <2>3, <2>4
  <1> QED BY <1>8, <1>9, <1>10

LEMMA ServingStepsUser ==
  ASSUME RecipientsTypeOK, RecipientsTypeOK', EmitOK, NEW u \in Users, UserOK(u), Steps, NEW ok \in BOOLEAN,
         PersonalPolicy(ok) \/ PersonalEnqueue(ok) \/ PersonalSend(ok)
  PROVE  UserOK(u)'
  <1> SUFFICES ASSUME u \notin disturbed' PROVE UserOK(u)'
    BY DEF UserOK
  <1>1. /\ u \notin disturbed /\ u \in Owners /\ u # Shared /\ emit.n \in 1..Batch /\ tables' = tables
        /\ emit \in EmitState /\ emit.users \subseteq Users /\ Users \subseteq Owners
    BY StepsSpare, OwnersDiffer DEF RecipientsTypeOK, EmitState
  <1>2. emit'.night = emit.night /\ emit.pc \in Serving
    BY PersonalMoves DEF PersonalPolicy, PersonalEnqueue, PersonalSend, Reached, Serving
  <1>3. On(u)' = On(u) /\ (Covered(u, emit.n)' <=> Covered(u, emit'.n))
    <2>1. On(u)' = On(u)
      BY <1>1, StepFrame
    <2>2. Covered(u, emit.n)' <=> Covered(u, emit'.n)
      BY <1>1 DEF Covered, Readable
    <2> QED BY <2>1, <2>2
  <1>4. /\ emit.pols[u] \in {NotRead, tables.policy[u]} /\ emit.chans[u] \in {{"unread"}, On(u)}
        /\ emit.group = tables.home[emit.n]
        /\ u \in emit.users => Covered(u, emit.n)
        /\ emit.pc = "enqueue" /\ u = First(emit.users) => ModeFor(tables.policy[u], emit.night) = "defer"
        /\ emit.pc = "send" /\ u = First(emit.users) => ModeFor(tables.policy[u], emit.night) = "send"
    BY <1>1, <1>2 DEF UserOK, InPc, Resolved
  <1>5. UserHandled(u, emit.n) <=> u \notin emit.users
    BY <1>1, <1>2 DEF UserHandled, InPc, Serving
  <1>6. u \in emit.users => Untouched(u, emit.n) /\ Due(u, emit.n) = ModeFor(tables.policy[u], emit.night)
    BY <1>1, <1>4, <1>5 DEF UserOK, Due
  <1> DEFINE v == First(emit.users)
             rest == emit.users \ {v}
  <1>7. emit.users # {} => v \in emit.users
    BY DEF First
  \* Whoever is served, the others are not.
  <1>8. ASSUME emit'.pc \in Serving, emit'.n = emit.n, emit'.group = emit.group, emit'.users = rest \/ emit'.users = emit.users,
               emit'.pols[u] \in {NotRead, tables.policy[u]}, emit'.chans[u] \in {{"unread"}, On(u)},
               emit'.pc # "users" /\ u = v => emit'.users = emit.users,
               emit'.pc # "users" => emit'.users = emit.users,
               emit'.pc = "enqueue" /\ u = v => ModeFor(tables.policy[u], emit.night) = "defer",
               emit'.pc = "send" /\ u = v => ModeFor(tables.policy[u], emit.night) = "send",
               \A n \in 1..Batch : IF UserHandled(u, n)' THEN Delivered(u, n)' ELSE Untouched(u, n)'
        PROVE  UserOK(u)'
    <2>1. u \in emit'.users => u \in emit.users
      BY <1>8
    <2>2. First(emit'.users) = v \/ emit'.pc = "users"
      BY <1>8
    <2> QED BY <1>1, <1>2, <1>3, <1>4, <1>8, <2>1, <2>2 DEF UserOK, InPc, Resolved, Serving
  <1>9. ASSUME emit'.pc \in Serving, emit'.n = emit.n
        PROVE  UserHandled(u, emit.n)' <=> u \notin emit'.users
    BY <1>1, <1>9 DEF UserHandled, InPc, Serving
  <1>10. CASE PersonalPolicy(ok)
    <2> DEFINE p == policy(v, ok)
               ps == [emit.pols EXCEPT ![v] = p]
    <2>1. UNCHANGED <<deferred, sent>> /\ emit.pc = "users"
      BY <1>10 DEF PersonalPolicy, Reached
    <2>2. \A n \in 1..Batch : Undelivered(u, n)
      BY <2>1 DEF Undelivered
    <2>3. CASE emit.users = {}
      <3>1. emit' = NextOfBatch
        BY <1>10, <2>3 DEF PersonalPolicy, Goes
      <3> QED BY <1>5, <2>1, <2>3, <3>1, NextUser
    <2>4. CASE emit.users # {}
      <3> DEFINE plan == ModeFor(p, emit.night)
      <3>1. Works(ok, {v}) /\ (emit.pols[v] # NotRead => ok)
        BY <1>10, <2>4 DEF PersonalPolicy
      <3>2. v = u => p = tables.policy[u]
        BY <1>1, <1>4, <3>1 DEF policy, Works, Disturb
      <3>3. emit' = IF plan = "suppress" THEN [emit EXCEPT !.users = rest, !.pols = ps]
                    ELSE IF plan = "defer" THEN [emit EXCEPT !.pc = "enqueue", !.pols = ps]
                    ELSE [emit EXCEPT !.pc = "send", !.pols = ps]
        BY <1>1, <1>10, <2>4 DEF PersonalPolicy, Goes, EmitState
      <3>4. plan \in {"suppress", "defer", "send"} /\ (v = u => plan = ModeFor(tables.policy[u], emit.night))
        BY <3>2 DEF ModeFor
      <3>5. ps[u] \in {NotRead, tables.policy[u]}
        BY <1>1, <1>4, <3>2 DEF EmitState
      <3> HIDE DEF v, ps, rest, p, plan
      <3>6. /\ emit'.pc = IF plan = "suppress" THEN "users" ELSE IF plan = "defer" THEN "enqueue" ELSE "send"
            /\ emit'.n = emit.n /\ emit'.group = emit.group /\ emit'.chans = emit.chans
            /\ emit'.pols = ps
            /\ emit'.users = IF plan = "suppress" THEN rest ELSE emit.users
        BY <1>1, <2>1, <3>3, <3>4 DEF EmitState
      <3>7. ASSUME plan = "suppress", u = v
            PROVE  \A n \in 1..Batch : IF UserHandled(u, n)' THEN Delivered(u, n)' ELSE Untouched(u, n)'
        <4>1. Untouched(u, emit.n) /\ Due(u, emit.n) = "suppress"
          BY <1>6, <1>7, <2>4, <3>4, <3>7
        <4>2. \A n \in 1..Batch : n = emit.n => Delivered(u, n)'
          BY <1>1, <1>2, <2>2, <4>1, NothingDelivers
        <4>3. UserHandled(u, emit.n)'
          BY <1>9, <3>6, <3>7 DEF Serving, rest
        <4> QED BY <1>1, <1>2, <2>2, <3>6, <4>2, <4>3, SameTransition
      <3>8. ASSUME plan # "suppress" \/ u # v
            PROVE  \A n \in 1..Batch : IF UserHandled(u, n)' THEN Delivered(u, n)' ELSE Untouched(u, n)'
        <4>1. UserHandled(u, emit.n)' <=> UserHandled(u, emit.n)
          BY <1>5, <1>9, <3>6, <3>8 DEF Serving, rest
        <4> QED BY <1>1, <1>2, <2>2, <3>6, <4>1, SameTransition
      <3> QED BY <1>4, <1>8, <3>4, <3>5, <3>6, <3>7, <3>8 DEF Serving
    <2> QED BY <2>3, <2>4
  <1>11. CASE PersonalEnqueue(ok)
    <2>1. emit.pc = "enqueue" /\ enqueue(v, ok) /\ v \in emit.users
      BY <1>7, <1>11 DEF PersonalEnqueue, Reached, EmitOK, SomeoneServed, InPc
    <2>2. emit' = [emit EXCEPT !.pc = "users", !.users = rest]
      BY <1>1, <1>11 DEF PersonalEnqueue, Goes, EmitState
    <2>3. v = u => ok
      BY <1>1, <2>1 DEF enqueue, Works, Disturb
    <2> HIDE DEF v, rest
    <2>4. /\ emit'.pc = "users" /\ emit'.n = emit.n /\ emit'.group = emit.group /\ emit'.chans = emit.chans
          /\ emit'.pols = emit.pols /\ emit'.users = rest
      BY <1>1, <2>2 DEF EmitState
    <2>5. \A n \in 1..Batch : n # emit.n \/ u # v => Undelivered(u, n)
      BY <1>1, <2>1, EnqueueSpares
    <2>6. CASE u = v
      <3>1. Untouched(u, emit.n) /\ Due(u, emit.n) = "defer"
        BY <1>4, <1>6, <2>1, <2>6 DEF v
      <3>2. \A n \in 1..Batch : n = emit.n => Delivered(u, n)'
        BY <1>1, <1>2, <2>1, <2>3, <2>6, <3>1, EnqueueDelivers
      <3>3. UserHandled(u, emit.n)'
        BY <1>9, <2>4, <2>6 DEF Serving, rest
      <3>4. \A n \in 1..Batch : IF UserHandled(u, n)' THEN Delivered(u, n)' ELSE Untouched(u, n)'
        BY <1>1, <1>2, <2>4, <2>5, <3>2, <3>3, SameTransition
      <3> QED BY <1>4, <1>8, <2>4, <3>4 DEF Serving
    <2>7. CASE u # v
      <3>1. UserHandled(u, emit.n)' <=> UserHandled(u, emit.n)
        BY <1>5, <1>9, <2>4, <2>7 DEF Serving, rest
      <3>2. \A n \in 1..Batch : IF UserHandled(u, n)' THEN Delivered(u, n)' ELSE Untouched(u, n)'
        BY <1>1, <1>2, <2>4, <2>5, <2>7, <3>1, SameTransition
      <3> QED BY <1>4, <1>8, <2>4, <3>2 DEF Serving
    <2> QED BY <2>6, <2>7
  <1>12. CASE PersonalSend(ok)
    <2> DEFINE cs == channels(v, ok)
               chs == [emit.chans EXCEPT ![v] = cs]
    <2>1. /\ emit.pc = "send" /\ FanOutTo(cs) /\ v \in emit.users /\ UNCHANGED deferred
          /\ Works(ok, {v}) /\ (emit.chans[v] # {"unread"} => ok)
      BY <1>7, <1>12 DEF PersonalSend, Reached, EmitOK, SomeoneServed, InPc
    <2>2. emit' = [emit EXCEPT !.pc = "users", !.users = rest, !.chans = chs]
      BY <1>1, <1>12 DEF PersonalSend, Goes, EmitState
    <2>3. v = u => cs = On(u)
      BY <1>1, <1>4, <2>1 DEF channels, Works, Disturb
    <2>4. v \in Users /\ cs \in SUBSET Own(v)
      BY <1>1, <2>1 DEF channels, EmitOK, On, Own
    <2>5. chs[u] \in {{"unread"}, On(u)}
      BY <1>1, <1>4, <2>3 DEF EmitState
    <2> HIDE DEF v, rest, cs, chs
    <2>6. /\ emit'.pc = "users" /\ emit'.n = emit.n /\ emit'.group = emit.group /\ emit'.chans = chs
          /\ emit'.pols = emit.pols /\ emit'.users = rest
      BY <1>1, <2>2 DEF EmitState
    <2>7. \A n \in 1..Batch : n # emit.n \/ u # v => Undelivered(u, n)
      BY <1>1, <2>1, <2>4, FanOutSpares
    <2>8. CASE u = v
      <3>1. Untouched(u, emit.n) /\ Due(u, emit.n) = "send"
        BY <1>4, <1>6, <2>1, <2>8 DEF v
      <3>2. FanOutTo(Targets(u))
        BY <1>1, <2>1, <2>3, <2>8 DEF Targets
      <3>3. \A n \in 1..Batch : n = emit.n => Delivered(u, n)'
        BY <1>1, <1>2, <2>1, <3>1, <3>2, FanOutDelivers
      <3>4. UserHandled(u, emit.n)'
        BY <1>9, <2>6, <2>8 DEF Serving, rest
      <3>5. \A n \in 1..Batch : IF UserHandled(u, n)' THEN Delivered(u, n)' ELSE Untouched(u, n)'
        BY <1>1, <1>2, <2>6, <2>7, <3>3, <3>4, SameTransition
      <3> QED BY <1>4, <1>8, <2>5, <2>6, <3>5 DEF Serving
    <2>9. CASE u # v
      <3>1. UserHandled(u, emit.n)' <=> UserHandled(u, emit.n)
        BY <1>5, <1>9, <2>6, <2>9 DEF Serving, rest
      <3>2. \A n \in 1..Batch : IF UserHandled(u, n)' THEN Delivered(u, n)' ELSE Untouched(u, n)'
        BY <1>1, <1>2, <2>6, <2>7, <2>9, <3>1, SameTransition
      <3> QED BY <1>4, <1>8, <2>5, <2>6, <3>2 DEF Serving
    <2> QED BY <2>8, <2>9
  <1> QED BY <1>10, <1>11, <1>12

-----------------------------------------------------------------------------
OwnersIInv ==
    /\ RecipientsTypeOK /\ EmitOK /\ SharedOK
    /\ \A u \in Users : UserOK(u)

LEMMA OwnersIInvInit == RecipientsInit => OwnersIInv
  <1> SUFFICES ASSUME RecipientsInit PROVE OwnersIInv
    OBVIOUS
  <1>1. RecipientsTypeOK /\ EmitOK
    BY ToldIInvInit DEF ToldIInv
  <1>2. \A o \in Owners, n \in 1..Batch : Untouched(o, n)
    BY DEF RecipientsInit, Untouched, Own
  <1>3. emit.pc = "idle" /\ emit.n = 1 /\ emit.route = NotRead
    BY DEF RecipientsInit, Before
  <1>4. \A u \in Users : emit.pols[u] = NotRead /\ emit.chans[u] = {"unread"}
    BY DEF RecipientsInit, Before
  <1>5. SharedOK
    BY <1>2, <1>3, OwnersDiffer DEF SharedOK, SharedHandled, InPc, Resolved, Serving
  <1>6. \A u \in Users : UserOK(u)
    BY <1>2, <1>3, <1>4, OwnersDiffer DEF UserOK, UserHandled, InPc, Resolved, Serving
  <1> QED BY <1>1, <1>5, <1>6 DEF OwnersIInv

LEMMA OwnersIInvNext == OwnersIInv /\ [RecipientsNext]_recVars => OwnersIInv'
  <1>1. ASSUME OwnersIInv, RecipientsNext PROVE OwnersIInv'
    <2>1. RecipientsTypeOK' /\ EmitOK'
      BY <1>1, RecipientsTypeKept, EmitOKKept DEF OwnersIInv
    <2>2. CASE Outside
      BY <1>1, <2>1, <2>2, OutsideSharedOK, OutsideUserOK DEF OwnersIInv
    <2>3. CASE Steps
      <3>1. PICK ok \in BOOLEAN :
                 \/ EmitList(ok) \/ EmitPolicy(ok) \/ EmitShared(ok) \/ RouteMode(ok) \/ routeChannelIDs(ok)
                 \/ ResolveSystem(ok) \/ ListSubscriptions(ok) \/ ResolveScope(ok)
                 \/ PersonalPolicy(ok) \/ PersonalEnqueue(ok) \/ PersonalSend(ok)
        BY <2>3 DEF Steps
      <3>2. SharedOK'
        BY <1>1, <2>1, <2>3, <3>1, SharedStepsShared, PersonalStepsShared DEF OwnersIInv
      <3>3. \A u \in Users : UserOK(u)'
        BY <1>1, <2>1, <2>3, <3>1, SharedStepsUser, FindingStepsUser, ServingStepsUser DEF OwnersIInv
      <3> QED BY <2>1, <3>2, <3>3 DEF OwnersIInv
    <2> QED BY <1>1, <2>2, <2>3 DEF RecipientsNext, Outside
  <1>2. ASSUME OwnersIInv, UNCHANGED recVars PROVE OwnersIInv'
    <2>1. /\ tables' = tables /\ emit' = emit /\ night' = night
          /\ deferred' = deferred /\ sent' = sent /\ disturbed' = disturbed
          /\ late' = late /\ could' = could /\ was' = was /\ disturbances' = disturbances
      BY <1>2 DEF recVars, disturbVars
    <2>2. RecipientsTypeOK' /\ EmitOK'
      BY <1>2, <2>1 DEF OwnersIInv, RecipientsTypeOK, EmitOK, SomeoneServed, InPc
    <2>3. ASSUME NEW o PROVE On(o)' = On(o)
      BY <2>1 DEF On
    <2>4. ASSUME NEW o PROVE Targets(o)' = Targets(o)
      BY <2>1, <2>3 DEF Targets
    <2>5. ASSUME NEW o, NEW n PROVE Covered(o, n)' <=> Covered(o, n)
      BY <2>1 DEF Covered, Readable
    <2>6. ASSUME NEW o, NEW n PROVE Due(o, n)' = Due(o, n)
      BY <2>1, <2>5 DEF Due
    <2>7. ASSUME NEW o, NEW n PROVE Delivered(o, n)' <=> Delivered(o, n)
      BY <2>1, <2>4, <2>6 DEF Delivered
    <2>8. ASSUME NEW o, NEW n PROVE Untouched(o, n)' <=> Untouched(o, n)
      BY <2>1 DEF Untouched
    <2>9. SharedOK'
      BY <1>2, <2>1, <2>3, <2>4, <2>7, <2>8 DEF OwnersIInv, SharedOK, SharedHandled, InPc
    <2>10. \A u \in Users : UserOK(u)'
      BY <1>2, <2>1, <2>3, <2>5, <2>6, <2>7, <2>8 DEF OwnersIInv, UserOK, UserHandled, InPc
    <2> QED BY <2>2, <2>9, <2>10 DEF OwnersIInv
  <1> QED BY <1>1, <1>2

LEMMA OwnersFollow == OwnersIInv => OwnersAreIndependent
  <1> SUFFICES ASSUME OwnersIInv, Reached("done"), NEW o \in Owners \ disturbed, NEW n \in 1..Batch
               PROVE  /\ \A c \in Chans : OwnerOf[c] = o =>
                            sent[<<n, c>>] = IF Due(o, n) = "send" /\ c \in Targets(o) THEN 1 ELSE 0
                      /\ night = emit.night => (<<o, n>> \in deferred <=> Due(o, n) = "defer")
    BY DEF OwnersAreIndependent
  <1>1. emit.n = Batch /\ InPc({"done"}) /\ emit.pc = "done"
    BY DEF OwnersIInv, EmitOK, InPc, Reached
  <1>2. n < emit.n \/ n = emit.n
    BY <1>1, RecipientsAssumption
  <1>3. SharedHandled(n) /\ \A u \in Users : UserHandled(u, n)
    BY <1>1, <1>2 DEF SharedHandled, UserHandled, InPc
  <1>4. Delivered(o, n)
    BY <1>3 DEF OwnersIInv, SharedOK, UserOK, Owners
  <1> QED BY <1>4 DEF Delivered, Own

(* For any users, groups, channels, batch and settings: when Emit is done, *)
(* every owner whose own settings were not touched and none of whose       *)
(* statements failed has got each transition as those settings say.        *)
THEOREM OwnersAreIndependentAlways == RecipientsSpec => []OwnersAreIndependent
  BY OwnersIInvInit, OwnersIInvNext, OwnersFollow, PTL DEF RecipientsSpec
=============================================================================
