----------------------------- MODULE Schedules -----------------------------
(***************************************************************************)
(* internal/schedules: the ticker that finds due schedules, the            *)
(* orchestrator that fires them, and the schedules and schedule_runs       *)
(* tables, under operators who edit, disable, delete and run schedules     *)
(* meanwhile and a server that may die.                                    *)
(*                                                                         *)
(* The cron expression is abstracted to its set of fire times.  One action *)
(* per transaction and per TryLock/Unlock, and one for each of them that   *)
(* fails.  A slot of `fires' is a goroutine running Fire.                  *)
(***************************************************************************)
EXTENDS Integers, FiniteSets

CONSTANTS Ids,            \* schedule ids
          Occurrences,    \* fire times of their cron expression
          Grace,          \* misfire grace
          MaxTime,        \* bound on the clock
          Slots,          \* bound on concurrent Fire goroutines
          Hosts,          \* the systems the schedules pin by id
          RebootAfterApply,
          None            \* no next_run_at; no goroutine

Statuses == {"success", "partial", "failed"}
Places == {"dispatched", "locked", "running", "worked", "finished"}

\* A row of the schedules table; a goroutine inside Fire.
Schedule == [enabled : BOOLEAN, next : Occurrences \cup {None},
             last : Statuses \cup {None}]
Fire == [id : Ids, pc : Places, status : Statuses \cup {None}]

(* Every expression has a fire time beyond the horizon; None is no value   *)
(* of anything else.                                                       *)
ASSUME SchedulesAssumption ==
    /\ Occurrences \subseteq Nat
    /\ Grace \in Nat /\ MaxTime \in Nat \ {0}
    /\ \E o \in Occurrences : o > MaxTime
    /\ IsFiniteSet(Hosts)
    /\ RebootAfterApply \in BOOLEAN
    /\ None \notin Nat \cup Slots \cup Schedule \cup Fire

VARIABLES now,            \* wall clock
          schedules,      \* the schedules table
          fires,          \* goroutines inside Fire
          locked,         \* Orchestrator.locks: who holds each schedule's mutex
          ticker,         \* None, or the time of the tick between its two statements
          lastTick,       \* the last time the ticker fired, 0 at start
          up,             \* the process runs
          inventory,      \* systems that exist
          rows            \* schedule_runs: how many rows say 'running'

vars == <<now, schedules, fires, locked, ticker, lastTick, up, inventory, rows>>

\* Mutant: a fire time equal to t counts as the next one.
computeNext_inclusive(t) == CHOOSE o \in Occurrences :
                      o >= t /\ \A p \in Occurrences : p >= t => o <= p

computeNext(t) == CHOOSE o \in Occurrences :
                      o > t /\ \A p \in Occurrences : p > t => o <= p

\* enabled, next_run_at and last_status as a write at time t leaves them.
Row(e, t, last) == [enabled |-> e, last |-> last,
                    next |-> IF e THEN computeNext(t) ELSE None]

Init ==
    /\ now = 1
    /\ schedules = [i \in Ids |-> Row(TRUE, 1, None)]
    /\ fires = [f \in Slots |-> None]
    /\ locked = [i \in Ids |-> None]
    /\ ticker = None /\ lastTick = 0
    /\ up = TRUE
    /\ inventory = Hosts
    /\ rows = [i \in Ids |-> 0]

Exists(i) == schedules[i] # None
Idle == {f \in Slots : fires[f] = None}
At(f, place) == fires[f] # None /\ fires[f].pc = place

-----------------------------------------------------------------------------
\* Mutant: the misfire window is not applied.
ReconcileMissed_skipped ==
    /\ up /\ ticker = None
    /\ lastTick < now \/ now = MaxTime
    /\ ticker' = now /\ lastTick' = now
    /\ UNCHANGED <<now, schedules, fires, locked, up, inventory, rows>>

(* tick, first statement: push what is past the grace to its next fire     *)
(* time.  The ticker fires once per unit of time, and goes on when the     *)
(* clock has reached its bound.                                            *)
ReconcileMissed ==
    /\ up /\ ticker = None
    /\ lastTick < now \/ now = MaxTime
    /\ ticker' = now /\ lastTick' = now
    /\ schedules' = [i \in Ids |->
          IF Exists(i) /\ schedules[i].enabled /\ schedules[i].next < now - Grace
          THEN [schedules[i] EXCEPT !.next = computeNext(now)] ELSE schedules[i]]
    /\ UNCHANGED <<now, fires, locked, up, inventory, rows>>

\* It fails: the tick goes on to the due list all the same.
ReconcileMissedFails ==
    /\ up /\ ticker = None
    /\ lastTick < now \/ now = MaxTime
    /\ ticker' = now /\ lastTick' = now
    /\ UNCHANGED <<now, schedules, fires, locked, up, inventory, rows>>

DueAt(t) == {i \in Ids : Exists(i) /\ schedules[i].enabled /\ schedules[i].next <= t}

(* Second statement: Due, and a goroutine for each schedule it returned,   *)
(* which keeps the row it was read with.                                   *)
Due ==
    /\ up /\ ticker # None
    /\ \E g \in [DueAt(ticker) -> Idle] :
          /\ \A i, j \in DueAt(ticker) : g[i] = g[j] => i = j
          /\ fires' = [f \in Slots |->
                IF \E i \in DueAt(ticker) : g[i] = f
                THEN LET i == CHOOSE i \in DueAt(ticker) : g[i] = f
                     IN  [id |-> i, pc |-> "dispatched", status |-> None]
                ELSE fires[f]]
    /\ ticker' = None
    /\ UNCHANGED <<now, schedules, locked, lastTick, up, inventory, rows>>

DueFails ==
    /\ up /\ ticker # None
    /\ ticker' = None
    /\ UNCHANGED <<now, schedules, fires, locked, lastTick, up, inventory, rows>>

\* POST /api/schedules/{id}/run-now: a detached goroutine, enabled or not.
RunNow(i, f) ==
    /\ up /\ Exists(i) /\ f \in Idle
    /\ fires' = [fires EXCEPT ![f] = [id |-> i, pc |-> "dispatched", status |-> None]]
    /\ UNCHANGED <<now, schedules, locked, ticker, lastTick, up, inventory, rows>>

-----------------------------------------------------------------------------
Move(f, place) == fires' = [fires EXCEPT ![f].pc = place]

\* Mutant: the mutex is stored per call, so that it is always free.
TryLock_always(f) ==
    /\ At(f, "dispatched")
    /\ locked' = [locked EXCEPT ![fires[f].id] = f]
    /\ Move(f, "locked")
    /\ UNCHANGED <<now, schedules, ticker, lastTick, up, inventory, rows>>

TryLock(f) ==
    /\ At(f, "dispatched")
    /\ locked[fires[f].id] = None
    /\ locked' = [locked EXCEPT ![fires[f].id] = f]
    /\ Move(f, "locked")
    /\ UNCHANGED <<now, schedules, ticker, lastTick, up, inventory, rows>>

SkipOverlapping(f) ==
    /\ At(f, "dispatched")
    /\ locked[fires[f].id] # None
    /\ fires' = [fires EXCEPT ![f] = None]
    /\ UNCHANGED <<now, schedules, locked, ticker, lastTick, up, inventory, rows>>

\* The INSERT does not look whether the schedule still exists.
RecordRunStart(f) ==
    /\ At(f, "locked")
    /\ Move(f, "running")
    /\ rows' = [rows EXCEPT ![fires[f].id] = @ + 1]
    /\ UNCHANGED <<now, schedules, locked, ticker, lastTick, up, inventory>>

\* Fire returns; the deferred Unlock is all that is left of it.
RecordRunStartFails(f) ==
    /\ At(f, "locked")
    /\ Move(f, "finished")
    /\ UNCHANGED <<now, schedules, locked, ticker, lastTick, up, inventory, rows>>

finalStatus(attempted, succeeded, failed) ==
    IF attempted = 0 \/ failed = 0 THEN "success"
    ELSE IF succeeded = 0 THEN "failed" ELSE "partial"

(* A pinned system that is gone is kept as a placeholder target.           *)
Targets == Hosts

(* good: the hosts on which no read, check, apply or reboot fails.  A host *)
(* that is gone has no enabled updaters, and the fan-out having nothing to *)
(* do there counts as fine; only the reboot step looks the host up.        *)
hostOK(h, good) == h \in good /\ (RebootAfterApply => h \in inventory)

FanOut(f) ==
    /\ At(f, "running")
    /\ \E good \in SUBSET Hosts :
          LET ok == {h \in Targets : hostOK(h, good)}
          IN  fires' = [fires EXCEPT ![f].pc = "worked", ![f].status =
                 finalStatus(Cardinality(Targets), Cardinality(ok),
                             Cardinality(Targets \ ok))]
    /\ UNCHANGED <<now, schedules, locked, ticker, lastTick, up, inventory, rows>>

\* Mutant: a setup failure returns without finishing the run row.
ResolveTargetsFails_returns(f) ==
    /\ At(f, "running")
    /\ fires' = [fires EXCEPT ![f].pc = "finished", ![f].status = "failed"]
    /\ UNCHANGED <<now, schedules, locked, ticker, lastTick, up, inventory, rows>>

\* The inventory or the labels could not be read: no host is touched.
ResolveTargetsFails(f) ==
    /\ At(f, "running")
    /\ fires' = [fires EXCEPT ![f].pc = "worked", ![f].status = "failed"]
    /\ UNCHANGED <<now, schedules, locked, ticker, lastTick, up, inventory, rows>>

(* Run row, last status and next fire time in one transaction, which rolls *)
(* back when the schedule was deleted meanwhile.                           *)
RecordRunFinish(f) ==
    LET i == fires[f].id
    IN  /\ At(f, "worked")
        /\ Move(f, "finished")
        /\ schedules' = IF Exists(i)
              THEN [schedules EXCEPT ![i] = Row(@.enabled, now, fires[f].status)]
              ELSE schedules
        /\ rows' = IF Exists(i) THEN [rows EXCEPT ![i] = @ - 1] ELSE rows
        /\ UNCHANGED <<now, locked, ticker, lastTick, up, inventory>>

\* Logged only: the row stays 'running' and the schedule stays due.
RecordRunFinishFails(f) ==
    /\ At(f, "worked")
    /\ Move(f, "finished")
    /\ UNCHANGED <<now, schedules, locked, ticker, lastTick, up, inventory, rows>>

Unlock(f) ==
    /\ At(f, "finished")
    /\ locked' = [locked EXCEPT ![fires[f].id] = None]
    /\ fires' = [fires EXCEPT ![f] = None]
    /\ UNCHANGED <<now, schedules, ticker, lastTick, up, inventory, rows>>

-----------------------------------------------------------------------------
\* Update and SetEnabled: the next fire time follows the clock, or goes.
Save(i, e) ==
    /\ up /\ Exists(i)
    /\ schedules' = [schedules EXCEPT ![i] = Row(e, now, @.last)]
    /\ UNCHANGED <<now, fires, locked, ticker, lastTick, up, inventory, rows>>

\* Delete takes the run history along.
Delete(i) ==
    /\ up /\ Exists(i)
    /\ schedules' = [schedules EXCEPT ![i] = None]
    /\ rows' = [rows EXCEPT ![i] = 0]
    /\ UNCHANGED <<now, fires, locked, ticker, lastTick, up, inventory>>

\* A system is deleted, its updater rows with it.
RemoveSystem(h) ==
    /\ up /\ h \in inventory
    /\ inventory' = inventory \ {h}
    /\ UNCHANGED <<now, schedules, fires, locked, ticker, lastTick, up, rows>>

Advance ==
    /\ now < MaxTime
    /\ now' = now + 1
    /\ UNCHANGED <<schedules, fires, locked, ticker, lastTick, up, inventory, rows>>

(* Goroutines and mutexes are gone, the rows stay as they are: nothing     *)
(* finishes the open ones at the next boot.                                *)
Crash ==
    /\ up /\ up' = FALSE
    /\ fires' = [f \in Slots |-> None]
    /\ locked' = [i \in Ids |-> None]
    /\ ticker' = None
    /\ UNCHANGED <<now, schedules, lastTick, inventory, rows>>

\* The ticker ticks once as it starts.
Boot ==
    /\ ~up /\ up' = TRUE
    /\ lastTick' = 0
    /\ UNCHANGED <<now, schedules, fires, locked, ticker, inventory, rows>>

FireStep(f) == \/ TryLock(f) \/ SkipOverlapping(f) \/ RecordRunStart(f)
               \/ FanOut(f) \/ ResolveTargetsFails(f)
               \/ RecordRunFinish(f) \/ Unlock(f)
Tick == ReconcileMissed \/ Due
Operator == \/ \E i \in Ids : \/ \E f \in Slots : RunNow(i, f)
                              \/ \E e \in BOOLEAN : Save(i, e)
                              \/ Delete(i)
            \/ \E h \in Hosts : RemoveSystem(h)

StatementFails == \/ ReconcileMissedFails \/ DueFails
                  \/ \E f \in Slots : RecordRunStartFails(f) \/ RecordRunFinishFails(f)

Steady == (\E f \in Slots : FireStep(f)) \/ Tick \/ Operator \/ Advance \/ Boot

Next == Steady \/ Crash \/ StatementFails

Spec == Init /\ [][Next]_vars

-----------------------------------------------------------------------------
\* The tables, the mutexes and the goroutines keep their types; no count of
\* running rows goes below zero.
TypeOK ==
    /\ now \in 1..MaxTime /\ lastTick \in 0..MaxTime /\ up \in BOOLEAN
    /\ ticker \in {None} \cup 1..MaxTime
    /\ inventory \subseteq Hosts /\ rows \in [Ids -> Nat]
    /\ locked \in [Ids -> Slots \cup {None}]
    /\ schedules \in [Ids -> {None} \cup Schedule]
    /\ fires \in [Slots -> {None} \cup Fire]

(* Fires of one schedule do not overlap, whether they come from the ticker *)
(* or from run-now, and the mutex is held exactly while one is under way.  *)
NoOverlappingFires ==
    \A i \in Ids : locked[i] # None <=>
        \E f \in Slots : /\ fires[f] # None /\ fires[f].id = i
                         /\ fires[f].pc # "dispatched"
                         /\ \A g \in Slots :
                              (fires[g] # None /\ fires[g].id = i /\ g # f)
                                => fires[g].pc = "dispatched"

(* An enabled schedule has a next fire time and a disabled one has none,   *)
(* also when it is disabled while a fire is about to write the next one.   *)
NextRunIffEnabled ==
    \A i \in Ids : Exists(i) => (schedules[i].enabled <=> schedules[i].next # None)

(* Rows, mutexes and fires agree, whatever operators do during a fire: no  *)
(* two fires of a schedule are at work, and what is enabled has a time.    *)
SchedulesInv == TypeOK /\ NoOverlappingFires /\ NextRunIffEnabled
=============================================================================
