-------------------------------- MODULE Gate --------------------------------
(***************************************************************************)
(* internal/updaters/gate.go: the FIFO concurrency limiter every check and *)
(* apply passes before it starts an ansible-playbook process.              *)
(*                                                                         *)
(* Everything between mu.Lock and mu.Unlock is one action.  Acquire is cut *)
(* where the code lets go of the mutex: the select on the hand-off channel *)
(* and ctx.Done(), and the second Lock of the cancellation branch.  The    *)
(* settings row behind Limit is read outside mu, so the ceiling moves      *)
(* between any two actions.                                                *)
(***************************************************************************)
EXTENDS Integers, Sequences, FiniteSets

CONSTANTS Callers,       \* one per Acquire call in progress; also its channel
          Settings,      \* values the Limit callback can return
          DefaultLimit   \* the fallback for a setting below 1

ASSUME GateAssumption ==
    /\ IsFiniteSet(Callers)
    /\ Settings \subseteq Int /\ Settings # {}
    /\ DefaultLimit \in Nat \ {0}

VARIABLES active,        \* Gate.active
          waiters,       \* Gate.waiters: channels in arrival order
          setting,       \* what the Limit callback returns
          stage,         \* where each caller is in Acquire / Release
          ctxDone        \* callers whose context is cancelled

gateVars == <<active, waiters, setting, stage, ctxDone>>

(* "out" does not use the gate; "select" blocks on the select statement;   *)
(* "cancelling" chose ctx.Done() and wants the mutex back; "holding" got   *)
(* nil from Acquire and has not called Release.                            *)
Stages == {"out", "select", "cancelling", "holding"}

LimitOf(n) == IF n < 1 THEN DefaultLimit ELSE n
limit == LimitOf(setting)

Queued == {waiters[i] : i \in 1..Len(waiters)}

\* The channel is closed: the slot was handed over by a releaser.
Signaled == {c \in Callers : stage[c] \in {"select", "cancelling"}} \ Queued

Holding == {c \in Callers : stage[c] = "holding"}

\* Everyone a unit of `active' was counted for.
SlotOwners == Holding \cup Signaled

GateInit ==
    /\ active = 0
    /\ waiters = <<>>
    /\ setting \in Settings
    /\ stage = [c \in Callers |-> "out"]
    /\ ctxDone = {}

-----------------------------------------------------------------------------
\* Acquire when a slot is free: the queue is not looked at.
AcquireFree(c) ==
    /\ stage[c] = "out"
    /\ active < limit
    /\ active' = active + 1
    /\ stage' = [stage EXCEPT ![c] = "holding"]
    /\ UNCHANGED <<waiters, setting, ctxDone>>

AcquireQueue(c) ==
    /\ stage[c] = "out"
    /\ ~(active < limit)
    /\ waiters' = Append(waiters, c)
    /\ stage' = [stage EXCEPT ![c] = "select"]
    /\ UNCHANGED <<active, setting, ctxDone>>

\* case <-ch: the channel is closed.
SelectSlot(c) ==
    /\ stage[c] = "select"
    /\ c \in Signaled
    /\ stage' = [stage EXCEPT ![c] = "holding"]
    /\ UNCHANGED <<active, waiters, setting, ctxDone>>

\* case <-ctx.Done(): Go picks either ready case, so a closed channel does
\* not prevent it.
SelectDone(c) ==
    /\ stage[c] = "select"
    /\ c \in ctxDone
    /\ stage' = [stage EXCEPT ![c] = "cancelling"]
    /\ UNCHANGED <<active, waiters, setting, ctxDone>>

\* Mutant: every release wakes the whole queue.
Admitted_all(a) == Len(waiters)

\* How many waiters releaseLocked admits once `active' has been decremented to a.
Admitted(a) ==
    IF limit <= a THEN 0
    ELSE IF Len(waiters) <= limit - a THEN Len(waiters) ELSE limit - a

\* Mutant: the newest waiters are served first.
releaseLocked_lifo ==
    LET a == IF active > 0 THEN active - 1 ELSE active
        k == Admitted(a)
    IN  /\ active' = a + k
        /\ waiters' = SubSeq(waiters, 1, Len(waiters) - k)

\* Mutant: an `if' where the code loops, one hand-off per release.
releaseLocked_handsOne ==
    LET a == IF active > 0 THEN active - 1 ELSE active
        k == IF Admitted(a) = 0 THEN 0 ELSE 1
    IN  /\ active' = a + k
        /\ waiters' = SubSeq(waiters, k + 1, Len(waiters))

releaseLocked ==
    LET a == IF active > 0 THEN active - 1 ELSE active
        k == Admitted(a)
    IN  /\ active' = a + k
        /\ waiters' = SubSeq(waiters, k + 1, Len(waiters))

\* Still queued: leave the queue, the slot count untouched.
CancelDequeue(c) ==
    /\ stage[c] = "cancelling"
    /\ \E i \in 1..Len(waiters) :
          /\ waiters[i] = c
          /\ waiters' = SubSeq(waiters, 1, i - 1)
                          \o SubSeq(waiters, i + 1, Len(waiters))
    /\ stage' = [stage EXCEPT ![c] = "out"]
    /\ ctxDone' = ctxDone \ {c}
    /\ UNCHANGED <<active, setting>>

\* Mutant: a caller signaled while cancelling keeps the slot to itself.
CancelForward_dropsSlot(c) ==
    /\ stage[c] = "cancelling"
    /\ c \notin Queued
    /\ stage' = [stage EXCEPT ![c] = "out"]
    /\ ctxDone' = ctxDone \ {c}
    /\ UNCHANGED <<active, waiters, setting>>

\* Signaled while cancelling: give the slot on.
CancelForward(c) ==
    /\ stage[c] = "cancelling"
    /\ c \notin Queued
    /\ releaseLocked
    /\ stage' = [stage EXCEPT ![c] = "out"]
    /\ ctxDone' = ctxDone \ {c}
    /\ UNCHANGED setting

\* Mutant: the slot is counted free but handed to nobody.
Release_noHandOff(c) ==
    /\ stage[c] = "holding"
    /\ active' = active - 1
    /\ stage' = [stage EXCEPT ![c] = "out"]
    /\ ctxDone' = ctxDone \ {c}
    /\ UNCHANGED <<waiters, setting>>

Release(c) ==
    /\ stage[c] = "holding"
    /\ releaseLocked
    /\ stage' = [stage EXCEPT ![c] = "out"]
    /\ ctxDone' = ctxDone \ {c}
    /\ UNCHANGED setting

\* The caller's request goes away, at any time while it is in the gate.
Cancel(c) ==
    /\ stage[c] # "out"
    /\ c \notin ctxDone
    /\ ctxDone' = ctxDone \cup {c}
    /\ UNCHANGED <<active, waiters, setting, stage>>

\* The operator saves another value of the concurrency limit.
SetLimit(n) ==
    /\ n # setting
    /\ setting' = n
    /\ UNCHANGED <<active, waiters, stage, ctxDone>>

-----------------------------------------------------------------------------
CallerStep(c) ==
    \/ AcquireFree(c)
    \/ AcquireQueue(c)
    \/ SelectSlot(c)
    \/ SelectDone(c)
    \/ CancelDequeue(c)
    \/ CancelForward(c)
    \/ Release(c)
    \/ Cancel(c)

GateNext == (\E c \in Callers : CallerStep(c)) \/ (\E n \in Settings : SetLimit(n))

GateSpec == GateInit /\ [][GateNext]_gateVars

-----------------------------------------------------------------------------
\* The gate's fields and the callers' places keep their types.
GateTypeOK ==
    /\ active \in Nat
    /\ waiters \in Seq(Callers)
    /\ setting \in Settings
    /\ stage \in [Callers -> Stages]
    /\ ctxDone \in SUBSET Callers

\* A channel is queued once, and only while its caller is inside Acquire.
QueueWellFormed ==
    /\ \A i, j \in 1..Len(waiters) : waiters[i] = waiters[j] => i = j
    /\ \A i \in 1..Len(waiters) : stage[waiters[i]] \in {"select", "cancelling"}

(* No slot leaks and none is invented: `active' counts exactly the callers *)
(* that hold a slot or have been signaled, across hand-off racing          *)
(* cancellation (gate.go:47-52, "the slot is forwarded to the next waiter  *)
(* so no slot leaks").                                                     *)
NoSlotLeak == active = Cardinality(SlotOwners)

(* A non-empty queue always has somebody ahead of it whose Release or      *)
(* cancellation will serve it, whatever the operator does to the limit: a  *)
(* waiter is only ever woken by another caller.                            *)
QueueNeverStranded == waiters # <<>> => SlotOwners # {}

(* Waiters are admitted in arrival order: whoever is signaled by a step,   *)
(* everyone that was queued before it has left the queue as well.          *)
HandOffInOrder ==
    [][\A i, j \in 1..Len(waiters) :
          (i < j /\ waiters[j] \in Signaled') => waiters[i] \notin Queued']_gateVars

\* The gate as a counting semaphore: inside are those who own a slot.
Sem == INSTANCE Semaphore
         WITH Ceilings <- {LimitOf(n) : n \in Settings},
              inside <- SlotOwners, ceiling <- limit

(* The gate implements the abstract counting semaphore: admission never    *)
(* goes past the ceiling in force, and `active' exceeds it only because    *)
(* the ceiling was lowered (gate.go:15-18).                                *)
ImplementsSemaphore == Sem!Spec
=============================================================================
