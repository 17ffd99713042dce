------------------------------- MODULE MCGate -------------------------------
(***************************************************************************)
(* The gate on small instances.  `retunes' bounds how often the operator   *)
(* moves the limit; `raised' remembers that it was raised since the last   *)
(* admission decision made on behalf of the queue.                         *)
(***************************************************************************)
EXTENDS Gate

CONSTANT MaxRetunes       \* bound on changes of the limit in one behaviour
ASSUME MaxRetunesAssumption == MaxRetunes \in Nat

VARIABLES retunes, raised

mcVars == <<active, waiters, setting, stage, ctxDone, retunes, raised>>

MCInit == GateInit /\ retunes = 0 /\ raised = FALSE

Decides(c) == Release(c) \/ CancelForward(c)

Step(c) == \/ /\ Decides(c)
              /\ raised' = FALSE
              /\ UNCHANGED retunes
           \/ /\ AcquireFree(c) \/ AcquireQueue(c) \/ SelectSlot(c)
                 \/ SelectDone(c) \/ CancelDequeue(c) \/ Cancel(c)
              /\ UNCHANGED <<retunes, raised>>

MoveLimit(n) ==
    /\ retunes < MaxRetunes
    /\ SetLimit(n)
    /\ retunes' = retunes + 1
    /\ raised' = (raised \/ LimitOf(n) > limit)

MCNext == (\E c \in Callers : Step(c)) \/ (\E n \in Settings : MoveLimit(n))

MCSpec == MCInit /\ [][MCNext]_mcVars

(* A caller that can move does: the Go scheduler runs a ready goroutine,   *)
(* the mutex is never held across a wait, and a run ends, so that its      *)
(* deferred Release happens.  Nobody is obliged to call Acquire, to cancel *)
(* or to move the limit.                                                   *)
Fairness == \A c \in Callers :
    /\ WF_mcVars((SelectSlot(c) \/ SelectDone(c)) /\ UNCHANGED <<retunes, raised>>)
    /\ WF_mcVars(CancelDequeue(c) /\ UNCHANGED <<retunes, raised>>)
    /\ WF_mcVars(Decides(c) /\ raised' = FALSE /\ UNCHANGED retunes)

FairSpec == MCSpec /\ Fairness

-----------------------------------------------------------------------------
(* Slots do not idle while callers queue, unless the operator raised the   *)
(* limit and nobody has released since: raising it wakes no waiter         *)
(* (gate.go:103-117 is the only place that serves the queue).              *)
IdleSlotsOnlyAfterRaise == (waiters # <<>> /\ active < limit) => raised

(* Every caller blocked in Acquire returns from it, with a slot or with    *)
(* its context's error.                                                    *)
EveryAcquireReturns ==
    \A c \in Callers : stage[c] \in {"select", "cancelling"} ~> stage[c] \in {"holding", "out"}

(* The queue is looked after: somebody will serve it, and it waits beside a *)
(* free slot only where the limit was raised.                               *)
QueueServed == QueueNeverStranded /\ IdleSlotsOnlyAfterRaise
=============================================================================
