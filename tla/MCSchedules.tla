---------------------------- MODULE MCSchedules ----------------------------
(* Schedules with bounds on crashes and failing statements.                *)
EXTENDS Schedules

CONSTANT MaxFaults       \* bound on crashes and failing statements together
VARIABLES crashes, failures
mcVars == <<now, schedules, fires, locked, ticker, lastTick, up, inventory,
            rows, crashes, failures>>

MCInit == Init /\ crashes = 0 /\ failures = 0
MCNext == /\ \/ Steady /\ UNCHANGED <<crashes, failures>>
             \/ Crash /\ crashes' = crashes + 1 /\ UNCHANGED failures
             \/ StatementFails /\ failures' = failures + 1 /\ UNCHANGED crashes
          /\ crashes' + failures' <= MaxFaults
MCSpec == MCInit /\ [][MCNext]_mcVars

(* Time passes; the ticker's loop and every Fire goroutine keep running    *)
(* while the process does; a fan-out ends because playbooks do; and the    *)
(* service manager restarts a dead server.                                 *)
Fairness == /\ WF_mcVars(Advance /\ UNCHANGED <<crashes, failures>>)
            /\ WF_mcVars(Tick /\ UNCHANGED <<crashes, failures>>)
            /\ WF_mcVars(Boot /\ UNCHANGED <<crashes, failures>>)
            /\ \A f \in Slots : WF_mcVars(FireStep(f) /\ UNCHANGED <<crashes, failures>>)
FairSpec == MCSpec /\ Fairness

(* A schedule that is due does not stay due: it is fired, or pushed to its *)
(* next fire time, or disabled or deleted by an operator.                  *)
DueIsSettled ==
    \A i \in Ids : (i \in DueAt(now)) ~> (i \notin DueAt(now))

(* As long as the process has not died and no statement has failed, a      *)
(* schedule's history shows exactly as many runs 'running' as goroutines   *)
(* are at work for it: none is left behind by a failed setup, by an edit,  *)
(* or by an overlap.  (Rows left by a crash stay: no boot step repairs     *)
(* schedule_runs.)                                                         *)
RunningRowsAreLive ==
    (crashes = 0 /\ failures = 0) => \A i \in Ids : Exists(i) =>
        rows[i] = Cardinality({f \in Slots : (At(f, "running") \/ At(f, "worked"))
                                                /\ fires[f].id = i})

(* What the ticker is about to dispatch is within the grace of its tick:   *)
(* neither a restart nor a stalled ticker runs what was missed before      *)
(* (ticker.go:74-78), whatever operators and running fires write between   *)
(* its two statements.  A ReconcileMissed that fails lets it through.      *)
NoCatchUpSpike ==
    (ticker # None /\ failures = 0) => \A i \in DueAt(ticker) : schedules[i].next >= ticker - Grace
=============================================================================
