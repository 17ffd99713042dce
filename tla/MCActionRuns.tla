---------------------------- MODULE MCActionRuns ----------------------------
(* Small instances of ActionRuns: bounds on crashes and on store faults.   *)
EXTENDS ActionRuns, TLC

CONSTANTS MaxBoots,      \* how often the process may end
          MaxFaults,     \* how many runs a failing statement leaves unfinished
          MaxDeleted,    \* how many systems go, without boots and faults
          FirstSetting   \* the limit while any of these happens

VARIABLE boots           \* how often it has ended
mcVars == <<active, waiters, setting, stage, ctxDone, boots,
            server, pc, target, kind, row, newer, locks, faulted, hosts>>

(* A gated HTTP run and a scheduled run, an apply or a reboot, work on     *)
(* different hosts, the applies competing for slots; a further HTTP run,   *)
(* of either kind, meets the scheduled one on its host.                    *)
CONSTANTS FirstRun, FirstHost
MCInit == /\ Init
          /\ boots = 0 /\ setting = FirstSetting
          /\ \A r \in Runs : target[r] = FirstHost <=> r = FirstRun
          /\ kind[FirstRun] = "apply"
MCNext == /\ Next
          /\ boots' = IF server # "down" /\ server' = "down" THEN boots + 1 ELSE boots
          /\ \/ /\ hosts' = Systems
                /\ boots' <= MaxBoots /\ Cardinality(faulted') <= MaxFaults
             \/ /\ Cardinality(Systems \ hosts') <= MaxDeleted
                /\ boots' = 0 /\ faulted' = {}
          /\ setting' = FirstSetting \/ (hosts' = Systems /\ boots' = 0 /\ faulted' = {})
MCSpec == MCInit /\ [][MCNext]_mcVars

(* A goroutine that can take a step takes it, a playbook ends, and the     *)
(* service manager starts the server again.  Nothing obliges a request, a  *)
(* cancellation, a signal, a crash or a fault to happen.                   *)
Moves(r) == \/ InsertRun(r) \/ AcquireLock(r) \/ AcquireLockConflict(r)
            \/ FinishRefused(r) \/ GateAdmits(r) \/ GateWaits(r)
            \/ GateCancelled(r) \/ PlaybookEnds(r) \/ FinishRun(r)
            \/ GateRelease(r) \/ ReleaseLock(r) \/ RebootEnds(r)
Fairness == /\ \A r \in Runs : WF_mcVars(Moves(r) /\ UNCHANGED boots)
            /\ WF_mcVars((ReconcileUpdaters \/ ReconcileExporters) /\ UNCHANGED boots)
FairSpec == MCSpec /\ Fairness

(* A host never stays locked: its lock is released by the run that holds   *)
(* it, or dropped at the next boot (main.go:193-199), unless the DELETE    *)
(* itself failed.                                                          *)
HostUsableAgain ==
    \A s \in Systems :
        locks[s] # NoRun ~> (locks[s] = NoRun \/ locks[s] \in faulted)
=============================================================================
