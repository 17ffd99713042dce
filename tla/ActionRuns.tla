----------------------------- MODULE ActionRuns -----------------------------
(***************************************************************************)
(* The life of an update or exporter run, across the processes that share  *)
(* the database: updaters.Runner (Inspect, Check, Apply), exporters.Runner *)
(* (Install, Status, Remove), the reboot of a schedule, the advisory lock  *)
(* per system, the run tables and their retention, the concurrency gate,   *)
(* the server's graceful drain, its crashes and the reconciliation at      *)
(* boot.                                                                   *)
(*                                                                         *)
(* One action per SQL statement (the pool has a single connection) and one *)
(* per critical section of the gate.  A run id is used once, as the code's *)
(* uuids are.  What a run does to the host's records is in HostRecords.    *)
(***************************************************************************)
EXTENDS Gate

CONSTANTS Systems,        \* managed hosts
          Kinds,          \* the kinds of run that can be requested
          HttpRuns,       \* runs asked for over HTTP; the others are scheduled
          Keep,           \* settings.RunHistoryLimit
          NoRun           \* no row in system_action_locks

Runs == Callers

ASSUME ActionRunsAssumption ==
    /\ Kinds \subseteq {"inspect", "check", "apply", "exporter", "reboot"}
    /\ HttpRuns \subseteq Callers
    /\ Keep \in Nat \ {0}
    /\ NoRun \notin Callers

VARIABLES server,         \* the process: see Servers
          pc,             \* where each run's goroutine is: see Places
          target,         \* the system a run is for
          kind,           \* its kind
          row,            \* its row in updater_runs or exporter_runs
          newer,          \* the runs whose rows were inserted after it
          locks,          \* system_action_locks
          faulted,        \* runs left unfinished by a statement that failed
          hosts           \* the systems that have not been deleted

runVars == <<server, pc, target, kind, row, newer, locks, faulted, hosts>>
vars == <<active, waiters, setting, stage, ctxDone,
          server, pc, target, kind, row, newer, locks, faulted, hosts>>

Servers == {"up", "draining", "closing", "down", "booting"}
Running == {"up", "draining", "closing"}

(* idle: not requested yet; admitted: past the Draining check; inserted:   *)
(* row written, lock not yet tried; refused: lost the lock, row still      *)
(* open; gate, play: waiting for a slot, ansible-playbook running; finish: *)
(* playbook over, row not yet stamped; ungate, unlock: the deferred calls; *)
(* rebooting: the reboot playbook of a schedule; done; dead: the process   *)
(* died under it.                                                          *)
Places == {"idle", "admitted", "inserted", "refused", "gate", "play",
           "finish", "ungate", "unlock", "rebooting", "done", "dead"}
Locked == {"gate", "play", "finish", "ungate", "unlock"}
Live == Places \ {"idle", "done", "dead"}

Gated(k) == k \in {"check", "apply"}
IsExporterRun(r) == kind[r] = "exporter"

(* Schedules start checks, applies and reboots; only they reboot hosts.    *)
Requestable(r) == IF r \in HttpRuns THEN kind[r] # "reboot"
                  ELSE kind[r] \in {"check", "apply", "reboot"}

Init ==
    /\ GateInit
    /\ server = "up"
    /\ pc = [r \in Runs |-> "idle"]
    /\ target \in [Runs -> Systems]
    /\ kind \in [Runs -> Kinds]
    /\ \A r \in Runs : Requestable(r)
    /\ row = [r \in Runs |-> "none"]
    /\ newer = [r \in Runs |-> {}]
    /\ locks = [s \in Systems |-> NoRun]
    /\ faulted = {}
    /\ hosts = Systems

Goto(r, p) == pc' = [pc EXCEPT ![r] = p]

-----------------------------------------------------------------------------
(* The handler finds the system and is not draining; nothing is written    *)
(* yet.  An orchestrator already firing keeps starting runs through the    *)
(* drain, on hosts with availability rows.                                 *)
Admit(r) ==
    /\ pc[r] = "idle" /\ kind[r] # "reboot" /\ target[r] \in hosts
    /\ server = "up" \/ (r \notin HttpRuns /\ server \in Running)
    /\ Goto(r, "admitted")
    /\ UNCHANGED <<gateVars, server, target, kind, row, newer, locks, faulted, hosts>>

\* Rows of the same table and system.
Sibling(r, q) == target[q] = target[r] /\ (IsExporterRun(q) <=> IsExporterRun(r))

\* InsertRun, then trimHistory: only the newest Keep rows of the system stay.
InsertRun(r) ==
    LET since == [q \in Runs |-> IF row[q] = "none" THEN {} ELSE newer[q] \cup {r}]
        Expired(q) == /\ Sibling(r, q)
                      /\ Cardinality({p \in since[q] : Sibling(r, p)}) >= Keep
    IN  /\ pc[r] = "admitted"
        /\ row' = [q \in Runs |-> IF q = r THEN "open"
                                  ELSE IF Expired(q) THEN "none" ELSE row[q]]
        /\ newer' = [q \in Runs |-> IF Expired(q) THEN {} ELSE since[q]]
        /\ Goto(r, "inserted")
        /\ UNCHANGED <<gateVars, server, target, kind, locks, faulted, hosts>>

\* Mutant: INSERT OR REPLACE, the newcomer takes the lock over.
AcquireLock_replaces(r) ==
    /\ pc[r] = "inserted"
    /\ locks' = [locks EXCEPT ![target[r]] = r]
    /\ Goto(r, IF Gated(kind[r]) THEN "gate" ELSE "play")
    /\ UNCHANGED <<gateVars, server, target, kind, row, newer, faulted, hosts>>

AcquireLock(r) ==
    /\ pc[r] = "inserted"
    /\ locks[target[r]] = NoRun
    /\ locks' = [locks EXCEPT ![target[r]] = r]
    /\ Goto(r, IF Gated(kind[r]) THEN "gate" ELSE "play")
    /\ UNCHANGED <<gateVars, server, target, kind, row, newer, faulted, hosts>>

\* ErrConflict: the INSERT hits the primary key.
AcquireLockConflict(r) ==
    /\ pc[r] = "inserted"
    /\ locks[target[r]] # NoRun
    /\ Goto(r, "refused")
    /\ UNCHANGED <<gateVars, server, target, kind, row, newer, locks, faulted, hosts>>

(* Any other error: Inspect and the exporter runner stamp the row, Check   *)
(* and Apply return with it open.                                          *)
AcquireLockFails(r) ==
    /\ pc[r] = "inserted"
    /\ Goto(r, IF Gated(kind[r]) THEN "done" ELSE "refused")
    /\ faulted' = faulted \cup {r}
    /\ UNCHANGED <<gateVars, server, target, kind, row, newer, locks, hosts>>

\* finishRun's UPDATE; a row the retention took away stays away.
Stamp(r) == row' = [row EXCEPT ![r] = IF row[r] = "none" THEN "none" ELSE "closed"]

\* Mutant: the deferred unlock is set up before the conflict is looked at.
FinishRefused_unlocks(r) ==
    /\ pc[r] = "refused"
    /\ Stamp(r)
    /\ Goto(r, "done")
    /\ locks' = [locks EXCEPT ![target[r]] = NoRun]
    /\ UNCHANGED <<gateVars, server, target, kind, newer, faulted, hosts>>

FinishRefused(r) ==
    /\ pc[r] = "refused"
    /\ Stamp(r)
    /\ Goto(r, "done")
    /\ UNCHANGED <<gateVars, server, target, kind, newer, locks, faulted, hosts>>

\* The UPDATE fails: it is logged, and the row stays open.
FinishFails(r) ==
    /\ pc[r] \in {"refused", "finish"}
    /\ Goto(r, IF pc[r] = "refused" THEN "done" ELSE IF stage[r] = "holding" THEN "ungate" ELSE "unlock")
    /\ faulted' = faulted \cup {r}
    /\ UNCHANGED <<gateVars, server, target, kind, row, newer, locks, hosts>>

-----------------------------------------------------------------------------
\* Gate.Acquire, as the runner calls it with the lock held.
GateAdmits(r) ==
    /\ pc[r] = "gate"
    /\ AcquireFree(r) \/ SelectSlot(r)
    /\ Goto(r, "play")
    /\ UNCHANGED <<server, target, kind, row, newer, locks, faulted, hosts>>

GateWaits(r) ==
    /\ pc[r] = "gate"
    /\ AcquireQueue(r) \/ SelectDone(r)
    /\ UNCHANGED runVars

\* The request goes away, or the drain is over and scheduled runs are reaped.
GateCancel(r) ==
    /\ pc[r] = "gate"
    /\ r \in HttpRuns \/ server = "closing"
    /\ stage[r] = "select"
    /\ Cancel(r)
    /\ UNCHANGED runVars

\* Mutant: a cancelled Acquire returns past finishRun and the unlock.
GateCancelled_returns(r) ==
    /\ pc[r] = "gate"
    /\ CancelDequeue(r) \/ CancelForward(r)
    /\ Goto(r, "done")
    /\ UNCHANGED <<server, target, kind, row, newer, locks, faulted, hosts>>

\* Acquire returned ctx.Err(): no slot, straight to finishRun.
GateCancelled(r) ==
    /\ pc[r] = "gate"
    /\ CancelDequeue(r) \/ CancelForward(r)
    /\ Goto(r, "finish")
    /\ UNCHANGED <<server, target, kind, row, newer, locks, faulted, hosts>>

\* The playbook ends, is killed with its context, or could not be written.
PlaybookEnds(r) ==
    /\ pc[r] = "play"
    /\ Goto(r, "finish")
    /\ UNCHANGED <<gateVars, server, target, kind, row, newer, locks, faulted, hosts>>

FinishRun(r) ==
    /\ pc[r] = "finish"
    /\ Stamp(r)
    /\ Goto(r, IF stage[r] = "holding" THEN "ungate" ELSE "unlock")
    /\ UNCHANGED <<gateVars, server, target, kind, newer, locks, faulted, hosts>>

\* Deferred calls run last in, first out: the slot goes before the lock.
GateRelease(r) ==
    /\ pc[r] = "ungate"
    /\ Release(r)
    /\ Goto(r, "unlock")
    /\ UNCHANGED <<server, target, kind, row, newer, locks, faulted, hosts>>

ReleaseLock(r) ==
    /\ pc[r] = "unlock"
    /\ locks' = [s \in Systems |->
                    IF s = target[r] /\ locks[s] = r THEN NoRun ELSE locks[s]]
    /\ Goto(r, "done")
    /\ UNCHANGED <<gateVars, server, target, kind, row, newer, faulted, hosts>>

\* The DELETE fails; the error is discarded.
ReleaseLockFails(r) ==
    /\ pc[r] = "unlock"
    /\ Goto(r, "done")
    /\ faulted' = faulted \cup {r}
    /\ UNCHANGED <<gateVars, server, target, kind, row, newer, locks, hosts>>

(* RebootIfRequired, at the end of a schedule's work on a host: straight   *)
(* to ansible.Runner.Run, with no row, no lock and no slot.                *)
RebootIfRequired(r) ==
    /\ pc[r] = "idle" /\ kind[r] = "reboot" /\ target[r] \in hosts
    /\ server \in Running
    /\ Goto(r, "rebooting")
    /\ UNCHANGED <<gateVars, server, target, kind, row, newer, locks, faulted, hosts>>

RebootEnds(r) ==
    /\ pc[r] = "rebooting"
    /\ Goto(r, "done")
    /\ UNCHANGED <<gateVars, server, target, kind, row, newer, locks, faulted, hosts>>

RunStep(r) ==
    \/ Admit(r) \/ InsertRun(r)
    \/ AcquireLock(r) \/ AcquireLockConflict(r) \/ AcquireLockFails(r)
    \/ FinishRefused(r) \/ FinishFails(r)
    \/ GateAdmits(r) \/ GateWaits(r) \/ GateCancel(r) \/ GateCancelled(r)
    \/ PlaybookEnds(r) \/ FinishRun(r) \/ GateRelease(r)
    \/ ReleaseLock(r) \/ ReleaseLockFails(r)
    \/ RebootIfRequired(r) \/ RebootEnds(r)

-----------------------------------------------------------------------------
Retune(n) == SetLimit(n) /\ UNCHANGED runVars

\* The triggers on hosts take the rows and the lock of a deleted system
\* along, under the runs that are at work on it.
DeleteSystem(s) ==
    LET Mine(r) == target[r] = s
    IN  /\ server \in Running /\ s \in hosts
        /\ hosts' = hosts \ {s}
        /\ locks' = [locks EXCEPT ![s] = NoRun]
        /\ row' = [r \in Runs |-> IF Mine(r) THEN "none" ELSE row[r]]
        /\ newer' = [r \in Runs |-> IF Mine(r) THEN {} ELSE newer[r]]
        /\ UNCHANGED <<gateVars, server, pc, target, kind, faulted>>

\* SIGTERM: runCtx is cancelled, new HTTP runs are refused.
ShutdownSignal ==
    /\ server = "up"
    /\ server' = "draining"
    /\ UNCHANGED <<gateVars, pc, target, kind, row, newer, locks, faulted, hosts>>

(* drainInFlightRuns returns when the lock table is empty, and also when   *)
(* the grace has passed; either way the scheduled runs' context goes.      *)
DrainReturns ==
    /\ server = "draining"
    /\ server' = "closing"
    /\ UNCHANGED <<gateVars, pc, target, kind, row, newer, locks, faulted, hosts>>

(* The process is gone: memory is lost, the database stays.  From closing  *)
(* this is the normal exit, elsewhere a crash, an OOM kill or a SIGKILL.   *)
ProcessEnds ==
    /\ server # "down"
    /\ server' = "down"
    /\ pc' = [r \in Runs |-> IF pc[r] \in Live THEN "dead" ELSE pc[r]]
    /\ active' = 0
    /\ waiters' = <<>>
    /\ stage' = [r \in Runs |-> "out"]
    /\ ctxDone' = {}
    /\ UNCHANGED <<setting, target, kind, row, newer, locks, faulted, hosts>>

CloseRows(S) == row' = [r \in Runs |-> IF r \in S /\ row[r] = "open" THEN "closed" ELSE row[r]]

\* updaters.ReconcileOrphanedRuns: its own rows, and every lock.
ReconcileUpdaters ==
    /\ server = "down"
    /\ server' = "booting"
    /\ CloseRows({r \in Runs : ~IsExporterRun(r)})
    /\ locks' = [s \in Systems |-> NoRun]
    /\ UNCHANGED <<gateVars, pc, target, kind, newer, faulted, hosts>>

(* Either of its two statements fails: the locks stay, and the rows too    *)
(* when it is the first.  The error is logged and the boot goes on.        *)
ReconcileUpdatersFails ==
    LET mine == {r \in Runs : ~IsExporterRun(r)}
    IN  /\ server = "down"
        /\ server' = "booting"
        /\ CloseRows(mine) \/ UNCHANGED row
        /\ faulted' = faulted \cup {r \in mine : row'[r] = "open"}
                             \cup {r \in Runs : \E s \in Systems : locks[s] = r}
        /\ UNCHANGED <<gateVars, pc, target, kind, newer, locks, hosts>>

\* exporters.ReconcileOrphanedRuns; then traffic is accepted.
ReconcileExporters ==
    /\ server = "booting"
    /\ server' = "up"
    /\ CloseRows({r \in Runs : IsExporterRun(r)})
    /\ UNCHANGED <<gateVars, pc, target, kind, newer, locks, faulted, hosts>>

ReconcileExportersFails ==
    /\ server = "booting"
    /\ server' = "up"
    /\ faulted' = faulted \cup {r \in Runs : IsExporterRun(r) /\ row[r] = "open"}
    /\ UNCHANGED <<gateVars, pc, target, kind, row, newer, locks, hosts>>

ServerStep == \/ ShutdownSignal \/ DrainReturns \/ ProcessEnds
              \/ ReconcileUpdaters \/ ReconcileUpdatersFails
              \/ ReconcileExporters \/ ReconcileExportersFails

Next == \/ \E r \in Runs : RunStep(r)
        \/ \E n \in Settings : Retune(n)
        \/ \E s \in Systems : DeleteSystem(s)
        \/ ServerStep

Spec == Init /\ [][Next]_vars

-----------------------------------------------------------------------------
\* The run tables, the lock table and the goroutines keep their types; a lock
\* row names a run.
TypeOK ==
    /\ GateTypeOK
    /\ server \in Servers
    /\ pc \in [Runs -> Places]
    /\ target \in [Runs -> Systems]
    /\ kind \in [Runs -> Kinds]
    /\ row \in [Runs -> {"none", "open", "closed"}]
    /\ newer \in [Runs -> SUBSET Runs]
    /\ locks \in [Systems -> Runs \cup {NoRun}]
    /\ faulted \in SUBSET Runs
    /\ hosts \in SUBSET Systems

(* Two runs that take the advisory lock never overlap on a host, be they   *)
(* updater or exporter runs, over HTTP or scheduled, before and after a    *)
(* restart that wipes the lock table.  (A system deleted under a run loses *)
(* the lock, but ansible.Run refuses to start anything on it.)             *)
OneRunPerHost ==
    \A q, r \in Runs :
        (q # r /\ pc[q] \in Locked /\ pc[r] \in Locked /\ target[q] \in hosts)
            => target[q] # target[r]

(* A run between AcquireLock and ReleaseLock owns its host's lock row:     *)
(* nothing but the host's deletion takes it away under a running playbook. *)
LockedRunsOwnTheirLock ==
    \A r \in Runs : pc[r] \in Locked /\ target[r] \in hosts => locks[target[r]] = r

(* While the server serves, a lock row belongs to a run that will release  *)
(* it; otherwise every later action on the host would be refused with      *)
(* ErrConflict until a restart (main.go:193-199).  The exception is a run  *)
(* whose DELETE failed, at its end or at boot: those errors are discarded. *)
NoOrphanLock ==
    server \in Running =>
        \A s \in Systems : locks[s] # NoRun =>
            /\ target[locks[s]] = s
            /\ pc[locks[s]] \in Locked \/ locks[s] \in faulted

(* While the server serves, a run shown as running has a goroutine that    *)
(* will stamp its row.  The exceptions are a run whose UPDATE failed, at   *)
(* its end or at boot, and a Check or Apply whose lock INSERT failed.      *)
NoOrphanRow ==
    server \in Running =>
        \A r \in Runs : row[r] = "open" =>
            \/ pc[r] \in {"inserted", "refused", "gate", "play", "finish"}
            \/ r \in faulted

(* A slot of the gate is only ever taken by a run that owns its host's     *)
(* lock, so no two slots are spent on one host, and the exporter and       *)
(* inspect runs take none.                                                 *)
SlotsAreForLockedHosts ==
    \A r \in Runs : stage[r] # "out" =>
        pc[r] \in Locked /\ Gated(kind[r]) /\ (target[r] \in hosts => locks[target[r]] = r)

(* The lock table, the run rows, the gate and the goroutines agree on who  *)
(* is at work, through refused attempts, cancellations, failing statements,*)
(* crashes, boots and deletions.                                           *)
TablesAgree ==
    /\ TypeOK
    /\ LockedRunsOwnTheirLock
    /\ NoOrphanLock /\ NoOrphanRow
    /\ SlotsAreForLockedHosts
=============================================================================
