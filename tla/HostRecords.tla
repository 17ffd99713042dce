---------------------------- MODULE HostRecords ----------------------------
(***************************************************************************)
(* What the database believes about one host and how inspect, check and    *)
(* apply runs keep it in step with the host itself.  The host has two      *)
(* updaters: a hold-based package manager ("pkg": scoop, apt), with its    *)
(* detected row and the operator's enable flag, its pending packages and   *)
(* its managed holds; and the one that knows about reboots ("os":          *)
(* windowsupdate), of which only the reboot-required hint is kept here.    *)
(* The exit code of the last run belongs to both. ActionRuns shows that    *)
(* runs on one host do not overlap, so there is at most one here; a        *)
(* schedule's reboot, which takes no lock, goes on beside it.              *)
(*                                                                         *)
(* The host, its package manager and its administrator are the             *)
(* environment.  The playbook is one action, as nothing else the server    *)
(* does can reach the host meanwhile; the statements that record its       *)
(* outcome are one action each.                                            *)
(***************************************************************************)
EXTENDS Integers, Sequences, FiniteSets

CONSTANTS Packages, NoRun

(* ansible.Run's results.  Only "error" is a Go error; "refused" stands    *)
(* for missing credentials and no accepted host key, and like "error" it   *)
(* carries exit code 0.  "unreachable" covers host-key mismatch and a      *)
(* playbook process that could not run; "failed" is a task that failed;    *)
(* a check that fails half way prints nothing, as if it had not begun.     *)
Results == {"success", "failed", "unreachable", "refused", "error"}
ExitZero(res) == res \in {"success", "refused", "error"}

(* A run at work.  excl, known: what the request carried; detected,        *)
(* pending, marker: what the playbook printed; todo: the statements that   *)
(* are still to issue.                                                     *)
Stmts == {"finish", "pending", "reboot", "holds", "availability"}
Run == [updater : {"pkg", "os"}, kind : {"inspect", "check", "apply"},
        excl : SUBSET Packages, known : SUBSET Packages,
        result : Results \cup {"none"}, detected : BOOLEAN,
        pending : SUBSET Packages, marker : BOOLEAN, todo : Seq(Stmts)]

ASSUME RecordsAssumption == NoRun \notin Run

VARIABLES present,       \* host: the package manager is installed
          upgradable,    \* host: packages with an update
          held,          \* host: packages on hold
          needsReboot,   \* host: a reboot is pending
          ours,          \* the part of held the server's playbooks placed
          avail,         \* system_updaters: "none" (no row), "on" or "off"
          snapshot,      \* system_updaters.pending_packages
          rebootHint,    \* hosts.reboot_required_at is set
          managed,       \* managed_holds
          excluded,      \* what exclusions.Resolve yields for the host
          lastFailed,    \* SystemStats.LastRunFailed
          run,           \* the run in progress, or NoRun
          reboot         \* RebootIfRequired: "idle", "play" or "clear"

hostVars == <<present, upgradable, held, needsReboot, ours>>
recordVars == <<avail, snapshot, rebootHint, managed, lastFailed>>
allVars == <<present, upgradable, held, needsReboot, ours,
          avail, snapshot, rebootHint, managed, lastFailed, excluded, run, reboot>>

(* The statements after the playbook, in the order the code issues them,   *)
(* less those on the rows of the "os" updater.                             *)
Statements(u, k) ==
    CASE k = "inspect"                -> <<"finish", "reboot", "availability">>
      [] k # "inspect" /\ u = "os"    -> <<"finish", "reboot">>
      [] k = "check" /\ u = "pkg"     -> <<"finish", "pending", "reboot">>
      [] k = "apply" /\ u = "pkg"     -> <<"finish", "reboot", "holds">>

NewRun(u, k) ==
             [updater |-> u, kind |-> k, excl |-> {}, known |-> {}, result |-> "none",
              detected |-> FALSE, pending |-> {}, marker |-> FALSE, todo |-> <<>>]

RecordsInit ==
    /\ present = TRUE
    /\ upgradable = {}
    /\ held = {} /\ ours = {}
    /\ needsReboot = FALSE
    /\ avail = "none"
    /\ snapshot = {}
    /\ rebootHint = FALSE
    /\ managed = {} /\ excluded = {}
    /\ lastFailed = FALSE
    /\ run = NoRun
    /\ reboot = "idle"

-----------------------------------------------------------------------------
\* The environment: a package manager comes or goes, updates are published.
HostReinstalled ==
    /\ present' = ~present
    /\ UNCHANGED <<upgradable, held, needsReboot, ours, recordVars, excluded, run, reboot>>

UpdatePublished(p) ==
    /\ p \notin upgradable
    /\ upgradable' = upgradable \cup {p}
    /\ UNCHANGED <<present, held, needsReboot, ours, recordVars, excluded, run, reboot>>

\* The administrator works on the host over SSH.
AdminHolds(p) ==
    /\ p \notin held
    /\ held' = held \cup {p}
    /\ UNCHANGED <<present, upgradable, needsReboot, ours, recordVars, excluded, run, reboot>>

AdminUnholds(p) ==
    /\ p \in held
    /\ held' = held \ {p} /\ ours' = ours \ {p}
    /\ UNCHANGED <<present, upgradable, needsReboot, recordVars, excluded, run, reboot>>

Reboots ==
    /\ needsReboot
    /\ needsReboot' = FALSE
    /\ UNCHANGED <<present, upgradable, held, ours, recordVars, excluded, run, reboot>>

-----------------------------------------------------------------------------
\* The operator, through the API.
ToggleExclusion(p) ==
    /\ excluded' = IF p \in excluded THEN excluded \ {p} ELSE excluded \cup {p}
    /\ UNCHANGED <<hostVars, recordVars, run, reboot>>

SetEnabled(flag) ==
    /\ avail # "none"
    /\ avail' = IF flag THEN "on" ELSE "off"
    /\ UNCHANGED <<hostVars, snapshot, rebootHint, managed, lastFailed, excluded, run, reboot>>

-----------------------------------------------------------------------------
Inspect ==
    /\ run = NoRun
    /\ run' = NewRun("pkg", "inspect")
    /\ UNCHANGED <<hostVars, recordVars, excluded, reboot>>

Check(u) ==
    /\ run = NoRun
    /\ run' = NewRun(u, "check")
    /\ UNCHANGED <<hostVars, recordVars, excluded, reboot>>

\* Of the updater whose exclusions and holds are not modelled.
ApplyOS ==
    /\ run = NoRun
    /\ run' = NewRun("os", "apply")
    /\ UNCHANGED <<hostVars, recordVars, excluded, reboot>>

\* The exclusions and the known holds are read before the playbook starts.
Apply ==
    /\ run = NoRun
    /\ run' = [NewRun("pkg", "apply") EXCEPT !.excl = excluded, !.known = managed]
    /\ UNCHANGED <<hostVars, recordVars, excluded, reboot>>

\* Either read fails: it is logged, and an empty list goes to the playbook.
ApplyUnresolved ==
    /\ run = NoRun
    /\ \E ex \in {excluded, {}}, kn \in {managed, {}} :
          run' = [NewRun("pkg", "apply") EXCEPT !.excl = ex, !.known = kn]
    /\ UNCHANGED <<hostVars, recordVars, excluded, reboot>>

\* A request that finds the host locked leaves a finished row with exit -1.
Conflict ==
    /\ run # NoRun
    /\ lastFailed' = TRUE
    /\ UNCHANGED <<hostVars, avail, snapshot, rebootHint, managed, excluded, run, reboot>>

Playing == run # NoRun /\ run.result = "none"

Ended(res) == [run EXCEPT !.result = res, !.todo = Statements(run.updater, run.kind)]

(* ansible.Run ends before it touches the host.                            *)
NotReached(res) ==
    /\ Playing
    /\ run' = Ended(res)
    /\ UNCHANGED <<hostVars, recordVars, excluded, reboot>>

\* Mutant: the server's own records stand in for what the host reports.
ToHold_fromRecords == run.excl \ run.known

\* Mutant: every hold that is not excluded is lifted, whoever placed it.
ToUnhold_all == held \ run.excl

\* The Jinja diff of apt/apply.yml against what `apt-mark showhold' says.
ToHold == run.excl \ held
ToUnhold == (run.known \ run.excl) \cap held

(* A hold, an unhold or the upgrade fails: the loops stop where they are.  *)
ApplyFails ==
    /\ Playing /\ run.kind = "apply" /\ run.updater = "pkg"
    /\ \E A \in SUBSET ToHold, B \in SUBSET ToUnhold :
          /\ B # {} => A = ToHold
          /\ held' = (held \cup A) \ B
          /\ ours' = (ours \cup A) \ B
    /\ run' = Ended("failed")
    /\ UNCHANGED <<present, upgradable, needsReboot, recordVars, excluded, reboot>>

(* The upgrade skips held packages, and those a targeted apply left out    *)
(* (T); it may leave the host wanting a reboot, and says nothing of it.    *)
ApplySucceeds ==
    /\ Playing /\ run.kind = "apply" /\ run.updater = "pkg"
    /\ held' = (held \cup ToHold) \ ToUnhold
    /\ ours' = (ours \cup ToHold) \ ToUnhold
    /\ \E T \in SUBSET Packages : upgradable' = upgradable \cap (held' \cup T)
    /\ needsReboot' \in {needsReboot, TRUE}
    /\ run' = Ended("success")
    /\ UNCHANGED <<present, recordVars, excluded, reboot>>

CheckSucceeds ==
    /\ Playing /\ run.kind = "check" /\ run.updater = "pkg"
    /\ run' = [Ended("success") EXCEPT !.pending = upgradable]
    /\ UNCHANGED <<hostVars, recordVars, excluded, reboot>>

\* Check and apply of windowsupdate end with the reboot marker, if need be.
OSApplySucceeds ==
    /\ Playing /\ run.kind = "apply" /\ run.updater = "os"
    /\ needsReboot' \in {needsReboot, TRUE}
    /\ run' = [Ended("success") EXCEPT !.marker = needsReboot']
    /\ UNCHANGED <<present, upgradable, held, ours, recordVars, excluded, reboot>>

OSCheckSucceeds ==
    /\ Playing /\ run.kind = "check" /\ run.updater = "os"
    /\ run' = [Ended("success") EXCEPT !.marker = needsReboot]
    /\ UNCHANGED <<hostVars, recordVars, excluded, reboot>>

\* The inspection playbook emits no reboot marker.
InspectSucceeds ==
    /\ Playing /\ run.kind = "inspect"
    /\ run' = [Ended("success") EXCEPT !.detected = present]
    /\ UNCHANGED <<hostVars, recordVars, excluded, reboot>>

-----------------------------------------------------------------------------
\* One statement of the run is over; the last one ends it.
Issue(stmt) == /\ run # NoRun
               /\ run.todo # <<>> /\ Head(run.todo) = stmt
               /\ run' = IF Len(run.todo) = 1 \/ (stmt = "finish" /\ run.result = "error")
                         THEN NoRun      \* a Go error: only finishRun is issued
                         ELSE [run EXCEPT !.todo = Tail(@)]

FinishRun ==
    /\ Issue("finish")
    /\ lastFailed' = ~ExitZero(run.result)
    /\ UNCHANGED <<hostVars, avail, snapshot, rebootHint, managed, excluded, reboot>>

\* parsePendingPackages of whatever the playbook printed; an UPDATE, so that
\* it does nothing without a row.
SetPendingPackages ==
    /\ Issue("pending")
    /\ snapshot' = IF avail = "none" THEN snapshot ELSE run.pending
    /\ UNCHANGED <<hostVars, avail, rebootHint, managed, lastFailed, excluded, reboot>>

reconcileRebootRequired ==
    /\ Issue("reboot")
    /\ rebootHint' = run.marker
    /\ UNCHANGED <<hostVars, avail, snapshot, managed, lastFailed, excluded, reboot>>

\* Mutant: only the holds this apply added are recorded.
RecordHolds_added ==
    /\ Issue("holds")
    /\ managed' = run.excl \ run.known
    /\ UNCHANGED <<hostVars, avail, snapshot, rebootHint, lastFailed, excluded, reboot>>

RecordHolds ==
    /\ Issue("holds")
    /\ managed' = run.excl
    /\ UNCHANGED <<hostVars, avail, snapshot, rebootHint, lastFailed, excluded, reboot>>

\* A detected updater is upserted with its flag kept, another one removed.
ReconcileAvailability ==
    /\ Issue("availability")
    /\ avail' = IF ~run.detected THEN "none" ELSE IF avail = "none" THEN "on" ELSE avail
    /\ snapshot' = IF run.detected THEN snapshot ELSE {}
    /\ UNCHANGED <<hostVars, rebootHint, managed, lastFailed, excluded, reboot>>

\* A statement fails: it is logged, and the run goes on to the next.
StatementFails ==
    /\ \E stmt \in Stmts : Issue(stmt)
    /\ UNCHANGED <<hostVars, recordVars, excluded, reboot>>

-----------------------------------------------------------------------------
(* A schedule's reboot: the hint is read, the reboot playbook runs, and    *)
(* then the hint is cleared.                                               *)
RebootIfRequired ==
    /\ reboot = "idle" /\ rebootHint
    /\ reboot' = "play"
    /\ UNCHANGED <<hostVars, recordVars, excluded, run>>

RebootSucceeds ==
    /\ reboot = "play"
    /\ reboot' = "clear"
    /\ needsReboot' = FALSE
    /\ UNCHANGED <<present, upgradable, held, ours, recordVars, excluded, run>>

\* The playbook did not succeed, or the UPDATE that clears the hint failed.
RebootFails ==
    /\ reboot \in {"play", "clear"}
    /\ reboot' = "idle"
    /\ UNCHANGED <<hostVars, recordVars, excluded, run>>

ClearRebootRequired ==
    /\ reboot = "clear"
    /\ reboot' = "idle"
    /\ rebootHint' = FALSE
    /\ UNCHANGED <<hostVars, avail, snapshot, managed, lastFailed, excluded, run>>

(* The server dies and boots: the run is lost, and if its row was open it  *)
(* is stamped with exit 143.                                               *)
Restart ==
    /\ run # NoRun \/ reboot # "idle"
    /\ run' = NoRun /\ reboot' = "idle"
    /\ lastFailed' = \/ lastFailed
                     \/ run # NoRun /\ (run.todo = <<>> \/ Head(run.todo) = "finish")
    /\ UNCHANGED <<hostVars, avail, snapshot, rebootHint, managed, excluded>>

-----------------------------------------------------------------------------
Environment == \/ HostReinstalled \/ Reboots
               \/ \E p \in Packages : UpdatePublished(p) \/ AdminHolds(p) \/ AdminUnholds(p)

Operator == \/ \E p \in Packages : ToggleExclusion(p)
            \/ \E flag \in BOOLEAN : SetEnabled(flag)
            \/ \E u \in {"pkg", "os"} : Check(u)
            \/ Inspect \/ ApplyOS \/ Apply \/ ApplyUnresolved \/ Conflict

Playbook == \/ \E res \in {"unreachable", "refused", "error"} : NotReached(res)
            \/ ApplyFails \/ ApplySucceeds \/ CheckSucceeds
            \/ OSApplySucceeds \/ OSCheckSucceeds \/ InspectSucceeds

Recording == \/ FinishRun \/ SetPendingPackages \/ reconcileRebootRequired
             \/ RecordHolds \/ ReconcileAvailability \/ StatementFails

RebootStep == RebootIfRequired \/ RebootSucceeds \/ RebootFails \/ ClearRebootRequired

RecordsNext == Environment \/ Operator \/ Playbook \/ Recording \/ RebootStep \/ Restart

RecordsSpec == RecordsInit /\ [][RecordsNext]_allVars

-----------------------------------------------------------------------------
\* The host, its records and the run at work keep their types.
RecordsTypeOK ==
    /\ present \in BOOLEAN /\ needsReboot \in BOOLEAN
    /\ rebootHint \in BOOLEAN /\ lastFailed \in BOOLEAN
    /\ {upgradable, held, ours, snapshot, managed, excluded} \subseteq SUBSET Packages
    /\ avail \in {"none", "on", "off"}
    /\ reboot \in {"idle", "play", "clear"}
    /\ run \in {NoRun} \cup Run

(* An apply never upgrades a package of the exclusion list it was given,   *)
(* even if the administrator lifted the hold by hand since the last apply: *)
(* the diff is taken against the holds the host reports.                   *)
ExclusionsHonoured ==
    [][run # NoRun /\ run.kind = "apply" =>
          run.excl \cap upgradable \subseteq upgradable']_allVars
=============================================================================
