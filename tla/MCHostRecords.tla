--------------------------- MODULE MCHostRecords ---------------------------
(* HostRecords with the history variables its properties speak of.         *)
EXTENDS HostRecords

VARIABLES everExcluded,   \* packages that were excluded at some time
          interrupted     \* an apply was not told the known holds, or did
                          \* not run to a recorded success

histVars == <<present, upgradable, held, needsReboot, ours, avail, snapshot,
            rebootHint, managed, lastFailed, excluded, run, reboot,
            everExcluded, interrupted>>

HistInit == RecordsInit /\ everExcluded = {} /\ interrupted = FALSE

ApplyInterrupted ==
    \/ /\ run # NoRun /\ run.kind = "apply" /\ run.updater = "pkg" /\ run' = NoRun
       /\ run.result # "success" \/ StatementFails \/ Restart
    \/ /\ run = NoRun /\ run' # NoRun /\ run'.kind = "apply" /\ run'.updater = "pkg"
       /\ run'.known # managed

HistNext == /\ RecordsNext
            /\ everExcluded' = everExcluded \cup excluded'
            /\ interrupted' = (interrupted \/ ApplyInterrupted)

HistSpec == HistInit /\ [][HistNext]_histVars

(* A hold the administrator placed on a package nobody ever excluded is    *)
(* never lifted by a playbook (holds.go:9-11).                             *)
ForeignHoldsSurvive ==
    [][\A p \in Packages :
          (p \in held \ held' /\ run' # run) => p \in everExcluded]_histVars

(* As long as every apply runs to a recorded success, managed_holds lists  *)
(* every hold the server has on the host, so that removing an exclusion    *)
(* later finds the hold to undo (runner.go:86-91).                         *)
OurHoldsAreManaged ==
    (~interrupted /\ run = NoRun) => ours \subseteq managed

(* The records have their types and account for the server's own holds.    *)
RecordsInv == RecordsTypeOK /\ OurHoldsAreManaged
=============================================================================
