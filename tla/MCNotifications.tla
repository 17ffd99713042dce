--------------------------- MODULE MCNotifications ---------------------------
(***************************************************************************)
(* Model checking of Notifications: faults, edits and transitions are      *)
(* bounded, and what was announced and what was handed to the channels is  *)
(* remembered.                                                             *)
(***************************************************************************)
EXTENDS Notifications

CONSTANTS MaxTransitions,  \* bound on the transitions dispatched
          MaxDisturbances  \* bound on faults and edits together

VARIABLES faults,          \* crashes and failed statements so far
          edits,           \* edits of the rule and of the policy so far
          edited,          \* the rule has been disabled, enabled or deleted
          announced,       \* the kind of the last transition given to Emit
          clear,           \* when an evaluation last found the system healthy
          handed           \* the rows given to the channels so far

mcVars == <<vars, faults, edits, edited, announced, clear, handed>>

MCInit ==
    /\ Init
    /\ faults = 0 /\ edits = 0 /\ edited = FALSE
    /\ announced = [s \in Systems |-> "resolved"]
    /\ clear = [s \in Systems |-> 0]
    /\ handed = {}

\* The last of these transitions that is of this system.
LastIs(out, s, kind) == \E i \in 1..Len(out) :
                           /\ out[i] = Transition(s, kind)
                           /\ \A j \in i + 1..Len(out) : out[j].sys # s

LastKind(s) == IF LastIs(ev.out, s, "fired") THEN "fired"
               ELSE IF LastIs(ev.out, s, "resolved") THEN "resolved" ELSE announced[s]

MCNext ==
    /\ \/ (Evaluate \/ World \/ Dispatch \/ Flush) /\ UNCHANGED <<faults, edits, edited>>
       \/ Fault /\ faults' = faults + 1 /\ UNCHANGED <<edits, edited>>
       \/ EditRule /\ edits' = edits + 1 /\ edited' = TRUE /\ UNCHANGED faults
       \/ EditPolicy /\ edits' = edits + 1 /\ UNCHANGED <<faults, edited>>
    /\ faults' + edits' <= MaxDisturbances
    /\ emitted' <= MaxTransitions
    /\ handed' = handed \cup (sends' \ sends)
    /\ announced' = IF At("reconcile") /\ At("emit")'
                    THEN [s \in Systems |-> LastKind(s)] ELSE announced
    /\ clear' = IF At("load") /\ At("reconcile")'
                THEN [s \in Systems |-> IF s \in breach THEN clear[s] ELSE ev.at] ELSE clear

\* The flusher runs every minute, and each of its rounds to the end.
Fairness == /\ WF_mcVars(FlushPending /\ MCNext)
            /\ WF_mcVars((Governing \/ DeletePending \/ \E s \in Systems : FlushGroup(s)) /\ MCNext)

MCSpec == MCInit /\ [][MCNext]_mcVars
FairSpec == MCSpec /\ Fairness

(* An alert fires only when every evaluation of the last For ticks found   *)
(* the system in breach: a pending instance must not outlive a recovery    *)
(* and fire at once when the breach comes back, also when the rule is      *)
(* edited in between.  A failed statement or a crash may leave it behind.  *)
FiresOnlyAfterFor ==
    [][\A s \in Systems :
          (faults = 0 /\ PutInstance(s) /\ Fires(ev.seen[s])) => clear[s] + For <= ev.at]_mcVars

(* Between evaluations the channels have been told what the table says: a  *)
(* system has a firing instance exactly when the last transition given to  *)
(* the dispatcher for it was "fired".  Failures and edits of the rule lose *)
(* transitions.                                                            *)
AnnouncedMatchesInstances ==
    (ev = None /\ faults = 0 /\ ~edited) =>
        \A s \in Systems : (inst[s] # None /\ inst[s].state = "firing") <=> announced[s] = "fired"

(* Without a crash or a failed DELETE a deferred or immediate message is   *)
(* handed to the channels once only, however evaluator and flusher         *)
(* interleave.                                                             *)
HandedOnce == [][faults = 0 => handed \cap (sends' \ sends) = {}]_mcVars

(* Once quiet hours are over a deferred row does not stay in the table,    *)
(* sent or dropped (flusher.go: "Processed rows are removed whether        *)
(* delivered or dropped").                                                 *)
PendingIsReleased ==
    \A n \in 1..MaxTransitions :
        (\E m \in pending : m.n = n) ~> (quiet \/ \A m \in pending : m.n # n)

(* Instances, announcements and deferred rows have their types and agree.  *)
AlertingInv == TypeOK /\ AnnouncedMatchesInstances

(* A deferred row is handled exactly once: not deleted before the flusher  *)
(* has dealt with it, and not handed to the channels again.                *)
DeferredRowsHandledOnce == DeferredRowsAreProcessed /\ HandedOnce
=============================================================================
