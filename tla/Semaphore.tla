----------------------------- MODULE Semaphore -----------------------------
(***************************************************************************)
(* What internal/updaters.Gate promises its caller, and nothing of how: a  *)
(* set of admitted callers that grows only while it is below the ceiling   *)
(* in force.  Lowering the ceiling evicts nobody.                          *)
(***************************************************************************)
EXTENDS Integers, FiniteSets

CONSTANTS Callers,      \* the goroutines that may ask for a slot
          Ceilings      \* the ceilings an operator can put in force

VARIABLES inside,       \* callers that own a slot
          ceiling       \* the ceiling in force

svars == <<inside, ceiling>>

Init == inside = {} /\ ceiling \in Ceilings

\* At most one caller leaves, and any number enter, never past the ceiling.
Move == /\ inside' \in SUBSET Callers
        /\ Cardinality(inside \ inside') <= 1
        /\ inside' \subseteq inside \/ Cardinality(inside') <= ceiling
        /\ UNCHANGED ceiling

Retune == ceiling' \in Ceilings /\ UNCHANGED inside

Next == Move \/ Retune

Spec == Init /\ [][Next]_svars
=============================================================================
