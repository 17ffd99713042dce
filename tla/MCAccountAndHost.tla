-------------------------- MODULE MCAccountAndHost --------------------------
(* What is kept of one account's second factor, and of the packages of one *)
(* host.  The two share nothing: a behaviour runs one of them.             *)
EXTENDS MCSecondFactor, MCHostRecords

VARIABLE part   \* the one that runs

PartInit == part \in {"account", "host"} /\ MCInit /\ HistInit
PartNext ==
    /\ \/ part = "account" /\ MCNext /\ UNCHANGED histVars
       \/ part = "host" /\ HistNext /\ UNCHANGED mcVars
    /\ UNCHANGED part
PartSpec == PartInit /\ [][PartNext]_<<part, mcVars, histVars>>
=============================================================================
