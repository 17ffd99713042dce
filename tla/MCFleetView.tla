----------------------------- MODULE MCFleetView -----------------------------
EXTENDS FleetView

CONSTANTS s1, s2, g1, g2, ann, bob, n1, k1, f1, f2

\* ann is a global admin; bob, who watches, administers g1 only.
MCAssignments ==
    [c \in Clients |->
       IF c = ann THEN {[group |-> NoGroup, role |-> "admin"]}
       ELSE {[group |-> g1, role |-> "auditor"],
             [group |-> g1, role |-> "admin"]}]

\* One rule per layer.
MCRules == {[scope |-> "global", target |-> NoRow],
            [scope |-> "group", target |-> g1],
            [scope |-> "system", target |-> s1]}
=============================================================================
