------------------------------- MODULE MCVault -------------------------------
(* One user, two keys and a boot that may die; two administrators' requests *)
(* and one run's resolution over one group and one system.  Each edit of a  *)
(* slot touches one field, or both for the one that could leave it empty.   *)
EXTENDS SealedStores

MCEdits == {[user |-> "set", key |-> "keep"], [user |-> "keep", key |-> "new"],
            [user |-> "clear", key |-> "keep"], [user |-> "keep", key |-> "clear"]}

(* Either secrets to migrate and rotate with one request, or no TOTP yet   *)
(* and all of the bound for requests.                                      *)
MCInit ==
    /\ Init
    /\ \/ crashes = 0 /\ writes = MaxWrites - 1 /\ \A c \in Chans : chans[c] = NoRow
       \/ /\ crashes = MaxCrashes /\ writes = 0 /\ ~kek
          /\ \A u \in Users, c \in Columns : totp[u][c] = "none"
MCSpec == MCInit /\ [][Next]_vars /\ VaultFairness
==============================================================================
