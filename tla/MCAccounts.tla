---------------------------- MODULE MCAccounts ----------------------------
(* Accounts, with symmetric users, sessions and requests, where one of the *)
(* sessions at most expires.                                               *)
EXTENDS Accounts, TLC

MCNext == Next /\ Cardinality(expired') <= 1
MCSpec == Init /\ [][MCNext]_vars

Symmetry == Permutations(Users) \cup Permutations(Sids) \cup Permutations(Requests)
=============================================================================
