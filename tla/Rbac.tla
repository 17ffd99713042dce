-------------------------------- MODULE Rbac --------------------------------
(***************************************************************************)
(* The scope a request carries (internal/rbac/rbac.go) and the gates the   *)
(* handlers ask of it.  A scope is what remains of a user's assignments    *)
(* after NewScope: the highest global role and the highest role on each    *)
(* group.  An assignment whose group is NoGroup is a global one, and       *)
(* a system whose group is NoGroup is ungrouped.                           *)
(***************************************************************************)
EXTENDS Naturals

CONSTANTS Groups,   \* the ids of system groups
          NoGroup   \* the null group_id

Role == {"admin", "operator", "auditor"}

Assignment == [group : Groups \cup {NoGroup}, role : Role]

\* Role.rank: admin over operator over auditor over no role at all.
rank == [none |-> 0, auditor |-> 1, operator |-> 2, admin |-> 3]

Highest(roles) ==
    CHOOSE r \in roles \cup {"none"} : \A q \in roles : rank[q] <= rank[r]

NewScope(rows) ==
    LET RolesOn(g) == {a.role : a \in {b \in rows : b.group = g}}
    IN  [global |-> Highest(RolesOn(NoGroup)),
         group  |-> [g \in Groups |-> Highest(RolesOn(g))]]

IsGlobalAdmin(sc) == sc.global = "admin"

IsGlobalOperator(sc) == sc.global \in {"admin", "operator"}

IsGlobalAuditor(sc) == sc.global # "none"

CanAdminGroup(sc, g) == IsGlobalAdmin(sc) \/ sc.group[g] = "admin"

\* Gates on a system take the group_id of the row that was read, which may
\* be the null group: then only a global role opens them.
CanReadSystem(sc, g) ==
    \/ IsGlobalAuditor(sc)
    \/ g # NoGroup /\ sc.group[g] # "none"

CanDeleteSystem(sc, g) ==
    \/ IsGlobalAdmin(sc)
    \/ g # NoGroup /\ sc.group[g] = "admin"

CanEditSystem(sc, g) ==
    \/ IsGlobalOperator(sc)
    \/ g # NoGroup /\ sc.group[g] \in {"admin", "operator"}

CanMoveSystem(sc, from, to) ==
    \/ IsGlobalAdmin(sc)
    \/ /\ from # NoGroup /\ to # NoGroup
       /\ CanAdminGroup(sc, from) /\ CanAdminGroup(sc, to)

\* CanManageSystem of the host-key and credential handlers (main.go).
CanManageSystem(sc, g) == CanDeleteSystem(sc, g)
=============================================================================
