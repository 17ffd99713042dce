------------------------------ MODULE Inventory ------------------------------
(***************************************************************************)
(* The fleet: managed systems, their groups, labels, host keys and package *)
(* exclusions, as the HTTP handlers of internal/systems, groups, labels,   *)
(* hostkeys and exclusions change them.  A handler reads a row, asks a     *)
(* gate, and writes in a later statement; the database serialises          *)
(* statements and transactions, not handlers, so every handler that reads  *)
(* before it writes is a Read and a Write action with its request in       *)
(* between.  A row that a handler reads and that cannot change afterwards  *)
(* is read in the same step as the write.                                  *)
(*                                                                         *)
(* Ids are never reused: used remembers them.  Audit rows are not kept.    *)
(***************************************************************************)
EXTENDS Rbac, FiniteSets

CONSTANTS
    Systems,        \* ids of hosts rows
    Clients,        \* users with a request at the API
    Assignments,    \* Assignments[c]: the role rows of client c
    Names,          \* group names
    LabelKeys,      \* label keys outside the reserved prefix
    Fingerprints,   \* host keys a host may offer (one algorithm)
    Rules,          \* exclusion rules that requests name
    NoRow,          \* an absent row, name or label
    MaxStimuli      \* bound on started

Status == {"unprobed", "reachable", "unreachable"}

\* A hosts row: group_id, is_windows and the reachability columns.
Host == [group : Groups \cup {NoGroup}, windows : BOOLEAN,
         status : Status, failures : Nat, successes : Nat]

\* A package_exclusions row.  target is NoRow for the global scope; a rule is
\* told apart from the others at its layer by its pattern, and one pattern
\* is enough here.
Exclusion == [scope : {"global"}, target : {NoRow}]
             \cup [scope : {"group"}, target : Groups]
             \cup [scope : {"system"}, target : Systems]

ASSUME InventoryAssumption ==
    /\ Assignments \in [Clients -> SUBSET Assignment]
    /\ {} \notin {Systems, Groups, Names, Fingerprints}
    /\ NoRow \notin Names \cup Fingerprints \cup Host
    /\ NoGroup \notin Groups
    /\ Rules \subseteq Exclusion
    /\ MaxStimuli \in Nat

VARIABLES
    hosts,       \* hosts[s]: the row of system s, or NoRow
    groups,      \* groups[g]: the name of group g, or NoRow
    used,        \* ids that exist or once existed
    labels,      \* the system_labels rows: <<system, key>>
    hostKeys,    \* the system_host_keys rows
    keysMade,    \* host-key ids handed out so far
    exclusions,  \* the package_exclusions rows
    reviewed,    \* observer: <<system, fingerprint>> an operator accepted
    raced,       \* observer: key ids accepted under a write of a scan
    req,         \* req[c]: the request of client c
    started      \* stimuli so far: requests and what a composition adds

fleet == <<hosts, groups, used, labels>>
keyTable == <<hostKeys, keysMade, reviewed, raced>>
inventoryVars == <<fleet, keyTable, exclusions, req, started>>

-----------------------------------------------------------------------------
\* Rows

NewHost == [group |-> NoGroup, windows |-> FALSE, status |-> "unprobed",
            failures |-> 0, successes |-> 0]

HostKey == [id : Nat, sys : Systems, state : {"pending", "accepted"},
            fp : Fingerprints]

Live == {s \in Systems : hosts[s] # NoRow}
LiveGroups == {g \in Groups : groups[g] # NoRow}

Scopes == [c \in Clients |-> NewScope(Assignments[c])]

scope(c) == Scopes[c]

-----------------------------------------------------------------------------
\* Requests

Idle == [op |-> "idle"]

\* The row is committed; the handler still has to tell the hub (OnCreate,
\* OnDelete or fireChange), and after a create to trigger the prober.
Announcing(trigger) == [op |-> "announce", trigger |-> trigger]

Request ==
    {Idle}
    \cup [op : {"announce"}, trigger : BOOLEAN]
    \cup [op : {"delete", "platform"}, sys : Systems]
    \cup [op : {"move", "moveCheck"}, sys : Systems,
          group : Groups \cup {NoGroup}]
    \cup [op : {"setLabel", "deleteLabel"}, sys : Systems, key : LabelKeys]
    \cup [op : {"exclude"}, rule : Exclusion]
    \cup [op : {"recordPending"}, sys : Systems, fp : Fingerprints,
          id : Nat]
    \cup [op : {"deleteKey"}, id : Nat]

Start(c, r) ==
    /\ req[c] = Idle
    /\ started < MaxStimuli
    /\ started' = started + 1
    /\ req' = [req EXCEPT ![c] = r]

Finish(c, r) ==
    /\ req' = [req EXCEPT ![c] = r]
    /\ UNCHANGED started

-----------------------------------------------------------------------------
\* Systems (internal/systems/handler.go)

CreateSystem(c, s) ==
    /\ IsGlobalAdmin(scope(c))
    /\ s \notin used
    /\ hosts' = [hosts EXCEPT ![s] = NewHost]
    /\ used' = used \cup {s}
    /\ Start(c, Announcing(TRUE))
    /\ UNCHANGED <<groups, labels, keyTable, exclusions>>

\* The lookup that opens most handlers: a system the caller may not read
\* answers 404 like one that does not exist.
GetVisible(c, s) == s \in Live /\ CanReadSystem(scope(c), hosts[s].group)

DeleteSystemRead(c, s) ==
    /\ GetVisible(c, s)
    /\ CanDeleteSystem(scope(c), hosts[s].group)
    /\ Start(c, [op |-> "delete", sys |-> s])
    /\ UNCHANGED <<fleet, keyTable, exclusions>>

\* DELETE FROM hosts; labels and host keys go with the row (ON DELETE
\* CASCADE), exclusions do not.
DeleteSystemWrite(c) ==
    /\ req[c].op = "delete"
    /\ LET s == req[c].sys IN
       /\ hosts' = [hosts EXCEPT ![s] = NoRow]
       /\ labels' = {l \in labels : l[1] # s}
       /\ hostKeys' = {k \in hostKeys : k.sys # s}
       /\ Finish(c, IF s \in Live THEN Announcing(FALSE) ELSE Idle)
    /\ UNCHANGED <<groups, used, keysMade, reviewed, raced, exclusions>>

SetPlatformRead(c, s) ==
    /\ GetVisible(c, s)
    /\ CanEditSystem(scope(c), hosts[s].group)
    /\ Start(c, [op |-> "platform", sys |-> s])
    /\ UNCHANGED <<fleet, keyTable, exclusions>>

\* An UPDATE of a row that is gone changes nothing (404), and no event
\* follows either way.
SetPlatformWrite(c) ==
    /\ req[c].op = "platform"
    /\ LET s == req[c].sys IN
       \E w \in BOOLEAN :
          hosts' = IF s \in Live THEN [hosts EXCEPT ![s].windows = w]
                                 ELSE hosts
    /\ Finish(c, Idle)
    /\ UNCHANGED <<groups, used, labels, keyTable, exclusions>>

-----------------------------------------------------------------------------
\* Groups (internal/groups/handler.go)

NameTaken(n, except) == \E g \in LiveGroups \ {except} : groups[g] = n

CreateGroup(c, g, n) ==
    /\ IsGlobalAdmin(scope(c))
    /\ g \notin used
    /\ ~NameTaken(n, g)
    /\ groups' = [groups EXCEPT ![g] = n]
    /\ used' = used \cup {g}
    /\ Start(c, Announcing(FALSE))
    /\ UNCHANGED <<hosts, labels, keyTable, exclusions>>

RenameGroup(c, g, n) ==
    /\ IsGlobalAdmin(scope(c))
    /\ g \in LiveGroups
    /\ ~NameTaken(n, g)
    /\ groups' = [groups EXCEPT ![g] = n]
    /\ Start(c, Announcing(FALSE))
    /\ UNCHANGED <<hosts, used, labels, keyTable, exclusions>>

ClearGroup(g) ==
    [s \in Systems |->
       IF s \in Live /\ hosts[s].group = g
       THEN [hosts[s] EXCEPT !.group = NoGroup] ELSE hosts[s]]

\* One transaction: the members are ungrouped and the group is deleted.
DeleteGroup(c, g) ==
    /\ IsGlobalAdmin(scope(c))
    /\ g \in LiveGroups
    /\ hosts' = ClearGroup(g)
    /\ groups' = [groups EXCEPT ![g] = NoRow]
    /\ Start(c, Announcing(FALSE))
    /\ UNCHANGED <<used, labels, keyTable, exclusions>>

\* setSystemGroup: the system is read and the move is authorised against
\* the group it is in; the target group is looked up next; the UPDATE of
\* group_id is a third statement and checks neither again.
MoveRead(c, s, g) ==
    /\ s \in Live
    /\ CanMoveSystem(scope(c), hosts[s].group, g)
    /\ Start(c, [op |-> IF g = NoGroup THEN "move" ELSE "moveCheck",
                 sys |-> s, group |-> g])
    /\ UNCHANGED <<fleet, keyTable, exclusions>>

MoveCheck(c) ==
    /\ req[c].op = "moveCheck"
    /\ Finish(c, IF req[c].group \in LiveGroups
                 THEN [req[c] EXCEPT !.op = "move"] ELSE Idle)
    /\ UNCHANGED <<fleet, keyTable, exclusions>>

MoveWrite(c) ==
    /\ req[c].op = "move"
    /\ LET s == req[c].sys IN
       /\ hosts' = IF s \in Live
                   THEN [hosts EXCEPT ![s].group = req[c].group] ELSE hosts
       /\ Finish(c, IF s \in Live THEN Announcing(FALSE) ELSE Idle)
    /\ UNCHANGED <<groups, used, labels, keyTable, exclusions>>

-----------------------------------------------------------------------------
\* Labels (internal/labels/handler.go)

LabelRead(c, op, s, k) ==
    /\ GetVisible(c, s)
    /\ CanEditSystem(scope(c), hosts[s].group)
    /\ Start(c, [op |-> op, sys |-> s, key |-> k])
    /\ UNCHANGED <<fleet, keyTable, exclusions>>

\* The upsert fails on the foreign key when the system is gone.
SetLabel(c) ==
    /\ req[c].op = "setLabel"
    /\ LET ok == req[c].sys \in Live IN
       /\ labels' = IF ok THEN labels \cup {<<req[c].sys, req[c].key>>}
                    ELSE labels
       /\ Finish(c, IF ok THEN Announcing(FALSE) ELSE Idle)
    /\ UNCHANGED <<hosts, groups, used, keyTable, exclusions>>

DeleteLabel(c) ==
    /\ req[c].op = "deleteLabel"
    /\ LET row == <<req[c].sys, req[c].key>> IN
       /\ labels' = labels \ {row}
       /\ Finish(c, IF row \in labels THEN Announcing(FALSE) ELSE Idle)
    /\ UNCHANGED <<hosts, groups, used, keyTable, exclusions>>

-----------------------------------------------------------------------------
\* Package exclusions (internal/exclusions/handler.go)

\* CanManageGlobal, CanManageGroup and CanManageSystem of the exclusions
\* handler.  Only the last one reads a row, and only for callers without a
\* global role: a rule may name a group or a system that does not exist.
MayExclude(c, e) ==
    CASE e.scope = "global" -> IsGlobalAdmin(scope(c))
      [] e.scope = "group"  -> CanAdminGroup(scope(c), e.target)
      [] e.scope = "system" ->
            \/ IsGlobalOperator(scope(c))
            \/ e.target \in Live /\ CanEditSystem(scope(c),
                                                  hosts[e.target].group)

ExcludeRead(c, e) ==
    /\ MayExclude(c, e)
    /\ Start(c, [op |-> "exclude", rule |-> e])
    /\ UNCHANGED <<fleet, keyTable, exclusions>>

\* A duplicate is refused by the UNIQUE constraint: the set does not change.
ExcludeWrite(c) ==
    /\ req[c].op = "exclude"
    /\ exclusions' = exclusions \cup {req[c].rule}
    /\ Finish(c, Idle)
    /\ UNCHANGED <<fleet, keyTable>>

\* The row is found by id and compared with the route's scope and target;
\* rows never change, so the lookup and the delete are one step.
DeleteExclusion(c, e) ==
    /\ MayExclude(c, e)
    /\ e \in exclusions
    /\ exclusions' = exclusions \ {e}
    /\ Start(c, Idle)
    /\ UNCHANGED <<fleet, keyTable>>

\* resolveRaw: the rules a run on system s honours, for one updater.
ResolveForSystem(s) ==
    {e \in exclusions :
        \/ e.scope = "global"
        \/ e.scope = "system" /\ e.target = s
        \/ e.scope = "group" /\ s \in Live /\ e.target = hosts[s].group}

-----------------------------------------------------------------------------
\* Host keys (internal/hostkeys)

KeyRows(s, state) == {k \in hostKeys : k.sys = s /\ k.state = state}

\* scan, after ssh-keyscan has offered fp: RecordPending looks for the
\* pending row.  The same fingerprint again leaves the row alone.
ScanFind(c, s, fp) ==
    /\ s \in Live
    /\ CanManageSystem(scope(c), hosts[s].group)
    /\ LET found == KeyRows(s, "pending") IN
       Start(c, IF \E k \in found : k.fp = fp THEN Idle
                ELSE [op |-> "recordPending", sys |-> s, fp |-> fp,
                      id |-> IF found = {} THEN 0
                             ELSE (CHOOSE k \in found : TRUE).id])
    /\ UNCHANGED <<fleet, keyTable, exclusions>>

\* RecordPending's write.  Nothing found: an INSERT, refused when the system
\* is gone (foreign key) or a pending row has appeared (UNIQUE).  A row
\* found: an UPDATE of the row with that id, whatever its state is now.
RecordPending(c) ==
    /\ req[c].op = "recordPending"
    /\ LET s == req[c].sys
           fp == req[c].fp
           id == req[c].id
           insert == id = 0 /\ s \in Live /\ KeyRows(s, "pending") = {}
       IN
       /\ hostKeys' =
            IF insert
            THEN hostKeys \cup {[id |-> keysMade + 1, sys |-> s,
                                 state |-> "pending", fp |-> fp]}
            ELSE {IF k.id = id THEN [k EXCEPT !.fp = fp] ELSE k :
                    k \in hostKeys}
       /\ keysMade' = IF insert THEN keysMade + 1 ELSE keysMade
    /\ Finish(c, Idle)
    /\ UNCHANGED <<fleet, reviewed, raced, exclusions>>

\* Mutant: the pending row is promoted without comparing its fingerprint.
AcceptKey_staleBanner(c, s, fp) ==
    /\ s \in Live
    /\ CanManageSystem(scope(c), hosts[s].group)
    /\ \E k \in KeyRows(s, "pending") :
         hostKeys' = (hostKeys \ ({k} \cup KeyRows(s, "accepted")))
                     \cup {[k EXCEPT !.state = "accepted"]}
    /\ reviewed' = reviewed \cup {<<s, fp>>}
    /\ Start(c, Idle)
    /\ UNCHANGED <<fleet, keysMade, raced, exclusions>>

\* accept: one transaction checks that the pending row still shows the
\* fingerprint the operator reviewed, drops the accepted row of the
\* algorithm and promotes the pending one, which keeps its id.
AcceptKey(c, s, fp) ==
    /\ s \in Live
    /\ CanManageSystem(scope(c), hosts[s].group)
    /\ \E k \in KeyRows(s, "pending") :
         /\ k.fp = fp
         /\ hostKeys' = (hostKeys \ ({k} \cup KeyRows(s, "accepted")))
                        \cup {[k EXCEPT !.state = "accepted"]}
         /\ raced' = raced \cup
              {k.id : d \in {e \in Clients : /\ req[e].op = "recordPending"
                                             /\ req[e].id = k.id}}
    /\ reviewed' = reviewed \cup {<<s, fp>>}
    /\ Start(c, Idle)
    /\ UNCHANGED <<fleet, keysMade, exclusions>>

DeleteKeyRead(c, k) ==
    /\ k.sys \in Live
    /\ CanManageSystem(scope(c), hosts[k.sys].group)
    /\ Start(c, [op |-> "deleteKey", id |-> k.id])
    /\ UNCHANGED <<fleet, keyTable, exclusions>>

DeleteKeyWrite(c) ==
    /\ req[c].op = "deleteKey"
    /\ hostKeys' = {k \in hostKeys : k.id # req[c].id}
    /\ Finish(c, Idle)
    /\ UNCHANGED <<fleet, keysMade, reviewed, raced, exclusions>>

-----------------------------------------------------------------------------

InventoryTypeOK ==
    /\ hosts \in [Systems -> Host \cup {NoRow}]
    /\ groups \in [Groups -> Names \cup {NoRow}]
    /\ used \subseteq Systems \cup Groups
    /\ labels \subseteq Systems \X LabelKeys
    /\ hostKeys \subseteq HostKey
    /\ keysMade \in Nat
    /\ exclusions \subseteq Exclusion
    /\ reviewed \subseteq Systems \X Fingerprints
    /\ raced \subseteq 1 .. keysMade
    /\ req \in [Clients -> Request]
    /\ started \in 0 .. MaxStimuli

\* An install with one group and one system, in the group or in none, whose
\* first host key waits for review; a second system and a second group are
\* still to be created.
InventoryInit ==
    LET s == CHOOSE t \in Systems : TRUE
        g == CHOOSE h \in Groups : TRUE
    IN
    /\ \E member \in BOOLEAN :
         hosts = [t \in Systems |->
                    IF t # s THEN NoRow
                    ELSE [NewHost EXCEPT
                            !.group = IF member THEN g ELSE NoGroup]]
    /\ groups = [h \in Groups |-> IF h = g THEN CHOOSE n \in Names : TRUE
                                  ELSE NoRow]
    /\ used = {s, g}
    /\ labels = {}
    /\ hostKeys = {[id |-> 1, sys |-> s, state |-> "pending",
                    fp |-> CHOOSE f \in Fingerprints : TRUE]}
    /\ keysMade = 1
    /\ exclusions = {} /\ reviewed = {} /\ raced = {}
    /\ req = [c \in Clients |-> Idle]
    /\ started = 0
=============================================================================
