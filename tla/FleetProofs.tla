----------------------------- MODULE FleetProofs -----------------------------
(***************************************************************************)
(* The fleet, for any systems, users and roles, any thresholds and any     *)
(* buffer: what runs trust was reviewed, nothing outlives its system, the  *)
(* status column is what the probes say, and a tab that shows old rows     *)
(* will be told.  And what is recorded of one of its hosts, for any set of *)
(* packages: managed_holds accounts for the holds the server has there, no *)
(* playbook lifts the administrator's own, and no apply upgrades what it   *)
(* was told to leave alone.                                                *)
(*                                                                         *)
(* None of the fleet's four is inductive.  The first needs the identity of *)
(* host keys across the two statements of a scan (Keys below), the status  *)
(* needs the counters to be the lengths of the latest runs of equal        *)
(* results (Streaks), and the tab needs to know when it is subscribed.     *)
(* The record of our holds is behind the host while an apply is under way, *)
(* so its invariant says, place by place, what stands in for it: before    *)
(* the playbook the list the apply was given, after it the exclusions that *)
(* it is about to write.                                                   *)
(***************************************************************************)
EXTENDS FleetView, MCHostRecords, SequenceTheorems, FiniteSetTheorems, WellFoundedInduction, TLAPS

\* A host key is known by its id; what a scan is about to rewrite was made
\* before, and if it was accepted in the meantime, that was noticed.
KeysHaveIds == \A k \in hostKeys : k.id \in 1 .. keysMade
KeysAreDistinct == \A k, l \in hostKeys : k.id = l.id => k = l
ScansKnowTheirRow ==
    \A c \in Clients : req[c].op = "recordPending" =>
        /\ req[c].id \in 0 .. keysMade
        /\ \A k \in hostKeys : (k.id = req[c].id /\ k.state = "accepted") => k.id \in raced
Keys == KeysHaveIds /\ KeysAreDistinct /\ ScansKnowTheirRow /\ TrustedKeysWereReviewed

\* The counters of a row are the lengths of the latest runs of successes and
\* of failures among the results stored.
Counted(h, l) ==
    /\ h.successes \in 0 .. Len(l) /\ h.failures \in 0 .. Len(l)
    /\ \A j \in 1 .. Len(l) : /\ j > Len(l) - h.successes => l[j].ok
                              /\ j > Len(l) - h.failures => ~l[j].ok
    /\ h.successes < Len(l) => ~l[Len(l) - h.successes].ok
    /\ h.failures < Len(l) => l[Len(l) - h.failures].ok
Streaks == \A s \in Live : Counted(hosts[s], history[s])

\* An id that was never given out has neither a row nor results.
UnusedIsFresh == \A s \in Systems \ used : hosts[s] = NoRow /\ history[s] = <<>>

SyncedIsSubscribed == synced => stream = "live"

IInv == /\ TypeOK /\ NoOrphanedRows /\ Keys
        /\ Streaks /\ StatusFollowsProbes /\ UnusedIsFresh
        /\ SyncedIsSubscribed /\ StaleTabWillBeTold

-----------------------------------------------------------------------------
\* Requests

\* A request is taken up, or goes on to its next statement.
LEMMA RequestChanges ==
    ASSUME InventoryTypeOK, NEW c \in Clients, NEW r \in Request,
           Start(c, r) \/ Finish(c, r)
    PROVE  /\ req' \in [Clients -> Request]
           /\ started' \in 0 .. MaxStimuli
           /\ \A d \in Clients : req'[d] = IF d = c THEN r ELSE req[d]
BY InventoryAssumption DEF Start, Finish, InventoryTypeOK

LEMMA NewRequests ==
    /\ Idle \in Request /\ Idle.op = "idle"
    /\ \A t \in BOOLEAN : Announcing(t) \in Request /\ Announcing(t).op = "announce"
    /\ \A s \in Systems :
         /\ [op |-> "delete", sys |-> s] \in Request
         /\ [op |-> "platform", sys |-> s] \in Request
         /\ \A g \in Groups \cup {NoGroup} :
              /\ [op |-> "move", sys |-> s, group |-> g] \in Request
              /\ [op |-> "moveCheck", sys |-> s, group |-> g] \in Request
         /\ \A k \in LabelKeys, op \in {"setLabel", "deleteLabel"} :
              [op |-> op, sys |-> s, key |-> k] \in Request
         /\ \A fp \in Fingerprints, id \in Nat :
              [op |-> "recordPending", sys |-> s, fp |-> fp, id |-> id] \in Request
    /\ \A e \in Exclusion : [op |-> "exclude", rule |-> e] \in Request
    /\ \A id \in Nat : [op |-> "deleteKey", id |-> id] \in Request
BY DEF Request, Idle, Announcing

\* What a request in progress carries.
LEMMA RequestFields ==
    ASSUME NEW r \in Request
    PROVE  /\ r.op \in {"delete", "platform", "move", "moveCheck", "setLabel",
                        "deleteLabel", "recordPending"} => r.sys \in Systems
           /\ r.op \in {"move", "moveCheck"} => r.group \in Groups \cup {NoGroup}
           /\ r.op = "moveCheck" => r = [op |-> "moveCheck", sys |-> r.sys, group |-> r.group]
           /\ r.op \in {"setLabel", "deleteLabel"} => r.key \in LabelKeys
           /\ r.op = "exclude" => r.rule \in Exclusion
           /\ r.op = "recordPending" => r.fp \in Fingerprints /\ r.id \in Nat
           /\ r.op = "deleteKey" => r.id \in Nat
BY DEF Request, Idle

\* The statements that only read, and the request they leave behind.
Reads(c) ==
    \/ \E s \in Systems :
         \/ DeleteSystemRead(c, s) \/ SetPlatformRead(c, s)
         \/ \E g \in Groups \cup {NoGroup} : MoveRead(c, s, g)
         \/ \E k \in LabelKeys, op \in {"setLabel", "deleteLabel"} : LabelRead(c, op, s, k)
         \/ \E fp \in Fingerprints : ScanFind(c, s, fp)
    \/ \E e \in Rules : ExcludeRead(c, e)
    \/ \E k \in hostKeys : DeleteKeyRead(c, k)
    \/ MoveCheck(c)

\* A key row that a scan has found, still pending, or none.
Findable(id) == id = 0 \/ \E k \in hostKeys : k.id = id /\ k.state = "pending"

LEMMA ReadsOnlyRead ==
    ASSUME InventoryTypeOK, NEW c \in Clients, Reads(c)
    PROVE  /\ UNCHANGED <<fleet, keyTable, exclusions>>
           /\ \E r \in Request :
                /\ Start(c, r) \/ Finish(c, r)
                /\ req[c].op # "announce"
                /\ r.op # "announce"
                /\ r.op = "recordPending" => Findable(r.id)
<1> DEFINE Leaves(r) == /\ Start(c, r) \/ Finish(c, r)
                        /\ req[c].op # "announce" /\ r.op # "announce"
                        /\ r.op = "recordPending" => Findable(r.id)
<1>0. ASSUME NEW r, Start(c, r) PROVE req[c].op # "announce"
  BY <1>0, NewRequests DEF Start
<1>1. ASSUME NEW s \in Systems, DeleteSystemRead(c, s) \/ SetPlatformRead(c, s)
      PROVE  UNCHANGED <<fleet, keyTable, exclusions>> /\ \E r \in Request : Leaves(r)
  BY <1>0, <1>1, NewRequests DEF DeleteSystemRead, SetPlatformRead
<1>2. ASSUME NEW s \in Systems, NEW g \in Groups \cup {NoGroup}, MoveRead(c, s, g)
      PROVE  UNCHANGED <<fleet, keyTable, exclusions>> /\ \E r \in Request : Leaves(r)
  <2> DEFINE r == [op |-> IF g = NoGroup THEN "move" ELSE "moveCheck", sys |-> s, group |-> g]
  <2>1. r \in Request /\ r.op \notin {"announce", "recordPending"}  BY NewRequests
  <2>2. UNCHANGED <<fleet, keyTable, exclusions>> /\ Start(c, r)  BY <1>2 DEF MoveRead
  <2> QED  BY <1>0, <2>1, <2>2
<1>3. ASSUME NEW s \in Systems, NEW k \in LabelKeys, NEW op \in {"setLabel", "deleteLabel"},
             LabelRead(c, op, s, k)
      PROVE  UNCHANGED <<fleet, keyTable, exclusions>> /\ \E r \in Request : Leaves(r)
  <2> DEFINE r == [op |-> op, sys |-> s, key |-> k]
  <2>1. r \in Request /\ r.op \notin {"announce", "recordPending"}  BY NewRequests
  <2>2. UNCHANGED <<fleet, keyTable, exclusions>> /\ Start(c, r)  BY <1>3 DEF LabelRead
  <2> QED  BY <1>0, <2>1, <2>2
<1>4. ASSUME NEW s \in Systems, NEW fp \in Fingerprints, ScanFind(c, s, fp)
      PROVE  UNCHANGED <<fleet, keyTable, exclusions>> /\ \E r \in Request : Leaves(r)
  <2> DEFINE found == KeyRows(s, "pending")
             id == IF found = {} THEN 0 ELSE (CHOOSE k \in found : TRUE).id
             r == IF \E k \in found : k.fp = fp THEN Idle
                  ELSE [op |-> "recordPending", sys |-> s, fp |-> fp, id |-> id]
  <2>1. id \in Nat /\ Findable(id)
    <3>1. found \subseteq hostKeys /\ \A k \in found : k.id \in Nat /\ k.state = "pending"
      BY DEF KeyRows, InventoryTypeOK, HostKey
    <3> QED  BY <3>1 DEF Findable
  <2> HIDE DEF id
  <2>2. r \in Request /\ r.op # "announce" /\ (r.op = "recordPending" => Findable(r.id))
    BY <2>1, NewRequests
  <2>3. UNCHANGED <<fleet, keyTable, exclusions>> /\ Start(c, r)  BY <1>4 DEF ScanFind, id
  <2> HIDE DEF r
  <2> QED  BY <1>0, <2>2, <2>3
<1>5. ASSUME NEW e \in Rules, ExcludeRead(c, e)
      PROVE  UNCHANGED <<fleet, keyTable, exclusions>> /\ \E r \in Request : Leaves(r)
  <2> DEFINE r == [op |-> "exclude", rule |-> e]
  <2>1. r \in Request /\ r.op \notin {"announce", "recordPending"}
    BY NewRequests, InventoryAssumption
  <2>2. UNCHANGED <<fleet, keyTable, exclusions>> /\ Start(c, r)  BY <1>5 DEF ExcludeRead
  <2> QED  BY <1>0, <2>1, <2>2
<1>6. ASSUME NEW k \in hostKeys, DeleteKeyRead(c, k)
      PROVE  UNCHANGED <<fleet, keyTable, exclusions>> /\ \E r \in Request : Leaves(r)
  <2> DEFINE r == [op |-> "deleteKey", id |-> k.id]
  <2>0. k.id \in Nat  BY DEF InventoryTypeOK, HostKey
  <2>1. r \in Request /\ r.op \notin {"announce", "recordPending"}  BY <2>0, NewRequests
  <2>2. UNCHANGED <<fleet, keyTable, exclusions>> /\ Start(c, r)  BY <1>6 DEF DeleteKeyRead
  <2> QED  BY <1>0, <2>1, <2>2
<1>7. ASSUME MoveCheck(c)
      PROVE  UNCHANGED <<fleet, keyTable, exclusions>> /\ \E r \in Request : Leaves(r)
  <2> DEFINE r == IF req[c].group \in LiveGroups THEN [req[c] EXCEPT !.op = "move"] ELSE Idle
  <2>0. /\ req[c] \in Request /\ req[c].op = "moveCheck"
        /\ req[c].sys \in Systems /\ req[c].group \in Groups \cup {NoGroup}
        /\ req[c] = [op |-> "moveCheck", sys |-> req[c].sys, group |-> req[c].group]
    BY <1>7, RequestFields DEF MoveCheck, InventoryTypeOK
  <2>1. [req[c] EXCEPT !.op = "move"] = [op |-> "move", sys |-> req[c].sys, group |-> req[c].group]
    BY <2>0
  <2>2. r \in Request /\ r.op \notin {"announce", "recordPending"}
    BY <2>0, <2>1, NewRequests
  <2>3. UNCHANGED <<fleet, keyTable, exclusions>> /\ Finish(c, r)  BY <1>7 DEF MoveCheck
  <2> QED  BY <2>0, <2>2, <2>3
<1> HIDE DEF Leaves
<1>8. UNCHANGED <<fleet, keyTable, exclusions>> /\ \E r \in Request : Leaves(r)
  BY <1>1, <1>2, <1>3, <1>4, <1>5, <1>6, <1>7 DEF Reads
<1> QED  BY <1>8 DEF Leaves
-----------------------------------------------------------------------------
\* Writes to hosts, groups and labels

Writes(c) ==
    \/ \E s \in Systems : CreateSystem(c, s)
    \/ DeleteSystemWrite(c) \/ SetPlatformWrite(c) \/ MoveWrite(c)
    \/ \E g \in Groups : \/ DeleteGroup(c, g)
                         \/ \E n \in Names : CreateGroup(c, g, n) \/ RenameGroup(c, g, n)
    \/ SetLabel(c) \/ DeleteLabel(c)

\* The row of s stays, with what the prober has written to it.
Kept(s) ==
    /\ hosts[s] # NoRow /\ hosts'[s] # NoRow
    /\ hosts'[s].status = hosts[s].status
    /\ hosts'[s].failures = hosts[s].failures
    /\ hosts'[s].successes = hosts[s].successes

\* The row of s is listed as before.
SameRow(s) == \/ hosts'[s] = hosts[s]
              \/ /\ hosts[s] # NoRow /\ hosts'[s] # NoRow
                 /\ hosts'[s].group = hosts[s].group
                 /\ hosts'[s].status = hosts[s].status

\* What every write does: hosts come and go with their dependents, and
\* whoever changes what a list shows announces it.
FleetWritten(c) ==
    /\ hosts' \in [Systems -> Host \cup {NoRow}]
    /\ groups' \in [Groups -> Names \cup {NoRow}]
    /\ used' \subseteq Systems \cup Groups /\ used \subseteq used'
    /\ labels' \subseteq Systems \X LabelKeys
    /\ \A s \in Systems : \/ hosts'[s] = NoRow
                          \/ Kept(s)
                          \/ (s \in used' \ used /\ hosts'[s] = NewHost)
    /\ \A l \in labels' : hosts'[l[1]] # NoRow
    /\ \A k \in hostKeys' : k \in hostKeys /\ hosts'[k.sys] # NoRow
    /\ UNCHANGED <<keysMade, reviewed, raced, exclusions>>
    /\ \E r \in Request :
         /\ Start(c, r) \/ Finish(c, r)
         /\ req[c].op # "announce"
         /\ r.op \in {"announce", "idle"}
         /\ r.op = "announce" \/ (labels' = labels /\ \A s \in Systems : SameRow(s))

\* A new row is a row.
LEMMA NewHostIsHost ==
    /\ NewHost \in Host
    /\ NoRow \notin Host
BY InventoryAssumption DEF NewHost, Host, Status

\* Assigning another group or platform keeps the rest of the row.
LEMMA EditedRow ==
    ASSUME NEW h \in Host
    PROVE  /\ \A g \in Groups \cup {NoGroup} :
                /\ [h EXCEPT !.group = g] \in Host
                /\ [h EXCEPT !.group = g].status = h.status
                /\ [h EXCEPT !.group = g].failures = h.failures
                /\ [h EXCEPT !.group = g].successes = h.successes
           /\ \A w \in BOOLEAN :
                /\ [h EXCEPT !.windows = w] \in Host
                /\ [h EXCEPT !.windows = w].status = h.status
                /\ [h EXCEPT !.windows = w].failures = h.failures
                /\ [h EXCEPT !.windows = w].successes = h.successes
                /\ [h EXCEPT !.windows = w].group = h.group
BY DEF Host

LEMMA HostRows ==
    ASSUME InventoryTypeOK, NoOrphanedRows
    PROVE  /\ \A s \in Systems : hosts[s] # NoRow => hosts[s] \in Host
           /\ \A s \in Systems : s \in Live <=> hosts[s] # NoRow
           /\ \A l \in labels : l[1] \in Systems /\ hosts[l[1]] # NoRow
           /\ \A k \in hostKeys : k.sys \in Systems /\ hosts[k.sys] # NoRow
BY DEF InventoryTypeOK, NoOrphanedRows, Live, HostKey

\* Where hosts and keys stay as they are, the rest is about labels and groups.
LEMMA HostsUntouched ==
    ASSUME InventoryTypeOK, NoOrphanedRows, UNCHANGED <<hosts, hostKeys>>
    PROVE  /\ hosts' \in [Systems -> Host \cup {NoRow}]
           /\ \A s \in Systems : (hosts'[s] = NoRow \/ Kept(s)) /\ SameRow(s)
           /\ \A l \in labels : hosts'[l[1]] # NoRow
           /\ \A k \in hostKeys' : k \in hostKeys /\ hosts'[k.sys] # NoRow
BY HostRows DEF Kept, SameRow, InventoryTypeOK

LEMMA CreateSystemWrites ==
    ASSUME InventoryTypeOK, NoOrphanedRows, NEW c \in Clients, NEW s \in Systems,
           s \notin used => hosts[s] = NoRow, CreateSystem(c, s)
    PROVE  FleetWritten(c)
<1>1. \A t \in Systems : hosts'[t] = IF t = s THEN NewHost ELSE hosts[t]
  BY DEF CreateSystem, InventoryTypeOK
<1>2. hosts' \in [Systems -> Host \cup {NoRow}]
  BY NewHostIsHost DEF CreateSystem, InventoryTypeOK
<1>3. s \in used' \ used /\ used' \subseteq Systems \cup Groups
  BY DEF CreateSystem, InventoryTypeOK
<1>4. \A t \in Systems : hosts'[t] = NoRow \/ Kept(t) \/ (t \in used' \ used /\ hosts'[t] = NewHost)
  BY <1>1, <1>3 DEF Kept
<1>5. UNCHANGED <<groups, labels, hostKeys, keysMade, reviewed, raced, exclusions>>
  BY DEF CreateSystem, keyTable
<1>6. \A t \in Systems : hosts[t] # NoRow => hosts'[t] # NoRow
  BY <1>1, NewHostIsHost
<1>7. Start(c, Announcing(TRUE)) /\ req[c].op # "announce"
  BY NewRequests DEF CreateSystem, Start
<1> QED
  BY <1>2, <1>3, <1>4, <1>5, <1>6, <1>7, HostRows, NewRequests
     DEF FleetWritten, InventoryTypeOK, CreateSystem

LEMMA DeleteSystemWrites ==
    ASSUME InventoryTypeOK, NoOrphanedRows, NEW c \in Clients, DeleteSystemWrite(c)
    PROVE  FleetWritten(c)
<1> DEFINE s == req[c].sys
<1>0. s \in Systems /\ req[c].op = "delete"
  BY RequestFields DEF DeleteSystemWrite, InventoryTypeOK
<1>1. /\ hosts' = [hosts EXCEPT ![s] = NoRow]
      /\ labels' = {l \in labels : l[1] # s}
      /\ hostKeys' = {k \in hostKeys : k.sys # s}
      /\ Finish(c, IF s \in Live THEN Announcing(FALSE) ELSE Idle)
      /\ UNCHANGED <<groups, used, keysMade, reviewed, raced, exclusions>>
  BY DEF DeleteSystemWrite
<1> HIDE DEF s
<1>2. \A t \in Systems : hosts'[t] = IF t = s THEN NoRow ELSE hosts[t]
  BY <1>1 DEF InventoryTypeOK
<1>3. hosts' \in [Systems -> Host \cup {NoRow}]
  BY <1>1 DEF InventoryTypeOK
<1>4. \A t \in Systems : hosts'[t] = NoRow \/ Kept(t)
  BY <1>2 DEF Kept
<1>5. /\ \A l \in labels' : hosts'[l[1]] # NoRow
      /\ \A k \in hostKeys' : k \in hostKeys /\ hosts'[k.sys] # NoRow
  BY <1>1, <1>2, HostRows
<1>6. CASE s \in Live
  <2>1. Finish(c, Announcing(FALSE))  BY <1>1, <1>6
  <2> QED
    BY <1>0, <1>1, <1>3, <1>4, <1>5, <2>1, NewRequests DEF FleetWritten, InventoryTypeOK
<1>7. CASE s \notin Live
  <2>1. Finish(c, Idle) /\ hosts[s] = NoRow  BY <1>0, <1>1, <1>7, HostRows
  <2>2. labels' = labels /\ \A t \in Systems : SameRow(t)
    BY <1>1, <1>2, <2>1, HostRows DEF SameRow
  <2> QED
    BY <1>0, <1>1, <1>3, <1>4, <1>5, <2>1, <2>2, NewRequests DEF FleetWritten, InventoryTypeOK
<1> QED  BY <1>6, <1>7

LEMMA SetPlatformWrites ==
    ASSUME InventoryTypeOK, NoOrphanedRows, NEW c \in Clients, SetPlatformWrite(c)
    PROVE  FleetWritten(c)
<1> DEFINE s == req[c].sys
<1>0. s \in Systems /\ req[c].op = "platform"
  BY RequestFields DEF SetPlatformWrite, InventoryTypeOK
<1>1. PICK w \in BOOLEAN :
        hosts' = IF s \in Live THEN [hosts EXCEPT ![s].windows = w] ELSE hosts
  BY DEF SetPlatformWrite
<1>2. /\ Finish(c, Idle)
      /\ UNCHANGED <<groups, used, labels, hostKeys, keysMade, reviewed, raced, exclusions>>
  BY DEF SetPlatformWrite, keyTable
<1> HIDE DEF s
<1>3. /\ hosts' \in [Systems -> Host \cup {NoRow}]
      /\ \A t \in Systems : /\ SameRow(t) /\ (hosts'[t] = NoRow \/ Kept(t))
                            /\ hosts[t] # NoRow => hosts'[t] # NoRow
  <2>1. CASE s \notin Live
    BY <1>0, <1>1, <2>1 DEF SameRow, Kept, InventoryTypeOK
  <2>2. CASE s \in Live
    <3>1. hosts[s] \in Host  BY <1>0, <2>2, HostRows
    <3> DEFINE new == [hosts[s] EXCEPT !.windows = w]
    <3>2. \A t \in Systems : hosts'[t] = IF t = s THEN new ELSE hosts[t]
      BY <1>0, <1>1, <2>2 DEF InventoryTypeOK
    <3>3. hosts' \in [Systems -> Host \cup {NoRow}]
      BY <1>0, <1>1, <2>2, <3>1, EditedRow DEF InventoryTypeOK
    <3>4. /\ new \in Host /\ new.status = hosts[s].status /\ new.group = hosts[s].group
          /\ new.failures = hosts[s].failures /\ new.successes = hosts[s].successes
      BY <3>1, EditedRow
    <3> HIDE DEF new
    <3>5. hosts[s] # NoRow /\ new # NoRow  BY <1>0, <2>2, <3>4, NewHostIsHost, HostRows
    <3> QED  BY <3>2, <3>3, <3>4, <3>5 DEF SameRow, Kept
  <2> QED  BY <2>1, <2>2
<1> QED
  BY <1>0, <1>2, <1>3, HostRows, NewRequests DEF FleetWritten, InventoryTypeOK

LEMMA MoveWrites ==
    ASSUME InventoryTypeOK, NoOrphanedRows, NEW c \in Clients, MoveWrite(c)
    PROVE  FleetWritten(c)
<1> DEFINE s == req[c].sys
           g == req[c].group
<1>0. s \in Systems /\ g \in Groups \cup {NoGroup} /\ req[c].op = "move"
  BY RequestFields DEF MoveWrite, InventoryTypeOK
<1>1. /\ hosts' = IF s \in Live THEN [hosts EXCEPT ![s].group = g] ELSE hosts
      /\ Finish(c, IF s \in Live THEN Announcing(FALSE) ELSE Idle)
      /\ UNCHANGED <<groups, used, labels, hostKeys, keysMade, reviewed, raced, exclusions>>
  BY DEF MoveWrite, keyTable
<1> HIDE DEF s, g
<1>2. CASE s \notin Live
  <2>1. UNCHANGED <<hosts, hostKeys>> /\ Finish(c, Idle)  BY <1>1, <1>2
  <2> QED  BY <1>0, <1>1, <2>1, HostsUntouched, NewRequests DEF FleetWritten, InventoryTypeOK
<1>3. CASE s \in Live
  <2>0. Finish(c, Announcing(FALSE))  BY <1>1, <1>3
  <2>1. hosts[s] \in Host  BY <1>0, <1>3, HostRows
  <2> DEFINE new == [hosts[s] EXCEPT !.group = g]
  <2>2. \A t \in Systems : hosts'[t] = IF t = s THEN new ELSE hosts[t]
    BY <1>0, <1>1, <1>3 DEF InventoryTypeOK
  <2>3. hosts' \in [Systems -> Host \cup {NoRow}]
    BY <1>0, <1>1, <1>3, <2>1, EditedRow DEF InventoryTypeOK
  <2>4. /\ new \in Host /\ new.status = hosts[s].status
        /\ new.failures = hosts[s].failures /\ new.successes = hosts[s].successes
    BY <1>0, <2>1, EditedRow
  <2> HIDE DEF new
  <2>6. hosts[s] # NoRow /\ new # NoRow  BY <1>0, <1>3, <2>4, NewHostIsHost, HostRows
  <2>5. \A t \in Systems : (hosts'[t] = NoRow \/ Kept(t)) /\ (hosts[t] # NoRow => hosts'[t] # NoRow)
    BY <2>2, <2>4, <2>6 DEF Kept
  <2> QED
    BY <1>0, <1>1, <2>0, <2>3, <2>5, HostRows, NewRequests DEF FleetWritten, InventoryTypeOK
<1> QED  BY <1>2, <1>3

LEMMA GroupWrites ==
    ASSUME InventoryTypeOK, NoOrphanedRows, NEW c \in Clients, NEW g \in Groups,
           \/ DeleteGroup(c, g)
           \/ \E n \in Names : CreateGroup(c, g, n) \/ RenameGroup(c, g, n)
    PROVE  FleetWritten(c)
<1>1. /\ Start(c, Announcing(FALSE)) /\ req[c].op # "announce"
      /\ UNCHANGED <<labels, hostKeys, keysMade, reviewed, raced, exclusions>>
      /\ groups' \in [Groups -> Names \cup {NoRow}]
      /\ used' \subseteq Systems \cup Groups /\ used \subseteq used'
  <2>1. CASE DeleteGroup(c, g)
    BY <2>1, NewRequests DEF DeleteGroup, Start, keyTable, InventoryTypeOK
  <2>2. CASE \E n \in Names : CreateGroup(c, g, n)
    BY <2>2, NewRequests DEF CreateGroup, Start, keyTable, InventoryTypeOK
  <2>3. CASE \E n \in Names : RenameGroup(c, g, n)
    BY <2>3, NewRequests DEF RenameGroup, Start, keyTable, InventoryTypeOK
  <2> QED  BY <2>1, <2>2, <2>3
<1>2. CASE UNCHANGED hosts
  <2>1. UNCHANGED <<hosts, hostKeys>>  BY <1>1, <1>2
  <2> QED  BY <1>1, <2>1, HostsUntouched, NewRequests DEF FleetWritten, InventoryTypeOK
<1>3. CASE DeleteGroup(c, g)
  <2> DEFINE new(t) == [hosts[t] EXCEPT !.group = NoGroup]
  <2>1. \A t \in Systems :
          hosts'[t] = IF hosts[t] # NoRow /\ hosts[t].group = g THEN new(t) ELSE hosts[t]
    BY <1>3, HostRows DEF DeleteGroup, ClearGroup
  <2>2. ASSUME NEW t \in Systems, hosts[t] # NoRow
        PROVE  /\ hosts[t] \in Host /\ new(t) \in Host /\ new(t) # NoRow
               /\ new(t).status = hosts[t].status
               /\ new(t).failures = hosts[t].failures /\ new(t).successes = hosts[t].successes
    <3>1. hosts[t] \in Host /\ NoGroup \in Groups \cup {NoGroup}  BY <2>2, HostRows
    <3> QED  BY <3>1, EditedRow, NewHostIsHost
  <2> HIDE DEF new
  <2>3. hosts' \in [Systems -> Host \cup {NoRow}]
    <3>1. \A t \in Systems : hosts'[t] \in Host \cup {NoRow}  BY <2>1, <2>2
    <3> QED  BY <1>3, <3>1 DEF DeleteGroup, ClearGroup
  <2>4. \A t \in Systems : (hosts'[t] = NoRow \/ Kept(t)) /\ (hosts[t] # NoRow => hosts'[t] # NoRow)
    BY <2>1, <2>2 DEF Kept
  <2> QED
    BY <1>1, <2>3, <2>4, HostRows, NewRequests DEF FleetWritten, InventoryTypeOK
<1> QED  BY <1>2, <1>3 DEF CreateGroup, RenameGroup

LEMMA LabelWrites ==
    ASSUME InventoryTypeOK, NoOrphanedRows, NEW c \in Clients, SetLabel(c) \/ DeleteLabel(c)
    PROVE  FleetWritten(c)
<1>0. /\ req[c].op \in {"setLabel", "deleteLabel"}
      /\ req[c].sys \in Systems /\ req[c].key \in LabelKeys
  BY RequestFields DEF SetLabel, DeleteLabel, InventoryTypeOK
<1>1. UNCHANGED <<hosts, groups, used, hostKeys, keysMade, reviewed, raced, exclusions>>
  BY DEF SetLabel, DeleteLabel, keyTable
<1>2. labels' \subseteq Systems \X LabelKeys /\ \A l \in labels' : hosts[l[1]] # NoRow
  <2> DEFINE row == <<req[c].sys, req[c].key>>
  <2>1. row \in Systems \X LabelKeys /\ row[1] = req[c].sys  BY <1>0
  <2>2. labels \subseteq Systems \X LabelKeys  BY DEF InventoryTypeOK
  <2>3. \/ labels' = labels \cup {row} /\ hosts[row[1]] # NoRow
        \/ labels' \subseteq labels
    BY <1>0, <2>1, HostRows DEF SetLabel, DeleteLabel
  <2> HIDE DEF row
  <2> QED  BY <2>1, <2>2, <2>3, HostRows
<1>3. Finish(c, Announcing(FALSE)) \/ (Finish(c, Idle) /\ labels' = labels)
  BY DEF SetLabel, DeleteLabel
<1>4. UNCHANGED <<hosts, hostKeys>>  BY <1>1
<1> QED
  BY <1>0, <1>1, <1>2, <1>3, <1>4, HostsUntouched, NewRequests DEF FleetWritten, InventoryTypeOK
-----------------------------------------------------------------------------
\* The tables under every handler

Tables == InventoryTypeOK /\ NoOrphanedRows /\ Keys

\* Key rows that stay as they are, or go, are still told apart.
LEMMA RequestKeepsKeys ==
    ASSUME InventoryTypeOK, Keys, NEW c \in Clients, NEW r \in Request,
           Start(c, r) \/ Finish(c, r),
           r.op = "recordPending" => Findable(r.id),
           \A k \in hostKeys' : k \in hostKeys, UNCHANGED <<keysMade, reviewed, raced>>
    PROVE  Keys'
<1> USE DEF Keys
<1>1. KeysHaveIds' /\ KeysAreDistinct' /\ TrustedKeysWereReviewed'
  BY DEF KeysHaveIds, KeysAreDistinct, TrustedKeysWereReviewed
<1>2. \A d \in Clients : req'[d] = IF d = c THEN r ELSE req[d]  BY RequestChanges
<1>3. keysMade \in Nat  BY DEF InventoryTypeOK
<1>4. ASSUME r.op = "recordPending"
      PROVE  /\ r.id \in 0 .. keysMade
             /\ \A k \in hostKeys : ~(k.id = r.id /\ k.state = "accepted")
  <2>1. CASE r.id = 0  BY <1>3, <2>1 DEF KeysHaveIds
  <2>2. CASE \E k \in hostKeys : k.id = r.id /\ k.state = "pending"
    BY <1>3, <2>2 DEF KeysHaveIds, KeysAreDistinct
  <2> QED  BY <1>4, <2>1, <2>2 DEF Findable
<1>5. ScansKnowTheirRow'
  <2> SUFFICES ASSUME NEW d \in Clients, req'[d].op = "recordPending"
               PROVE  /\ req'[d].id \in 0 .. keysMade
                      /\ \A k \in hostKeys : (k.id = req'[d].id /\ k.state = "accepted")
                                                => k.id \in raced
    BY DEF ScansKnowTheirRow
  <2>1. CASE d = c  BY <1>2, <1>4, <2>1
  <2>2. CASE d # c  BY <1>2, <2>2 DEF ScansKnowTheirRow
  <2> QED  BY <2>1, <2>2
<1> QED  BY <1>1, <1>5

LEMMA ReadsKeepTables ==
    ASSUME Tables, NEW c \in Clients, Reads(c)
    PROVE  Tables'
<1> USE DEF Tables
<1>1. UNCHANGED <<fleet, keyTable, exclusions>>  BY ReadsOnlyRead
<1>2. PICK r \in Request : /\ Start(c, r) \/ Finish(c, r)
                           /\ r.op = "recordPending" => Findable(r.id)
  BY ReadsOnlyRead
<1>3. Keys'  BY <1>1, <1>2, RequestKeepsKeys DEF keyTable
<1>4. InventoryTypeOK'
  BY <1>1, <1>2, RequestChanges DEF InventoryTypeOK, fleet, keyTable
<1>5. NoOrphanedRows'  BY <1>1 DEF NoOrphanedRows, Live, fleet, keyTable
<1> QED  BY <1>3, <1>4, <1>5

LEMMA WritesWrite ==
    ASSUME Tables, UnusedIsFresh, NEW c \in Clients, Writes(c)
    PROVE  FleetWritten(c)
<1>1. \A s \in Systems : s \notin used => hosts[s] = NoRow  BY DEF UnusedIsFresh
<1> QED
  BY <1>1, CreateSystemWrites, DeleteSystemWrites, SetPlatformWrites, MoveWrites, GroupWrites,
     LabelWrites DEF Writes, Tables

LEMMA WritesKeepTables ==
    ASSUME Tables, NEW c \in Clients, FleetWritten(c)
    PROVE  Tables'
<1> USE DEF Tables
<1>1. PICK r \in Request : /\ Start(c, r) \/ Finish(c, r)
                           /\ r.op \in {"announce", "idle"}
  BY DEF FleetWritten
<1>2. \A k \in hostKeys' : k \in hostKeys  BY DEF FleetWritten
<1>3. UNCHANGED <<keysMade, reviewed, raced, exclusions>>  BY DEF FleetWritten
<1>4. Keys'  BY <1>1, <1>2, <1>3, RequestKeepsKeys
<1>5. InventoryTypeOK'
  <2>1. hostKeys' \subseteq HostKey  BY <1>2 DEF InventoryTypeOK
  <2>2. /\ hosts' \in [Systems -> Host \cup {NoRow}]
        /\ groups' \in [Groups -> Names \cup {NoRow}]
        /\ used' \subseteq Systems \cup Groups
        /\ labels' \subseteq Systems \X LabelKeys
    BY DEF FleetWritten
  <2>3. req' \in [Clients -> Request] /\ started' \in 0 .. MaxStimuli
    BY <1>1, RequestChanges
  <2> QED  BY <1>3, <2>1, <2>2, <2>3 DEF InventoryTypeOK
<1>6. NoOrphanedRows'
  <2>1. \A l \in labels' : l[1] \in Systems /\ hosts'[l[1]] # NoRow
    BY <1>5 DEF FleetWritten, InventoryTypeOK
  <2>2. \A k \in hostKeys' : k.sys \in Systems /\ hosts'[k.sys] # NoRow
    BY <1>5 DEF FleetWritten, InventoryTypeOK, HostKey
  <2> QED  BY <2>1, <2>2 DEF NoOrphanedRows, Live
<1> QED  BY <1>4, <1>5, <1>6

LEMMA ExclusionsKeepTables ==
    ASSUME Tables, NEW c \in Clients,
           ExcludeWrite(c) \/ \E e \in Rules : DeleteExclusion(c, e)
    PROVE  Tables' /\ UNCHANGED fleet /\ req[c].op # "announce" /\ req'[c] = Idle
<1> USE DEF Tables
<1>1. /\ UNCHANGED <<fleet, keyTable>> /\ exclusions' \subseteq Exclusion
      /\ Start(c, Idle) \/ Finish(c, Idle)
      /\ req[c].op # "announce"
  <2>1. CASE ExcludeWrite(c)
    <3>1. req[c].rule \in Exclusion
      BY <2>1, RequestFields DEF ExcludeWrite, InventoryTypeOK
    <3> QED  BY <2>1, <3>1 DEF ExcludeWrite, InventoryTypeOK
  <2>2. CASE \E e \in Rules : DeleteExclusion(c, e)
    BY <2>2, NewRequests DEF DeleteExclusion, Start, InventoryTypeOK
  <2> QED  BY <2>1, <2>2
<1>2. Idle \in Request /\ Idle.op # "recordPending"  BY NewRequests
<1>3. Keys'  BY <1>1, <1>2, RequestKeepsKeys DEF keyTable
<1>4. InventoryTypeOK' /\ req'[c] = Idle
  BY <1>1, <1>2, RequestChanges DEF InventoryTypeOK, fleet, keyTable
<1>5. NoOrphanedRows'  BY <1>1 DEF NoOrphanedRows, Live, fleet, keyTable
<1> QED  BY <1>1, <1>3, <1>4, <1>5

\* Host keys

KeySteps(c) ==
    \/ RecordPending(c) \/ DeleteKeyWrite(c)
    \/ \E s \in Systems, fp \in Fingerprints : AcceptKey(c, s, fp)

LEMMA KeyStepsFrame ==
    ASSUME InventoryTypeOK, NEW c \in Clients, KeySteps(c)
    PROVE  /\ UNCHANGED <<fleet, exclusions>>
           /\ Start(c, Idle) \/ Finish(c, Idle)
           /\ req[c].op # "announce"
           /\ req' \in [Clients -> Request] /\ started' \in 0 .. MaxStimuli
           /\ \A d \in Clients : req'[d] = IF d = c THEN Idle ELSE req[d]
<1>1. /\ UNCHANGED <<fleet, exclusions>>
      /\ Start(c, Idle) \/ Finish(c, Idle)
      /\ req[c].op # "announce"
  BY NewRequests DEF KeySteps, RecordPending, DeleteKeyWrite, AcceptKey, Start
<1> QED  BY <1>1, RequestChanges, NewRequests

\* A key is found by a scan for the first time.
LEMMA InsertKeepsKeys ==
    ASSUME Tables, NEW c \in Clients, NEW s \in Live, NEW fp \in Fingerprints,
           hostKeys' = hostKeys \cup {[id |-> keysMade + 1, sys |-> s,
                                       state |-> "pending", fp |-> fp]},
           keysMade' = keysMade + 1, UNCHANGED <<fleet, exclusions, reviewed, raced>>,
           KeySteps(c)
    PROVE  Tables'
<1> USE DEF Tables, Keys
<1> DEFINE new == [id |-> keysMade + 1, sys |-> s, state |-> "pending", fp |-> fp]
<1>1. keysMade \in Nat /\ s \in Systems  BY DEF InventoryTypeOK, Live
<1>2. /\ new \in HostKey /\ new.id = keysMade + 1 /\ new.sys = s /\ new.state = "pending"
      /\ hostKeys' = hostKeys \cup {new}
  BY <1>1 DEF HostKey
<1> HIDE DEF new
<1>3. \A k \in hostKeys : k.id \in 1 .. keysMade /\ k.id # keysMade + 1
  BY <1>1 DEF KeysHaveIds
<1>4. KeysHaveIds' /\ KeysAreDistinct' /\ TrustedKeysWereReviewed'
  <2>1. KeysHaveIds'  BY <1>1, <1>2, <1>3 DEF KeysHaveIds
  <2>2. KeysAreDistinct'  BY <1>2, <1>3 DEF KeysAreDistinct
  <2>3. TrustedKeysWereReviewed'  BY <1>2 DEF TrustedKeysWereReviewed
  <2> QED  BY <2>1, <2>2, <2>3
<1>5. ScansKnowTheirRow'
  <2> SUFFICES ASSUME NEW d \in Clients, req'[d].op = "recordPending"
               PROVE  /\ req'[d].id \in 0 .. keysMade'
                      /\ \A k \in hostKeys' : (k.id = req'[d].id /\ k.state = "accepted")
                                                 => k.id \in raced'
    BY DEF ScansKnowTheirRow
  <2>1. req'[d] = req[d]  BY KeyStepsFrame, NewRequests
  <2> QED  BY <1>1, <1>2, <2>1 DEF ScansKnowTheirRow
<1>6. NoOrphanedRows'  BY <1>2 DEF NoOrphanedRows, Live, fleet
<1>7. InventoryTypeOK'
  <2>1. raced' \subseteq 1 .. keysMade'  BY <1>1 DEF InventoryTypeOK
  <2>2. hostKeys' \subseteq HostKey  BY <1>2 DEF InventoryTypeOK
  <2> QED  BY <1>1, <2>1, <2>2, KeyStepsFrame DEF InventoryTypeOK, fleet
<1> QED  BY <1>4, <1>5, <1>6, <1>7

\* The row a scan has found shows another fingerprint from now on.
LEMMA RewriteKeepsKeys ==
    ASSUME Tables, NEW c \in Clients, NEW id, NEW fp \in Fingerprints,
           \A k \in hostKeys : (k.id = id /\ k.state = "accepted") => k.id \in raced,
           hostKeys' = {IF k.id = id THEN [k EXCEPT !.fp = fp] ELSE k : k \in hostKeys},
           UNCHANGED <<fleet, exclusions, keysMade, reviewed, raced>>, KeySteps(c)
    PROVE  Tables'
<1> USE DEF Tables, Keys
<1>1. ASSUME NEW l \in hostKeys'
      PROVE  \E k \in hostKeys : /\ l \in HostKey /\ l.id = k.id /\ l.sys = k.sys
                                 /\ l.state = k.state
                                 /\ k.id # id => l = k
                                 /\ k.id = id => l = [k EXCEPT !.fp = fp]
  BY DEF InventoryTypeOK, HostKey
<1>2. KeysHaveIds' /\ KeysAreDistinct'
  <2>1. KeysHaveIds'  BY <1>1 DEF KeysHaveIds
  <2>2. KeysAreDistinct'
    <3> SUFFICES ASSUME NEW l \in hostKeys', NEW m \in hostKeys', l.id = m.id PROVE l = m
      BY DEF KeysAreDistinct
    <3> QED  BY <1>1 DEF KeysAreDistinct
  <2> QED  BY <2>1, <2>2
<1>3. TrustedKeysWereReviewed'
  <2> SUFFICES ASSUME NEW l \in hostKeys', l.state = "accepted"
               PROVE  <<l.sys, l.fp>> \in reviewed \/ l.id \in raced
    BY DEF TrustedKeysWereReviewed
  <2> QED  BY <1>1 DEF TrustedKeysWereReviewed
<1>4. ScansKnowTheirRow'
  <2> SUFFICES ASSUME NEW d \in Clients, req'[d].op = "recordPending"
               PROVE  /\ req'[d].id \in 0 .. keysMade
                      /\ \A k \in hostKeys' : (k.id = req'[d].id /\ k.state = "accepted")
                                                 => k.id \in raced
    BY DEF ScansKnowTheirRow
  <2>1. req'[d] = req[d]  BY KeyStepsFrame, NewRequests
  <2> QED  BY <1>1, <2>1 DEF ScansKnowTheirRow
<1>5. NoOrphanedRows'
  <2>1. \A l \in labels' : l[1] \in Live'  BY DEF NoOrphanedRows, Live, fleet
  <2>2. Live' = Live  BY DEF Live, fleet
  <2> QED  BY <1>1, <2>1, <2>2 DEF NoOrphanedRows
<1>6. InventoryTypeOK'
  <2>1. hostKeys' \subseteq HostKey  BY <1>1
  <2> QED  BY <2>1, KeyStepsFrame DEF InventoryTypeOK, fleet
<1> QED  BY <1>2, <1>3, <1>4, <1>5, <1>6

\* An operator accepts what was reviewed; scans at work on the row are noted.
LEMMA AcceptKeepsKeys ==
    ASSUME Tables, NEW c \in Clients, NEW s \in Systems, NEW fp \in Fingerprints,
           AcceptKey(c, s, fp)
    PROVE  Tables'
<1> USE DEF Tables, Keys
<1>1. PICK k \in KeyRows(s, "pending") :
         /\ k.fp = fp
         /\ hostKeys' = (hostKeys \ ({k} \cup KeyRows(s, "accepted")))
                        \cup {[k EXCEPT !.state = "accepted"]}
         /\ raced' = raced \cup
              {k.id : d \in {e \in Clients : /\ req[e].op = "recordPending"
                                             /\ req[e].id = k.id}}
  BY DEF AcceptKey
<1>2. reviewed' = reviewed \cup {<<s, fp>>} /\ s \in Live /\ UNCHANGED keysMade
  BY DEF AcceptKey
<1> DEFINE new == [k EXCEPT !.state = "accepted"]
<1>3. k \in hostKeys /\ k \in HostKey /\ k.sys = s /\ k.state = "pending"
  BY DEF KeyRows, InventoryTypeOK
<1>4. new \in HostKey /\ new.id = k.id /\ new.sys = s /\ new.state = "accepted" /\ new.fp = fp
  BY <1>1, <1>3 DEF HostKey
<1> HIDE DEF new
<1>5. \A l \in hostKeys' : l = new \/ (l \in hostKeys /\ l # k)
  BY <1>1 DEF new
<1>6. k.id \in 1 .. keysMade /\ \A l \in hostKeys : l.id = k.id => l = k
  BY <1>3 DEF KeysHaveIds, KeysAreDistinct
<1>7. KeysHaveIds' /\ KeysAreDistinct'
  BY <1>2, <1>4, <1>5, <1>6 DEF KeysHaveIds, KeysAreDistinct
<1>8. raced \subseteq raced' /\ raced' \subseteq raced \cup {k.id}  BY <1>1
<1>9. TrustedKeysWereReviewed'
  BY <1>2, <1>4, <1>5, <1>8 DEF TrustedKeysWereReviewed
<1>10. ScansKnowTheirRow'
  <2> SUFFICES ASSUME NEW d \in Clients, req'[d].op = "recordPending"
               PROVE  /\ req'[d].id \in 0 .. keysMade
                      /\ \A l \in hostKeys' : (l.id = req'[d].id /\ l.state = "accepted")
                                                 => l.id \in raced'
    BY <1>2 DEF ScansKnowTheirRow
  <2>1. req'[d] = req[d]  BY KeyStepsFrame, NewRequests DEF KeySteps
  <2>2. req[d].id = k.id => k.id \in raced'  BY <1>1, <2>1
  <2> QED  BY <1>4, <1>5, <1>8, <2>1, <2>2 DEF ScansKnowTheirRow
<1>11. /\ UNCHANGED <<fleet, exclusions>>
       /\ req' \in [Clients -> Request] /\ started' \in 0 .. MaxStimuli
  BY KeyStepsFrame DEF KeySteps
<1>12. NoOrphanedRows'
  <2>1. Live' = Live /\ labels' = labels  BY <1>11 DEF Live, fleet
  <2> QED  BY <1>2, <1>4, <1>5, <2>1 DEF NoOrphanedRows
<1>13. InventoryTypeOK'
  <2>1. raced' \subseteq 1 .. keysMade'  BY <1>2, <1>6, <1>8 DEF InventoryTypeOK
  <2>2. hostKeys' \subseteq HostKey  BY <1>4, <1>5 DEF InventoryTypeOK
  <2>3. reviewed' \subseteq Systems \X Fingerprints  BY <1>2 DEF InventoryTypeOK
  <2> QED  BY <1>2, <1>11, <2>1, <2>2, <2>3 DEF InventoryTypeOK, fleet
<1> QED  BY <1>7, <1>9, <1>10, <1>12, <1>13

LEMMA KeyStepsKeepTables ==
    ASSUME Tables, NEW c \in Clients, KeySteps(c)
    PROVE  Tables'
<1> USE DEF Tables
<1>1. CASE DeleteKeyWrite(c)
  <2>1. /\ \A k \in hostKeys' : k \in hostKeys
        /\ UNCHANGED <<fleet, exclusions, keysMade, reviewed, raced>>
        /\ Finish(c, Idle)
    BY <1>1 DEF DeleteKeyWrite
  <2>2. Keys'  BY <2>1, RequestKeepsKeys, NewRequests
  <2>3. NoOrphanedRows'  BY <2>1 DEF NoOrphanedRows, Live, fleet
  <2>4. InventoryTypeOK'  BY <2>1, KeyStepsFrame DEF InventoryTypeOK, fleet
  <2> QED  BY <2>2, <2>3, <2>4
<1>2. CASE RecordPending(c)
  <2> DEFINE s == req[c].sys
             fp == req[c].fp
             id == req[c].id
             insert == id = 0 /\ s \in Live /\ KeyRows(s, "pending") = {}
  <2>1. req[c].op = "recordPending" /\ s \in Systems /\ fp \in Fingerprints
    BY <1>2, RequestFields DEF RecordPending, InventoryTypeOK
  <2>2. \A k \in hostKeys : (k.id = id /\ k.state = "accepted") => k.id \in raced
    BY <2>1 DEF Keys, ScansKnowTheirRow
  <2>3. /\ hostKeys' = IF insert
                       THEN hostKeys \cup {[id |-> keysMade + 1, sys |-> s,
                                            state |-> "pending", fp |-> fp]}
                       ELSE {IF k.id = id THEN [k EXCEPT !.fp = fp] ELSE k : k \in hostKeys}
        /\ keysMade' = IF insert THEN keysMade + 1 ELSE keysMade
        /\ UNCHANGED <<fleet, reviewed, raced, exclusions>>
    BY <1>2 DEF RecordPending
  <2>4. CASE insert
    <3>1. s \in Live  BY <2>4
    <3> HIDE DEF s, fp, id
    <3> QED  BY <2>1, <2>3, <2>4, <3>1, InsertKeepsKeys
  <2>5. CASE ~insert
    <3>1. /\ hostKeys' = {IF k.id = id THEN [k EXCEPT !.fp = fp] ELSE k : k \in hostKeys}
          /\ keysMade' = keysMade
      BY <2>3, <2>5
    <3> HIDE DEF s, fp, id, insert
    <3> QED  BY <2>1, <2>2, <2>3, <3>1, RewriteKeepsKeys
  <2> QED  BY <2>4, <2>5
<1>3. CASE \E s \in Systems, fp \in Fingerprints : AcceptKey(c, s, fp)
  BY <1>3, AcceptKeepsKeys
<1> QED  BY <1>1, <1>2, <1>3 DEF KeySteps
-----------------------------------------------------------------------------
\* The list a tab shows

\* Rows that read the same are listed the same.
LEMMA SameRowsSameList ==
    ASSUME labels' = labels, \A s \in Systems : SameRow(s)
    PROVE  List(Watcher)' = List(Watcher)
<1> DEFINE rows == {s \in Live : CanReadSystem(scope(Watcher), hosts[s].group)}
<1>1. \A s \in Systems : (hosts'[s] = NoRow <=> hosts[s] = NoRow)
  BY DEF SameRow, Kept
<1>2. \A s \in Live : hosts'[s].group = hosts[s].group /\ hosts'[s].status = hosts[s].status
  BY DEF SameRow, Kept, Live
<1>3. Live' = Live  BY <1>1 DEF Live
<1>4. scope(Watcher)' = scope(Watcher)  BY DEF scope, Scopes
<1>5. rows' = rows
  BY <1>2, <1>3, <1>4 DEF CanReadSystem, IsGlobalAuditor
<1>6. {<<s, hosts[s].group, hosts[s].status>> : s \in rows}'
        = {<<s, hosts[s].group, hosts[s].status>> : s \in rows}
  BY <1>2, <1>5
<1>7. {l \in labels : l[1] \in rows}' = {l \in labels : l[1] \in rows}
  BY <1>5
<1> QED  BY <1>6, <1>7 DEF List

\* Labels are listed with their systems.
LEMMA ListedLabels ==
    ASSUME InventoryTypeOK PROVE List(Watcher).labels \subseteq Systems \X LabelKeys
BY DEF List, InventoryTypeOK

\* What the tab shows stays as good as it was while a handler works, if the
\* handler announces what changes the list.
Told == \/ queue > 0 \/ fetching
        \/ \E c \in Clients : req[c].op = "announce"
        \/ tick.on /\ tick.changed

WatchTypeOK ==
    /\ mode \in {"serving", "stopping", "closed"}
    /\ trigger \in BOOLEAN
    /\ tick \in {NoTick} \cup
         [on : {TRUE}, todo : SUBSET Systems, failT : FailThresholds,
          succT : SuccThresholds, changed : BOOLEAN]
    /\ history \in [Systems -> Seq([ok : BOOLEAN, need : Nat])]
    /\ stream \in {"none", "open", "live"}
    /\ queue \in 0 .. Buffer
    /\ fetching \in BOOLEAN /\ synced \in BOOLEAN
    /\ view.labels \subseteq Systems \X LabelKeys

\* A tick that is on is a cycle.
LEMMA CyclesAreOn ==
    ASSUME NEW t \in {NoTick} \cup
                [on : {TRUE}, todo : SUBSET Systems, failT : FailThresholds,
                 succT : SuccThresholds, changed : BOOLEAN],
           t.on
    PROVE  t \in [on : {TRUE}, todo : SUBSET Systems, failT : FailThresholds,
                  succT : SuccThresholds, changed : BOOLEAN]
<1>1. ~NoTick.on  BY DEF NoTick
<1> QED  BY <1>1

LEMMA TypeSplits == TypeOK <=> InventoryTypeOK /\ WatchTypeOK
BY DEF TypeOK, WatchTypeOK

\* The observers of probes: kept where rows are kept, new or gone.
ProbesKept ==
    \A s \in Systems : \/ hosts'[s] = NoRow \/ Kept(s)
                       \/ (s \notin used /\ hosts'[s] = NewHost)

LEMMA NewRowIsUnprobed ==
    Counted(NewHost, <<>>) /\ NewHost.status = StatusFromHistory(<<>>)
<1>1. Len(<<>>) = 0 /\ 1 .. 0 = {}  OBVIOUS
<1>2. Counted(NewHost, <<>>)  BY <1>1 DEF Counted, NewHost
<1>3. StatusFromHistory(<<>>) = "unprobed"  BY <1>1 DEF StatusFromHistory
<1> QED  BY <1>2, <1>3 DEF NewHost

\* A frame for the steps that leave the results of probes alone.
LEMMA ProbesKeptKeepsStatus ==
    ASSUME Streaks, StatusFollowsProbes, UnusedIsFresh, ProbesKept, history' = history,
           used \subseteq used', \A s \in Systems \ used' : hosts'[s] = NoRow
    PROVE  Streaks' /\ StatusFollowsProbes' /\ UnusedIsFresh'
<1>1. ASSUME NEW s \in Systems, hosts'[s] # NoRow
      PROVE  Counted(hosts'[s], history[s]) /\ hosts'[s].status = StatusFromHistory(history[s])
  <2>1. CASE Kept(s)
    <3>1. s \in Live  BY <2>1 DEF Kept, Live
    <3> QED  BY <2>1, <3>1 DEF Kept, Streaks, StatusFollowsProbes, Counted
  <2>2. CASE s \notin used /\ hosts'[s] = NewHost
    <3>1. history[s] = <<>>  BY <2>2 DEF UnusedIsFresh
    <3> QED  BY <2>2, <3>1, NewRowIsUnprobed
  <2> QED  BY <1>1, <2>1, <2>2 DEF ProbesKept
<1>2. Streaks' /\ StatusFollowsProbes'
  <2>1. \A s \in Live' : s \in Systems /\ hosts'[s] # NoRow  BY DEF Live
  <2>2. StatusFollowsProbes'
    <3> SUFFICES ASSUME NEW s \in Live' PROVE hosts'[s].status = StatusFromHistory(history'[s])
      BY DEF StatusFollowsProbes
    <3> QED  BY <1>1, <2>1
  <2>3. Streaks'
    <3> SUFFICES ASSUME NEW s \in Live' PROVE Counted(hosts'[s], history'[s])
      BY DEF Streaks
    <3> QED  BY <1>1, <2>1
  <2> QED  BY <2>2, <2>3
<1>3. UnusedIsFresh'  BY DEF UnusedIsFresh
<1> QED  BY <1>2, <1>3

-----------------------------------------------------------------------------
\* Handlers

HandlerStep(c) == /\ Handler(c) \/ HandlerRest(c)
                  /\ UNCHANGED <<mode, probeVars, tabVars>>

LEMMA HandlersSorted ==
    ASSUME NEW c \in Clients, Handler(c) \/ HandlerRest(c)
    PROVE  \/ Reads(c) \/ Writes(c) \/ KeySteps(c)
           \/ ExcludeWrite(c) \/ \E e \in Rules : DeleteExclusion(c, e)
BY DEF Handler, HandlerRest, Reads, Writes, KeySteps

\* What is left to show once the tables are kept.
LEMMA HandlerFrame ==
    ASSUME IInv, NEW c \in Clients, HandlerStep(c), Tables', ProbesKept,
           used \subseteq used', \A s \in Systems \ used' : hosts'[s] = NoRow,
           Told \/ view = List(Watcher) => Told' \/ view = List(Watcher)'
    PROVE  IInv'
<1>1. UNCHANGED <<mode, probeVars, tabVars>>  BY DEF HandlerStep
<1>2. Streaks' /\ StatusFollowsProbes' /\ UnusedIsFresh'
  BY <1>1, ProbesKeptKeepsStatus DEF IInv, probeVars
<1>3. WatchTypeOK'
  BY <1>1, TypeSplits DEF IInv, WatchTypeOK, probeVars, tabVars
<1>4. TypeOK'  BY <1>3 DEF Tables, TypeOK, WatchTypeOK
<1>5. SyncedIsSubscribed'  BY <1>1 DEF IInv, SyncedIsSubscribed, tabVars
<1>6. mode = "serving" /\ synced => Told \/ view = List(Watcher)
  BY DEF IInv, StaleTabWillBeTold, Told
<1>7. mode' = "serving" /\ synced' => Told' \/ view' = List(Watcher)'
  BY <1>1, <1>6 DEF tabVars
<1>8. StaleTabWillBeTold'  BY <1>7 DEF StaleTabWillBeTold, Told
<1> QED  BY <1>2, <1>4, <1>5, <1>8 DEF IInv, Tables

LEMMA HandlerKeepsInv ==
    ASSUME IInv, NEW c \in Clients, HandlerStep(c)
    PROVE  IInv'
<1>0. Tables /\ InventoryTypeOK  BY TypeSplits DEF IInv, Tables
<1>1. CASE Writes(c)
  <2>1. FleetWritten(c)  BY <1>0, <1>1, WritesWrite DEF IInv
  <2>2. PICK r \in Request :
         /\ Start(c, r) \/ Finish(c, r)
         /\ req[c].op # "announce"
         /\ r.op = "announce" \/ (labels' = labels /\ \A s \in Systems : SameRow(s))
    BY <2>1 DEF FleetWritten
  <2>3. Tables'  BY <1>0, <2>1, WritesKeepTables
  <2>4. \A d \in Clients : req'[d] = IF d = c THEN r ELSE req[d]
    BY <1>0, <2>2, RequestChanges
  <2>5. ProbesKept /\ used \subseteq used' /\ \A s \in Systems \ used' : hosts'[s] = NoRow
    <3>1. \A s \in Systems \ used : hosts[s] = NoRow  BY DEF IInv, UnusedIsFresh
    <3> QED  BY <2>1, <3>1 DEF FleetWritten, ProbesKept, Kept
  <2>6. Told \/ view = List(Watcher) => Told' \/ view = List(Watcher)'
    <3>1. CASE r.op = "announce"  BY <2>4, <3>1 DEF Told
    <3>2. CASE labels' = labels /\ \A s \in Systems : SameRow(s)
      <4>1. List(Watcher)' = List(Watcher)  BY <3>2, SameRowsSameList
      <4>2. Told => Told'
        BY <2>2, <2>4 DEF Told, HandlerStep, probeVars, tabVars
      <4> QED  BY <4>1, <4>2
    <3> QED  BY <2>2, <3>1, <3>2
  <2> QED  BY <2>3, <2>5, <2>6, HandlerFrame
<1>2. CASE ~Writes(c)
  <2>1. Tables' /\ UNCHANGED fleet /\ req[c].op # "announce"
        /\ \A d \in Clients : d # c => req'[d] = req[d]
    <3>1. CASE Reads(c)
      <4>1. PICK r \in Request : Start(c, r) \/ Finish(c, r)  BY <1>0, <3>1, ReadsOnlyRead
      <4> QED  BY <1>0, <3>1, <4>1, ReadsOnlyRead, ReadsKeepTables, RequestChanges
    <3>2. CASE KeySteps(c)
      BY <1>0, <3>2, KeyStepsFrame, KeyStepsKeepTables
    <3>3. CASE ExcludeWrite(c) \/ \E e \in Rules : DeleteExclusion(c, e)
      <4>1. Start(c, Idle) \/ Finish(c, Idle)
        BY <3>3 DEF ExcludeWrite, DeleteExclusion
      <4> QED  BY <1>0, <3>3, <4>1, ExclusionsKeepTables, RequestChanges, NewRequests
    <3> QED  BY <1>2, <3>1, <3>2, <3>3, HandlersSorted DEF HandlerStep
  <2>2. \A s \in Systems : SameRow(s) /\ (hosts'[s] = NoRow \/ Kept(s))
    BY <2>1 DEF SameRow, Kept, fleet
  <2>3. Told \/ view = List(Watcher) => Told' \/ view = List(Watcher)'
    <3>1. List(Watcher)' = List(Watcher)  BY <2>1, <2>2, SameRowsSameList DEF fleet
    <3>2. Told => Told'  BY <2>1 DEF Told, HandlerStep, probeVars, tabVars
    <3> QED  BY <3>1, <3>2
  <2>4. ProbesKept /\ used \subseteq used' /\ \A s \in Systems \ used' : hosts'[s] = NoRow
    BY <2>1, <2>2 DEF ProbesKept, fleet, IInv, UnusedIsFresh
  <2> QED  BY <2>1, <2>3, <2>4, HandlerFrame
<1> QED  BY <1>1, <1>2
-----------------------------------------------------------------------------
\* The status column

Result == [ok : BOOLEAN, need : Nat]

\* The results that decide: see StatusFromHistory.
Decides(l) ==
    {i \in 1 .. Len(l) : /\ i >= l[i].need
                         /\ \A j \in 1 .. Len(l) : i - l[i].need < j /\ j <= i
                                                      => l[j].ok = l[i].ok}

\* The next result x ends a run as long as its threshold.
Calls(l, x) ==
    /\ Len(l) + 1 >= x.need
    /\ \A j \in 1 .. Len(l) : Len(l) + 1 - x.need < j => l[j].ok = x.ok

Says(ok) == IF ok THEN "reachable" ELSE "unreachable"

\* The last of some positions in a sequence.
LEMMA LastPosition ==
    ASSUME NEW N \in Nat, NEW D \in SUBSET (1 .. N), D # {}
    PROVE  \E m \in D : \A i \in D : i <= m
<1> DEFINE T == {i .. N : i \in D}
<1>1. T \subseteq FiniteSubsetsOf(Nat) /\ T # {}
  <2>1. ASSUME NEW i \in D PROVE i .. N \in SUBSET Nat /\ IsFiniteSet(i .. N)
    <3>1. i \in Int /\ N \in Int  OBVIOUS
    <3> QED  BY <3>1, FS_Interval
  <2> QED  BY <2>1 DEF FiniteSubsetsOf
<1>2. PICK X \in T : \A Y \in T : ~ (<<Y, X>> \in StrictSubsetOrdering(Nat))
  <2> HIDE DEF T
  <2> QED  BY <1>1, FS_StrictSubsetOrderingWellFounded, WFMin
<1>3. PICK m \in D : X = m .. N  OBVIOUS
<1>4. ASSUME NEW i \in D PROVE i <= m
  <2>1. ASSUME i > m PROVE <<i .. N, m .. N>> \in StrictSubsetOrdering(Nat)
    <3>1. m \in m .. N /\ m \notin i .. N  BY <2>1
    <3>2. i .. N \subseteq m .. N /\ m .. N \subseteq Nat  BY <2>1
    <3> QED  BY <3>1, <3>2 DEF StrictSubsetOrdering
  <2>2. i .. N \in T  OBVIOUS
  <2>3. ~(i > m)  BY <2>1, <1>2, <1>3, <2>2
  <2> QED  BY <2>3
<1> QED  BY <1>4

\* The last of the results that decide says what the status is.
LEMMA StatusIsLast ==
    ASSUME NEW l \in Seq(Result)
    PROVE  /\ Decides(l) = {} => StatusFromHistory(l) = "unprobed"
           /\ \A m \in Decides(l) : (\A i \in Decides(l) : i <= m)
                                       => StatusFromHistory(l) = Says(l[m].ok)
<1> DEFINE last == CHOOSE i \in Decides(l) : \A j \in Decides(l) : j <= i
<1>1. StatusFromHistory(l) = IF Decides(l) = {} THEN "unprobed" ELSE Says(l[last].ok)
  BY Zenon DEF StatusFromHistory, Decides, Says
<1>2. ASSUME NEW m \in Decides(l), \A i \in Decides(l) : i <= m PROVE last = m
  <2>1. last \in Decides(l) /\ \A j \in Decides(l) : j <= last  BY <1>2
  <2>2. Decides(l) \subseteq Int  BY LenProperties DEF Decides
  <2> HIDE DEF last
  <2> QED  BY <1>2, <2>1, <2>2
<1> QED  BY <1>1, <1>2

\* One more result: it decides if it ends a run as long as its threshold,
\* and what decided before still does.
LEMMA NextDecides ==
    ASSUME NEW l \in Seq(Result), NEW x \in Result, x.need >= 1
    PROVE  LET m == Append(l, x)
               n == Len(l) + 1
           IN  /\ m \in Seq(Result) /\ Len(m) = n /\ n \in 1 .. n /\ m[n] = x
               /\ \A i \in 1 .. Len(l) : m[i] = l[i]
               /\ Decides(m) \ {n} = Decides(l)
               /\ n \in Decides(m) <=> Calls(l, x)
<1> DEFINE m == Append(l, x)
           n == Len(l) + 1
<1>1. Len(l) \in Nat /\ \A i \in 1 .. Len(l) : l[i] \in Result
  BY LenProperties, ElementOfSeq
<1>2. m \in Seq(Result) /\ Len(m) = n /\ m[n] = x /\ \A i \in 1 .. Len(l) : m[i] = l[i]
  BY <1>1, AppendProperties
<1> HIDE DEF m
<1>3. x.need \in Nat /\ \A i \in 1 .. Len(l) : l[i].need \in Nat  BY <1>1 DEF Result
<1>4. ASSUME NEW i \in 1 .. Len(l) PROVE i \in Decides(m) <=> i \in Decides(l)
  <2>1. i \in 1 .. n /\ m[i] = l[i] /\ \A j \in 1 .. n : j <= i => j \in 1 .. Len(l) /\ m[j] = l[j]
    BY <1>1, <1>2
  <2>2. 1 .. Len(l) \subseteq 1 .. n  BY <1>1
  <2> QED  BY <1>2, <2>1, <2>2 DEF Decides
<1>5. Decides(m) \subseteq 1 .. n /\ Decides(l) \subseteq 1 .. Len(l)  BY <1>2 DEF Decides
<1>6. n \notin 1 .. Len(l) /\ 1 .. n = (1 .. Len(l)) \cup {n}  BY <1>1
<1>7. Decides(m) \ {n} = Decides(l)  BY <1>4, <1>5, <1>6
<1>8. n \in Decides(m) <=> Calls(l, x)
  <2>1. n \in Decides(m) <=> /\ n >= m[n].need
                             /\ \A j \in 1 .. n : n - m[n].need < j /\ j <= n => m[j].ok = m[n].ok
    BY <1>2, <1>6 DEF Decides
  <2>2. \A j \in 1 .. Len(l) : j <= n /\ m[j] = l[j]  BY <1>1, <1>2
  <2>3. ASSUME n \in Decides(m) PROVE Calls(l, x)
    <3>1. n >= x.need /\ \A j \in 1 .. n : n - x.need < j /\ j <= n => m[j].ok = x.ok
      BY <1>2, <2>1, <2>3
    <3>2. \A j \in 1 .. Len(l) : n - x.need < j => l[j].ok = x.ok
      BY <1>6, <2>2, <3>1
    <3> QED  BY <1>1, <1>3, <3>1, <3>2 DEF Calls
  <2>4. ASSUME Calls(l, x) PROVE n \in Decides(m)
    <3>1. n >= x.need /\ \A j \in 1 .. Len(l) : n - x.need < j => l[j].ok = x.ok
      BY <1>1, <1>3, <2>4 DEF Calls
    <3>2. \A j \in 1 .. n : n - x.need < j /\ j <= n => m[j].ok = x.ok
      BY <1>2, <1>6, <2>2, <3>1
    <3> QED  BY <1>2, <2>1, <3>1, <3>2
  <2> QED  BY <2>3, <2>4
<1> QED  BY <1>1, <1>2, <1>6, <1>7, <1>8 DEF m

\* UpdateProbe writes the status that the results so far call for.
LEMMA StatusAfterResult ==
    ASSUME NEW l \in Seq(Result), NEW x \in Result, x.need >= 1
    PROVE  StatusFromHistory(Append(l, x)) =
             IF Calls(l, x) THEN Says(x.ok) ELSE StatusFromHistory(l)
<1> DEFINE m == Append(l, x)
           n == Len(l) + 1
<1>1. /\ m \in Seq(Result) /\ Len(m) = n /\ m[n] = x
      /\ \A i \in 1 .. Len(l) : m[i] = l[i]
      /\ Decides(m) \ {n} = Decides(l)
      /\ n \in Decides(m) <=> Calls(l, x)
  BY NextDecides
<1>2. Len(l) \in Nat  BY LenProperties
<1>3. Decides(m) \subseteq 1 .. n /\ Decides(l) \in SUBSET (1 .. Len(l))
  BY <1>1, Zenon DEF Decides
<1> HIDE DEF m
<1>4. ASSUME n \in Decides(m)
      PROVE  StatusFromHistory(m) = IF Calls(l, x) THEN Says(x.ok) ELSE StatusFromHistory(l)
  <2>1. \A i \in Decides(m) : i <= n  BY <1>2, <1>3
  <2>2. StatusFromHistory(m) = Says(m[n].ok)  BY <1>1, <1>4, <2>1, StatusIsLast
  <2> QED  BY <1>1, <1>4, <2>2
<1>5. ASSUME n \notin Decides(m)
      PROVE  StatusFromHistory(m) = IF Calls(l, x) THEN Says(x.ok) ELSE StatusFromHistory(l)
  <2>1. Decides(m) = Decides(l)  BY <1>1, <1>5
  <2>2. CASE Decides(l) = {}
    <3>1. StatusFromHistory(m) = StatusFromHistory(l)  BY <1>1, <2>1, <2>2, StatusIsLast
    <3> QED  BY <1>1, <1>5, <3>1
  <2>3. CASE Decides(l) # {}
    <3>1. PICK k \in Decides(l) : \A i \in Decides(l) : i <= k
      BY <1>2, <1>3, <2>3, LastPosition
    <3>2. StatusFromHistory(m) = Says(m[k].ok) /\ StatusFromHistory(l) = Says(l[k].ok)
      BY <1>1, <2>1, <3>1, StatusIsLast
    <3>3. m[k] = l[k]  BY <1>1, <1>3, <3>1
    <3> QED  BY <1>1, <1>5, <3>2, <3>3
  <2> QED  BY <2>2, <2>3
<1>6. StatusFromHistory(m) = IF Calls(l, x) THEN Says(x.ok) ELSE StatusFromHistory(l)
  BY <1>4, <1>5
<1> QED  BY <1>6 DEF m

\* The latest run of equal results is as long as the counter says.
LEMMA CounterDecides ==
    ASSUME NEW l \in Seq(Result), NEW ok \in BOOLEAN, NEW count \in 0 .. Len(l),
           \A j \in 1 .. Len(l) : j > Len(l) - count => l[j].ok = ok,
           count < Len(l) => l[Len(l) - count].ok # ok, NEW need \in Nat \ {0}
    PROVE  count + 1 >= need <=>
             /\ Len(l) + 1 >= need
             /\ \A j \in 1 .. Len(l) : Len(l) + 1 - need < j => l[j].ok = ok
<1>1. Len(l) \in Nat /\ count \in Nat  BY LenProperties
<1>2. ASSUME count + 1 >= need
      PROVE  /\ Len(l) + 1 >= need
             /\ \A j \in 1 .. Len(l) : Len(l) + 1 - need < j => l[j].ok = ok
  <2>1. \A j \in 1 .. Len(l) : Len(l) + 1 - need < j => j > Len(l) - count  BY <1>1, <1>2
  <2> QED  BY <1>1, <1>2, <2>1
<1>3. ASSUME ~(count + 1 >= need), Len(l) + 1 >= need
      PROVE  ~ \A j \in 1 .. Len(l) : Len(l) + 1 - need < j => l[j].ok = ok
  <2>1. count < Len(l) /\ Len(l) - count \in 1 .. Len(l) /\ Len(l) + 1 - need < Len(l) - count
    BY <1>1, <1>3
  <2> QED  BY <2>1
<1> QED  BY <1>2, <1>3

\* The results with the one UpdateProbe stores.
Stored(l, ok, failT, succT) ==
    Append(l, [ok |-> ok, need |-> IF ok THEN succT ELSE failT])

LEMMA UpdateProbeCounts ==
    ASSUME NEW h \in Host, NEW l \in Seq(Result), Counted(h, l),
           h.status = StatusFromHistory(l),
           NEW ok \in BOOLEAN, NEW failT \in Nat \ {0}, NEW succT \in Nat \ {0}
    PROVE  /\ UpdateProbe(h, ok, failT, succT) \in Host
           /\ UpdateProbe(h, ok, failT, succT).group = h.group
           /\ Stored(l, ok, failT, succT) \in Seq(Result)
           /\ Counted(UpdateProbe(h, ok, failT, succT), Stored(l, ok, failT, succT))
           /\ UpdateProbe(h, ok, failT, succT).status
                = StatusFromHistory(Stored(l, ok, failT, succT))
<1> DEFINE new == UpdateProbe(h, ok, failT, succT)
           need == IF ok THEN succT ELSE failT
           x == [ok |-> ok, need |-> need]
           m == Append(l, x)
           n == Len(l) + 1
           count == IF ok THEN h.successes ELSE h.failures
<1>0. /\ Len(l) \in Nat /\ \A i \in 1 .. Len(l) : l[i] \in Result
      /\ h.successes \in Nat /\ h.failures \in Nat /\ h.status \in Status
  BY LenProperties, ElementOfSeq DEF Host
<1>1. x \in Result /\ x.ok = ok /\ x.need = need /\ need \in Nat \ {0}  BY DEF Result
<1>2. /\ new.failures = IF ok THEN 0 ELSE h.failures + 1
      /\ new.successes = IF ok THEN h.successes + 1 ELSE 0
      /\ new.status = IF count + 1 >= need THEN Says(ok) ELSE h.status
      /\ new.group = h.group
      /\ new \in Host
  <2>1. /\ new.failures = IF ok THEN 0 ELSE h.failures + 1
        /\ new.successes = IF ok THEN h.successes + 1 ELSE 0
        /\ new.group = h.group
    BY DEF UpdateProbe, Host
  <2>2. new.status = IF count + 1 >= need THEN Says(ok) ELSE h.status
    <3>1. CASE ok = TRUE  BY <3>1 DEF UpdateProbe, Host, Says
    <3>2. CASE ok = FALSE  BY <3>2 DEF UpdateProbe, Host, Says
    <3> QED  BY <3>1, <3>2
  <2>3. new \in Host
    <3>1. new.status \in Status  BY <1>0, <2>2 DEF Says, Status
    <3>2. new.failures \in Nat /\ new.successes \in Nat  BY <1>0, <2>1
    <3>3. new = [h EXCEPT !.failures = new.failures, !.successes = new.successes,
                          !.status = new.status]
      BY DEF UpdateProbe, Host
    <3> HIDE DEF new
    <3> QED  BY <3>1, <3>2, <3>3 DEF Host
  <2> QED  BY <2>1, <2>2, <2>3
<1> HIDE DEF x, new
<1>3. /\ m \in Seq(Result) /\ Len(m) = n /\ n \in 1 .. n /\ m[n] = x
      /\ \A i \in 1 .. Len(l) : m[i] = l[i]
  BY <1>1, NextDecides
<1>4. StatusFromHistory(m) = IF Calls(l, x) THEN Says(ok) ELSE StatusFromHistory(l)
  BY <1>1, StatusAfterResult
<1>5. \A j \in 1 .. Len(l) : l[j].ok \in BOOLEAN  BY <1>0 DEF Result
<1> HIDE DEF m
<1>6. /\ count \in 0 .. Len(l)
      /\ \A j \in 1 .. Len(l) : j > Len(l) - count => l[j].ok = ok
      /\ count < Len(l) => l[Len(l) - count].ok # ok
  <2>1. count < Len(l) => Len(l) - count \in 1 .. Len(l)  BY <1>0 DEF Counted
  <2>2. CASE ok = TRUE  BY <1>5, <2>1, <2>2 DEF Counted
  <2>3. CASE ok = FALSE  BY <1>5, <2>1, <2>3 DEF Counted
  <2> QED  BY <2>2, <2>3
<1> HIDE DEF count
<1>7. new.status = StatusFromHistory(m)
  <2>1. count + 1 >= need <=>
          /\ n >= need /\ \A j \in 1 .. Len(l) : n - need < j => l[j].ok = ok
    BY <1>1, <1>6, CounterDecides
  <2>2. count + 1 >= need <=> Calls(l, x)  BY <1>1, <2>1 DEF Calls
  <2> QED  BY <1>2, <1>4, <2>2
<1>8. Counted(new, m)
  <2>1. \A j \in 1 .. n : j # n => j \in 1 .. Len(l)  BY <1>0
  <2>2. CASE ok = TRUE
    <3>1. new.successes = h.successes + 1 /\ new.failures = 0 /\ m[n].ok
      BY <1>1, <1>2, <1>3, <2>2
    <3>2. ASSUME NEW j \in 1 .. n, j > n - new.successes PROVE m[j].ok
      <4>1. j # n => j \in 1 .. Len(l) /\ j > Len(l) - h.successes  BY <1>0, <2>1, <3>1, <3>2
      <4> QED  BY <1>3, <3>1, <4>1 DEF Counted
    <3>3. new.successes < n => ~m[n - new.successes].ok
      <4>1. n - new.successes = Len(l) - h.successes  BY <1>0, <3>1
      <4>2. new.successes < n => h.successes < Len(l) /\ Len(l) - h.successes \in 1 .. Len(l)
        BY <1>0, <3>1
      <4> QED  BY <1>3, <4>1, <4>2 DEF Counted
    <3> QED  BY <1>0, <1>3, <3>1, <3>2, <3>3 DEF Counted
  <2>3. CASE ok = FALSE
    <3>1. new.failures = h.failures + 1 /\ new.successes = 0 /\ ~m[n].ok
      BY <1>1, <1>2, <1>3, <2>3
    <3>2. ASSUME NEW j \in 1 .. n, j > n - new.failures PROVE ~m[j].ok
      <4>1. j # n => j \in 1 .. Len(l) /\ j > Len(l) - h.failures  BY <1>0, <2>1, <3>1, <3>2
      <4> QED  BY <1>3, <3>1, <4>1 DEF Counted
    <3>3. new.failures < n => m[n - new.failures].ok
      <4>1. n - new.failures = Len(l) - h.failures  BY <1>0, <3>1
      <4>2. new.failures < n => h.failures < Len(l) /\ Len(l) - h.failures \in 1 .. Len(l)
        BY <1>0, <3>1
      <4> QED  BY <1>3, <4>1, <4>2 DEF Counted
    <3> QED  BY <1>0, <1>3, <3>1, <3>2, <3>3 DEF Counted
  <2> QED  BY <2>2, <2>3
<1> QED  BY <1>2, <1>3, <1>7, <1>8 DEF new, m, x, Stored
-----------------------------------------------------------------------------
\* The prober, the hub and the tab

\* Steps that leave the tables and the results of probes alone.
LEMMA TablesStay ==
    ASSUME IInv, UNCHANGED <<fleet, keyTable, exclusions, history>>,
           started' \in 0 .. MaxStimuli, req' \in [Clients -> Request],
           \A d \in Clients : req'[d] = req[d] \/ req'[d].op # "recordPending"
    PROVE  /\ Tables' /\ Streaks' /\ StatusFollowsProbes' /\ UnusedIsFresh'
           /\ List(Watcher)' = List(Watcher)
<1>1. InventoryTypeOK'
  BY TypeSplits DEF IInv, InventoryTypeOK, fleet, keyTable
<1>2. NoOrphanedRows'  BY DEF IInv, NoOrphanedRows, Live, fleet, keyTable
<1>3. Keys'
  <2>1. KeysHaveIds' /\ KeysAreDistinct' /\ TrustedKeysWereReviewed'
    BY DEF IInv, Keys, KeysHaveIds, KeysAreDistinct, TrustedKeysWereReviewed, keyTable
  <2>2. ScansKnowTheirRow'
    BY DEF IInv, Keys, ScansKnowTheirRow, keyTable
  <2> QED  BY <2>1, <2>2 DEF Keys
<1>4. \A s \in Systems : SameRow(s) /\ (hosts'[s] = NoRow \/ Kept(s))
  BY DEF SameRow, Kept, fleet
<1>5. List(Watcher)' = List(Watcher)  BY <1>4, SameRowsSameList DEF fleet
<1>6. Streaks' /\ StatusFollowsProbes' /\ UnusedIsFresh'
  <2>1. ProbesKept /\ used \subseteq used' /\ \A s \in Systems \ used' : hosts'[s] = NoRow
    BY <1>4 DEF ProbesKept, fleet, IInv, UnusedIsFresh
  <2> QED  BY <2>1, ProbesKeptKeepsStatus DEF IInv
<1> QED  BY <1>1, <1>2, <1>3, <1>5, <1>6 DEF Tables

\* What remains to show for such a step.
LEMMA ElsewhereKeepsInv ==
    ASSUME IInv, UNCHANGED <<fleet, keyTable, exclusions, history>>,
           started' \in 0 .. MaxStimuli, req' \in [Clients -> Request],
           \A d \in Clients : req'[d] = req[d] \/ req'[d].op # "recordPending",
           WatchTypeOK', SyncedIsSubscribed',
           mode' = "serving" /\ synced' => Told' \/ view' = List(Watcher)
    PROVE  IInv'
<1>1. /\ Tables' /\ Streaks' /\ StatusFollowsProbes' /\ UnusedIsFresh'
      /\ List(Watcher)' = List(Watcher)
  BY TablesStay
<1>2. TypeOK'  BY <1>1 DEF Tables, TypeOK, WatchTypeOK
<1>3. StaleTabWillBeTold'  BY <1>1 DEF StaleTabWillBeTold, Told
<1> QED  BY <1>1, <1>2, <1>3 DEF IInv, Tables

\* What a synced tab has to rely on.
LEMMA SyncedIsTold ==
    ASSUME IInv
    PROVE  /\ mode = "serving" /\ synced => Told \/ view = List(Watcher)
           /\ synced => stream = "live"
           /\ WatchTypeOK /\ InventoryTypeOK
           /\ started \in 0 .. MaxStimuli /\ req \in [Clients -> Request]
BY TypeSplits DEF IInv, StaleTabWillBeTold, Told, SyncedIsSubscribed, InventoryTypeOK

LEMMA BroadcastTells ==
    ASSUME WatchTypeOK, Broadcast
    PROVE  /\ queue' \in 0 .. Buffer
           /\ queue > 0 => queue' > 0
           /\ stream = "live" => queue' > 0
BY FleetViewAssumption DEF WatchTypeOK, Broadcast

LEMMA StimulusBound ==
    ASSUME started \in 0 .. MaxStimuli, Stimulus
    PROVE  started' \in 0 .. MaxStimuli
BY InventoryAssumption DEF Stimulus

LEMMA AnnounceKeepsInv ==
    ASSUME IInv, NEW c \in Clients, Announce(c)
    PROVE  IInv'
<1>1. /\ req' = [req EXCEPT ![c] = Idle] /\ Broadcast
      /\ trigger' = (trigger \/ req[c].trigger)
      /\ UNCHANGED <<fleet, keyTable, exclusions, started, mode, tick,
                     history, stream, fetching, view, synced>>
  BY DEF Announce
<1>2. /\ req' \in [Clients -> Request]
      /\ \A d \in Clients : req'[d] = req[d] \/ req'[d].op # "recordPending"
  BY <1>1, SyncedIsTold, NewRequests
<1>3. WatchTypeOK'
  <2>1. trigger' \in BOOLEAN  BY <1>1, Zenon
  <2> QED  BY <1>1, <2>1, BroadcastTells, SyncedIsTold DEF WatchTypeOK
<1>4. SyncedIsSubscribed'  BY <1>1, SyncedIsTold DEF SyncedIsSubscribed
<1>5. synced' => Told'
  <2>1. synced' => queue' > 0  BY <1>1, BroadcastTells, SyncedIsTold
  <2> QED  BY <2>1 DEF Told
<1>6. started' \in 0 .. MaxStimuli  BY <1>1, SyncedIsTold
<1> QED  BY <1>1, <1>2, <1>3, <1>4, <1>5, <1>6, ElsewhereKeepsInv

\* Steps of the prober between its results.
LEMMA TicksKeepInv ==
    ASSUME IInv, TickEnd \/ TickAbort \/ \E byTrigger \in BOOLEAN : TickStart(byTrigger)
    PROVE  IInv'
<1>0. WatchTypeOK /\ InventoryTypeOK  BY SyncedIsTold
<1>1. UNCHANGED <<fleet, keyTable, exclusions, history, req, mode, stream, fetching, view, synced>>
  BY DEF TickEnd, TickAbort, TickStart, inventoryVars, tabVars
<1>2. started' \in 0 .. MaxStimuli
  BY SyncedIsTold, StimulusBound DEF TickEnd, TickAbort, TickStart, inventoryVars
<1>3. SyncedIsSubscribed'  BY <1>1, SyncedIsTold DEF SyncedIsSubscribed
<1>4. \A d \in Clients : req'[d] = req[d]  BY <1>1
<1>5. req' \in [Clients -> Request]  BY <1>1, SyncedIsTold
<1>6. WatchTypeOK' /\ (mode' = "serving" /\ synced' => Told' \/ view' = List(Watcher))
  <2>1. CASE TickEnd
    <3>1. /\ IF tick.changed THEN Broadcast ELSE UNCHANGED queue
          /\ tick' = NoTick /\ trigger' = trigger
      BY <2>1 DEF TickEnd
    <3>2. queue' \in 0 .. Buffer /\ (queue > 0 => queue' > 0)
          /\ (tick.changed /\ stream = "live" => queue' > 0)
      BY <1>0, <3>1, BroadcastTells DEF WatchTypeOK
    <3>3. WatchTypeOK'  BY <1>0, <1>1, <3>1, <3>2 DEF WatchTypeOK
    <3>4. synced /\ Told => Told'  BY <1>1, <3>2, SyncedIsTold DEF Told
    <3> QED  BY <1>1, <3>3, <3>4, SyncedIsTold
  <2>2. CASE TickAbort
    <3>1. mode # "serving" /\ tick' = NoTick /\ UNCHANGED <<trigger, queue>>
      BY <2>2 DEF TickAbort, tabVars
    <3>2. WatchTypeOK'  BY <1>0, <1>1, <3>1 DEF WatchTypeOK
    <3> QED  BY <1>1, <3>1, <3>2
  <2>3. ASSUME NEW byTrigger \in BOOLEAN, TickStart(byTrigger)
        PROVE  WatchTypeOK' /\ (mode' = "serving" /\ synced' => Told' \/ view' = List(Watcher))
    <3>1. /\ ~tick.on /\ queue' = queue /\ trigger' = (trigger /\ ~byTrigger)
          /\ \E failT \in FailThresholds, succT \in SuccThresholds : tick' = Cycle(failT, succT)
      BY <2>3 DEF TickStart, tabVars
    <3>2. tick' \in [on : {TRUE}, todo : SUBSET Systems, failT : FailThresholds,
                     succT : SuccThresholds, changed : BOOLEAN]
      BY <3>1 DEF Cycle, Live
    <3>3. trigger' \in BOOLEAN  BY <3>1, Zenon
    <3>4. WatchTypeOK'  BY <1>0, <1>1, <3>1, <3>2, <3>3 DEF WatchTypeOK
    <3>5. Told => Told'  BY <1>1, <3>1 DEF Told
    <3> QED  BY <1>1, <3>4, <3>5, SyncedIsTold
  <2> QED  BY <2>1, <2>2, <2>3
<1> QED  BY <1>1, <1>2, <1>3, <1>4, <1>5, <1>6, ElsewhereKeepsInv

\* The tab and the shutdown.
LEMMA TabKeepsInv ==
    ASSUME IInv, Tab \/ Stop \/ HubClose
    PROVE  IInv'
<1>0. WatchTypeOK /\ InventoryTypeOK  BY SyncedIsTold
<1>1. UNCHANGED <<fleet, keyTable, exclusions, history, req, trigger, tick>>
  BY DEF Tab, Connect, Subscribe, Receive, Fetch, Unsubscribe, Stop, HubClose,
         inventoryVars, probeVars
<1>2. started' \in 0 .. MaxStimuli
  BY SyncedIsTold, StimulusBound
     DEF Tab, Connect, Subscribe, Receive, Fetch, Unsubscribe, Stop, HubClose, inventoryVars
<1>3. req' \in [Clients -> Request]  BY <1>1, SyncedIsTold
<1>4. SyncedIsSubscribed'
  BY SyncedIsTold
     DEF Tab, Connect, Subscribe, Receive, Fetch, Unsubscribe, Stop, HubClose, tabVars,
         SyncedIsSubscribed
<1>5. WatchTypeOK'
  <2>1. view'.labels \subseteq Systems \X LabelKeys
    BY <1>0, ListedLabels
       DEF Tab, Connect, Subscribe, Receive, Fetch, Unsubscribe, Stop, HubClose, tabVars, WatchTypeOK
  <2>2. /\ mode' \in {"serving", "stopping", "closed"}
        /\ stream' \in {"none", "open", "live"}
    BY <1>0
       DEF Tab, Connect, Subscribe, Receive, Fetch, Unsubscribe, Stop, HubClose, tabVars, WatchTypeOK
  <2>3. queue' \in 0 .. Buffer
    BY <1>0, FleetViewAssumption
       DEF Tab, Connect, Subscribe, Receive, Fetch, Unsubscribe, Stop, HubClose, tabVars, WatchTypeOK
  <2>4. fetching' \in BOOLEAN /\ synced' \in BOOLEAN
    BY <1>0
       DEF Tab, Connect, Subscribe, Receive, Fetch, Unsubscribe, Stop, HubClose, tabVars, WatchTypeOK
  <2> QED  BY <1>0, <1>1, <2>1, <2>2, <2>3, <2>4 DEF WatchTypeOK
<1>6. mode' = "serving" /\ synced' => Told' \/ view' = List(Watcher)
  <2>1. CASE Fetch  BY <2>1 DEF Fetch
  <2>2. CASE Receive  BY <2>2 DEF Receive, Told
  <2>3. CASE Connect  BY <2>3 DEF Connect, Told
  <2>4. CASE Subscribe
    <3>1. UNCHANGED <<mode, synced, view, queue, fetching>>  BY <2>4 DEF Subscribe
    <3> QED  BY <1>1, <3>1, SyncedIsTold DEF Told
  <2>5. CASE Unsubscribe \/ HubClose  BY <2>5 DEF Unsubscribe, HubClose
  <2>6. CASE Stop  BY <2>6 DEF Stop
  <2> QED  BY <2>1, <2>2, <2>3, <2>4, <2>5, <2>6 DEF Tab
<1> QED  BY <1>1, <1>2, <1>3, <1>4, <1>5, <1>6, ElsewhereKeepsInv
\* The tables do not notice a new status.
LEMMA ProbeKeepsTables ==
    ASSUME IInv, NEW s \in Live, NEW new \in Host,
           hosts' = [hosts EXCEPT ![s] = new],
           UNCHANGED <<groups, used, labels, keyTable, exclusions, req, started>>
    PROVE  /\ Tables' /\ Live' = Live /\ s \in Systems
           /\ \A t \in Systems : hosts'[t] = IF t = s THEN new ELSE hosts[t]
<1>0. InventoryTypeOK /\ s \in Systems  BY SyncedIsTold DEF Live
<1>1. \A t \in Systems : hosts'[t] = IF t = s THEN new ELSE hosts[t]
  BY <1>0 DEF InventoryTypeOK
<1>2. InventoryTypeOK'  BY <1>0 DEF InventoryTypeOK, keyTable
<1>3. Live' = Live  BY <1>0, <1>1, NewHostIsHost DEF Live
<1>4. NoOrphanedRows'  BY <1>3 DEF IInv, NoOrphanedRows, keyTable
<1>5. Keys'
  BY DEF IInv, Keys, KeysHaveIds, KeysAreDistinct, TrustedKeysWereReviewed, ScansKnowTheirRow,
         keyTable
<1> QED  BY <1>0, <1>1, <1>2, <1>3, <1>4, <1>5 DEF Tables

\* A result is stored for a system that is still there.
LEMMA StoredResultKeepsInv ==
    ASSUME IInv, NEW s \in Live, NEW ok \in BOOLEAN, ProbeHost(s, ok)
    PROVE  IInv'
<1> DEFINE new == UpdateProbe(hosts[s], ok, tick.failT, tick.succT)
           results == Stored(history[s], ok, tick.failT, tick.succT)
<1>0. /\ WatchTypeOK /\ InventoryTypeOK /\ s \in Systems
      /\ hosts[s] \in Host /\ history[s] \in Seq(Result)
      /\ Counted(hosts[s], history[s]) /\ hosts[s].status = StatusFromHistory(history[s])
  BY SyncedIsTold, HostRows
     DEF Live, IInv, Streaks, StatusFollowsProbes, WatchTypeOK, Result
<1>1. /\ tick.on /\ s \in tick.todo
      /\ hosts' = [hosts EXCEPT ![s] = new]
      /\ history' = [history EXCEPT ![s] = results]
      /\ tick' = [tick EXCEPT !.todo = @ \ {s},
                              !.changed = @ \/ (TRUE /\ new.status # hosts[s].status)]
      /\ UNCHANGED <<groups, used, labels, keyTable, exclusions, req, started,
                     mode, trigger, tabVars>>
  BY DEF ProbeHost, Stored
<1>2. tick \in [on : {TRUE}, todo : SUBSET Systems, failT : FailThresholds,
                succT : SuccThresholds, changed : BOOLEAN]
  BY <1>0, <1>1, CyclesAreOn DEF WatchTypeOK
<1>3. tick.failT \in Nat \ {0} /\ tick.succT \in Nat \ {0}
  BY <1>2, FleetViewAssumption
<1>4. /\ new \in Host /\ new.group = hosts[s].group
      /\ results \in Seq(Result)
      /\ Counted(new, results)
      /\ new.status = StatusFromHistory(results)
  <2>1. /\ hosts[s] \in Host /\ history[s] \in Seq(Result)
        /\ tick.failT \in Nat \ {0} /\ tick.succT \in Nat \ {0}
    BY <1>0, <1>3
  <2>2. Counted(hosts[s], history[s]) /\ hosts[s].status = StatusFromHistory(history[s])
    BY <1>0
  <2>3. PICK h \in Host, l \in Seq(Result), failT \in Nat \ {0}, succT \in Nat \ {0} :
           h = hosts[s] /\ l = history[s] /\ failT = tick.failT /\ succT = tick.succT
    BY <2>1
  <2>4. Counted(h, l) /\ h.status = StatusFromHistory(l)  BY <2>2, <2>3
  <2>5. /\ UpdateProbe(h, ok, failT, succT) \in Host
        /\ UpdateProbe(h, ok, failT, succT).group = h.group
        /\ Stored(l, ok, failT, succT) \in Seq(Result)
        /\ Counted(UpdateProbe(h, ok, failT, succT), Stored(l, ok, failT, succT))
        /\ UpdateProbe(h, ok, failT, succT).status
             = StatusFromHistory(Stored(l, ok, failT, succT))
    BY <2>4, UpdateProbeCounts
  <2> QED  BY <2>3, <2>5
<1>5. /\ tick'.on /\ tick'.changed = (tick.changed \/ new.status # hosts[s].status)
      /\ tick' \in [on : {TRUE}, todo : SUBSET Systems, failT : FailThresholds,
                    succT : SuccThresholds, changed : BOOLEAN]
  BY <1>1, <1>2
<1> HIDE DEF new, results
<1>6. /\ Tables' /\ Live' = Live
      /\ \A t \in Systems : hosts'[t] = IF t = s THEN new ELSE hosts[t]
  BY <1>1, <1>4, ProbeKeepsTables
<1>7. \A t \in Systems : history'[t] = IF t = s THEN results ELSE history[t]
  BY <1>0, <1>1 DEF WatchTypeOK
<1>8. Streaks'
  <2> SUFFICES ASSUME NEW t \in Live' PROVE Counted(hosts'[t], history'[t])
    BY DEF Streaks
  <2>1. t \in Live /\ t \in Systems  BY <1>6 DEF Live
  <2> QED  BY <1>4, <1>6, <1>7, <2>1 DEF IInv, Streaks
<1>9. StatusFollowsProbes'
  <2> SUFFICES ASSUME NEW t \in Live' PROVE hosts'[t].status = StatusFromHistory(history'[t])
    BY DEF StatusFollowsProbes
  <2>1. t \in Live /\ t \in Systems  BY <1>6 DEF Live
  <2> QED  BY <1>4, <1>6, <1>7, <2>1 DEF IInv, StatusFollowsProbes
<1>10. UnusedIsFresh'
  <2>1. s \in used  BY <1>0 DEF IInv, UnusedIsFresh, Live
  <2> QED  BY <1>1, <1>6, <1>7, <2>1 DEF IInv, UnusedIsFresh
<1>11. history' \in [Systems -> Seq(Result)]
  BY <1>0, <1>1, <1>4 DEF WatchTypeOK, Result
<1>12. WatchTypeOK'
  BY <1>0, <1>1, <1>5, <1>11 DEF WatchTypeOK, tabVars, Result
<1>13. TypeOK'  BY <1>6, <1>12 DEF Tables, TypeOK, WatchTypeOK
<1>14. SyncedIsSubscribed'  BY <1>1, SyncedIsTold DEF SyncedIsSubscribed, tabVars
<1>15. mode' = "serving" /\ synced' => Told' \/ view' = List(Watcher)'
  <2>1. CASE new.status # hosts[s].status
    <3>1. tick'.changed  BY <1>5, <2>1
    <3> QED  BY <1>5, <3>1 DEF Told
  <2>2. CASE new.status = hosts[s].status
    <3>1. \A t \in Systems : SameRow(t)
      BY <1>0, <1>4, <1>6, <2>2, NewHostIsHost DEF SameRow
    <3>2. SUFFICES ASSUME mode = "serving", synced PROVE Told' \/ view = List(Watcher)
      <4>1. labels' = labels  BY <1>1
      <4>2. List(Watcher)' = List(Watcher)  BY <3>1, <4>1, SameRowsSameList
      <4> QED  BY <1>1, <4>2 DEF tabVars
    <3> QED  BY <1>1, <1>5, <3>2, SyncedIsTold DEF Told, tabVars
  <2> QED  BY <2>1, <2>2
<1>16. StaleTabWillBeTold'  BY <1>15 DEF StaleTabWillBeTold, Told
<1> QED  BY <1>6, <1>8, <1>9, <1>10, <1>13, <1>14, <1>16 DEF IInv, Tables

LEMMA ProbeKeepsInv ==
    ASSUME IInv, NEW s \in Systems, NEW ok \in BOOLEAN, ProbeHost(s, ok)
    PROVE  IInv'
<1>1. CASE s \in Live  BY <1>1, StoredResultKeepsInv
<1>2. CASE s \notin Live
  <2>1. /\ tick.on
        /\ tick' = [tick EXCEPT !.todo = @ \ {s}, !.changed = @ \/ FALSE]
        /\ UNCHANGED <<fleet, keyTable, exclusions, history, req, started, mode, trigger, tabVars>>
    BY <1>2 DEF ProbeHost, fleet
  <2>2. WatchTypeOK  BY SyncedIsTold
  <2>3. tick \in [on : {TRUE}, todo : SUBSET Systems, failT : FailThresholds,
                  succT : SuccThresholds, changed : BOOLEAN]
    BY <2>1, <2>2, CyclesAreOn DEF WatchTypeOK
  <2>4. /\ tick' \in [on : {TRUE}, todo : SUBSET Systems, failT : FailThresholds,
                      succT : SuccThresholds, changed : BOOLEAN]
        /\ tick'.on = tick.on /\ tick'.changed = tick.changed
    BY <2>1, <2>3
  <2>5. WatchTypeOK'  BY <2>1, <2>2, <2>4 DEF WatchTypeOK, tabVars
  <2>6. SyncedIsSubscribed'  BY <2>1, SyncedIsTold DEF SyncedIsSubscribed, tabVars
  <2>7. mode' = "serving" /\ synced' => Told' \/ view' = List(Watcher)
    BY <2>1, <2>4, SyncedIsTold DEF Told, tabVars
  <2>8. /\ started' \in 0 .. MaxStimuli /\ req' \in [Clients -> Request]
        /\ \A d \in Clients : req'[d] = req[d]
    BY <2>1, SyncedIsTold
  <2> QED  BY <2>1, <2>5, <2>6, <2>7, <2>8, ElsewhereKeepsInv
<1> QED  BY <1>1, <1>2

-----------------------------------------------------------------------------
\* The start

LEMMA InitHolds == Init => IInv
<1> SUFFICES ASSUME Init PROVE IInv  OBVIOUS
<1> DEFINE s == CHOOSE t \in Systems : TRUE
           g == CHOOSE h \in Groups : TRUE
           k == [id |-> 1, sys |-> s, state |-> "pending",
                 fp |-> CHOOSE f \in Fingerprints : TRUE]
<1>1. /\ s \in Systems /\ g \in Groups
      /\ (CHOOSE n \in Names : TRUE) \in Names
      /\ (CHOOSE f \in Fingerprints : TRUE) \in Fingerprints
  BY InventoryAssumption
<1>2. PICK member \in BOOLEAN :
        hosts = [t \in Systems |->
                    IF t # s THEN NoRow
                    ELSE [NewHost EXCEPT !.group = IF member THEN g ELSE NoGroup]]
  BY DEF Init, InventoryInit
<1>3. /\ groups = [h \in Groups |-> IF h = g THEN CHOOSE n \in Names : TRUE ELSE NoRow]
      /\ used = {s, g} /\ labels = {} /\ hostKeys = {k} /\ keysMade = 1
      /\ exclusions = {} /\ reviewed = {} /\ raced = {}
      /\ req = [c \in Clients |-> Idle] /\ started = 0
  BY DEF Init, InventoryInit
<1>4. /\ mode = "serving" /\ trigger = FALSE
      /\ \E failT \in FailThresholds, succT \in SuccThresholds : tick = Cycle(failT, succT)
      /\ history = [t \in Systems |-> <<>>]
      /\ stream \in {"none", "live"}
      /\ queue = 0 /\ fetching = FALSE
      /\ view = List(Watcher) /\ synced = (stream = "live")
  BY DEF Init
<1>5. k \in HostKey /\ k.id = 1 /\ k.state = "pending" /\ k.sys = s  BY <1>1 DEF HostKey
<1> DEFINE new == [NewHost EXCEPT !.group = IF member THEN g ELSE NoGroup]
<1>6. /\ new \in Host /\ new.status = "unprobed" /\ new.failures = 0 /\ new.successes = 0
  BY <1>1 DEF NewHost, Host, Status
<1>7. new # NoRow  BY <1>6, NewHostIsHost
<1>8. hosts = [t \in Systems |-> IF t # s THEN NoRow ELSE new]  BY <1>2
<1> HIDE DEF s, g, k, new
<1>9. \A t \in Systems : (hosts[t] # NoRow <=> t = s) /\ hosts[s] = new  BY <1>1, <1>7, <1>8
<1>10. InventoryTypeOK
  <2>1. hosts \in [Systems -> Host \cup {NoRow}]  BY <1>6, <1>8
  <2>2. groups \in [Groups -> Names \cup {NoRow}]  BY <1>1, <1>3
  <2>3. used \subseteq Systems \cup Groups /\ hostKeys \subseteq HostKey
    BY <1>1, <1>3, <1>5
  <2>4. req \in [Clients -> Request]  BY <1>3, NewRequests
  <2> QED  BY <1>3, <2>1, <2>2, <2>3, <2>4, InventoryAssumption DEF InventoryTypeOK
<1>11. WatchTypeOK
  <2>1. tick \in [on : {TRUE}, todo : SUBSET Systems, failT : FailThresholds,
                  succT : SuccThresholds, changed : BOOLEAN]
    BY <1>4 DEF Cycle, Live
  <2>2. history \in [Systems -> Seq([ok : BOOLEAN, need : Nat])]
    <3>1. <<>> \in Seq([ok : BOOLEAN, need : Nat])  OBVIOUS
    <3> QED  BY <1>4, <3>1
  <2>3. view.labels \subseteq Systems \X LabelKeys  BY <1>4, <1>10, ListedLabels
  <2>4. /\ mode \in {"serving", "stopping", "closed"} /\ trigger \in BOOLEAN
        /\ stream \in {"none", "open", "live"}
        /\ fetching \in BOOLEAN /\ synced \in BOOLEAN
    BY <1>4
  <2>5. queue \in 0 .. Buffer  BY <1>4, FleetViewAssumption
  <2> QED  BY <2>1, <2>2, <2>3, <2>4, <2>5 DEF WatchTypeOK
<1>12. NoOrphanedRows  BY <1>1, <1>3, <1>5, <1>9 DEF NoOrphanedRows, Live
<1>13. Keys
  <2>1. \A c \in Clients : req[c].op # "recordPending"  BY <1>3, NewRequests
  <2> QED
    BY <1>3, <1>5, <2>1
       DEF Keys, KeysHaveIds, KeysAreDistinct, ScansKnowTheirRow, TrustedKeysWereReviewed
<1>14. Streaks /\ StatusFollowsProbes
  <2>1. \A t \in Live : hosts[t] = new /\ history[t] = <<>>  BY <1>4, <1>9 DEF Live
  <2>2. Counted(new, <<>>)
    <3>1. Len(<<>>) = 0  OBVIOUS
    <3> QED  BY <1>6, <3>1 DEF Counted
  <2>3. new.status = StatusFromHistory(<<>>)  BY <1>6, NewRowIsUnprobed DEF NewHost
  <2> QED  BY <2>1, <2>2, <2>3 DEF Streaks, StatusFollowsProbes
<1>15. UnusedIsFresh  BY <1>3, <1>4, <1>9 DEF UnusedIsFresh
<1>16. SyncedIsSubscribed /\ StaleTabWillBeTold
  BY <1>4 DEF SyncedIsSubscribed, StaleTabWillBeTold
<1> QED  BY <1>10, <1>11, <1>12, <1>13, <1>14, <1>15, <1>16, TypeSplits DEF IInv

-----------------------------------------------------------------------------
\* Every step of handlers, prober, hub and tab keeps the invariant.
THEOREM Soundness == Spec => []IInv
<1>1. ASSUME IInv, [Next]_vars PROVE IInv'
  <2>1. CASE \E c \in Clients : HandlerStep(c)  BY <1>1, <2>1, HandlerKeepsInv
  <2>2. CASE \E c \in Clients : Announce(c)  BY <1>1, <2>2, AnnounceKeepsInv
  <2>3. CASE Probing  BY <1>1, <2>3, TicksKeepInv, ProbeKeepsInv DEF Probing
  <2>4. CASE Tab \/ Stop \/ HubClose  BY <1>1, <2>4, TabKeepsInv
  <2>5. CASE UNCHANGED vars
    <3>1. /\ UNCHANGED <<fleet, keyTable, exclusions, history, req, started>>
          /\ UNCHANGED <<mode, trigger, tick, tabVars>>
      BY <2>5 DEF vars, inventoryVars, probeVars
    <3>2. WatchTypeOK' /\ SyncedIsSubscribed'
      BY <1>1, <3>1, SyncedIsTold DEF WatchTypeOK, SyncedIsSubscribed, tabVars
    <3>3. mode' = "serving" /\ synced' => Told' \/ view' = List(Watcher)
      BY <1>1, <3>1, SyncedIsTold DEF Told, tabVars
    <3>4. started' \in 0 .. MaxStimuli /\ req' \in [Clients -> Request]
      BY <1>1, <3>1, SyncedIsTold
    <3> QED  BY <1>1, <3>1, <3>2, <3>3, <3>4, ElsewhereKeepsInv
  <2> QED  BY <1>1, <2>1, <2>2, <2>3, <2>4, <2>5 DEF Next, HandlerStep
<1> QED  BY <1>1, InitHolds, PTL DEF Spec

\* Nothing outlives its system, the status column is what the probes say,
\* and an open tab that shows old rows will be told: for any fleet, however
\* handlers, probe cycles, dropped events and the shutdown interleave.
THEOREM FleetAgrees == Spec => []FleetInv
<1>1. IInv => FleetInv  BY DEF IInv, FleetInv
<1> QED  BY <1>1, Soundness, PTL

\* A run trusts no host key that an operator has not accepted for that very
\* system, except a row that a scan was about to rewrite when it was accepted
\* (internal/hostkeys: RecordPending updates by id).
THEOREM TrustIsReviewed == Spec => []TrustedKeysWereReviewed
<1>1. IInv => TrustedKeysWereReviewed  BY DEF IInv, Keys
<1> QED  BY <1>1, Soundness, PTL

-----------------------------------------------------------------------------
\* The records of one host.

\* An apply of the package manager is under way.
Applies == run # NoRun /\ run.kind = "apply" /\ run.updater = "pkg"

\* The server's own holds are holds.
OursAreHeld == ours \subseteq held

\* Nothing is recorded before the playbook is over; then an apply ends with
\* the statement that records its holds, which no other run issues.
HoldsAreLast ==
    /\ (run # NoRun /\ run.result = "none") => run.todo = <<>>
    /\ (run # NoRun /\ run.result # "none") =>
           IF Applies
           THEN run.todo \in {<<"finish", "reboot", "holds">>, <<"reboot", "holds">>, <<"holds">>}
           ELSE \A i \in 1..Len(run.todo) : run.todo[i] # "holds"

HoldsIInv == RecordsTypeOK /\ OursAreHeld /\ HoldsAreLast

-----------------------------------------------------------------------------
\* A run that starts, and one whose playbook has ended.
LEMMA NewRunType ==
    ASSUME NEW u \in {"pkg", "os"}, NEW k \in {"inspect", "check", "apply"}
    PROVE  /\ NewRun(u, k) \in Run
           /\ NewRun(u, k).result = "none" /\ NewRun(u, k).todo = <<>>
           /\ NewRun(u, k).excl = {} /\ NewRun(u, k).known = {}
           /\ NewRun(u, k).updater = u /\ NewRun(u, k).kind = k
BY DEF NewRun, Run

\* The statements of an apply, and those of any other run.
LEMMA StatementsPlan ==
    ASSUME NEW u \in {"pkg", "os"}, NEW k \in {"inspect", "check", "apply"}
    PROVE  /\ Statements(u, k) \in Seq(Stmts)
           /\ IF u = "pkg" /\ k = "apply"
              THEN Statements(u, k) = <<"finish", "reboot", "holds">>
              ELSE \A i \in 1..Len(Statements(u, k)) : Statements(u, k)[i] # "holds"
<1>1. CASE k = "inspect"
  <2>1. Statements(u, k) = <<"finish", "reboot", "availability">>  BY <1>1 DEF Statements
  <2>2. <<"finish", "reboot", "availability">> \in Seq(Stmts)  BY DEF Stmts
  <2>3. \A i \in 1..Len(<<"finish", "reboot", "availability">>) : <<"finish", "reboot", "availability">>[i] # "holds"
    OBVIOUS
  <2> QED  BY <1>1, <2>1, <2>2, <2>3
<1>2. CASE k # "inspect" /\ u = "os"
  <2>1. Statements(u, k) = <<"finish", "reboot">>  BY <1>2 DEF Statements
  <2>2. <<"finish", "reboot">> \in Seq(Stmts)  BY DEF Stmts
  <2>3. \A i \in 1..Len(<<"finish", "reboot">>) : <<"finish", "reboot">>[i] # "holds"
    OBVIOUS
  <2> QED  BY <1>2, <2>1, <2>2, <2>3
<1>3. CASE k = "check" /\ u = "pkg"
  <2>1. Statements(u, k) = <<"finish", "pending", "reboot">>  BY <1>3 DEF Statements
  <2>2. <<"finish", "pending", "reboot">> \in Seq(Stmts)  BY DEF Stmts
  <2>3. \A i \in 1..Len(<<"finish", "pending", "reboot">>) : <<"finish", "pending", "reboot">>[i] # "holds"
    OBVIOUS
  <2> QED  BY <1>3, <2>1, <2>2, <2>3
<1>4. CASE k = "apply" /\ u = "pkg"
  <2>1. Statements(u, k) = <<"finish", "reboot", "holds">>  BY <1>4 DEF Statements
  <2>2. <<"finish", "reboot", "holds">> \in Seq(Stmts)  BY DEF Stmts
  <2> QED  BY <1>4, <2>1, <2>2
<1> QED  BY <1>1, <1>2, <1>3, <1>4

LEMMA EndedType ==
    ASSUME run \in Run, NEW res \in Results
    PROVE  /\ Ended(res) \in Run
           /\ Ended(res).result = res
           /\ Ended(res).excl = run.excl /\ Ended(res).known = run.known
           /\ Ended(res).updater = run.updater /\ Ended(res).kind = run.kind
           /\ Ended(res).todo = Statements(run.updater, run.kind)
<1>1. Statements(run.updater, run.kind) \in Seq(Stmts)
  BY StatementsPlan DEF Run
<1> QED  BY <1>1 DEF Ended, Run

\* A statement is over: the run ends with it, or goes on to the next.
LEMMA IssueType ==
    ASSUME run \in {NoRun} \cup Run, HoldsAreLast, NEW stmt, Issue(stmt)
    PROVE  /\ run \in Run /\ run # NoRun /\ run.result # "none"
           /\ run' \in {NoRun} \cup Run
           /\ HoldsAreLast'
           /\ run' # NoRun => /\ run'.result = run.result
                              /\ run'.excl = run.excl /\ run'.known = run.known
                              /\ (Applies' <=> Applies)
           /\ (Applies /\ run' = NoRun) => stmt = "holds" \/ run.result = "error"
           /\ stmt = "holds" => Applies /\ run' = NoRun
<1>1. run \in Run /\ run # NoRun /\ run.todo # <<>> /\ Head(run.todo) = stmt
  BY DEF Issue
<1>2. run.todo \in Seq(Stmts)  BY <1>1 DEF Run
<1>3. Tail(run.todo) \in Seq(Stmts) /\ Len(Tail(run.todo)) = Len(run.todo) - 1
      /\ \A i \in 1..Len(Tail(run.todo)) : Tail(run.todo)[i] = run.todo[i + 1]
  BY <1>1, <1>2, HeadTailProperties
<1>0. run.result # "none"  BY <1>1 DEF HoldsAreLast
<1>4. CASE Len(run.todo) = 1 \/ (stmt = "finish" /\ run.result = "error")
  <2>1. run' = NoRun  BY <1>4 DEF Issue
  <2>2. HoldsAreLast'  BY <2>1 DEF HoldsAreLast
  <2>3. Applies => stmt = "holds" \/ run.result = "error"
    BY <1>0, <1>1, <1>4 DEF HoldsAreLast
  <2>4. stmt = "holds" => Applies
    BY <1>0, <1>1, <1>2 DEF HoldsAreLast
  <2> QED  BY <1>0, <1>1, <2>1, <2>2, <2>3, <2>4
<1>5. CASE ~(Len(run.todo) = 1 \/ (stmt = "finish" /\ run.result = "error"))
  <2>1. run' = [run EXCEPT !.todo = Tail(@)]  BY <1>1, <1>5 DEF Issue
  <2>2. run' \in Run /\ run'.todo = Tail(run.todo)
        /\ run'.result = run.result /\ run'.excl = run.excl /\ run'.known = run.known
        /\ run'.updater = run.updater /\ run'.kind = run.kind
    BY <1>1, <1>3, <2>1 DEF Run
  <2>3. run' # NoRun  BY <2>2, RecordsAssumption
  <2>4. Applies' <=> Applies  BY <1>1, <2>2, <2>3 DEF Applies
  <2>5. CASE Applies
    <3>1. run.todo \in {<<"finish", "reboot", "holds">>, <<"reboot", "holds">>}
      BY <1>0, <1>1, <1>5, <2>5 DEF HoldsAreLast
    <3>2. /\ Tail(<<"finish", "reboot", "holds">>) = <<"reboot", "holds">>
          /\ Tail(<<"reboot", "holds">>) = <<"holds">>
      OBVIOUS
    <3>3. Head(run.todo) # "holds"  BY <3>1
    <3>4. Tail(run.todo) \in {<<"reboot", "holds">>, <<"holds">>}  BY <3>1, <3>2
    <3>5. HoldsAreLast'  BY <1>0, <2>2, <2>3, <2>4, <2>5, <3>4 DEF HoldsAreLast
    <3> QED  BY <1>0, <1>1, <2>2, <2>3, <2>4, <3>3, <3>5
  <2>6. CASE ~Applies
    <3>1. \A i \in 1..Len(run.todo) : run.todo[i] # "holds"
      BY <1>0, <1>1, <2>6 DEF HoldsAreLast
    <3>2. HoldsAreLast'  BY <1>0, <1>2, <1>3, <2>2, <2>4, <2>6, <3>1 DEF HoldsAreLast
    <3>3. stmt # "holds"  BY <1>1, <1>2, <3>1
    <3> QED  BY <1>0, <1>1, <2>2, <2>3, <2>4, <2>6, <3>2, <3>3
  <2> QED  BY <2>5, <2>6
<1> QED  BY <1>4, <1>5

\* A run begins, with nothing to record.
LEMMA BeginType ==
    ASSUME run' \in Run, run'.result = "none", run'.todo = <<>>
    PROVE  HoldsAreLast'
BY DEF HoldsAreLast

\* A playbook ends: what is left is the statements of its kind of run,
\* whatever it printed.
LEMMA EndType ==
    ASSUME run \in {NoRun} \cup Run, Playing, NEW res \in Results,
           NEW P \in SUBSET Packages, NEW d \in BOOLEAN, NEW m \in BOOLEAN,
           \/ run' = Ended(res)
           \/ run' = [Ended(res) EXCEPT !.pending = P]
           \/ run' = [Ended(res) EXCEPT !.detected = d]
           \/ run' = [Ended(res) EXCEPT !.marker = m]
    PROVE  /\ run \in Run /\ run' \in Run /\ run' # NoRun
           /\ run'.result = res /\ run'.excl = run.excl /\ run'.known = run.known
           /\ Applies' <=> Applies
           /\ HoldsAreLast'
<1>1. run \in Run  BY DEF Playing
<1>2. run' \in Run  BY <1>1, EndedType DEF Run
<1>3. run' # NoRun  BY <1>2, RecordsAssumption
<1>4. /\ run'.result = res /\ run'.excl = run.excl /\ run'.known = run.known
      /\ run'.updater = run.updater /\ run'.kind = run.kind
      /\ run'.todo = Statements(run.updater, run.kind)
  BY <1>1, EndedType DEF Run
<1>5. Applies' <=> Applies  BY <1>1, <1>3, <1>4 DEF Applies, Playing
<1>6. HoldsAreLast'
  <2>1. res # "none"  BY DEF Results
  <2>2. run.updater \in {"pkg", "os"} /\ run.kind \in {"inspect", "check", "apply"}
    BY <1>1 DEF Run
  <2>3. CASE Applies
    BY <1>3, <1>4, <1>5, <2>1, <2>2, <2>3, StatementsPlan DEF HoldsAreLast, Applies
  <2>4. CASE ~Applies
    BY <1>3, <1>4, <1>5, <2>1, <2>2, <2>4, StatementsPlan DEF HoldsAreLast, Applies, Playing
  <2> QED  BY <2>3, <2>4
<1> QED  BY <1>1, <1>2, <1>3, <1>4, <1>5, <1>6

\* A run starts.
Starts == Inspect \/ (\E u \in {"pkg", "os"} : Check(u)) \/ ApplyOS \/ Apply \/ ApplyUnresolved

\* A run starts only where there is none, with its playbook still to run.
LEMMA StartType ==
    ASSUME RecordsTypeOK, Starts
    PROVE  /\ run = NoRun /\ run' \in Run /\ run' # NoRun
           /\ run'.result = "none" /\ run'.todo = <<>>
           /\ run'.excl \in {{}, excluded} /\ run'.known \in {{}, managed}
           /\ run'.known # managed => run'.kind # "apply" \/ run'.updater # "pkg"
                                       \/ ApplyUnresolved
<1>0. excluded \subseteq Packages /\ managed \subseteq Packages  BY DEF RecordsTypeOK
<1>1. CASE Inspect
  <2>1. run = NoRun /\ run' = NewRun("pkg", "inspect")  BY <1>1 DEF Inspect
  <2> QED  BY <2>1, NewRunType, RecordsAssumption
<1>2. CASE \E u \in {"pkg", "os"} : Check(u)
  <2>1. PICK u \in {"pkg", "os"} : run = NoRun /\ run' = NewRun(u, "check")  BY <1>2 DEF Check
  <2> QED  BY <2>1, NewRunType, RecordsAssumption
<1>3. CASE ApplyOS
  <2>1. run = NoRun /\ run' = NewRun("os", "apply")  BY <1>3 DEF ApplyOS
  <2> QED  BY <2>1, NewRunType, RecordsAssumption
<1>4. CASE Apply \/ ApplyUnresolved
  <2>1. PICK ex \in {excluded, {}}, kn \in {managed, {}} :
           /\ run = NoRun
           /\ run' = [NewRun("pkg", "apply") EXCEPT !.excl = ex, !.known = kn]
           /\ kn = managed \/ ApplyUnresolved
    BY <1>4 DEF Apply, ApplyUnresolved
  <2>2. NewRun("pkg", "apply") \in Run /\ NewRun("pkg", "apply").result = "none"
        /\ NewRun("pkg", "apply").todo = <<>>
    BY NewRunType
  <2>3. run' \in Run /\ run'.result = "none" /\ run'.todo = <<>>
        /\ run'.excl = ex /\ run'.known = kn
    BY <1>0, <2>1, <2>2 DEF Run
  <2> QED  BY <2>1, <2>3, RecordsAssumption
<1> QED  BY <1>1, <1>2, <1>3, <1>4 DEF Starts

\* A playbook ends that changes no hold.
PlayEnds == \/ \E res \in {"unreachable", "refused", "error"} : NotReached(res)
            \/ CheckSucceeds \/ OSApplySucceeds \/ OSCheckSucceeds \/ InspectSucceeds

\* A playbook that is not an apply of the package manager, or does not reach
\* the host, changes no hold.
LEMMA PlayEndsType ==
    ASSUME RecordsTypeOK, PlayEnds
    PROVE  /\ run \in Run /\ run' \in Run /\ run' # NoRun
           /\ run.result = "none" /\ run'.result \in Results
           /\ run'.excl = run.excl /\ run'.known = run.known
           /\ Applies' <=> Applies
           /\ Applies => run'.result # "success"
           /\ HoldsAreLast'
           /\ UNCHANGED <<held, ours, managed, excluded>>
<1>0. run \in {NoRun} \cup Run /\ upgradable \in SUBSET Packages  BY DEF RecordsTypeOK
<1>1. ASSUME NEW res \in {"unreachable", "refused", "error"}, NotReached(res)
      PROVE  /\ run \in Run /\ run' \in Run /\ run' # NoRun
             /\ run'.result = res /\ run'.excl = run.excl /\ run'.known = run.known
             /\ Applies' <=> Applies
             /\ HoldsAreLast'
  <2>1. Playing /\ run' = Ended(res)  BY <1>1 DEF NotReached
  <2>2. res \in Results  BY DEF Results
  <2> QED  BY <1>0, <2>1, <2>2, EndType
<1>2. ASSUME CheckSucceeds \/ OSApplySucceeds \/ OSCheckSucceeds \/ InspectSucceeds
      PROVE  /\ run \in Run /\ run' \in Run /\ run' # NoRun
             /\ run'.result = "success" /\ run'.excl = run.excl /\ run'.known = run.known
             /\ Applies' <=> Applies
             /\ HoldsAreLast'
  <2>1. Playing  BY <1>2 DEF CheckSucceeds, OSApplySucceeds, OSCheckSucceeds, InspectSucceeds
  <2>2. /\ needsReboot \in BOOLEAN /\ present \in BOOLEAN
        /\ OSApplySucceeds => needsReboot' \in BOOLEAN
    BY DEF RecordsTypeOK, OSApplySucceeds
  <2>3. PICK d \in BOOLEAN, m \in BOOLEAN :
           \/ run' = [Ended("success") EXCEPT !.pending = upgradable]
           \/ run' = [Ended("success") EXCEPT !.detected = d]
           \/ run' = [Ended("success") EXCEPT !.marker = m]
    BY <1>2, <2>2 DEF CheckSucceeds, OSApplySucceeds, OSCheckSucceeds, InspectSucceeds
  <2>4. "success" \in Results  BY DEF Results
  <2> QED  BY <1>0, <2>1, <2>3, <2>4, EndType
<1>3. run.result = "none" /\ UNCHANGED <<held, ours, managed, excluded>>
  BY DEF PlayEnds, NotReached, CheckSucceeds, OSApplySucceeds, OSCheckSucceeds,
         InspectSucceeds, Playing, hostVars, recordVars
<1>4. (CheckSucceeds \/ OSApplySucceeds \/ OSCheckSucceeds \/ InspectSucceeds) => ~Applies
  BY DEF CheckSucceeds, OSApplySucceeds, OSCheckSucceeds, InspectSucceeds, Applies
<1>5. CASE \E res \in {"unreachable", "refused", "error"} : NotReached(res)
  BY <1>1, <1>3, <1>5 DEF Results
<1>6. CASE CheckSucceeds \/ OSApplySucceeds \/ OSCheckSucceeds \/ InspectSucceeds
  BY <1>2, <1>3, <1>4, <1>6 DEF Results
<1> QED  BY <1>5, <1>6 DEF PlayEnds

\* The steps that are no step of the run.
Beside == \/ HostReinstalled \/ Reboots
          \/ \E p \in Packages : \/ UpdatePublished(p) \/ AdminHolds(p) \/ AdminUnholds(p)
                                 \/ ToggleExclusion(p)
          \/ \E flag \in BOOLEAN : SetEnabled(flag)
          \/ Conflict \/ RebootStep

\* The kinds of step of the system, as far as the run is concerned.
LEMMA StepKinds ==
    RecordsNext => \/ Beside \/ Starts \/ PlayEnds \/ ApplyFails \/ ApplySucceeds
            \/ Recording \/ Restart
BY DEF RecordsNext, Environment, Operator, Playbook, Beside, Starts, PlayEnds

\* Beside the run: it and its record stay; the administrator lifts a hold, or
\* the operator changes an exclusion.
LEMMA BesideStep ==
    ASSUME HoldsIInv, Beside
    PROVE  /\ HoldsIInv' /\ run' = run /\ managed' = managed
           /\ ours' \subseteq ours
<1>1. RecordsTypeOK' /\ OursAreHeld' /\ run' = run /\ managed' = managed /\ ours' \subseteq ours
  <2>1. CASE HostReinstalled \/ Reboots \/ Conflict
    BY <2>1 DEF HoldsIInv, RecordsTypeOK, OursAreHeld, HostReinstalled, Reboots, Conflict, hostVars, recordVars
  <2>2. CASE \E p \in Packages : UpdatePublished(p) \/ AdminHolds(p) \/ AdminUnholds(p)
    BY <2>2 DEF HoldsIInv, RecordsTypeOK, OursAreHeld, UpdatePublished, AdminHolds, AdminUnholds, recordVars
  <2>3. CASE \E p \in Packages : ToggleExclusion(p)
    BY <2>3 DEF HoldsIInv, RecordsTypeOK, OursAreHeld, ToggleExclusion, hostVars, recordVars
  <2>4. CASE \E flag \in BOOLEAN : SetEnabled(flag)
    BY <2>4 DEF HoldsIInv, RecordsTypeOK, OursAreHeld, SetEnabled, hostVars
  <2>5. CASE RebootStep
    BY <2>5 DEF HoldsIInv, RecordsTypeOK, OursAreHeld, RebootStep, RebootIfRequired, RebootSucceeds,
                RebootFails, ClearRebootRequired, hostVars, recordVars
  <2> QED  BY <2>1, <2>2, <2>3, <2>4, <2>5 DEF Beside
<1>2. HoldsAreLast'  BY <1>1 DEF HoldsIInv, HoldsAreLast, Applies
<1> QED  BY <1>1, <1>2 DEF HoldsIInv

LEMMA StartStep ==
    ASSUME HoldsIInv, Starts
    PROVE  HoldsIInv' /\ UNCHANGED <<held, ours, managed, excluded>>
<1>1. run' \in Run /\ run'.result = "none" /\ run'.todo = <<>>  BY StartType DEF HoldsIInv
<1>2. UNCHANGED <<hostVars, recordVars, excluded, reboot>>
  BY DEF Starts, Inspect, Check, ApplyOS, Apply, ApplyUnresolved
<1>3. RecordsTypeOK' /\ OursAreHeld'
  BY <1>1, <1>2 DEF HoldsIInv, RecordsTypeOK, OursAreHeld, hostVars, recordVars
<1> QED  BY <1>1, <1>2, <1>3, BeginType DEF HoldsIInv, hostVars, recordVars

LEMMA PlayEndStep ==
    ASSUME HoldsIInv, PlayEnds
    PROVE  HoldsIInv'
<1>1. run' \in Run /\ HoldsAreLast'  BY PlayEndsType DEF HoldsIInv
<1>2. UNCHANGED <<present, upgradable, held, ours, recordVars, excluded, reboot>>
      /\ needsReboot' \in BOOLEAN
  BY DEF PlayEnds, NotReached, CheckSucceeds, OSApplySucceeds, OSCheckSucceeds,
         InspectSucceeds, hostVars, HoldsIInv, RecordsTypeOK
<1>3. RecordsTypeOK' /\ OursAreHeld'
  BY <1>1, <1>2 DEF HoldsIInv, RecordsTypeOK, OursAreHeld, recordVars
<1> QED  BY <1>1, <1>3 DEF HoldsIInv

\* An apply places holds only on what is excluded, and lifts only holds it was
\* told are ours; one that succeeds leaves no hold of ours that is not excluded,
\* if what it was told is all there was.
LEMMA ApplyStep ==
    ASSUME HoldsIInv, ApplyFails \/ ApplySucceeds
    PROVE  /\ HoldsIInv' /\ run \in Run /\ Applies /\ run.result = "none"
           /\ run' \in Run /\ run' # NoRun /\ Applies'
           /\ run'.excl = run.excl /\ run'.known = run.known
           /\ held \ held' \subseteq run.known
           /\ ApplyFails => run'.result = "failed"
           /\ (ApplySucceeds /\ ours \subseteq run.known) => ours' \subseteq run'.excl
           /\ UNCHANGED <<managed, excluded>>
<1>0. run \in {NoRun} \cup Run /\ OursAreHeld /\ HoldsAreLast  BY DEF HoldsIInv, RecordsTypeOK
<1>1. PICK res \in {"failed", "success"} : Playing /\ run' = Ended(res)
        /\ (ApplyFails => res = "failed")
  <2>1. CASE ApplyFails
    BY <2>1 DEF ApplyFails
  <2>2. CASE ~ApplyFails
    BY <2>2 DEF ApplySucceeds
  <2> QED  BY <2>1, <2>2
<1>2. Applies /\ run.result = "none"  BY DEF ApplyFails, ApplySucceeds, Applies, Playing
<1>3. /\ run \in Run /\ run' \in Run /\ run' # NoRun
      /\ run'.result = res /\ run'.excl = run.excl /\ run'.known = run.known
      /\ Applies' /\ HoldsAreLast'
  BY <1>0, <1>1, <1>2, EndType DEF Results
<1>4. run.excl \subseteq Packages /\ run.known \subseteq Packages  BY <1>3 DEF Run
<1>5. UNCHANGED <<present, recordVars, excluded, reboot>>
      /\ needsReboot' \in BOOLEAN /\ upgradable' \subseteq upgradable
  BY DEF ApplyFails, ApplySucceeds, HoldsIInv, RecordsTypeOK
<1>6. /\ ours' \subseteq held' /\ held' \subseteq Packages
      /\ held \ held' \subseteq run.known
  <2>1. held \subseteq Packages  BY DEF HoldsIInv, RecordsTypeOK
  <2>2. ToHold \subseteq Packages /\ ToUnhold \subseteq run.known  BY <1>4 DEF ToHold, ToUnhold
  <2>3. PICK A \in SUBSET ToHold, B \in SUBSET ToUnhold :
           held' = (held \cup A) \ B /\ ours' = (ours \cup A) \ B
    <3>1. CASE ApplyFails  BY <3>1 DEF ApplyFails
    <3>2. CASE ApplySucceeds  BY <3>2 DEF ApplySucceeds
    <3> QED  BY <3>1, <3>2
  <2> QED  BY <1>0, <2>1, <2>2, <2>3 DEF OursAreHeld
<1>7. (ApplySucceeds /\ ours \subseteq run.known) => ours' \subseteq run'.excl
  <2>1. SUFFICES ASSUME ApplySucceeds, ours \subseteq run.known
                 PROVE  ours' \subseteq run.excl
    BY <1>3
  <2>2. ours' = (ours \cup (run.excl \ held)) \ ((run.known \ run.excl) \cap held)
    BY <2>1 DEF ApplySucceeds, ToHold, ToUnhold
  <2> QED  BY <1>0, <2>1, <2>2 DEF OursAreHeld
<1>8. RecordsTypeOK'
  BY <1>3, <1>5, <1>6 DEF HoldsIInv, RecordsTypeOK, recordVars
<1> QED  BY <1>1, <1>2, <1>3, <1>5, <1>6, <1>7, <1>8 DEF HoldsIInv, OursAreHeld, recordVars

\* A statement writes managed_holds only as the last of an apply, with the
\* exclusions the apply was given.
LEMMA RecordStep ==
    ASSUME HoldsIInv, Recording
    PROVE  /\ HoldsIInv' /\ run \in Run /\ run # NoRun /\ run.result # "none"
           /\ run' # NoRun => /\ run'.result = run.result
                              /\ run'.excl = run.excl /\ run'.known = run.known
                              /\ (Applies' <=> Applies)
           /\ (Applies /\ run' = NoRun) => \/ run.result # "success"
                                           \/ StatementFails
                                           \/ managed' = run.excl
           /\ \/ managed' = managed
              \/ Applies /\ run' = NoRun /\ managed' = run.excl
           /\ UNCHANGED <<held, ours, excluded>>
<1>0. run \in {NoRun} \cup Run /\ HoldsAreLast  BY DEF HoldsIInv, RecordsTypeOK
<1>1. PICK stmt \in Stmts : /\ Issue(stmt)
                            /\ stmt = "holds" <=> (RecordHolds \/ (StatementFails /\ Issue("holds")))
  <2>1. CASE RecordHolds  BY <2>1 DEF RecordHolds, Stmts
  <2>2. CASE StatementFails /\ ~RecordHolds
    <3>1. PICK stmt \in Stmts : Issue(stmt)  BY <2>2 DEF StatementFails
    <3>2. Issue("holds") <=> stmt = "holds"  BY <3>1 DEF Issue
    <3> QED  BY <2>2, <3>1, <3>2
  <2>3. CASE ~RecordHolds /\ ~StatementFails
    BY <2>3 DEF Recording, FinishRun, SetPendingPackages, reconcileRebootRequired,
                ReconcileAvailability, Stmts
  <2> QED  BY <2>1, <2>2, <2>3
<1>2. /\ run \in Run /\ run # NoRun /\ run.result # "none"
      /\ run' \in {NoRun} \cup Run
      /\ HoldsAreLast'
      /\ run' # NoRun => /\ run'.result = run.result
                         /\ run'.excl = run.excl /\ run'.known = run.known
                         /\ (Applies' <=> Applies)
      /\ (Applies /\ run' = NoRun) => stmt = "holds" \/ run.result = "error"
      /\ stmt = "holds" => Applies /\ run' = NoRun
  BY <1>0, <1>1, IssueType
<1>3. /\ \/ managed' = managed
         \/ stmt = "holds" /\ managed' = run.excl
      /\ stmt = "holds" => StatementFails \/ managed' = run.excl
  BY <1>1 DEF Recording, FinishRun, SetPendingPackages, reconcileRebootRequired,
              ReconcileAvailability, StatementFails, RecordHolds, recordVars
<1>4. RecordsTypeOK' /\ UNCHANGED <<held, ours, excluded>>
  <2>1. run.excl \subseteq Packages /\ run.pending \subseteq Packages
        /\ run.marker \in BOOLEAN
    BY <1>2 DEF Run
  <2>2. CASE FinishRun
    BY <1>2, <2>2 DEF HoldsIInv, RecordsTypeOK, FinishRun, ExitZero, hostVars
  <2>3. CASE SetPendingPackages
    BY <1>2, <2>1, <2>3 DEF HoldsIInv, RecordsTypeOK, SetPendingPackages, hostVars
  <2>4. CASE reconcileRebootRequired
    BY <1>2, <2>1, <2>4 DEF HoldsIInv, RecordsTypeOK, reconcileRebootRequired, hostVars
  <2>5. CASE RecordHolds
    BY <1>2, <2>1, <2>5 DEF HoldsIInv, RecordsTypeOK, RecordHolds, hostVars
  <2>6. CASE ReconcileAvailability
    BY <1>2, <2>1, <2>6 DEF HoldsIInv, RecordsTypeOK, ReconcileAvailability, hostVars
  <2>7. CASE StatementFails
    BY <1>2, <2>7 DEF HoldsIInv, RecordsTypeOK, StatementFails, hostVars, recordVars
  <2> QED  BY <2>2, <2>3, <2>4, <2>5, <2>6, <2>7 DEF Recording
<1> QED  BY <1>2, <1>3, <1>4 DEF HoldsIInv, OursAreHeld

LEMMA RestartStep ==
    ASSUME HoldsIInv, Restart
    PROVE  HoldsIInv' /\ run' = NoRun /\ UNCHANGED <<held, ours, managed, excluded>>
BY DEF HoldsIInv, Restart, RecordsTypeOK, OursAreHeld, HoldsAreLast, hostVars

LEMMA InitInvariant == RecordsInit => HoldsIInv
<1> SUFFICES ASSUME RecordsInit PROVE HoldsIInv  OBVIOUS
<1>1. OursAreHeld /\ HoldsAreLast  BY DEF RecordsInit, OursAreHeld, HoldsAreLast
<1>2. RecordsTypeOK  BY DEF RecordsInit, RecordsTypeOK
<1> QED  BY <1>1, <1>2 DEF HoldsIInv

LEMMA StepInvariant == HoldsIInv /\ [RecordsNext]_allVars => HoldsIInv'
<1> SUFFICES ASSUME HoldsIInv, [RecordsNext]_allVars PROVE HoldsIInv'  OBVIOUS
<1>1. CASE RecordsNext
  BY <1>1, StepKinds, BesideStep, StartStep, PlayEndStep, ApplyStep, RecordStep, RestartStep
<1>2. CASE UNCHANGED allVars
  BY <1>2 DEF HoldsIInv, RecordsTypeOK, OursAreHeld, HoldsAreLast, Applies, allVars
<1> QED  BY <1>1, <1>2

\* The types, the server's holds among the host's, and the record of the holds
\* as the last statement of an apply, in every reachable state (runner.go:64-98
\* and scoop/apply.yml).
THEOREM HoldsSoundness == RecordsSpec => []HoldsIInv
<1>1. RecordsInit => HoldsIInv  BY InitInvariant
<1>2. HoldsIInv /\ [RecordsNext]_allVars => HoldsIInv'  BY StepInvariant
<1> QED  BY <1>1, <1>2, PTL DEF RecordsSpec

\* No apply upgrades a package that was excluded when it read the exclusions,
\* by whatever hand the holds were changed in between (scoop/apply.yml).
THEOREM ExclusionsSurviveApplies == RecordsSpec => ExclusionsHonoured
<1>1. HoldsIInv /\ [RecordsNext]_allVars => [run # NoRun /\ run.kind = "apply" =>
                                 run.excl \cap upgradable \subseteq upgradable']_allVars
  <2> SUFFICES ASSUME HoldsIInv, RecordsNext, run # NoRun
               PROVE  run.excl \cap upgradable \subseteq upgradable'
    OBVIOUS
  <2>1. CASE ApplySucceeds
    <3>1. run.excl \subseteq held'
      <4>1. held' = (held \cup (run.excl \ held)) \ ((run.known \ run.excl) \cap held)
        BY <2>1 DEF ApplySucceeds, ToHold, ToUnhold
      <4> QED  BY <4>1
    <3>2. PICK T \in SUBSET Packages : upgradable' = upgradable \cap (held' \cup T)
      BY <2>1 DEF ApplySucceeds
    <3> QED  BY <3>1, <3>2
  <2>2. CASE ~ApplySucceeds
    <3>1. upgradable \subseteq upgradable'
      BY <2>2 DEF RecordsNext, Environment, HostReinstalled, Reboots, UpdatePublished, AdminHolds,
                  AdminUnholds, Operator, ToggleExclusion, SetEnabled, Check, Inspect, ApplyOS,
                  Apply, ApplyUnresolved, Conflict, Playbook, NotReached, ApplyFails,
                  CheckSucceeds, OSApplySucceeds, OSCheckSucceeds, InspectSucceeds, Recording,
                  FinishRun, SetPendingPackages, reconcileRebootRequired, RecordHolds,
                  ReconcileAvailability, StatementFails, RebootStep, RebootIfRequired,
                  RebootSucceeds, RebootFails, ClearRebootRequired, Restart, hostVars
    <3> QED  BY <3>1
  <2> QED  BY <2>1, <2>2
<1> QED  BY <1>1, HoldsSoundness, PTL DEF RecordsSpec, ExclusionsHonoured

-----------------------------------------------------------------------------
(* What the history adds.  Only the package manager's applies write        *)
(* managed_holds, so outside them the record is complete; one that runs    *)
(* was told all of it, and one that succeeded leaves no other hold of ours *)
(* than the exclusions it is going to record.                              *)
RunIsTold ==
    ~interrupted =>
        /\ ~Applies => ours \subseteq managed
        /\ Applies /\ run.result = "none" => ours \subseteq managed /\ run.known = managed
        /\ Applies /\ run.result = "success" => ours \subseteq run.excl

\* Nothing is held, recorded or about to be lifted that was never excluded.
Excluded ==
    /\ excluded \subseteq everExcluded /\ managed \subseteq everExcluded
    /\ run # NoRun => run.excl \cup run.known \subseteq everExcluded

HistoryInv == HoldsIInv /\ RunIsTold /\ Excluded

LEMMA HistoryInit == HistInit => HistoryInv
<1> SUFFICES ASSUME HistInit PROVE HistoryInv  OBVIOUS
<1>1. HoldsIInv  BY InitInvariant DEF HistInit
<1>2. RunIsTold /\ Excluded  BY DEF HistInit, RecordsInit, RunIsTold, Excluded, Applies
<1> QED  BY <1>1, <1>2 DEF HistoryInv

LEMMA ToldStep ==
    ASSUME HistoryInv, HistNext
    PROVE  RunIsTold'
<1>0. HoldsIInv /\ RunIsTold /\ RecordsNext /\ RecordsTypeOK  BY DEF HistoryInv, HistNext, HoldsIInv
<1>1. SUFFICES ASSUME ~interrupted, ~ApplyInterrupted
               PROVE  /\ ~Applies' => ours' \subseteq managed'
                      /\ Applies' /\ run'.result = "none" => ours' \subseteq managed' /\ run'.known = managed'
                      /\ Applies' /\ run'.result = "success" => ours' \subseteq run'.excl
  BY DEF HistNext, RunIsTold
<1>2. /\ ~Applies => ours \subseteq managed
      /\ Applies /\ run.result = "none" => ours \subseteq managed /\ run.known = managed
      /\ Applies /\ run.result = "success" => ours \subseteq run.excl
  BY <1>0, <1>1 DEF RunIsTold
<1>3. CASE Beside
  <2>1. run' = run /\ managed' = managed /\ ours' \subseteq ours  BY <1>0, <1>3, BesideStep
  <2> QED  BY <1>2, <2>1 DEF Applies
<1>4. CASE Starts
  <2>1. UNCHANGED <<ours, managed>>  BY <1>0, <1>4, StartStep
  <2>2. run = NoRun /\ run' # NoRun /\ run'.result = "none"  BY <1>0, <1>4, StartType
  <2>3. Applies' => run'.known = managed
    BY <1>1, <2>2 DEF ApplyInterrupted, Applies
  <2> QED  BY <1>2, <2>1, <2>2, <2>3 DEF Applies
<1>5. CASE PlayEnds
  BY <1>0, <1>2, <1>5, PlayEndsType DEF Results
<1>6. CASE ApplyFails \/ ApplySucceeds
  <2>1. /\ Applies /\ run.result = "none" /\ Applies'
        /\ ApplyFails => run'.result = "failed"
        /\ (ApplySucceeds /\ ours \subseteq run.known) => ours' \subseteq run'.excl
    BY <1>0, <1>6, ApplyStep
  <2>2. run'.result # "none"
    <3>1. CASE ApplyFails  BY <2>1, <3>1
    <3>2. CASE ApplySucceeds
      <4>1. run' = Ended("success") /\ run \in Run  BY <1>0, <3>2, ApplyStep DEF ApplySucceeds
      <4> QED  BY <4>1, EndedType DEF Results
    <3> QED  BY <1>6, <3>1, <3>2
  <2>3. run'.result = "success" => ApplySucceeds  BY <1>6, <2>1
  <2> QED  BY <1>2, <2>1, <2>2, <2>3
<1>7. CASE Recording
  <2>1. /\ run # NoRun /\ run.result # "none"
        /\ run' # NoRun => /\ run'.result = run.result
                           /\ run'.excl = run.excl /\ (Applies' <=> Applies)
        /\ (Applies /\ run' = NoRun) => \/ run.result # "success"
                                        \/ StatementFails
                                        \/ managed' = run.excl
        /\ managed' = managed \/ (Applies /\ run' = NoRun /\ managed' = run.excl)
        /\ ours' = ours
    BY <1>0, <1>7, RecordStep
  <2>2. CASE Applies /\ run' = NoRun
    <3>1. run.result = "success" /\ ~StatementFails
      BY <1>1, <2>2 DEF ApplyInterrupted, Applies
    <3> QED  BY <1>2, <2>1, <2>2, <3>1 DEF Applies
  <2>3. CASE ~Applies \/ run' # NoRun
    BY <1>2, <2>1, <2>3 DEF Applies
  <2> QED  BY <2>2, <2>3
<1>8. CASE Restart
  <2>1. run' = NoRun /\ UNCHANGED <<ours, managed>>  BY <1>0, <1>8, RestartStep
  <2>2. ~Applies  BY <1>1, <1>8, <2>1 DEF ApplyInterrupted, Applies
  <2> QED  BY <1>2, <2>1, <2>2 DEF Applies
<1> QED  BY <1>0, <1>3, <1>4, <1>5, <1>6, <1>7, <1>8, StepKinds

LEMMA ExcludedStep ==
    ASSUME HistoryInv, HistNext
    PROVE  Excluded'
<1>0. HoldsIInv /\ Excluded /\ RecordsNext /\ RecordsTypeOK /\ everExcluded' = everExcluded \cup excluded'
  BY DEF HistoryInv, HistNext, HoldsIInv
<1>1. managed' \subseteq everExcluded
      /\ (run' # NoRun => run'.excl \cup run'.known \subseteq everExcluded)
  <2>1. CASE Beside
    BY <1>0, <2>1, BesideStep DEF Excluded
  <2>2. CASE Starts
    BY <1>0, <2>2, StartStep, StartType DEF Excluded
  <2>3. CASE PlayEnds
    BY <1>0, <2>3, PlayEndsType, RecordsAssumption DEF Excluded
  <2>4. CASE ApplyFails \/ ApplySucceeds
    BY <1>0, <2>4, ApplyStep DEF Excluded, Applies
  <2>5. CASE Recording
    BY <1>0, <2>5, RecordStep DEF Excluded
  <2>6. CASE Restart
    BY <1>0, <2>6, RestartStep DEF Excluded
  <2> QED  BY <1>0, <2>1, <2>2, <2>3, <2>4, <2>5, <2>6, StepKinds
<1> QED  BY <1>0, <1>1 DEF Excluded

LEMMA HistoryStep == HistoryInv /\ [HistNext]_histVars => HistoryInv'
<1> SUFFICES ASSUME HistoryInv, [HistNext]_histVars PROVE HistoryInv'  OBVIOUS
<1>1. CASE HistNext
  <2>1. HoldsIInv'  BY <1>1, StepInvariant DEF HistoryInv, HistNext
  <2> QED  BY <1>1, <2>1, ToldStep, ExcludedStep DEF HistoryInv
<1>2. CASE UNCHANGED histVars
  <2>1. HoldsIInv'  BY <1>2, StepInvariant DEF HistoryInv, histVars, allVars
  <2> QED  BY <1>2, <2>1 DEF HistoryInv, RunIsTold, Excluded, Applies, histVars
<1> QED  BY <1>1, <1>2

THEOREM HistSoundness == HistSpec => []HistoryInv
<1> QED  BY HistoryInit, HistoryStep, PTL DEF HistSpec

\* As long as every apply runs to a recorded success, managed_holds lists every
\* hold the server placed, so that a later apply finds it and lifts it
\* (runner.go:86-91, store.go's ReplaceManagedHolds).
THEOREM HoldsStayManaged == HistSpec => []RecordsInv
<1>1. HistoryInv => RecordsInv
  BY DEF HistoryInv, HoldsIInv, RunIsTold, Applies, RecordsInv, OurHoldsAreManaged
<1> QED  BY <1>1, HistSoundness, PTL

\* No playbook lifts a hold on a package that was never excluded: it is the
\* administrator's own (holds.go:9-11).
THEOREM ForeignHoldsStay == HistSpec => ForeignHoldsSurvive
<1>1. HistoryInv /\ [HistNext]_histVars =>
         [\A p \in Packages : (p \in held \ held' /\ run' # run) => p \in everExcluded]_histVars
  <2> SUFFICES ASSUME HistoryInv, HistNext, NEW p \in Packages, p \in held \ held', run' # run
               PROVE  p \in everExcluded
    OBVIOUS
  <2>0. HoldsIInv /\ Excluded /\ RecordsNext  BY DEF HistoryInv, HistNext
  <2>1. CASE ApplyFails \/ ApplySucceeds
    BY <2>0, <2>1, ApplyStep DEF Excluded, Applies
  <2>2. CASE Beside \/ Starts \/ Recording \/ Restart
    BY <2>0, <2>2, BesideStep, StartStep, RecordStep, RestartStep
  <2>3. CASE PlayEnds
    BY <2>0, <2>3, PlayEndsType DEF HoldsIInv
  <2> QED  BY <2>0, <2>1, <2>2, <2>3, StepKinds
<1> QED  BY <1>1, HistSoundness, PTL DEF HistSpec, ForeignHoldsSurvive
=============================================================================
