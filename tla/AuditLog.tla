------------------------------ MODULE AuditLog ------------------------------
(***************************************************************************)
(* The audit log (internal/audit): rows are inserted by every handler,     *)
(* read page by page with a keyset cursor, one by one, and cleared by a    *)
(* global Admin, whose clear leaves a marker row.  One reader walks the    *)
(* pages while rows come and go, systems move and the reader's roles       *)
(* change.  Times are in the days that Clear counts.                       *)
(***************************************************************************)
EXTENDS Rbac, Sequences, FiniteSets

CONSTANTS
    Systems,                  \* the ids of managed systems
    AuditTargets,             \* what rows are about: [kind, id]
    Clearers,                 \* concurrent DELETE requests
    RoleSets,                 \* the assignments the caller may have
    DefaultLimit, MaxLimit,   \* rows of a page
    Queries,                  \* what is asked for: [since, until, limit], 0 for absent
    StartLogs,                \* the rows a walk may find
    MaxRowId, MaxTime,        \* bounds on ids and on the clock
    MaxScopeChanges           \* bound on moves, deletions and role changes

ASSUME AuditLogAssumption ==
    /\ DefaultLimit \in 1..MaxLimit /\ MaxLimit \in Nat
    /\ RoleSets \subseteq SUBSET Assignment
    /\ \A q \in Queries : q.limit \in Nat
    /\ \A log \in StartLogs :       \* rows of past times, by primary key
          /\ IsFiniteSet(log)
          /\ \A r \in log : r.at \in {1, 2} /\ r.id \in 1..MaxRowId
          /\ \A r, s \in log : r.id = s.id => r = s
    /\ MaxRowId \in Nat /\ MaxTime \in Nat /\ MaxScopeChanges \in Nat

VARIABLES
    rows,       \* audit_log: [at, id, target]
    used,       \* the ids given out
    now,        \* the clock
    home,       \* hosts: the group of each system that is there
    roles,      \* the caller's assignments
    walk,       \* the reader's walk over the pages
    clears,     \* each DELETE request
    changes,
    steady,     \* observer: rows listable since the walk began
    cleared     \* observer: when the last clear was, 0 before and when a
                \* marker was lost

auditVars == <<rows, used, now, home, roles, walk, clears, changes, steady, cleared>>

Marker == [kind |-> "clear", id |-> "none"]
NoCursor == [at |-> 0, id |-> 0]
NoWalk == [pc |-> "idle"]
IdleClear == [pc |-> "idle"]
-----------------------------------------------------------------------------
\* Reading

\* Of a caller with a global role everything, otherwise their groups.
NoFilter == {"every row"}
VisibleGroupIDs(sc) == {g \in Groups : sc.group[g] # "none"}
ScopeFilterFor(sc) == IF IsGlobalAuditor(sc) THEN NoFilter ELSE VisibleGroupIDs(sc)

\* The WHERE clause of a list, evaluated in the database.
scopeClause(r, groups) ==
    /\ groups # {}
    /\ \/ /\ r.target.kind = "system"
          /\ r.target.id \in {s \in DOMAIN home : home[s] \in groups}
       \/ r.target.kind = "system_group" /\ r.target.id \in groups

\* What GET of one row asks.
IsVisibleTo(r, groups) ==
    IF r.target.kind = "system_group" THEN r.target.id \in groups
    ELSE /\ r.target.kind = "system" /\ groups # {}
         /\ r.target.id \in DOMAIN home /\ home[r.target.id] \in groups

Filter == ScopeFilterFor(NewScope(roles))

\* Mutant: a cursor of time alone.
After_time(r, c) == c = NoCursor \/ r.at < c.at

After(r, c) == c = NoCursor \/ r.at < c.at \/ (r.at = c.at /\ r.id < c.id)

Listable(r) == Filter # NoFilter => scopeClause(r, Filter)

\* since and until stand for every filter on the row's own columns; c is
\* the cursor.
buildWhere(r, q, c) ==
    /\ q.since # 0 => r.at >= q.since
    /\ q.until # 0 => r.at < q.until
    /\ After(r, c)
    /\ Listable(r)

Newer(r, s) == r.at > s.at \/ (r.at = s.at /\ r.id > s.id)

\* ORDER BY occurred_at DESC, id DESC
Newest(set) == [i \in 1..Cardinality(set) |->
                   CHOOSE r \in set : Cardinality({s \in set : Newer(s, r)}) = i - 1]

limit(n) == IF n = 0 THEN DefaultLimit ELSE IF n > MaxLimit THEN MaxLimit ELSE n

\* The page, and whether the probe row past it was there.
ListQuery(q, c) ==
    LET found == Newest({r \in rows : buildWhere(r, q, c)})
        more  == Len(found) > limit(q.limit)
    IN  [page |-> IF more THEN SubSeq(found, 1, limit(q.limit)) ELSE found, more |-> more]
-----------------------------------------------------------------------------
\* What the walk may be asked for is what stays listable while it lasts.
Watch == steady' = {r \in steady : r \in rows' /\ Listable(r)'}

AuditInit ==
    /\ rows \in StartLogs /\ used = {r.id : r \in rows} /\ now = 2
    /\ home \in [Systems -> Groups]
    /\ roles \in RoleSets
    /\ walk = NoWalk /\ clears = [c \in Clearers |-> IdleClear]
    /\ changes = 0 /\ steady = {} /\ cleared = 0

AuditOff ==
    /\ rows = {} /\ used = {} /\ now = 0 /\ home = <<>> /\ roles = {} /\ walk = NoWalk /\ clears = <<>>
    /\ changes = 0 /\ steady = {} /\ cleared = 0

Tick ==
    /\ now < MaxTime /\ now' = now + 1
    /\ UNCHANGED <<rows, used, home, roles, walk, clears, changes, steady, cleared>>

\* Ids are not in the order of the rows' times, which are read before the
\* write waits for the database.
Insert(target, at) ==
    /\ at \in 1..now /\ at >= now - 1
    /\ \E id \in (1..MaxRowId) \ used :
        /\ used' = used \cup {id}
        /\ rows' = rows \cup {[at |-> at, id |-> id, target |-> target]}
    /\ UNCHANGED <<now, home, roles, walk, changes, steady, cleared>>

\* LogTx and Log of the handlers.
Log(target, at) == Insert(target, at) /\ UNCHANGED <<clears>>

-----------------------------------------------------------------------------
\* GET /api/admin/audit, and again with the cursor of the page before.

Open(q) ==
    /\ walk = NoWalk
    /\ walk' = [pc |-> "page", q |-> q, after |-> NoCursor, seen |-> <<>>]
    /\ steady' = {r \in rows : buildWhere(r, q, NoCursor)}
    /\ UNCHANGED <<rows, used, now, home, roles, clears, changes, cleared>>

list ==
    /\ walk.pc = "page"
    /\ LET got == ListQuery(walk.q, walk.after)
           last == got.page[Len(got.page)]
       IN  walk' = [walk EXCEPT !.pc = IF got.more THEN "page" ELSE "done",
                                !.seen = @ \o got.page,
                                !.after = IF got.more THEN [at |-> last.at, id |-> last.id]
                                          ELSE @]
    /\ UNCHANGED <<rows, used, now, home, roles, clears, changes, steady, cleared>>

\* What a clear takes: everything, or what is older than a day count.
Older(set, older) == IF older = 0 THEN set ELSE {r \in set : r.at < now - older}

\* Mutant: the marker is written before the delete, which may take it.
ClearDelete_markFirst(c, older) ==
    /\ clears[c] = IdleClear
    /\ \E id \in (1..MaxRowId) \ used :
        LET with == rows \cup {[at |-> now, id |-> id, target |-> Marker]} IN
        /\ used' = used \cup {id}
        /\ rows' = with \ Older(with, older)
    /\ cleared' = now
    /\ UNCHANGED <<now, home, roles, walk, clears, changes>>
    /\ Watch

\* DELETE /api/admin/audit, by a global Admin, who need not be the reader.
ClearDelete(c, older) ==
    /\ clears[c] = IdleClear
    /\ rows' = rows \ Older(rows, older)
    /\ clears' = [clears EXCEPT ![c] = [pc |-> "mark", at |-> now]]
    /\ cleared' = now
    /\ UNCHANGED <<used, now, home, roles, walk, changes>>
    /\ Watch

\* The marker, after the delete.
ClearMark(c, at) ==
    /\ clears[c].pc = "mark" /\ at >= clears[c].at
    /\ Insert(Marker, at)
    /\ clears' = [clears EXCEPT ![c] = IdleClear]

\* The marker fails, which is logged elsewhere, or the process stops.
ClearUnmarked(c) ==
    /\ clears[c].pc = "mark"
    /\ clears' = [clears EXCEPT ![c] = IdleClear]
    /\ cleared' = 0
    /\ UNCHANGED <<rows, used, now, home, roles, walk, changes, steady>>

\* What a row's visibility hangs on changes.
Change(h, rs) ==
    /\ changes < MaxScopeChanges /\ changes' = changes + 1
    /\ home' = h /\ roles' = rs
    /\ UNCHANGED <<rows, used, now, walk, clears, cleared>>
    /\ Watch

MoveHost(s, g) == s \in DOMAIN home /\ Change([home EXCEPT ![s] = g], roles)
DeleteHost(s) == s \in DOMAIN home /\ Change([x \in DOMAIN home \ {s} |-> home[x]], roles)
SetAssignments(rs) == rs # roles /\ Change(home, rs)

AuditNext ==
    \/ Tick \/ list
    \/ \E target \in AuditTargets, at \in {now - 1, now} : Log(target, at)
    \/ \E q \in Queries : Open(q)
    \/ \E c \in Clearers : \/ \E older \in {0, 1} : ClearDelete(c, older)
                           \/ \E at \in {now - 1, now} : ClearMark(c, at)
                           \/ ClearUnmarked(c)
    \/ \E s \in Systems : DeleteHost(s) \/ \E g \in Groups \cup {NoGroup} : MoveHost(s, g)
    \/ \E rs \in RoleSets : SetAssignments(rs)

AuditSpec == AuditInit /\ [][AuditNext]_auditVars
-----------------------------------------------------------------------------
Seen == {walk.seen[i] : i \in DOMAIN walk.seen}

(* A walk over the pages lists no row twice and none out of order, and     *)
(* when it is over it has listed every row that could be listed all the    *)
(* time, whatever was inserted, cleared, moved or revoked between pages,   *)
(* and however many rows share a time.                                     *)
PagesMissNothing ==
    walk # NoWalk =>
        /\ \A i, j \in DOMAIN walk.seen : i < j => Newer(walk.seen[i], walk.seen[j])
        /\ walk.pc = "done" => steady \subseteq Seen

(* "a row a group-only caller can't see via /api/admin/audit must also be  *)
(* hidden via /api/admin/audit/{id}": the SQL of the list and the check of *)
(* a single row agree on every row, for every caller.                      *)
ListAgreesWithGet ==
    Filter # NoFilter => \A r \in rows : scopeClause(r, Filter) <=> IsVisibleTo(r, Filter)

(* "so it survives in the surviving log": once no clear is under way, and  *)
(* unless a marker was lost, a marker not older than the last clear is in  *)
(* the log, whatever order concurrent clears took.                         *)
ClearIsOnRecord ==
    cleared # 0 /\ (\A c \in Clearers : clears[c] = IdleClear) =>
        \E r \in rows : r.target = Marker /\ r.at >= cleared

(* A reader of the log is shown all of the rows they may see and no other. *)
ReadersSeeTheirRows == PagesMissNothing /\ ListAgreesWithGet
=============================================================================
