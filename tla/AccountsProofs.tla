---------------------------- MODULE AccountsProofs ----------------------------
(***************************************************************************)
(* For any set of users, sessions and concurrent requests: the tables stay *)
(* consistent, the last global Admin cannot be removed, and a revoked      *)
(* session is never live again.                                            *)
(*                                                                         *)
(* And for any rows, readers and page size, what the audit log keeps of    *)
(* what they did: a reader pages through exactly the rows they may see,    *)
(* and clearing the log leaves a row that says so.  The pages are segments *)
(* of one order of the rows (Place), which is why neither a row nor a page *)
(* is lost between two requests.                                           *)
(***************************************************************************)
EXTENDS Accounts, AuditLog, SequenceTheorems, FiniteSetTheorems, FunctionTheorems, TLAPS

\* What a request record looks like once it is not idle.
LEMMA ReqFields ==
  ASSUME TypeOK, NEW q \in Requests, NEW pc, At(q, pc), pc # "idle"
  PROVE  reqs[q] \in Req
  BY DEF TypeOK, At, Idle

LEMMA GotoType ==
  ASSUME TypeOK, NEW q \in Requests, reqs[q] \in Req,
         NEW pc \in {"create", "prune", "user", "check", "write", "revoke"}, Goto(q, pc)
  PROVE  reqs' \in [Requests -> {Idle} \cup Req]
  BY DEF TypeOK, Goto, Req

LEMMA DoneType ==
  ASSUME TypeOK, NEW q \in Requests, Done(q)
  PROVE  reqs' \in [Requests -> {Idle} \cup Req]
  BY DEF TypeOK, Done

LEMMA NewReqType ==
  ASSUME TypeOK, NEW q \in Requests,
         NEW pc \in {"setup", "create", "touch", "user", "check", "write"},
         NEW kind \in Kinds, NEW u \in Users, NEW s \in Sids \cup {"none"},
         NEW t \in Users, NEW v \in Sids \cup {"none"},
         reqs' = [reqs EXCEPT ![q] = NewReq(pc, kind, u, s, t, v)]
  PROVE  reqs' \in [Requests -> {Idle} \cup Req]
  <1>1. NewReq(pc, kind, u, s, t, v) \in Req
    BY DEF NewReq, Req
  <1> QED BY <1>1 DEF TypeOK

-----------------------------------------------------------------------------
LEMMA InitType == Init => TypeOK
  BY DEF Init, TypeOK

\* The steps of the process and of time.
LEMMA EnvironmentType ==
  ASSUME TypeOK,
         \/ Boot \/ Crash
         \/ \E s \in Sids : Expire(s) \/ Age(s) \/ Logout(s)
  PROVE  TypeOK'
  <1>1. CASE Boot
    BY <1>1 DEF Boot, TypeOK, sessionVars
  <1>2. CASE Crash
    BY <1>2 DEF Crash, TypeOK, sessionVars
  <1>3. ASSUME NEW s \in Sids, Expire(s) PROVE TypeOK'
    BY <1>3 DEF Expire, TypeOK, accountVars
  <1>4. ASSUME NEW s \in Sids, Age(s) PROVE TypeOK'
    BY <1>4 DEF Age, TypeOK, accountVars
  <1>5. ASSUME NEW s \in Sids, Logout(s) PROVE TypeOK'
    BY <1>5 DEF Logout, TypeOK, accountVars
  <1> QED BY <1>1, <1>2, <1>3, <1>4, <1>5

\* The ways in: setup, login and provisioning.
LEMMA EntryType ==
  ASSUME TypeOK, NEW q \in Requests,
         \/ SetupCount(q) \/ SetupCreate(q) \/ SetupTaken(q)
         \/ \E u \in Users : Login(q, u) \/ Provision(q, u)
         \/ \E s \in Sids : CreateSession(q, s)
         \/ DeleteExpiredSessions(q)
  PROVE  TypeOK'
  <1> "login" \in Kinds
    BY DEF Kinds
  <1>1. CASE SetupCount(q)
    <2>1. PICK u \in Users \ gone :
            reqs' = [reqs EXCEPT ![q] = NewReq("setup", "login", u, "none", u, "none")]
      BY <1>1 DEF SetupCount
    <2>2. reqs' \in [Requests -> {Idle} \cup Req]
      BY <2>1, NewReqType
    <2> QED BY <1>1, <2>2 DEF SetupCount, TypeOK, accountVars, sessionVars
  <1>2. CASE SetupCreate(q)
    <2>1. reqs[q] \in Req
      BY <1>2, ReqFields DEF SetupCreate
    <2>2. reqs' \in [Requests -> {Idle} \cup Req]
      BY <1>2, <2>1, GotoType DEF SetupCreate
    <2> QED BY <1>2, <2>1, <2>2 DEF SetupCreate, TypeOK, sessionVars, Req
  <1>3. CASE SetupTaken(q)
    BY <1>3, DoneType DEF SetupTaken, TypeOK, accountVars, sessionVars
  <1>4. ASSUME NEW u \in Users, Login(q, u) PROVE TypeOK'
    <2>1. reqs' \in [Requests -> {Idle} \cup Req]
      BY <1>4, NewReqType DEF Login
    <2> QED BY <1>4, <2>1 DEF Login, TypeOK, accountVars, sessionVars
  <1>5. ASSUME NEW u \in Users, Provision(q, u) PROVE TypeOK'
    <2>1. reqs' \in [Requests -> {Idle} \cup Req]
      BY <1>5, NewReqType DEF Provision
    <2> QED BY <1>5, <2>1 DEF Provision, TypeOK, sessionVars
  <1>6. ASSUME NEW s \in Sids, CreateSession(q, s) PROVE TypeOK'
    <2>1. reqs[q] \in Req
      BY <1>6, ReqFields DEF CreateSession
    <2>2. reqs' \in [Requests -> {Idle} \cup Req]
      BY <1>6, <2>1, GotoType DEF CreateSession
    <2> QED BY <1>6, <2>1, <2>2 DEF CreateSession, TypeOK, accountVars, Req
  <1>7. CASE DeleteExpiredSessions(q)
    BY <1>7, DoneType DEF DeleteExpiredSessions, TypeOK, accountVars
  <1> QED BY <1>1, <1>2, <1>3, <1>4, <1>5, <1>6, <1>7

\* The middleware.
LEMMA MiddlewareType ==
  ASSUME TypeOK, NEW q \in Requests,
         \/ \E s \in Sids : SessionRow(q, s)
         \/ TouchSession(q) \/ Admit(q) \/ Answered(q)
  PROVE  TypeOK'
  <1>1. ASSUME NEW s \in Sids, SessionRow(q, s) PROVE TypeOK'
    <2>1. sess[s] \in Users /\ "other" \in Kinds
      BY <1>1 DEF SessionRow, TypeOK, Kinds
    <2>2. reqs' \in [Requests -> {Idle} \cup Req]
      BY <1>1, <2>1, NewReqType DEF SessionRow
    <2> QED BY <1>1, <2>2 DEF SessionRow, TypeOK, accountVars, sessionVars
  <1>2. CASE TouchSession(q)
    <2>1. reqs[q] \in Req
      BY <1>2, ReqFields DEF TouchSession
    <2>2. reqs' \in [Requests -> {Idle} \cup Req]
      BY <1>2, <2>1, GotoType DEF TouchSession
    <2> QED BY <1>2, <2>2 DEF TouchSession, TypeOK, accountVars
  <1>3. CASE Admit(q)
    <2>1. PICK kind \in Kinds, t \in Users, v \in Sids \cup {"none"} : RequireUser(q, kind, t, v)
      BY <1>3 DEF Admit, Kinds
    <2>2. reqs[q] \in Req
      BY <2>1, ReqFields DEF RequireUser
    <2>3. reqs' \in [Requests -> {Idle} \cup Req]
      BY <2>1, <2>2, NewReqType DEF RequireUser, FirstStep, Req
    <2> QED BY <2>1, <2>3 DEF RequireUser, TypeOK, accountVars, sessionVars
  <1>4. CASE Answered(q)
    BY <1>4, DoneType DEF Answered, TypeOK, accountVars, sessionVars
  <1> QED BY <1>1, <1>2, <1>3, <1>4

\* The handlers.
LEMMA HandlerType ==
  ASSUME TypeOK, NEW q \in Requests,
         \/ CheckTarget(q) \/ WriteMissed(q) \/ SetDisabled(q) \/ SetPassword(q)
         \/ Delete(q) \/ CreateUser(q) \/ CreateUserRefused(q) \/ Grant(q) \/ Revoke(q)
         \/ RevokeSession(q) \/ RevokeUserSessions(q) \/ StatementFails(q)
  PROVE  TypeOK'
  <1>1. CASE CheckTarget(q)
    <2>1. reqs[q] \in Req
      BY <1>1, ReqFields DEF CheckTarget
    <2>2. reqs' \in [Requests -> {Idle} \cup Req]
      BY <1>1, <2>1, GotoType, DoneType DEF CheckTarget
    <2> QED BY <1>1, <2>2 DEF CheckTarget, TypeOK, accountVars, sessionVars
  <1>2. CASE WriteMissed(q)
    BY <1>2, DoneType DEF WriteMissed, TypeOK, accountVars, sessionVars
  <1>3. CASE SetDisabled(q)
    <2>1. reqs[q] \in Req
      BY <1>3, ReqFields DEF SetDisabled
    <2>2. reqs' \in [Requests -> {Idle} \cup Req]
      BY <1>3, <2>1, GotoType, DoneType DEF SetDisabled
    <2> QED BY <1>3, <2>2 DEF SetDisabled, TypeOK, sessionVars
  <1>4. CASE SetPassword(q)
    <2>1. reqs[q] \in Req
      BY <1>4, ReqFields DEF SetPassword
    <2>2. reqs' \in [Requests -> {Idle} \cup Req]
      BY <1>4, <2>1, GotoType DEF SetPassword
    <2> QED BY <1>4, <2>2 DEF SetPassword, TypeOK, sessionVars
  <1>5. CASE Delete(q)
    <2>1. reqs[q] \in Req
      BY <1>5, ReqFields DEF Delete
    <2>2. reqs' \in [Requests -> {Idle} \cup Req]
      BY <1>5, <2>1, GotoType, DoneType DEF Delete
    <2> QED BY <1>5, <2>2 DEF Delete, TypeOK, sessionVars
  <1>6. CASE CreateUser(q)
    BY <1>6, DoneType DEF CreateUser, TypeOK, sessionVars
  <1>7. CASE CreateUserRefused(q)
    BY <1>7, DoneType DEF CreateUserRefused, TypeOK, accountVars, sessionVars
  <1>8. CASE Grant(q)
    BY <1>8, DoneType DEF Grant, TypeOK, sessionVars
  <1>9. CASE Revoke(q)
    BY <1>9, DoneType DEF Revoke, TypeOK, sessionVars
  <1>10. CASE RevokeSession(q)
    BY <1>10, DoneType DEF RevokeSession, TypeOK, accountVars
  <1>11. CASE RevokeUserSessions(q)
    BY <1>11, DoneType DEF RevokeUserSessions, TypeOK, accountVars
  <1>12. CASE StatementFails(q)
    <2>1. reqs[q] \in Req
      BY <1>12 DEF StatementFails, TypeOK, Idle
    <2>2. reqs' \in [Requests -> {Idle} \cup Req]
      BY <1>12, <2>1, GotoType, DoneType DEF StatementFails
    <2> QED BY <1>12, <2>2 DEF StatementFails, TypeOK, accountVars, sessionVars
  <1> QED BY <1>1, <1>2, <1>3, <1>4, <1>5, <1>6, <1>7, <1>8, <1>9, <1>10, <1>11, <1>12

LEMMA NextType == TypeOK /\ [Next]_vars => TypeOK'
  <1> SUFFICES ASSUME TypeOK, [Next]_vars PROVE TypeOK'
    OBVIOUS
  <1>1. ASSUME NEW q \in Requests, Handle(q) PROVE TypeOK'
    BY <1>1, EntryType, MiddlewareType, HandlerType DEF Handle
  <1>2. CASE UNCHANGED vars
    BY <1>2 DEF vars, TypeOK
  <1> QED BY <1>1, <1>2, EnvironmentType DEF Next

(* The tables are consistent at all times: roles, flags and deletions      *)
(* speak of users that exist, whatever requests overlap.                   *)
THEOREM TypeCorrect == Spec => []TypeOK
  BY InitType, NextType, PTL DEF Spec

-----------------------------------------------------------------------------
(* The server serves only after the backfill, and before the backfill      *)
(* there are no roles: without this, the first boot could replace them.    *)
Backfilled == (up => marker) /\ (~marker => admins = {})

\* The steps that may change up, marker or admins.
LEMMA OtherHandlersKeepRoles ==
  ASSUME NEW q \in Requests, Handle(q), ~Delete(q), ~Grant(q), ~Revoke(q)
  PROVE  UNCHANGED <<up, marker, admins>>
  BY DEF Handle, SetupCount, SetupCreate, SetupTaken, Login, Provision, CreateSession,
         SessionRow, DeleteExpiredSessions, TouchSession, Admit, RequireUser, Answered,
         CheckTarget, WriteMissed, SetDisabled, SetPassword, CreateUser,
         CreateUserRefused, RevokeSession, RevokeUserSessions, StatementFails, accountVars

LEMMA NextBackfilled == Backfilled /\ [Next]_vars => Backfilled'
  <1> SUFFICES ASSUME Backfilled, [Next]_vars PROVE Backfilled'
    OBVIOUS
  <1>1. CASE Boot
    BY <1>1 DEF Boot, Backfilled
  <1>2. CASE Crash
    BY <1>2 DEF Crash, Backfilled
  <1>3. ASSUME NEW s \in Sids, Expire(s) \/ Age(s) \/ Logout(s) PROVE Backfilled'
    BY <1>3 DEF Expire, Age, Logout, accountVars, Backfilled
  <1>4. ASSUME NEW q \in Requests, Handle(q) PROVE Backfilled'
    <2>1. CASE Delete(q) \/ Grant(q) \/ Revoke(q)
      BY <2>1 DEF Delete, Grant, Revoke, At, Backfilled
    <2> QED BY <1>4, <2>1, OtherHandlersKeepRoles DEF Backfilled
  <1>5. CASE UNCHANGED vars
    BY <1>5 DEF vars, Backfilled
  <1> QED BY <1>1, <1>2, <1>3, <1>4, <1>5 DEF Next

LEMMA AdminStep ==
  Backfilled /\ [Next]_vars => [admins # {} => admins' # {}]_vars
  <1> SUFFICES ASSUME Backfilled, Next, admins # {} PROVE admins' # {}
    OBVIOUS
  <1>1. CASE Boot
    BY <1>1 DEF Boot, Backfilled
  <1>2. CASE Crash
    BY <1>2 DEF Crash
  <1>3. ASSUME NEW s \in Sids, Expire(s) \/ Age(s) \/ Logout(s) PROVE admins' # {}
    BY <1>3 DEF Expire, Age, Logout, accountVars
  <1>4. ASSUME NEW q \in Requests, Handle(q) PROVE admins' # {}
    <2>1. CASE Delete(q) \/ Grant(q) \/ Revoke(q)
      BY <2>1 DEF Delete, Grant, Revoke
    <2> QED BY <1>4, <2>1, OtherHandlersKeepRoles
  <1> QED BY <1>1, <1>2, <1>3, <1>4 DEF Next

(* No interleaving of deletions, demotions, crashes and boots takes the    *)
(* last global Admin away.                                                 *)
THEOREM AdminRemainsAlways == Spec => AdminRemains
  <1>1. Init => Backfilled
    BY DEF Init, Backfilled
  <1> QED BY <1>1, NextBackfilled, AdminStep, PTL DEF Spec, AdminRemains

-----------------------------------------------------------------------------
LEMMA RevokedStep ==
  TypeOK /\ [Next]_vars =>
    [\A s \in Sids : owner[s] # NoUser /\ sess[s] = NoUser => sess'[s] = NoUser]_vars
  <1> SUFFICES ASSUME TypeOK, Next, NEW s \in Sids, owner[s] # NoUser, sess[s] = NoUser
               PROVE  sess'[s] = NoUser
    OBVIOUS
  <1>1. CASE Boot \/ Crash
    BY <1>1 DEF Boot, Crash, sessionVars
  <1>2. ASSUME NEW x \in Sids, Expire(x) \/ Age(x) \/ Logout(x) PROVE sess'[s] = NoUser
    BY <1>2 DEF Expire, Age, Logout, TypeOK
  <1>3. ASSUME NEW q \in Requests, Handle(q) PROVE sess'[s] = NoUser
    <2>1. ASSUME NEW x \in Sids, CreateSession(q, x) PROVE sess'[s] = NoUser
      BY <2>1 DEF CreateSession, TypeOK
    <2>2. CASE DeleteExpiredSessions(q)
      BY <2>2 DEF DeleteExpiredSessions
    <2>3. CASE RevokeSession(q)
      BY <2>3 DEF RevokeSession, TypeOK
    <2>4. CASE RevokeUserSessions(q)
      BY <2>4 DEF RevokeUserSessions
    <2>5. CASE UNCHANGED sess
      BY <2>5
    <2>6. \/ \E x \in Sids : CreateSession(q, x)
          \/ DeleteExpiredSessions(q) \/ RevokeSession(q) \/ RevokeUserSessions(q)
          \/ UNCHANGED sess
      BY <1>3 DEF Handle, SetupCount, SetupCreate, SetupTaken, Login, Provision,
         SessionRow, TouchSession, Admit, RequireUser, Answered, CheckTarget, WriteMissed,
         SetDisabled, SetPassword, Delete, CreateUser, CreateUserRefused, Grant, Revoke,
         StatementFails, sessionVars
    <2> QED BY <2>1, <2>2, <2>3, <2>4, <2>5, <2>6
  <1> QED BY <1>1, <1>2, <1>3 DEF Next

(* A session that was issued and revoked is never live again, although     *)
(* requests that read its row before the revocation are still at work.     *)
THEOREM RevokedForGood == Spec => RevokedStaysRevoked
  BY TypeCorrect, RevokedStep, PTL DEF Spec, RevokedStaysRevoked

-----------------------------------------------------------------------------
\* The audit log.

\* A log is ordered by its rows' times and, at one time, by their ids.
IsLog(S) ==
    /\ IsFiniteSet(S)
    /\ \A r \in S : r.at \in Nat /\ r.id \in Nat
    /\ \A r, s \in S : r.id = s.id => r = s

NewerIn(S, r) == {s \in S : Newer(s, r)}
Place(S, r) == Cardinality(NewerIn(S, r))

LEMMA NewerOrders ==
  ASSUME NEW S, IsLog(S), NEW r \in S, NEW s \in S
  PROVE  /\ ~Newer(r, r)
         /\ r # s => Newer(r, s) \/ Newer(s, r)
         /\ Newer(r, s) => ~Newer(s, r)
         /\ \A t \in S : Newer(r, s) /\ Newer(s, t) => Newer(r, t)
  BY DEF IsLog, Newer

LEMMA PlaceRange ==
  ASSUME NEW S, IsLog(S), NEW r \in S
  PROVE  /\ IsFiniteSet(NewerIn(S, r)) /\ Place(S, r) \in Nat
         /\ Cardinality(S) \in Nat /\ Place(S, r) < Cardinality(S)
  <1>1. IsFiniteSet(S) /\ NewerIn(S, r) \in SUBSET S /\ r \notin NewerIn(S, r)
    BY NewerOrders DEF IsLog, NewerIn
  <1>2. /\ IsFiniteSet(NewerIn(S, r)) /\ Place(S, r) <= Cardinality(S)
        /\ Cardinality(S) = Place(S, r) => S = NewerIn(S, r)
    BY <1>1, FS_Subset DEF Place
  <1>3. Cardinality(S) \in Nat /\ Place(S, r) \in Nat
    BY <1>1, <1>2, FS_CardinalityType DEF Place
  <1> QED BY <1>1, <1>2, <1>3

LEMMA PlaceFollowsOrder ==
  ASSUME NEW S, IsLog(S), NEW r \in S, NEW s \in S, Newer(r, s)
  PROVE  Place(S, r) < Place(S, s)
  <1>1. NewerIn(S, r) \in SUBSET NewerIn(S, s) /\ r \in NewerIn(S, s) /\ r \notin NewerIn(S, r)
    BY NewerOrders DEF NewerIn
  <1>2. /\ Place(S, r) <= Place(S, s)
        /\ Place(S, s) = Place(S, r) => NewerIn(S, s) = NewerIn(S, r)
    BY <1>1, PlaceRange, FS_Subset DEF Place
  <1>3. Place(S, r) \in Nat /\ Place(S, s) \in Nat
    BY PlaceRange
  <1> QED BY <1>1, <1>2, <1>3

\* Every place is taken, by one row.
LEMMA EveryPlaceIsTaken ==
  ASSUME NEW S, IsLog(S), NEW n, n = Cardinality(S), NEW i \in 1..n
  PROVE  \E r \in S : Place(S, r) = i - 1
  <1> DEFINE T == 0..(n - 1)
             f == [r \in S |-> Place(S, r)]
  <1>1. IsFiniteSet(S) /\ n \in Nat
    BY FS_CardinalityType DEF IsLog
  <1>2. IsFiniteSet(T) /\ Cardinality(T) = n
    <2>1. 0 \in Int /\ n - 1 \in Int
      BY <1>1
    <2>2. IsFiniteSet(T) /\ Cardinality(T) = IF 0 > n - 1 THEN 0 ELSE n - 1 - 0 + 1
      BY <2>1, FS_Interval, Zenon
    <2> QED BY <1>1, <2>2
  <1>3. f \in [S -> T]
    BY <1>1, PlaceRange
  <1>4. ASSUME NEW r \in S, NEW s \in S, f[r] = f[s] PROVE r = s
    <2>1. Place(S, r) \in Nat /\ Place(S, s) \in Nat /\ Place(S, r) = Place(S, s)
      BY <1>4, PlaceRange
    <2>2. ~Newer(r, s) /\ ~Newer(s, r)
      BY <2>1, PlaceFollowsOrder
    <2> QED BY <2>2, NewerOrders
  <1>5. f \in Injection(S, T)
    BY <1>3, <1>4 DEF Injection, IsInjective
  <1>6. f \in Surjection(S, T)
    BY <1>2, <1>5, FS_Injection
  <1>7. i - 1 \in T
    BY <1>1
  <1> QED BY <1>6, <1>7 DEF Surjection

LEMMA NewestSorts ==
  ASSUME NEW S, IsLog(S), NEW n, n = Cardinality(S)
  PROVE  /\ n \in Nat /\ Newest(S) \in Seq(S) /\ Len(Newest(S)) = n
         /\ \A i, j \in 1..n : i < j => Newer(Newest(S)[i], Newest(S)[j])
         /\ \A r \in S : \E i \in 1..n : Newest(S)[i] = r
  <1> DEFINE at(i) == CHOOSE r \in S : Place(S, r) = i - 1
             f == [i \in 1..n |-> at(i)]
  <1>1. n \in Nat
    BY FS_CardinalityType DEF IsLog
  <1>2. Newest(S) = f
    BY DEF Newest, Place, NewerIn
  <1>3. ASSUME NEW i \in 1..n PROVE at(i) \in S /\ Place(S, at(i)) = i - 1
    BY EveryPlaceIsTaken
  <1>4. f \in Seq(S) /\ Len(f) = n
    BY <1>1, <1>3
  <1>5. ASSUME NEW i \in 1..n, NEW j \in 1..n, i < j PROVE Newer(f[i], f[j])
    <2>1. /\ f[i] \in S /\ Place(S, f[i]) = i - 1
          /\ f[j] \in S /\ Place(S, f[j]) = j - 1
      BY <1>3
    <2> HIDE DEF f
    <2>2. ~Newer(f[j], f[i])
      <3> SUFFICES ASSUME Newer(f[j], f[i]) PROVE FALSE
        OBVIOUS
      <3>1. Place(S, f[j]) < Place(S, f[i])
        BY <2>1, PlaceFollowsOrder
      <3> QED BY <1>5, <2>1, <3>1
    <2>3. f[i] # f[j]
      BY <1>5, <2>1
    <2> QED BY <2>1, <2>2, <2>3, NewerOrders
  <1>6. ASSUME NEW r \in S PROVE \E i \in 1..n : f[i] = r
    <2>1. Place(S, r) \in Nat /\ Place(S, r) < n
      BY PlaceRange
    <2> DEFINE i == Place(S, r) + 1
    <2>2. i \in 1..n /\ i - 1 = Place(S, r)
      BY <1>1, <2>1
    <2> HIDE DEF i
    <2>3. f[i] \in S /\ Place(S, f[i]) = Place(S, r) /\ Place(S, r) \in Nat
      BY <1>3, <2>1, <2>2
    <2> HIDE DEF f
    <2>4. ~Newer(f[i], r) /\ ~Newer(r, f[i])
      BY <2>3, PlaceFollowsOrder
    <2> QED BY <2>2, <2>3, <2>4, NewerOrders
  <1> QED BY <1>1, <1>2, <1>4, <1>5, <1>6

-----------------------------------------------------------------------------
LoggedRows == (UNION StartLogs) \cup [at : Nat \ {0}, id : Nat, target : AuditTargets \cup {Marker}]
Marking == [pc : {"mark"}, at : Nat]
Walks == [pc : {"page", "done"}, q : Queries, after : [at : Nat, id : Nat], seen : Seq(LoggedRows)]

LogOK ==
    /\ IsFiniteSet(rows) /\ rows \subseteq LoggedRows
    /\ \A r \in rows : r.id \in used
    /\ \A r, s \in rows : r.id = s.id => r = s
    /\ now \in Nat /\ cleared \in Nat
    /\ clears \in [Clearers -> {IdleClear} \cup Marking]
    /\ walk \in {NoWalk} \cup Walks
    /\ steady \subseteq rows

(* A clear is either still to leave its marker, or the marker is there.    *)
ClearIsMarked ==
    cleared # 0 =>
        \/ \E c \in Clearers : clears[c].pc = "mark" /\ clears[c].at >= cleared
        \/ \E r \in rows : r.target = Marker /\ r.at >= cleared

(* A walk has left behind what its cursor has passed: what has been        *)
(* listable all the time was listed or will match the next page's WHERE.   *)
WalkKeepsUp ==
    walk # NoWalk =>
        /\ \A i, j \in 1..Len(walk.seen) : i < j => Newer(walk.seen[i], walk.seen[j])
        /\ walk.pc = "page" =>
              /\ \A i \in 1..Len(walk.seen) : ~After(walk.seen[i], walk.after)
              /\ \A r \in steady : r \in Seen \/ buildWhere(r, walk.q, walk.after)
        /\ walk.pc = "done" => steady \subseteq Seen

AuditIInv == LogOK /\ ClearIsMarked /\ WalkKeepsUp

LEMMA LoggedRow ==
  /\ \A r \in LoggedRows : r.at \in Nat \ {0} /\ r.id \in Nat
  /\ LogOK => IsLog(rows)
  <1>1. \A r \in LoggedRows : r.at \in Nat \ {0} /\ r.id \in Nat
    BY AuditLogAssumption DEF LoggedRows
  <1> QED BY <1>1 DEF LogOK, IsLog

LEMMA AuditInitOK == AuditInit => AuditIInv
  <1> SUFFICES ASSUME AuditInit PROVE AuditIInv
    OBVIOUS
  <1>1. LogOK
    BY AuditLogAssumption DEF AuditInit, LogOK, LoggedRows
  <1>2. ClearIsMarked /\ WalkKeepsUp
    BY DEF AuditInit, ClearIsMarked, WalkKeepsUp
  <1> QED BY <1>1, <1>2 DEF AuditIInv

\* What is listable changes with the systems and the roles only.
LEMMA ListableKept ==
  ASSUME UNCHANGED <<home, roles>>
  PROVE  \A r : Listable(r)' <=> Listable(r)
  BY DEF Listable, Filter, scopeClause

LEMMA InsertOK ==
  ASSUME AuditIInv, NEW target \in AuditTargets \cup {Marker}, NEW at, Insert(target, at)
  PROVE  /\ rows' \subseteq LoggedRows /\ IsFiniteSet(rows') /\ rows \subseteq rows'
         /\ \A r \in rows' : r.id \in used'
         /\ \A r, s \in rows' : r.id = s.id => r = s
         /\ WalkKeepsUp' /\ UNCHANGED <<now, walk, steady, cleared>>
         /\ \E r \in rows' : r.target = target /\ r.at = at
  <1>1. PICK id \in (1..MaxRowId) \ used :
          /\ used' = used \cup {id}
          /\ rows' = rows \cup {[at |-> at, id |-> id, target |-> target]}
    BY DEF Insert
  <1>2. at \in Nat \ {0} /\ MaxRowId \in Nat
    BY AuditLogAssumption DEF Insert, AuditIInv, LogOK
  <1> DEFINE row == [at |-> at, id |-> id, target |-> target]
  <1>3. row \in LoggedRows /\ row.id = id /\ row.target = target /\ row.at = at
    BY <1>1, <1>2 DEF LoggedRows
  <1>4. rows' = rows \cup {row}
    BY <1>1
  <1> HIDE DEF row
  <1>5. IsFiniteSet(rows')
    BY <1>4, FS_AddElement DEF AuditIInv, LogOK
  <1>6. UNCHANGED <<now, home, roles, walk, steady, cleared>>
    BY DEF Insert
  <1>7. WalkKeepsUp'
    BY <1>6, ListableKept DEF AuditIInv, WalkKeepsUp, Seen, buildWhere
  <1> QED BY <1>1, <1>3, <1>4, <1>5, <1>6, <1>7 DEF AuditIInv, LogOK

\* A step that may take rows, or their visibility, away.
LEMMA WatchOK ==
  ASSUME AuditIInv, rows' \subseteq rows, UNCHANGED walk, Watch
  PROVE  /\ steady' \subseteq rows' /\ IsFiniteSet(rows')
         /\ WalkKeepsUp'
  <1>1. steady' \subseteq steady /\ steady' \subseteq rows' /\ \A r \in steady' : Listable(r)'
    BY DEF Watch
  <1>2. IsFiniteSet(rows')
    BY FS_Subset DEF AuditIInv, LogOK
  <1>3. WalkKeepsUp'
    BY <1>1 DEF AuditIInv, WalkKeepsUp, Seen, buildWhere
  <1> QED BY <1>1, <1>2, <1>3

LEMMA OpenOK ==
  ASSUME AuditIInv, NEW q \in Queries, Open(q)
  PROVE  AuditIInv'
  <1> DEFINE opened == [pc |-> "page", q |-> q, after |-> NoCursor, seen |-> <<>>]
  <1>1. opened \in Walks
    BY EmptySeq DEF Walks, NoCursor
  <1>2. /\ opened.seen = <<>> /\ opened.pc = "page" /\ opened.q = q /\ opened.after = NoCursor
        /\ walk' = opened /\ UNCHANGED <<rows, used, now, home, roles, clears, changes, cleared>>
        /\ steady' = {r \in rows : buildWhere(r, q, NoCursor)}
    BY DEF Open
  <1> HIDE DEF opened
  <1>3. LogOK'
    BY <1>1, <1>2 DEF AuditIInv, LogOK
  <1>4. \A r : Listable(r)' <=> Listable(r)
    BY <1>2, ListableKept
  <1>5. WalkKeepsUp'
    <2>1. Len(walk'.seen) = 0
      BY <1>2, EmptySeq
    <2>2. \A r \in steady' : buildWhere(r, q, NoCursor)'
      BY <1>2, <1>4 DEF buildWhere
    <2> QED BY <1>2, <2>1, <2>2 DEF WalkKeepsUp, buildWhere
  <1> QED BY <1>2, <1>3, <1>5 DEF AuditIInv, ClearIsMarked

LEMMA LimitOK ==
  ASSUME NEW q \in Queries
  PROVE  limit(q.limit) \in Nat \ {0}
  BY AuditLogAssumption DEF limit

\* A page continues the walk below its cursor, and what it leaves is below
\* its last row.
LEMMA ListOK ==
  ASSUME AuditIInv, list
  PROVE  AuditIInv'
  <1>1. /\ walk.pc = "page" /\ UNCHANGED <<rows, used, now, home, roles, clears, changes, steady, cleared>>
        /\ walk \in Walks
    BY DEF list, AuditIInv, LogOK, NoWalk
  <1> DEFINE S == {r \in rows : buildWhere(r, walk.q, walk.after)}
             n == Cardinality(S)
             found == Newest(S)
             size == limit(walk.q.limit)
             more == n > size
             page == IF more THEN SubSeq(found, 1, size) ELSE found
             len == IF more THEN size ELSE n
             last == page[Len(page)]
             shown == walk.seen
             next == shown \o page
             cursor == IF more THEN [at |-> last.at, id |-> last.id] ELSE walk.after
  <1>2. IsLog(S) /\ S \subseteq LoggedRows
    <2>1. IsLog(rows) /\ rows \subseteq LoggedRows /\ S \subseteq rows
      BY LoggedRow DEF AuditIInv, LogOK
    <2> HIDE DEF S
    <2> QED BY <2>1, FS_Subset DEF IsLog
  <1>3. \A r \in S : buildWhere(r, walk.q, walk.after)
    OBVIOUS
  <1>4. \A r \in rows : buildWhere(r, walk.q, walk.after) => r \in S
    OBVIOUS
  <1>5. size \in Nat \ {0}
    BY <1>1, LimitOK DEF Walks
  <1>6. /\ n \in Nat /\ found \in Seq(S) /\ Len(found) = n
        /\ \A i, j \in 1..n : i < j => Newer(found[i], found[j])
        /\ \A r \in S : \E i \in 1..n : found[i] = r
    <2> HIDE DEF S
    <2> QED BY <1>2, NewestSorts
  <1>7. walk' = [walk EXCEPT !.pc = IF more THEN "page" ELSE "done", !.seen = next, !.after = cursor]
    BY <1>6 DEF list, ListQuery
  <1>8. \A r \in S : r \in LoggedRows /\ r.at \in Nat \ {0} /\ r.id \in Nat /\ After(r, walk.after)
    BY <1>2, LoggedRow DEF buildWhere
  <1> HIDE DEF S, found, size, n
  <1>9. /\ page \in Seq(S) /\ Len(page) = len /\ len \in 0..n
        /\ \A i \in 1..len : page[i] = found[i] /\ page[i] \in S /\ i \in 1..n
    <2>1. \A i \in 1..n : found[i] \in S
      BY <1>6, ElementOfSeq
    <2>2. CASE more
      <3>1. size <= n /\ \A i \in 1..size : found[i] \in S /\ i \in 1..n
        BY <1>5, <1>6, <2>1, <2>2
      <3>2. /\ SubSeq(found, 1, size) \in Seq(S)
            /\ Len(SubSeq(found, 1, size)) = size
            /\ \A i \in 1..size : SubSeq(found, 1, size)[i] = found[i]
        BY <1>5, <3>1, SubSeqProperties
      <3> QED BY <1>5, <1>6, <2>2, <3>1, <3>2
    <2>3. CASE ~more
      BY <1>6, <2>1, <2>3
    <2> QED BY <2>2, <2>3
  <1>10. /\ shown \in Seq(LoggedRows) /\ Len(shown) \in Nat
         /\ next \in Seq(LoggedRows) /\ Len(next) = Len(shown) + len
         /\ \A i \in 1..Len(next) : next[i] = IF i <= Len(shown) THEN shown[i] ELSE page[i - Len(shown)]
    <2>1. shown \in Seq(LoggedRows) /\ page \in Seq(LoggedRows)
      BY <1>1, <1>2, <1>9, SeqMonotonic DEF Walks
    <2> QED BY <1>9, <2>1, ConcatProperties, LenProperties
  <1>11. /\ \A i, j \in 1..Len(shown) : i < j => Newer(shown[i], shown[j])
         /\ \A i \in 1..Len(shown) : ~After(shown[i], walk.after)
         /\ \A i \in 1..Len(shown) : shown[i].at \in Nat /\ shown[i].id \in Nat
         /\ \A r \in steady : r \in rows /\ (r \in Seen \/ r \in S)
         /\ walk.after.at \in Nat /\ walk.after.id \in Nat
    <2>1. \A i \in 1..Len(shown) : shown[i] \in LoggedRows
      BY <1>10, ElementOfSeq
    <2>2. walk # NoWalk
      BY <1>1 DEF NoWalk
    <2>3. walk.after \in [at : Nat, id : Nat]
      BY <1>1 DEF Walks
    <2> QED BY <1>1, <1>4, <2>1, <2>2, <2>3, LoggedRow DEF AuditIInv, LogOK, WalkKeepsUp
  <1>12. ASSUME NEW i \in 1..Len(shown), NEW k \in 1..len PROVE Newer(shown[i], page[k])
    <2>1. page[k] \in S
      BY <1>9
    <2>2. /\ page[k].at \in Nat \ {0} /\ page[k].id \in Nat /\ After(page[k], walk.after)
          /\ shown[i].at \in Nat /\ shown[i].id \in Nat /\ ~After(shown[i], walk.after)
          /\ walk.after.at \in Nat /\ walk.after.id \in Nat
      BY <1>8, <1>11, <2>1
    <2> HIDE DEF page, shown
    <2> QED BY <2>2 DEF After, Newer
  <1>13. more => /\ last = page[len] /\ len \in 1..len /\ last \in S
                 /\ \A k \in 1..len : k # len => Newer(page[k], last)
    <2> SUFFICES ASSUME more PROVE /\ last = page[len] /\ len \in 1..len /\ last \in S
                                   /\ \A k \in 1..len : k # len => Newer(page[k], last)
      OBVIOUS
    <2>1. len = size /\ len \in Nat \ {0}
      BY <1>5
    <2>2. \A k \in 1..len : page[k] = found[k] /\ k \in 1..n
      BY <1>9
    <2> QED BY <1>6, <1>9, <2>1, <2>2
  <1> HIDE DEF page, last, len
  <1>14. next \in Seq(LoggedRows) /\ cursor \in [at : Nat, id : Nat]
    BY <1>1, <1>8, <1>10, <1>13 DEF Walks
  <1>15. /\ walk' \in Walks /\ walk'.seen = next /\ walk'.after = cursor /\ walk'.q = walk.q
         /\ walk'.pc = IF more THEN "page" ELSE "done"
    <2> HIDE DEF next, cursor, more
    <2> QED BY <1>1, <1>7, <1>14 DEF Walks
  <1>16. ASSUME NEW i \in 1..Len(next), NEW j \in 1..Len(next), i < j PROVE Newer(next[i], next[j])
    <2>1. CASE j <= Len(shown)
      BY <1>10, <1>11, <1>16, <2>1
    <2>2. CASE i <= Len(shown) /\ j > Len(shown)
      <3>1. next[i] = shown[i] /\ next[j] = page[j - Len(shown)] /\ j - Len(shown) \in 1..len /\ i \in 1..Len(shown)
        BY <1>9, <1>10, <2>2
      <3> QED BY <1>12, <3>1
    <2>3. CASE i > Len(shown)
      <3> DEFINE a == i - Len(shown)
                 b == j - Len(shown)
      <3>1. next[i] = page[a] /\ next[j] = page[b] /\ a \in 1..len /\ b \in 1..len /\ a < b
        BY <1>9, <1>10, <1>16, <2>3
      <3> HIDE DEF a, b
      <3> QED BY <1>6, <1>9, <3>1
    <2> QED BY <1>10, <1>16, <2>1, <2>2, <2>3
  <1>17. ASSUME more, NEW i \in 1..Len(next) PROVE ~After(next[i], cursor)
    <2>1. next[i] = last \/ Newer(next[i], last)
      <3>1. CASE i <= Len(shown)
        BY <1>10, <1>12, <1>13, <1>17, <3>1
      <3>2. CASE i > Len(shown)
        <4>1. next[i] = page[i - Len(shown)] /\ i - Len(shown) \in 1..len
          BY <1>9, <1>10, <3>2
        <4> QED BY <1>13, <1>17, <4>1
      <3> QED BY <1>10, <3>1, <3>2
    <2>2. cursor.at = last.at /\ cursor.id = last.id /\ last.at \in Nat \ {0} /\ last.id \in Nat
      BY <1>8, <1>13, <1>17
    <2>3. next[i].at \in Nat /\ next[i].id \in Nat
      BY <1>14, ElementOfSeq, LoggedRow
    <2>4. cursor # NoCursor
      BY <2>2 DEF NoCursor
    <2> HIDE DEF next, cursor
    <2> QED BY <2>1, <2>2, <2>3, <2>4 DEF After, Newer
  <1>18. ASSUME NEW r \in steady
         PROVE  (\E i \in 1..Len(next) : next[i] = r) \/ (more /\ buildWhere(r, walk.q, cursor))
    <2>1. CASE r \in Seen
      <3>1. PICK i \in 1..Len(shown) : shown[i] = r
        BY <1>10, <2>1, LenProperties DEF Seen
      <3> QED BY <1>9, <1>10, <3>1
    <2>2. CASE r \in S
      <3>1. PICK i \in 1..n : found[i] = r
        BY <1>6, <2>2
      <3>2. CASE i <= len
        <4>1. page[i] = r /\ i + Len(shown) \in 1..Len(next) /\ next[i + Len(shown)] = page[i]
          BY <1>6, <1>9, <1>10, <3>1, <3>2
        <4> QED BY <4>1
      <3>3. CASE i > len
        <4>1. more /\ len \in 1..n /\ page[len] = found[len] /\ last = page[len]
          BY <1>6, <1>9, <1>13, <3>1, <3>3 DEF len
        <4>2. Newer(last, r)
          BY <1>6, <3>1, <3>3, <4>1
        <4>3. After(r, cursor)
          BY <4>1, <4>2, <1>8, <1>13, <2>2 DEF After, Newer
        <4> QED BY <1>3, <2>2, <4>1, <4>3 DEF buildWhere
      <3>4. i <= len \/ i > len
        BY <1>6, <1>9
      <3> QED BY <3>2, <3>3, <3>4
    <2> QED BY <1>11, <2>1, <2>2
  <1>19. LogOK'
    BY <1>1, <1>15 DEF AuditIInv, LogOK
  <1>20. WalkKeepsUp'
    <2>1. \A r : Listable(r)' <=> Listable(r)
      BY <1>1, ListableKept
    <2>2. DOMAIN next = 1..Len(next)
      BY <1>14, LenProperties
    <2>3. \A r : r \in Seen' <=> \E i \in 1..Len(next) : next[i] = r
      BY <1>15, <2>2 DEF Seen
    <2>4. steady' = steady
      BY <1>1
    <2>5. \A r : buildWhere(r, walk.q, cursor) => buildWhere(r, walk.q, walk.after)'
      BY <1>15, <2>1 DEF buildWhere
    <2> HIDE DEF next, cursor, more
    <2>6. \A i, j \in 1..Len(walk'.seen) : i < j => Newer(walk'.seen[i], walk'.seen[j])
      BY <1>15, <1>16
    <2>7. walk'.pc = "page" => /\ more
                               /\ \A i \in 1..Len(walk'.seen) : ~After(walk'.seen[i], walk'.after)
      BY <1>15, <1>17
    <2>8. walk'.pc = "page" => \A r \in steady' : r \in Seen' \/ buildWhere(r, walk.q, walk.after)'
      BY <1>18, <2>3, <2>4, <2>5
    <2>9. walk'.pc = "done" => steady' \subseteq Seen'
      BY <1>15, <1>18, <2>3, <2>4
    <2> QED BY <2>6, <2>7, <2>8, <2>9, <1>15 DEF WalkKeepsUp, buildWhere
  <1> QED BY <1>1, <1>19, <1>20 DEF AuditIInv, ClearIsMarked

LEMMA AuditNextOK == AuditIInv /\ [AuditNext]_auditVars => AuditIInv'
  <1> SUFFICES ASSUME AuditIInv, [AuditNext]_auditVars PROVE AuditIInv'
    OBVIOUS
  <1>1. ASSUME UNCHANGED <<rows, used, home, roles, walk, clears, steady, cleared>>, now' \in Nat
        PROVE  AuditIInv'
    <2>1. LogOK' /\ ClearIsMarked'
      BY <1>1 DEF AuditIInv, LogOK, ClearIsMarked
    <2>2. WalkKeepsUp'
      BY <1>1, ListableKept DEF AuditIInv, WalkKeepsUp, Seen, buildWhere
    <2> QED BY <2>1, <2>2 DEF AuditIInv
  <1>2. CASE Tick
    BY <1>1, <1>2 DEF Tick, AuditIInv, LogOK
  <1>3. CASE list
    BY <1>3, ListOK
  <1>4. ASSUME NEW target \in AuditTargets, NEW at, Log(target, at) PROVE AuditIInv'
    <2>1. Insert(target, at) /\ UNCHANGED clears
      BY <1>4 DEF Log
    <2> QED BY <2>1, InsertOK DEF AuditIInv, LogOK, ClearIsMarked
  <1>5. ASSUME NEW q \in Queries, Open(q) PROVE AuditIInv'
    BY <1>5, OpenOK
  <1>6. ASSUME NEW c \in Clearers, NEW older, ClearDelete(c, older) PROVE AuditIInv'
    <2>1. /\ rows' \subseteq rows /\ UNCHANGED <<used, now, walk>> /\ Watch
          /\ clears' = [clears EXCEPT ![c] = [pc |-> "mark", at |-> now]] /\ cleared' = now
      BY <1>6 DEF ClearDelete
    <2>2. [pc |-> "mark", at |-> now] \in Marking
      BY DEF AuditIInv, LogOK, Marking
    <2>3. LogOK'
      BY <2>1, <2>2, WatchOK DEF AuditIInv, LogOK
    <2>4. clears'[c].pc = "mark" /\ clears'[c].at = now
      BY <2>1 DEF AuditIInv, LogOK
    <2>5. ClearIsMarked'
      BY <2>1, <2>4 DEF ClearIsMarked, AuditIInv, LogOK
    <2> QED BY <2>1, <2>3, <2>5, WatchOK DEF AuditIInv
  <1>7. ASSUME NEW c \in Clearers, NEW at, ClearMark(c, at) PROVE AuditIInv'
    <2>1. /\ clears[c].pc = "mark" /\ at >= clears[c].at /\ Insert(Marker, at)
          /\ clears' = [clears EXCEPT ![c] = IdleClear]
      BY <1>7 DEF ClearMark
    <2>2. LogOK'
      BY <2>1, InsertOK DEF AuditIInv, LogOK
    <2>3. clears[c] \in Marking /\ clears[c].at \in Nat /\ at \in Nat /\ cleared \in Nat
      BY <2>1 DEF AuditIInv, LogOK, IdleClear, Marking, Insert
    <2>4. ASSUME cleared' # 0 PROVE ClearIsMarked'
      <3>1. UNCHANGED cleared /\ rows \subseteq rows' /\ \E r \in rows' : r.target = Marker /\ r.at = at
        BY <2>1, InsertOK
      <3>2. CASE \E r \in rows : r.target = Marker /\ r.at >= cleared
        BY <3>1, <3>2 DEF ClearIsMarked
      <3>3. CASE \E d \in Clearers : clears[d].pc = "mark" /\ clears[d].at >= cleared
        <4>1. PICK d \in Clearers : clears[d].pc = "mark" /\ clears[d].at >= cleared
          BY <3>3
        <4>2. CASE d = c
          BY <2>1, <2>3, <3>1, <4>1, <4>2 DEF ClearIsMarked
        <4>3. CASE d # c
          <5>1. clears'[d] = clears[d]
            BY <2>1, <4>3 DEF AuditIInv, LogOK
          <5> QED BY <3>1, <4>1, <5>1 DEF ClearIsMarked
        <4> QED BY <4>2, <4>3
      <3> QED BY <2>4, <3>1, <3>2, <3>3 DEF AuditIInv, ClearIsMarked
    <2>5. ClearIsMarked'
      BY <2>4 DEF ClearIsMarked
    <2> QED BY <2>1, <2>2, <2>5, InsertOK DEF AuditIInv
  <1>8. ASSUME NEW c \in Clearers, ClearUnmarked(c) PROVE AuditIInv'
    <2>1. /\ clears' = [clears EXCEPT ![c] = IdleClear] /\ cleared' = 0
          /\ UNCHANGED <<rows, used, now, home, roles, walk, changes, steady>>
      BY <1>8 DEF ClearUnmarked
    <2>2. LogOK' /\ ClearIsMarked'
      BY <2>1 DEF AuditIInv, LogOK, ClearIsMarked
    <2>3. WalkKeepsUp'
      BY <2>1, ListableKept DEF AuditIInv, WalkKeepsUp, Seen, buildWhere
    <2> QED BY <2>2, <2>3 DEF AuditIInv
  <1>9. ASSUME NEW h, NEW rs, Change(h, rs) PROVE AuditIInv'
    <2>1. UNCHANGED <<rows, used, now, walk, clears, cleared>> /\ Watch
      BY <1>9 DEF Change
    <2>2. LogOK' /\ ClearIsMarked'
      BY <2>1, WatchOK DEF AuditIInv, LogOK, ClearIsMarked
    <2> QED BY <2>1, <2>2, WatchOK DEF AuditIInv
  <1>10. CASE UNCHANGED auditVars
    BY <1>1, <1>10 DEF auditVars, AuditIInv, LogOK
  <1> QED BY <1>2, <1>3, <1>4, <1>5, <1>6, <1>7, <1>8, <1>9, <1>10
          DEF AuditNext, DeleteHost, MoveHost, SetAssignments

LEMMA AuditIInvAlways == AuditSpec => []AuditIInv
  BY AuditInitOK, AuditNextOK, PTL DEF AuditSpec

(* audit store.go and handler.go: the pages of one walk list every row     *)
(* that stays listable, none twice and in order, and the list's SQL and    *)
(* the check of one row agree, for any log, any filters and any roles.     *)
THEOREM ReadersSeeTheirRowsAlways == AuditSpec => []ReadersSeeTheirRows
  <1>1. AuditIInv => PagesMissNothing
    <2> SUFFICES ASSUME AuditIInv, walk # NoWalk PROVE PagesMissNothing
      BY DEF PagesMissNothing
    <2>1. walk.seen \in Seq(LoggedRows) /\ DOMAIN walk.seen = 1..Len(walk.seen)
      BY LenProperties DEF AuditIInv, LogOK, Walks
    <2> QED BY <2>1 DEF AuditIInv, WalkKeepsUp, PagesMissNothing
  <1>2. ListAgreesWithGet
    BY DEF ListAgreesWithGet, scopeClause, IsVisibleTo
  <1> QED BY <1>1, <1>2, AuditIInvAlways, PTL DEF ReadersSeeTheirRows

(* audit handler.go: whatever order concurrent clears take, the marker of  *)
(* the last is in the log once none is under way.                          *)
THEOREM ClearIsOnRecordAlways == AuditSpec => []ClearIsOnRecord
  <1>1. AuditIInv => ClearIsOnRecord
    BY DEF AuditIInv, ClearIsMarked, ClearIsOnRecord, IdleClear
  <1> QED BY <1>1, AuditIInvAlways, PTL
=============================================================================
