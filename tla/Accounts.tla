------------------------------ MODULE Accounts ------------------------------
(***************************************************************************)
(* User accounts, the global Admin role and login sessions, under requests *)
(* that run concurrently.  Each SQL statement (or transaction) of a        *)
(* handler is one action, and between any two of them other requests run;  *)
(* the database has a single connection, so a transaction is atomic.       *)
(*                                                                         *)
(* Passwords are taken to match: which password a request carries is data  *)
(* that no property here tells apart.  The second factor is SecondFactor's *)
(* subject; here it is the time between a login's check and its session.   *)
(***************************************************************************)
EXTENDS Integers, FiniteSets

CONSTANTS Users, Sids, Requests, NoUser,
          Provisioning      \* SW_OIDC_PROVISION

ASSUME ConstantsAssumption == NoUser \notin Users /\ Provisioning \in BOOLEAN

VARIABLES up,          \* the server runs
          marker,      \* rbac_meta holds v1_backfilled
          users,       \* ids in the users table
          gone,        \* ids of users that were deleted: ids are not reused
          disabled,    \* users with disabled_at
          mustChange,  \* users with must_change_password
          admins,      \* users with the global Admin row in user_roles
          sess,        \* sessions table: the user of a row, or NoUser
          owner,       \* the user a session cookie was issued to, or NoUser
          expired,     \* sessions whose expires_at has passed
          seen,        \* sessions touched within SessionTouchInterval
          reqs         \* requests at work

vars == <<up, marker, users, gone, disabled, mustChange, admins, sess, owner,
          expired, seen, reqs>>
accountVars == <<up, marker, users, gone, disabled, mustChange, admins>>
sessionVars == <<sess, owner, expired, seen>>

\* The handlers behind RequireUser that change accounts or sessions.
SelfKinds == {"revokeOthers", "password", "createUser"}
AdminKinds == {"enable", "disable", "delete", "reset", "grant", "demote"}
Kinds == SelfKinds \cup AdminKinds \cup {"revokeOne", "login", "other"}

(* sid: the session the request rides on; target: the user it is about;    *)
(* victim: the session it is about.                                        *)
Idle == [pc |-> "idle"]
Req == [pc : {"setup", "create", "prune", "touch", "user", "check", "write", "revoke"},
        kind : Kinds, actor : Users, sid : Sids \cup {"none"},
        target : Users, victim : Sids \cup {"none"}]
NewReq(pc, kind, u, s, t, v) ==
    [pc |-> pc, kind |-> kind, actor |-> u, sid |-> s, target |-> t, victim |-> v]

Goto(q, pc) == reqs' = [reqs EXCEPT ![q].pc = pc]
Done(q) == reqs' = [reqs EXCEPT ![q] = Idle]
At(q, pc) == up /\ reqs[q].pc = pc
Is(q, kinds) == reqs[q].kind \in kinds

Init ==
    /\ up = FALSE /\ marker = FALSE
    /\ users \in SUBSET Users         \* a new install, or one older than RBAC
    /\ gone = {} /\ disabled = {} /\ mustChange = {} /\ admins = {}
    /\ sess = [s \in Sids |-> NoUser]
    /\ owner = [s \in Sids |-> NoUser]
    /\ expired = {} /\ seen = {}
    /\ reqs = [q \in Requests |-> Idle]

-----------------------------------------------------------------------------
(* rbac.NewSQLiteStore at boot: the first time, and never again, everyone  *)
(* in the users table becomes a global Admin.                              *)
Boot ==
    /\ ~up
    /\ up' = TRUE /\ marker' = TRUE
    /\ admins' = IF marker THEN admins ELSE users
    /\ UNCHANGED <<users, gone, disabled, mustChange, sessionVars, reqs>>

\* The process ends: requests are lost where they stand.
Crash ==
    /\ up
    /\ up' = FALSE
    /\ reqs' = [q \in Requests |-> Idle]
    /\ UNCHANGED <<marker, users, gone, disabled, mustChange, admins, sessionVars>>

\* Thirty days pass.
Expire(s) ==
    /\ owner[s] # NoUser /\ s \notin expired
    /\ expired' = expired \cup {s}
    /\ UNCHANGED <<accountVars, sess, owner, seen, reqs>>

\* Five minutes pass.
Age(s) ==
    /\ s \in seen
    /\ seen' = seen \ {s}
    /\ UNCHANGED <<accountVars, sess, owner, expired, reqs>>

-----------------------------------------------------------------------------
\* Ways in.  handleSetup counts the users, then creates the first.
SetupCount(q) ==
    /\ At(q, "idle") /\ users = {}
    /\ \E u \in Users \ gone :
          reqs' = [reqs EXCEPT ![q] = NewReq("setup", "login", u, "none", u, "none")]
    /\ UNCHANGED <<accountVars, sessionVars>>

SetupCreate(q) ==
    /\ At(q, "setup")
    /\ reqs[q].actor \notin users \cup gone
    /\ users' = users \cup {reqs[q].actor}
    /\ Goto(q, "create")
    /\ UNCHANGED <<up, marker, gone, disabled, mustChange, admins, sessionVars>>

\* UNIQUE on username: the same name was taken meanwhile.
SetupTaken(q) ==
    /\ At(q, "setup")
    /\ reqs[q].actor \in users \cup gone
    /\ Done(q)
    /\ UNCHANGED <<accountVars, sessionVars>>

\* Of handleLogin and the OIDC callback: the user was found and is enabled.
Login(q, u) ==
    /\ At(q, "idle") /\ u \in users \ disabled
    /\ reqs' = [reqs EXCEPT ![q] = NewReq("create", "login", u, "none", u, "none")]
    /\ UNCHANGED <<accountVars, sessionVars>>

\* resolveOIDCUser provisions a first-time user, without roles.
Provision(q, u) ==
    /\ At(q, "idle") /\ Provisioning /\ u \notin users \cup gone
    /\ users' = users \cup {u}
    /\ reqs' = [reqs EXCEPT ![q] = NewReq("create", "login", u, "none", u, "none")]
    /\ UNCHANGED <<up, marker, gone, disabled, mustChange, admins, sessionVars>>

\* issueCookie inserts the row of a new session; sessions has no foreign key.
CreateSession(q, s) ==
    /\ At(q, "create") /\ owner[s] = NoUser
    /\ sess' = [sess EXCEPT ![s] = reqs[q].actor]
    /\ owner' = [owner EXCEPT ![s] = reqs[q].actor]
    /\ seen' = seen \cup {s}
    /\ Goto(q, "prune")
    /\ UNCHANGED <<accountVars, expired>>

DeleteExpiredSessions(q) ==
    /\ At(q, "prune")
    /\ sess' = [s \in Sids |-> IF s \in expired THEN NoUser ELSE sess[s]]
    /\ Done(q)
    /\ UNCHANGED <<accountVars, owner, expired, seen>>

-----------------------------------------------------------------------------
(* RequireUser with sessions: the row is read, last_seen_at is refreshed,  *)
(* and then the user is looked up.  What the request asks for is chosen    *)
(* when it reaches its handler, as nothing depends on it before.           *)
SessionRow(q, s) ==
    /\ At(q, "idle")
    /\ sess[s] # NoUser /\ s \notin expired
    /\ reqs' = [reqs EXCEPT ![q] = NewReq(IF s \in seen THEN "user" ELSE "touch",
                                         "other", sess[s], s, sess[s], "none")]
    /\ UNCHANGED <<accountVars, sessionVars>>

\* Mutant: the row is written back as it was read.
TouchSession_upsert(q) ==
    /\ At(q, "touch")
    /\ sess' = [sess EXCEPT ![reqs[q].sid] = reqs[q].actor]
    /\ seen' = seen \cup {reqs[q].sid}
    /\ Goto(q, "user")
    /\ UNCHANGED <<accountVars, owner, expired>>

\* An UPDATE, which finds nothing when the session was revoked meanwhile.
TouchSession(q) ==
    /\ At(q, "touch")
    /\ seen' = seen \cup {s \in Sids : s = reqs[q].sid /\ sess[s] # NoUser}
    /\ Goto(q, "user")
    /\ UNCHANGED <<accountVars, sess, owner, expired>>

FirstStep(kind) ==
    IF kind \in {"enable", "disable", "delete", "reset", "password"} THEN "check" ELSE "write"

(* RequireUser, RequireFreshPassword (which the routes of rbac do not use) *)
(* and the guards ahead of the handler: nobody disables, deletes or resets *)
(* themselves, and a global Admin alone deals with that role.              *)
Admitted(q, kind, t) ==
    LET u == reqs[q].actor IN
    /\ u \in users \ disabled
    /\ u \in mustChange => kind \in {"password", "grant", "demote"}
    /\ kind \in SelfKinds => t = u
    /\ kind \in {"disable", "delete", "reset"} => t # u
    /\ kind \in {"grant", "demote"} => u \in admins

RequireUser(q, kind, t, v) ==
    /\ At(q, "user") /\ Admitted(q, kind, t)
    /\ reqs' = [reqs EXCEPT ![q] =
          NewReq(FirstStep(kind), kind, reqs[q].actor, reqs[q].sid, t, v)]
    /\ UNCHANGED <<accountVars, sessionVars>>

\* 401, 403, a request of no interest here.
Answered(q) ==
    /\ At(q, "user")
    /\ Done(q)
    /\ UNCHANGED <<accountVars, sessionVars>>

-----------------------------------------------------------------------------
(* The look at the target that precedes the change; a disable and a delete *)
(* count the enabled users, unless the target is disabled already.         *)
CheckTarget(q) ==
    LET t == reqs[q].target IN
    /\ At(q, "check")
    /\ IF /\ t \in users
          /\ (Is(q, {"disable", "delete"}) /\ t \notin disabled)
                => Cardinality(users \ disabled) > 1
       THEN Goto(q, "write")
       ELSE Done(q)
    /\ UNCHANGED <<accountVars, sessionVars>>

\* A write that finds no row ends its request with 404.
WriteMissed(q) ==
    /\ At(q, "write")
    /\ Is(q, {"enable", "disable", "reset", "delete", "grant", "password"})
    /\ reqs[q].target \notin users
    /\ Done(q)
    /\ UNCHANGED <<accountVars, sessionVars>>

SetDisabled(q) ==
    /\ At(q, "write") /\ Is(q, {"disable", "enable"}) /\ reqs[q].target \in users
    /\ IF Is(q, {"disable"})
       THEN disabled' = disabled \cup {reqs[q].target} /\ Goto(q, "revoke")
       ELSE disabled' = disabled \ {reqs[q].target} /\ Done(q)
    /\ UNCHANGED <<up, marker, users, gone, mustChange, admins, sessionVars>>

\* UpdatePassword of one's own, AdminSetPassword of somebody else's.
SetPassword(q) ==
    /\ At(q, "write") /\ Is(q, {"password", "reset"}) /\ reqs[q].target \in users
    /\ mustChange' = IF Is(q, {"reset"}) THEN mustChange \cup {reqs[q].target}
                                         ELSE mustChange \ {reqs[q].target}
    /\ Goto(q, "revoke")
    /\ UNCHANGED <<up, marker, users, gone, disabled, admins, sessionVars>>

\* Mutant: the transaction commits without a look at the admins left.
Delete_uncounted(q) ==
    LET t == reqs[q].target IN
    /\ At(q, "write") /\ Is(q, {"delete"}) /\ t \in users
    /\ users' = users \ {t} /\ gone' = gone \cup {t}
    /\ disabled' = disabled \ {t} /\ mustChange' = mustChange \ {t}
    /\ admins' = admins \ {t}
    /\ Goto(q, "revoke")
    /\ UNCHANGED <<up, marker, sessionVars>>

(* The transaction deletes the user, and its roles by cascade, and rolls   *)
(* back unless a global Admin remains.                                     *)
Delete(q) ==
    LET t == reqs[q].target IN
    /\ At(q, "write") /\ Is(q, {"delete"}) /\ t \in users
    /\ IF admins \ {t} # {}
       THEN /\ users' = users \ {t} /\ gone' = gone \cup {t}
            /\ disabled' = disabled \ {t} /\ mustChange' = mustChange \ {t}
            /\ admins' = admins \ {t}
            /\ Goto(q, "revoke")
       ELSE Done(q) /\ UNCHANGED <<users, gone, disabled, mustChange, admins>>
    /\ UNCHANGED <<up, marker, sessionVars>>

CreateUser(q) ==
    /\ At(q, "write") /\ Is(q, {"createUser"})
    /\ \E u \in Users \ (users \cup gone) : users' = users \cup {u}
    /\ Done(q)
    /\ UNCHANGED <<up, marker, gone, disabled, mustChange, admins, sessionVars>>

\* The name is taken.
CreateUserRefused(q) ==
    /\ At(q, "write") /\ Is(q, {"createUser"})
    /\ Done(q)
    /\ UNCHANGED <<accountVars, sessionVars>>

Grant(q) ==
    /\ At(q, "write") /\ Is(q, {"grant"}) /\ reqs[q].target \in users
    /\ admins' = admins \cup {reqs[q].target}
    /\ Done(q)
    /\ UNCHANGED <<up, marker, users, gone, disabled, mustChange, sessionVars>>

\* rbac Revoke of the global Admin row, which counts after its delete.
Revoke(q) ==
    /\ At(q, "write") /\ Is(q, {"demote"})
    /\ admins' = IF admins \ {reqs[q].target} # {} THEN admins \ {reqs[q].target} ELSE admins
    /\ Done(q)
    /\ UNCHANGED <<up, marker, users, gone, disabled, mustChange, sessionVars>>

-----------------------------------------------------------------------------
\* Sessions are revoked one by one, by their owner or an administrator...
RevokeSession(q) ==
    LET r == reqs[q] IN
    /\ At(q, "write") /\ Is(q, {"revokeOne"})
    /\ sess' = [sess EXCEPT ![r.victim] =
                  IF @ = r.target /\ r.target \in users THEN NoUser ELSE @]
    /\ Done(q)
    /\ UNCHANGED <<accountVars, owner, expired, seen>>

\* ... all but the one that asks, or, after an administrator's change, all.
RevokeUserSessions(q) ==
    LET r == reqs[q]
        keep == IF Is(q, {"password", "revokeOthers"}) THEN {r.sid} ELSE {} IN
    /\ At(q, "revoke") \/ (At(q, "write") /\ Is(q, {"revokeOthers"}))
    /\ sess' = [s \in Sids |->
                  IF sess[s] = r.target /\ s \notin keep THEN NoUser ELSE sess[s]]
    /\ Done(q)
    /\ UNCHANGED <<accountVars, owner, expired, seen>>

(* A statement fails.  The request ends, with an error or, where the code  *)
(* only logs (the revocations after a change, the prune), without one; a   *)
(* failed touch does not keep the request from its handler.                *)
StatementFails(q) ==
    /\ up /\ reqs[q].pc \notin {"idle", "user"}
    /\ IF At(q, "touch") THEN Goto(q, "user") ELSE Done(q)
    /\ UNCHANGED <<accountVars, sessionVars>>

\* Logout needs a cookie and its user, not a live session.
Logout(s) ==
    /\ up /\ s \notin expired /\ owner[s] \in users
    /\ sess[s] = owner[s]
    /\ sess' = [sess EXCEPT ![s] = NoUser]
    /\ UNCHANGED <<accountVars, owner, expired, seen, reqs>>

-----------------------------------------------------------------------------
Admit(q) ==
    \/ \E kind \in SelfKinds, t \in Users : RequireUser(q, kind, t, "none")
    \/ \E kind \in AdminKinds, t \in Users : RequireUser(q, kind, t, "none")
    \/ \E t \in Users, v \in Sids : RequireUser(q, "revokeOne", t, v)

Handle(q) ==
    \/ SetupCount(q) \/ SetupCreate(q) \/ SetupTaken(q)
    \/ \E u \in Users : Login(q, u) \/ Provision(q, u)
    \/ \E s \in Sids : CreateSession(q, s) \/ SessionRow(q, s)
    \/ DeleteExpiredSessions(q)
    \/ TouchSession(q) \/ Admit(q) \/ Answered(q) \/ CheckTarget(q)
    \/ WriteMissed(q) \/ SetDisabled(q) \/ SetPassword(q) \/ Delete(q)
    \/ CreateUser(q) \/ CreateUserRefused(q) \/ Grant(q) \/ Revoke(q)
    \/ RevokeSession(q) \/ RevokeUserSessions(q) \/ StatementFails(q)

Next ==
    \/ Boot \/ Crash
    \/ \E s \in Sids : Expire(s) \/ Age(s) \/ Logout(s)
    \/ \E q \in Requests : Handle(q)

Spec == Init /\ [][Next]_vars

-----------------------------------------------------------------------------
\* The tables refer to users as they should: roles go with their user.
TypeOK ==
    /\ up \in BOOLEAN /\ marker \in BOOLEAN
    /\ users \subseteq Users /\ gone \subseteq Users /\ users \cap gone = {}
    /\ disabled \subseteq users /\ mustChange \subseteq users /\ admins \subseteq users
    /\ sess \in [Sids -> Users \cup {NoUser}]
    /\ owner \in [Sids -> Users \cup {NoUser}]
    /\ expired \subseteq Sids /\ seen \subseteq Sids
    /\ reqs \in [Requests -> {Idle} \cup Req]

(* Once there is a global Admin there is always one: no order of deletes   *)
(* and revocations by several administrators removes the last.             *)
AdminRemains == [][admins # {} => admins' # {}]_vars

(* A revoked session is never live again: the middleware's refresh of      *)
(* last_seen_at does not bring back a row deleted since it was read.       *)
RevokedStaysRevoked ==
    [][\A s \in Sids : owner[s] # NoUser /\ sess[s] = NoUser => sess'[s] = NoUser]_vars
=============================================================================
