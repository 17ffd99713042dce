----------------------------- MODULE Recipients -----------------------------
(***************************************************************************)
(* Whom the dispatcher tells of an alert: the shared channels the rule is  *)
(* routed to, and the personal channels of every user whose subscription   *)
(* covers the system and whose roles let them read it.  One batch of       *)
(* transitions goes through Emit, statement by statement, while operators  *)
(* and users edit what it reads; then the flusher releases what was        *)
(* deferred.  Notifications has the life of the deferred rows, here they   *)
(* are only sent; SealedStores has the channels' secrets.                  *)
(*                                                                         *)
(* The transitions are of one rule, each on a system of its own.           *)
(***************************************************************************)
EXTENDS Rbac, FiniteSets

CONSTANTS
    Users, Shared,      \* the owners of channels and policies
    Chans, OwnerOf,     \* OwnerOf[c]: Shared or a user
    Batch,              \* transitions of the batch
    Gone,               \* the group of a deleted system
    Policies,           \* the delivery policies that are set
    Subscriptions,      \* the subscriptions that are set
    Starts,             \* the tables a batch may find
    MaxEdits     \* bound on edits and failing statements

Owners == Users \cup {Shared}
DeliveryModes == {"dashboard", "quiet", "always"}

\* mode for the rule's severity, and whether there are quiet windows.
Policy == [mode : DeliveryModes, windows : BOOLEAN]
DefaultPolicy == [mode |-> "quiet", windows |-> FALSE]

\* No groups: every group.  severity: the rule's severity is covered.
Subscription == [enabled : BOOLEAN, groups : SUBSET Groups, severity : BOOLEAN]

Tables == [roles : [Users -> SUBSET Assignment],
           home : [1..Batch -> Groups \cup {NoGroup, Gone}],
           subs : [Users -> Subscription], policy : [Owners -> Policy],
           chans : [Chans -> {"none", "on", "off", "deleted"}],
           routing : [mode : {"all", "selected"}, ids : SUBSET Chans]]

\* A batch is not empty.
ASSUME RecipientsAssumption ==
    /\ Shared \notin Users /\ OwnerOf \in [Chans -> Owners]
    /\ Policies \subseteq Policy /\ Subscriptions \subseteq Subscription
    /\ Starts \subseteq Tables
    /\ Gone \notin Groups \cup {NoGroup} /\ Batch \in Nat \ {0} /\ MaxEdits \in Nat

VARIABLES
    tables,       \* roles, home, subs, policy, chans, routing: the database
    night,        \* the clock is where quiet windows are
    emit,         \* the Emit under way
    deferred,     \* rows of notification_pending: <<owner, transition>>
    sent,         \* sent[<<n, c>>]: goroutines started for n on c by Emit
    late,         \* <<n, c>> sent by the flusher
    could, was,   \* observers: groups a user could read, a system was in
    disturbed,    \* observer: owners whose part was edited, or failed
    disturbances

disturbVars == <<disturbed, disturbances>>
recVars == <<tables, night, emit, deferred, sent, late, could, was, disturbVars>>

Readable(t, u) == {g \in Groups \cup {NoGroup} : CanReadSystem(NewScope(t.roles[u]), g)}

NotRead == [mode |-> "unread"]

\* The transition at hand, what Emit has read, and whom it has yet to serve.
Before == [pc |-> "idle", n |-> 1, night |-> FALSE, group |-> NoGroup,
           enabled |-> {}, policy |-> DefaultPolicy, route |-> NotRead,
           pols |-> [u \in Users |-> NotRead], chans |-> [u \in Users |-> {"unread"}],
           todo |-> {}, users |-> {}]

RecipientsInit ==
    /\ tables \in Starts
    /\ night \in BOOLEAN
    /\ emit = Before
    /\ deferred = {} /\ late = {}
    /\ sent = [x \in (1..Batch) \X Chans |-> 0]
    /\ could = [u \in Users |-> Readable(tables, u)]
    /\ was = [n \in 1..Batch |-> {tables.home[n]}]
    /\ disturbed = {} /\ disturbances = 0

RecipientsOff ==
    /\ tables = CHOOSE s \in Starts : TRUE
    /\ night = FALSE /\ emit = [pc |-> "off"]
    /\ deferred = {} /\ sent = <<>> /\ late = {} /\ could = <<>> /\ was = <<>>
    /\ disturbed = {} /\ disturbances = 0

\* Edits, and statements that fail, are counted.
Disturb(os) ==
    /\ disturbances < MaxEdits
    /\ disturbances' = disturbances + 1
    /\ disturbed' = disturbed \cup os

-----------------------------------------------------------------------------
\* Edits by operators and users, at any moment.
Edit(os, t) ==
    /\ tables' = t
    /\ Disturb(os)
    /\ could' = [u \in Users |-> could[u] \cup Readable(t, u)]
    /\ was' = [n \in 1..Batch |-> was[n] \cup {t.home[n]}]
    /\ UNCHANGED <<night, emit, deferred, sent, late>>

\* A role on group g, or a global one.  Whoever edits passes the gates of
\* the handlers: they are not among Users.
Auditor(g) == [group |-> g, role |-> "auditor"]

GrantRole(u, g) ==
    /\ Auditor(g) \notin tables.roles[u]
    /\ Edit({u}, [tables EXCEPT !.roles[u] = @ \cup {Auditor(g)}])

RevokeRole(u, g) ==
    /\ Auditor(g) \in tables.roles[u]
    /\ Edit({u}, [tables EXCEPT !.roles[u] = @ \ {Auditor(g)}])

\* A system changes its group, or is deleted.
SetHome(n, g) == tables.home[n] # Gone /\ Edit(Users, [tables EXCEPT !.home[n] = g])

SetSubscription(u, s) == Edit({u}, [tables EXCEPT !.subs[u] = s])

SetSharedPolicy(p) == Edit({Shared}, [tables EXCEPT !.policy[Shared] = p])
SetUserPolicy(u, p) == Edit({u}, [tables EXCEPT !.policy[u] = p])

\* Create and update, either with the channel enabled or disabled.
CreateChannel(c, st) ==
    /\ tables.chans[c] = "none"
    /\ Edit({OwnerOf[c]}, [tables EXCEPT !.chans[c] = st])

UpdateChannel(c, st) ==
    /\ tables.chans[c] \in {"on", "off"}
    /\ Edit({OwnerOf[c]}, [tables EXCEPT !.chans[c] = st])

\* Delete takes a shared channel out of every rule's routing; ids are not
\* used again.
DeleteSharedChannel(c) ==
    /\ OwnerOf[c] = Shared /\ tables.chans[c] \in {"on", "off"}
    /\ Edit({Shared}, [tables EXCEPT !.chans[c] = "deleted", !.routing.ids = @ \ {c}])

DeleteUserChannel(c) ==
    /\ OwnerOf[c] # Shared /\ tables.chans[c] \in {"on", "off"}
    /\ Edit({OwnerOf[c]}, [tables EXCEPT !.chans[c] = "deleted"])

\* In all-mode the ids carry no meaning and are cleared.
ValidRouting(mode, ids) == [mode |-> mode, ids |-> IF mode = "all" THEN {} ELSE ids]

\* The ids an operator knows, which may be of deleted channels.
SetRouting(mode, ids) ==
    /\ \A c \in ids : tables.chans[c] # "none"
    /\ Edit({Shared}, [tables EXCEPT !.routing = ValidRouting(mode, ids)])

-----------------------------------------------------------------------------
\* Emit

Reached(pc) == emit.pc = pc
On(o) == {c \in Chans : OwnerOf[c] = o /\ tables.chans[c] = "on"}

\* A statement works, or fails and disturbs owners os.
Works(ok, os) == IF ok THEN UNCHANGED disturbVars ELSE Disturb(os)
Goes(e) == emit' = e /\ UNCHANGED <<tables, night, late, could, was>>

\* ListEnabled: without it the batch is dropped, personal deliveries too.
EmitList(ok) ==
    /\ Reached("idle") /\ Works(ok, Owners)
    /\ Goes(IF ok THEN [Before EXCEPT !.pc = "policy", !.enabled = On(Shared)]
            ELSE [Before EXCEPT !.pc = "done", !.night = night])
    /\ UNCHANGED <<deferred, sent>>

\* GetPolicy, and the one look at the clock.
EmitPolicy(ok) ==
    /\ Reached("policy") /\ Works(ok, {Shared})
    /\ Goes([emit EXCEPT !.pc = "shared", !.night = night,
                         !.policy = IF ok THEN tables.policy[Shared] ELSE DefaultPolicy])
    /\ UNCHANGED <<deferred, sent>>

\* What a policy says of a transition at night or by day.
ModeFor(p, dark) ==
    CASE p.mode = "dashboard" -> "suppress"
      [] p.mode = "quiet" /\ p.windows /\ dark -> "defer"
      [] OTHER -> "send"

FanOutTo(cs) == sent' = [x \in DOMAIN sent |->
                  IF x[1] = emit.n /\ x[2] \in cs THEN sent[x] + 1 ELSE sent[x]]

\* enqueue: a row that cannot be written is lost.
enqueue(o, ok) ==
    /\ Works(ok, {o})
    /\ deferred' = IF ok THEN deferred \cup {<<o, emit.n>>} ELSE deferred
    /\ UNCHANGED sent

\* Mutant: a deferred transition goes to nobody else.
EmitShared_continues(ok) ==
    LET plan == ModeFor(emit.policy, emit.night) IN
    /\ Reached("shared")
    /\ CASE plan = "suppress" ->
              ok /\ UNCHANGED <<disturbVars, deferred, sent>> /\ Goes([emit EXCEPT !.pc = "system"])
         [] plan = "defer" -> enqueue(Shared, ok)
              /\ Goes([emit EXCEPT !.pc = IF emit.n = Batch THEN "done" ELSE "shared",
                                    !.n = IF @ = Batch THEN @ ELSE @ + 1])
         [] plan = "send" ->
              ok /\ UNCHANGED <<disturbVars, deferred, sent>> /\ Goes([emit EXCEPT !.pc = "route"])

\* The shared path of one transition.
EmitShared(ok) ==
    LET plan == ModeFor(emit.policy, emit.night) IN
    /\ Reached("shared")
    /\ CASE plan = "suppress" ->
              ok /\ UNCHANGED <<disturbVars, deferred, sent>> /\ Goes([emit EXCEPT !.pc = "system"])
         [] plan = "defer" -> enqueue(Shared, ok) /\ Goes([emit EXCEPT !.pc = "system"])
         [] plan = "send" ->
              ok /\ UNCHANGED <<disturbVars, deferred, sent>> /\ Goes([emit EXCEPT !.pc = "route"])

\* Disabled and deleted channels are skipped.
targetsFor(route, enabled) == IF route.mode = "selected" THEN route.ids \cap enabled ELSE enabled

Routed(route) ==
    /\ FanOutTo(targetsFor(route, emit.enabled))
    /\ Goes([emit EXCEPT !.pc = "system", !.route = route])

(* routedTargets: the routing is read for the first transition of a rule,  *)
(* its mode and its channels in two statements.  Failing is all-mode.      *)
RouteMode(ok) ==
    /\ Reached("route") /\ Works(ok, {Shared})
    /\ IF emit.route # NotRead THEN ok /\ Routed(emit.route)
       ELSE IF ok /\ tables.routing.mode = "selected"
            THEN Goes([emit EXCEPT !.pc = "routeIds"]) /\ UNCHANGED sent
            ELSE Routed([mode |-> "all"])
    /\ UNCHANGED deferred

routeChannelIDs(ok) ==
    /\ Reached("routeIds") /\ Works(ok, {Shared})
    /\ Routed(IF ok THEN [mode |-> "selected", ids |-> tables.routing.ids] ELSE [mode |-> "all"])
    /\ UNCHANGED deferred

-----------------------------------------------------------------------------
\* dispatchPersonal, with the resolver main.go gives it.

NextOfBatch == [emit EXCEPT !.pc = IF emit.n = Batch THEN "done" ELSE "shared",
                               !.n = IF @ = Batch THEN @ ELSE @ + 1]

\* sysStore.Get: a deleted system is an error as any other.
ResolveSystem(ok) ==
    /\ Reached("system") /\ Works(ok, Users)
    /\ Goes(IF ok /\ tables.home[emit.n] # Gone
             THEN [emit EXCEPT !.pc = "subs", !.group = tables.home[emit.n]]
             ELSE NextOfBatch)
    /\ UNCHANGED <<deferred, sent>>

Wanted(s, g) == s.enabled /\ (s.groups = {} \/ g \in s.groups) /\ s.severity

ListSubscriptions(ok) ==
    /\ Reached("subs") /\ Works(ok, Users)
    /\ Goes(IF ok THEN [emit EXCEPT !.pc = "scope",
                            !.todo = {u \in Users : Wanted(tables.subs[u], emit.group)},
                            !.users = {}]
             ELSE NextOfBatch)
    /\ UNCHANGED <<deferred, sent>>

\* Users come in the order of their ids.
First(us) == CHOOSE u \in us : TRUE

\* Mutant: a subscription is permission enough.
ResolveScope_subscribed(ok) ==
    /\ Reached("scope")
    /\ IF emit.todo = {} THEN ok /\ UNCHANGED disturbVars /\ Goes([emit EXCEPT !.pc = "users"])
       ELSE LET u == First(emit.todo) IN
            /\ Works(ok, {u})
            /\ Goes([emit EXCEPT !.todo = @ \ {u}, !.users = IF ok THEN @ \cup {u} ELSE @])
    /\ UNCHANGED <<deferred, sent>>

\* The live roles of each subscriber decide; one that cannot be read is out.
ResolveScope(ok) ==
    /\ Reached("scope")
    /\ IF emit.todo = {} THEN ok /\ UNCHANGED disturbVars /\ Goes([emit EXCEPT !.pc = "users"])
       ELSE LET u == First(emit.todo) IN
            /\ Works(ok, {u})
            /\ Goes([emit EXCEPT !.todo = @ \ {u},
                        !.users = IF ok /\ emit.group \in Readable(tables, u)
                                  THEN @ \cup {u} ELSE @])
    /\ UNCHANGED <<deferred, sent>>

\* The user's policy, read once a batch.
policy(u, ok) == IF emit.pols[u] # NotRead THEN emit.pols[u]
                 ELSE IF ok THEN tables.policy[u] ELSE DefaultPolicy

PersonalPolicy(ok) ==
    /\ Reached("users")
    /\ IF emit.users = {}
       THEN ok /\ Goes(NextOfBatch) /\ UNCHANGED <<disturbVars, deferred, sent>>
       ELSE LET u == First(emit.users)  p == policy(u, ok)
                done == [emit EXCEPT !.users = @ \ {u}, !.pols[u] = p] IN
            /\ emit.pols[u] # NotRead => ok
            /\ Works(ok, {u})
            /\ CASE ModeFor(p, emit.night) = "suppress" ->
                      Goes(done) /\ UNCHANGED <<deferred, sent>>
                 [] ModeFor(p, emit.night) = "defer" ->
                      Goes([done EXCEPT !.pc = "enqueue", !.users = emit.users])
                      /\ UNCHANGED <<deferred, sent>>
                 [] OTHER -> Goes([done EXCEPT !.pc = "send", !.users = emit.users])
                      /\ UNCHANGED <<deferred, sent>>

PersonalEnqueue(ok) ==
    /\ Reached("enqueue")
    /\ enqueue(First(emit.users), ok)
    /\ Goes([emit EXCEPT !.pc = "users", !.users = @ \ {First(@)}])

\* The user's enabled channels, read once a batch too.
channels(u, ok) == IF emit.chans[u] # {"unread"} THEN emit.chans[u]
                   ELSE IF ok THEN On(u) ELSE {}

PersonalSend(ok) ==
    LET u == First(emit.users)  cs == channels(u, ok) IN
    /\ Reached("send")
    /\ emit.chans[u] # {"unread"} => ok
    /\ Works(ok, {u})
    /\ FanOutTo(cs)
    /\ Goes([emit EXCEPT !.pc = "users", !.users = @ \ {u}, !.chans[u] = cs])
    /\ UNCHANGED deferred

-----------------------------------------------------------------------------
\* The clock passes the edge of the quiet windows.
NightTurns ==
    /\ emit.pc \notin {"idle", "policy"} /\ night = emit.night /\ night' = ~night
    /\ UNCHANGED <<tables, emit, deferred, sent, late, could, was, disturbVars>>

(* The flusher releases a row of an owner who is no longer in quiet hours: *)
(* to the channels routed to now, or to all of the user's.                 *)
FlushRow(r) ==
    /\ r \in deferred
    /\ ~(tables.policy[r[1]].windows /\ night)
    /\ deferred' = deferred \ {r}
    /\ late' = late \cup {<<r[2], c>> :
            c \in IF r[1] = Shared THEN targetsFor(tables.routing, On(Shared)) ELSE On(r[1])}
    /\ UNCHANGED <<tables, night, emit, sent, could, was, disturbVars>>

Edits ==
    \/ \E u \in Users : \/ \E g \in Groups \cup {NoGroup} : GrantRole(u, g) \/ RevokeRole(u, g)
                        \/ \E s \in Subscriptions : SetSubscription(u, s)
                        \/ \E p \in Policies : SetUserPolicy(u, p)
    \/ \E n \in 1..Batch, g \in Groups \cup {NoGroup, Gone} : SetHome(n, g)
    \/ \E p \in Policies : SetSharedPolicy(p)
    \/ \E c \in Chans : \/ DeleteSharedChannel(c) \/ DeleteUserChannel(c)
                        \/ \E st \in {"on", "off"} : CreateChannel(c, st) \/ UpdateChannel(c, st)
    \/ \E mode \in {"all", "selected"}, ids \in SUBSET {c \in Chans : OwnerOf[c] = Shared} :
            SetRouting(mode, ids)

Steps == \E ok \in BOOLEAN :
    \/ EmitList(ok) \/ EmitPolicy(ok) \/ EmitShared(ok) \/ RouteMode(ok) \/ routeChannelIDs(ok)
    \/ ResolveSystem(ok) \/ ListSubscriptions(ok) \/ ResolveScope(ok)
    \/ PersonalPolicy(ok) \/ PersonalEnqueue(ok) \/ PersonalSend(ok)

RecipientsNext == Edits \/ Steps \/ NightTurns \/ \E r \in deferred : FlushRow(r)

RecipientsSpec == RecipientsInit /\ [][RecipientsNext]_recVars
-----------------------------------------------------------------------------
\* What owner o should get of transition n from the tables as they are.
Covered(o, n) ==
    \/ o = Shared
    \/ /\ tables.home[n] # Gone
       /\ Wanted(tables.subs[o], tables.home[n]) /\ tables.home[n] \in Readable(tables, o)
Due(o, n) == IF Covered(o, n) THEN ModeFor(tables.policy[o], emit.night) ELSE "nothing"
Targets(o) == IF o = Shared THEN targetsFor(tables.routing, On(Shared)) ELSE On(o)

(* Shared and personal delivery, and that of one user and another, do not  *)
(* disturb each other: an owner whose own settings were not touched during *)
(* the batch, and none of whose statements failed, gets every transition   *)
(* once on each channel, or deferred, or not at all, as those settings     *)
(* say, whatever was edited or failed for the others.                      *)
OwnersAreIndependent ==
    Reached("done") =>
        \A o \in Owners \ disturbed, n \in 1..Batch :
            /\ \A c \in Chans : OwnerOf[c] = o =>
                sent[<<n, c>>] = IF Due(o, n) = "send" /\ c \in Targets(o) THEN 1 ELSE 0
            /\ night = emit.night => (<<o, n>> \in deferred <=> Due(o, n) = "defer")

(* "a subscription can never widen what a user is allowed to see": nobody  *)
(* is told, at once or when quiet hours end, of a system in no group that  *)
(* they could read during the batch.                                       *)
ToldOfTheirOwn ==
    emit.pc # "off" => \A u \in Users, n \in 1..Batch :
        \/ could[u] \cap was[n] # {}
        \/ /\ <<u, n>> \notin deferred
           /\ \A c \in Chans : OwnerOf[c] = u => sent[<<n, c>>] = 0 /\ <<n, c>> \notin late
=============================================================================
