----------------------------- MODULE SealedStores -----------------------------
(***************************************************************************)
(* The other rows the vault seals: the SSH credentials of the three scopes *)
(* (everything, a group, a system), edited over HTTP and resolved for each *)
(* run, and the secrets of notification channels, shared and personal.     *)
(*                                                                         *)
(* A PUT loads a row, merges the request into the copy, and writes it back *)
(* in a later statement; a resolution reads the three scopes one after the *)
(* other.  A key pair is the number of its generation; whether a slot      *)
(* names an ansible user is a flag.                                        *)
(***************************************************************************)
EXTENDS Vault, Sequences

CONSTANTS Clients,
          Chans,                \* of notification_channels and user_notification_channels
          Types, SecretTypes,   \* channel types; those that need a secret
          Edits                 \* what a PUT does to the user and to the key of a slot

ASSUME StoresAssumption ==
    /\ SecretTypes \subseteq Types
    /\ Edits \subseteq [user : {"keep", "set", "clear"}, key : {"keep", "new", "clear"}]
                    \ {[user |-> "keep", key |-> "keep"]}

VARIABLES slots,     \* ansible_credentials, one row a scope at most
          exists,    \* the group and the system still have their row
          grouped,   \* the system is a member of the group
          pairs,     \* key pairs made or supplied so far
          chans,     \* the channels' rows
          reqs,
          walk       \* the resolution of a run

storeVars == <<slots, exists, grouped, pairs, chans, reqs, walk>>
vars == <<vaultVars, storeVars>>
databaseVars == <<slots, exists, grouped, chans>>

Scopes == {"global", "group", "system"}
NoRow == [id |-> 0]
NoPair == [pair |-> 0]
NoSecret == [of |-> "none"]
Idle == [pc |-> "idle"]
NoWalk == [pc |-> "idle"]
SealSecret(type) == [of |-> type, version |-> files.current]
Sealed(pair) == [pair |-> pair, version |-> files.current]

\* An installation with a default credential, and channels or none yet.
FirstRow == MaxWrites + 1
Init ==
    /\ VaultInit
    /\ slots = [s \in Scopes |-> IF s # "global" THEN NoRow
                    ELSE [id |-> FirstRow, user |-> TRUE, pub |-> 1, priv |-> Sealed(1)]]
    /\ exists = [s \in Scopes |-> TRUE] /\ grouped = TRUE
    /\ pairs = 1
    /\ \/ chans = [c \in Chans |-> NoRow]
       \/ \E t \in SecretTypes : chans =
            [c \in Chans |-> [id |-> FirstRow, type |-> t, secret |-> SealSecret(t)]]
    /\ reqs = [a \in Clients |-> Idle] /\ walk = NoWalk

Sealing == UNCHANGED <<files, kek, totp, proc, rotated, lost, crashes>>
Stirred == walk' = IF walk.pc = "idle" THEN walk ELSE [walk EXCEPT !.stirred = TRUE]

-----------------------------------------------------------------------------
\* The slot a PUT works from: the row, or the zero value.
Loaded0(s) == IF slots[s] = NoRow THEN [id |-> 0, user |-> FALSE, pub |-> 0, priv |-> NoPair]
              ELSE slots[s]

HasKey(slot) == slot.pub # 0 /\ slot.priv # NoPair
Valid(slot) == (slot.user \/ HasKey(slot)) /\ ((slot.pub # 0) = (slot.priv # NoPair))

\* respondPut: the fields of the request over those of the row it has read.
Merge(slot, edit, pair) ==
    [slot EXCEPT !.user = IF edit.user = "keep" THEN @ ELSE edit.user = "set",
                 !.pub = CASE edit.key = "keep" -> @ [] edit.key = "new" -> pair [] OTHER -> 0,
                 !.priv = CASE edit.key = "keep" -> @
                            [] edit.key = "new" -> Sealed(pair)
                            [] OTHER -> NoPair]

\* The system or the group of a PUT must be there; a DELETE looks only a
\* system up.
ParentFound(s) == exists[s]
SystemFound(s) == s = "system" => exists[s]

(* PUT: the parent is looked up, the row loaded and merged, and what is    *)
(* not a slot refused.                                                     *)
PutSlot(a, s, edit) ==
    /\ Serving /\ reqs[a] = Idle /\ Write
    /\ ParentFound(s)
    /\ pairs' = pairs + (IF edit.key = "new" THEN 1 ELSE 0)
    /\ LET slot == Merge(Loaded0(s), edit, pairs + 1) IN
        reqs' = [reqs EXCEPT ![a] =
            IF Valid(slot) THEN [pc |-> "upsert", scope |-> s, slot |-> slot] ELSE Idle]
    /\ Sealing /\ UNCHANGED <<databaseVars, walk>>

\* Upsert looks for a row again, and goes by that one's id.
UpsertLookup(a) ==
    /\ Serving /\ reqs[a].pc = "upsert"
    /\ reqs' = [reqs EXCEPT ![a].pc = "write", ![a].slot.id = slots[reqs[a].scope].id]
    /\ UNCHANGED <<vaultVars, databaseVars, pairs, walk>>

\* Mutant: the UPDATE goes by scope and leaves key columns it has no key for.
UpsertWrite_coalesces(a) ==
    /\ Serving /\ reqs[a].pc = "write"
    /\ LET s == reqs[a].scope  slot == reqs[a].slot IN
        slots' = [slots EXCEPT ![s] =
            CASE slot.id = 0 /\ @ = NoRow -> [slot EXCEPT !.id = writes]
              [] slot.id # 0 /\ @.id = slot.id ->
                    [slot EXCEPT !.priv = IF slot.priv = NoPair THEN slots[s].priv ELSE slot.priv]
              [] OTHER -> @]
    /\ reqs' = [reqs EXCEPT ![a] = Idle]
    /\ Stirred
    /\ UNCHANGED <<vaultVars, exists, grouped, pairs, chans>>

(* The INSERT, which the unique index refuses when another PUT was first,  *)
(* or the UPDATE by id, of no row when the row is gone.                    *)
UpsertWrite(a) ==
    /\ Serving /\ reqs[a].pc = "write"
    /\ LET s == reqs[a].scope  slot == reqs[a].slot IN
        slots' = [slots EXCEPT ![s] =
            CASE slot.id = 0 /\ @ = NoRow -> [slot EXCEPT !.id = writes]
              [] slot.id # 0 /\ @.id = slot.id -> slot
              [] OTHER -> @]
    /\ reqs' = [reqs EXCEPT ![a] = Idle]
    /\ Stirred
    /\ UNCHANGED <<vaultVars, exists, grouped, pairs, chans>>

DeleteSlot(s) ==
    /\ Serving /\ Write
    /\ SystemFound(s) /\ slots[s] # NoRow
    /\ slots' = [slots EXCEPT ![s] = NoRow]
    /\ Stirred
    /\ Sealing /\ UNCHANGED <<exists, grouped, pairs, chans, reqs>>

\* A system or a group is deleted, its slot with it (the triggers).
DeleteParent(s) ==
    /\ Serving /\ Write
    /\ s # "global" /\ exists[s]
    /\ exists' = [exists EXCEPT ![s] = FALSE]
    /\ slots' = [slots EXCEPT ![s] = NoRow]
    /\ grouped' = FALSE
    /\ Stirred
    /\ Sealing /\ UNCHANGED <<pairs, chans, reqs>>

-----------------------------------------------------------------------------
buildScopeChain == IF grouped THEN <<"system", "group", "global">> ELSE <<"system", "global">>

(* A run resolves its credentials: one lookup a scope, from the system up, *)
(* each field from the first slot that has it.                             *)
ResolveStart ==
    /\ Serving /\ walk = NoWalk /\ exists["system"]
    /\ walk' = [pc |-> "walk", chain |-> buildScopeChain, user |-> "none", key |-> "none",
                pub |-> 0, priv |-> NoPair, stirred |-> FALSE]
    /\ UNCHANGED <<vaultVars, databaseVars, pairs, reqs>>

ResolveScope(w, s, slot) ==
    IF slot = NoRow THEN w
    ELSE [w EXCEPT
            !.user = IF w.user = "none" /\ slot.user THEN s ELSE @,
            !.key  = IF w.key = "none" /\ HasKey(slot) THEN s ELSE @,
            !.pub  = IF w.key = "none" /\ HasKey(slot) THEN slot.pub ELSE @,
            !.priv = IF w.key = "none" /\ HasKey(slot) THEN slot.priv ELSE @]

ResolveNext ==
    /\ Serving /\ walk.pc = "walk"
    /\ walk' = IF walk.chain = <<>> THEN [walk EXCEPT !.pc = "resolved"]
               ELSE [ResolveScope(walk, Head(walk.chain), slots[Head(walk.chain)])
                        EXCEPT !.chain = Tail(@)]
    /\ UNCHANGED <<vaultVars, databaseVars, pairs, reqs>>

(* The run goes on with the opened key, or, with no user, no key or a key  *)
(* that does not open, is refused for its credentials.                     *)
UseCredentials ==
    /\ Serving /\ walk.pc = "resolved"
    /\ walk' = NoWalk
    /\ UNCHANGED <<vaultVars, databaseVars, pairs, reqs>>

Refused == walk.user = "none" \/ walk.key = "none" \/ ~Opens(walk.priv.version)

-----------------------------------------------------------------------------
CreateChannel(c, type, fresh) ==
    /\ Serving /\ Write
    /\ chans[c] = NoRow
    /\ type \in SecretTypes => fresh
    /\ chans' = [chans EXCEPT ![c] =
            [id |-> writes', type |-> type, secret |-> IF fresh THEN SealSecret(type) ELSE NoSecret]]
    /\ Sealing /\ UNCHANGED <<slots, exists, grouped, pairs, reqs, walk>>

\* "cleared when the type changes without a fresh secret"
KeptSecret(row, type) == IF row.type = type THEN row.secret ELSE NoSecret

\* Update reads the row, for the secret it keeps, and writes every column.
UpdateChannelRead(a, c, type, fresh) ==
    /\ Serving /\ reqs[a] = Idle /\ Write
    /\ chans[c] # NoRow
    /\ LET secret == IF fresh THEN SealSecret(type) ELSE KeptSecret(chans[c], type) IN
        /\ type \in SecretTypes => secret # NoSecret
        /\ reqs' = [reqs EXCEPT ![a] = [pc |-> "channel", chan |-> c,
                        row |-> [id |-> chans[c].id, type |-> type, secret |-> secret]]]
    /\ Sealing /\ UNCHANGED <<databaseVars, pairs, walk>>

UpdateChannelWrite(a) ==
    /\ Serving /\ reqs[a].pc = "channel"
    /\ LET c == reqs[a].chan IN
        chans' = [chans EXCEPT ![c] = IF @.id = reqs[a].row.id THEN reqs[a].row ELSE @]
    /\ reqs' = [reqs EXCEPT ![a] = Idle]
    /\ UNCHANGED <<vaultVars, slots, exists, grouped, pairs, walk>>

DeleteChannel(c) ==
    /\ Serving /\ Write
    /\ chans[c] # NoRow
    /\ chans' = [chans EXCEPT ![c] = NoRow]
    /\ Sealing /\ UNCHANGED <<slots, exists, grouped, pairs, reqs, walk>>

-----------------------------------------------------------------------------

\* The secret scan: the TOTP rows, and the slots whose key does not open.
UndecryptableSlots ==
    {s \in Scopes : /\ slots[s] # NoRow /\ slots[s].priv # NoPair
                    /\ ~Opens(slots[s].priv.version)}

Stop ==
    /\ StopServing
    /\ reqs' = [a \in Clients |-> Idle] /\ walk' = NoWalk
    /\ UNCHANGED <<databaseVars, pairs>>

Next ==
    \/ VaultNext /\ UNCHANGED storeVars
    \/ Stop
    \/ \E a \in Clients :
        \/ \E s \in Scopes, edit \in Edits : PutSlot(a, s, edit)
        \/ UpsertLookup(a) \/ UpsertWrite(a)
        \/ \E c \in Chans, t \in Types, fresh \in BOOLEAN : UpdateChannelRead(a, c, t, fresh)
        \/ UpdateChannelWrite(a)
    \/ \E s \in Scopes : DeleteSlot(s) \/ DeleteParent(s)
    \/ ResolveStart \/ ResolveNext \/ UseCredentials
    \/ \E c \in Chans, t \in Types, fresh \in BOOLEAN : CreateChannel(c, t, fresh)
    \/ \E c \in Chans : DeleteChannel(c)

Spec == Init /\ [][Next]_vars /\ VaultFairness
-----------------------------------------------------------------------------
Pairs == {NoPair} \cup [pair : 1..FirstRow, version : Keys]
Slots == [id : 0..FirstRow, user : BOOLEAN, pub : 0..FirstRow, priv : Pairs]
ChanRows == [id : 1..FirstRow, type : Types,
             secret : {NoSecret} \cup [of : Types, version : Keys]]
Puts == [pc : {"upsert", "write"}, scope : Scopes, slot : Slots]
Updates == [pc : {"channel"}, chan : Chans, row : ChanRows]
Walks == [pc : {"walk", "resolved"}, chain : Seq(Scopes),
          user : Scopes \cup {"none"}, key : Scopes \cup {"none"},
          pub : 0..FirstRow, priv : Pairs, stirred : BOOLEAN]

TypeOK ==
    /\ VaultTypeOK
    /\ slots \in [Scopes -> {NoRow} \cup Slots]
    /\ exists \in [Scopes -> BOOLEAN] /\ grouped \in BOOLEAN
    /\ pairs \in 0..FirstRow
    /\ chans \in [Chans -> {NoRow} \cup ChanRows]
    /\ reqs \in [Clients -> {Idle} \cup Puts \cup Updates]
    /\ walk \in {NoWalk} \cup Walks

(* However PUTs of one scope interleave, a slot is never without both a    *)
(* user and a key, and the public key it shows is that of the private key  *)
(* runs log in with; so for what a resolution that reads between them      *)
(* gathers.                                                                *)
KeyPairsStayWhole ==
    /\ \A s \in Scopes : slots[s] # NoRow =>
        /\ slots[s].user \/ HasKey(slots[s])
        /\ slots[s].pub = slots[s].priv.pair
    /\ walk # NoWalk => walk.pub = walk.priv.pair

\* The scopes of the present chain, and how specific each is.
Specificity(s) == CASE s = "system" -> 1 [] s = "group" -> 2 [] OTHER -> 3
InChain(s) == s # "group" \/ grouped
MostSpecific(P(_)) ==
    LET with == {s \in Scopes : InChain(s) /\ slots[s] # NoRow /\ P(slots[s])} IN
    IF with = {} THEN "none"
    ELSE CHOOSE s \in with : \A t \in with : Specificity(s) <= Specificity(t)

(* Resolve: "each field is resolved independently".  A walk that no write  *)
(* cut across ends with the user of the most specific slot that names one  *)
(* and the key of the most specific slot that has one.                     *)
ResolvesMostSpecific ==
    walk.pc = "resolved" /\ ~walk.stirred =>
        /\ walk.user = MostSpecific(LAMBDA slot : slot.user)
        /\ walk.key = MostSpecific(HasKey)
        /\ walk.key # "none" => walk.priv = slots[walk.key].priv

(* "a channel never carries a secret that belongs to a different           *)
(* transport", and one that needs a secret has it, whatever updates of the *)
(* same channel are in flight.                                             *)
SecretFitsTransport ==
    \A c \in Chans : chans[c] # NoRow =>
        /\ chans[c].secret # NoSecret => chans[c].secret.of = chans[c].type
        /\ chans[c].type \in SecretTypes => chans[c].secret # NoSecret

(* A run that is refused for its credentials, and was not cut across by a  *)
(* write, lacks a user or a key in every scope, or logs in with a key the  *)
(* secret scan lists.                                                      *)
RefusalIsExplained ==
    walk.pc = "resolved" /\ ~walk.stirred /\ Refused =>
        \/ MostSpecific(LAMBDA slot : slot.user) = "none"
        \/ MostSpecific(HasKey) = "none"
        \/ walk.key \in UndecryptableSlots

(* docs/installation.md of -rotate-keys: "It re-seals every secret under   *)
(* the new key and exits."                                                 *)
RotationResealsEverySecret ==
    rotated =>
        /\ \A s \in Scopes : slots[s] # NoRow /\ slots[s].priv # NoPair =>
                slots[s].priv.version = files.current
        /\ \A c \in Chans : chans[c] # NoRow /\ chans[c].secret # NoSecret =>
                chans[c].secret.version = files.current

(* Credential slots and channels stay whole under overlapping writes, and  *)
(* resolution gives a run what they say, or a refusal that can be explained.*)
StoresInv ==
    /\ TypeOK
    /\ KeyPairsStayWhole /\ SecretFitsTransport
    /\ ResolvesMostSpecific /\ RefusalIsExplained
==============================================================================
