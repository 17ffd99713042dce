---------------------------- MODULE StoresProofs ----------------------------
(***************************************************************************)
(* For any number of users, keys, requests and channels: no boot and no    *)
(* rotation, however it dies, makes a secret unreadable that the operator  *)
(* has the keys for; and credential slots and channels stay whole under    *)
(* overlapping requests.                                                   *)
(*                                                                         *)
(* What a boot still has to do is in the work list of the column it is at, *)
(* and the columns before it are done: that makes it safe to give up the   *)
(* legacy key, and to call the rotation complete, at the end of the last.  *)
(***************************************************************************)
EXTENDS SealedStores, SequenceTheorems, TLAPS

\* The migration: what the legacy key still seals is on the work list, or in
\* the column that comes next; when it is over the key is gone.
MigrationProceeds ==
    /\ proc.phase = "migrate" =>
         /\ kek
         /\ \A u \in Users : totp[u][proc.col] = "legacy" => u \in proc.work
         /\ proc.col = "pending" => \A u \in Users : totp[u]["secret"] # "legacy"
    /\ proc.phase \in {"rotate", "serving"} => ~kek

\* The rotation: likewise for what another key seals.
RotationProceeds ==
    proc.phase = "rotate" =>
        /\ \A u \in Users : totp[u][proc.col] \in {"none", files.current} \/ u \in proc.work
        /\ proc.col = "pending" => \A u \in Users : totp[u]["secret"] \in {"none", files.current}

VaultInv == /\ VaultTypeOK /\ MigrationProceeds /\ RotationProceeds
            /\ LegacyKeyOutlivesItsRows /\ RotationIsComplete /\ SecretsSurviveRotation

-----------------------------------------------------------------------------
\* The keys a vault holds are keys, and the current one is among them.
LEMMA LoadedKeys ==
    ASSUME VaultTypeOK
    PROVE  /\ files.current \in Loaded /\ Loaded \subseteq Keys
           /\ files.current \in Keys
           /\ \A v : Opens(v) => v # "legacy" /\ v # "none"
BY VaultAssumption DEF VaultTypeOK, Loaded, Opens

LEMMA VaultInitInvariant == VaultInit => VaultInv
<1> SUFFICES ASSUME VaultInit PROVE VaultInv  OBVIOUS
<1>1. VaultTypeOK
  <2>1. totp \in [Users -> [Columns -> Cells]]
    BY VaultAssumption DEF VaultInit, Cells
  <2>2. files \in [current : Keys, previous : Keys \cup {NoKey}]
    BY VaultAssumption DEF VaultInit
  <2> QED  BY <2>1, <2>2 DEF VaultInit, VaultTypeOK
<1>2. MigrationProceeds /\ RotationProceeds
  BY DEF VaultInit, MigrationProceeds, RotationProceeds, Down
<1>3. \A u \in Users, c \in Columns :
         /\ totp[u][c] \in {"none", "legacy", files.current}
         /\ totp[u][c] = "legacy" => kek
  BY VaultAssumption DEF VaultInit
<1>4. LegacyKeyOutlivesItsRows /\ RotationIsComplete
  BY <1>3 DEF VaultInit, LegacyKeyOutlivesItsRows, RotationIsComplete
<1>5. SecretsSurviveRotation
  BY <1>1, <1>3, LoadedKeys DEF SecretsSurviveRotation, Opens
<1> QED  BY <1>1, <1>2, <1>4, <1>5 DEF VaultInv

\* The operator's steps.
LEMMA OperatorKeepsVault ==
    ASSUME VaultInv, NEW k \in Keys, InstallKey(k) \/ RetireKey \/ LoseKey(k)
    PROVE  VaultInv'
<1>0. VaultTypeOK  BY DEF VaultInv
<1>1. /\ proc = Down /\ UNCHANGED <<kek, totp, proc, crashes, writes>>
      /\ files' \in [current : Keys, previous : Keys \cup {NoKey}]
      /\ rotated' \in BOOLEAN /\ lost' \in BOOLEAN
  <2>1. CASE InstallKey(k)  BY <1>0, <2>1 DEF InstallKey, VaultTypeOK
  <2>2. CASE RetireKey  BY <1>0, <2>2 DEF RetireKey, VaultTypeOK
  <2>3. CASE LoseKey(k)  BY <1>0, <2>3 DEF LoseKey, VaultTypeOK
  <2> QED  BY <2>1, <2>2, <2>3
<1>2. VaultTypeOK'  BY <1>0, <1>1 DEF VaultTypeOK
<1>3. MigrationProceeds' /\ RotationProceeds'
  BY <1>1 DEF Down, MigrationProceeds, RotationProceeds
<1>4. LegacyKeyOutlivesItsRows'  BY <1>1 DEF VaultInv, LegacyKeyOutlivesItsRows
<1>5. RotationIsComplete'
  <2>1. CASE RetireKey
    <3>1. files'.current = files.current /\ rotated' = rotated
      BY <1>0, <2>1 DEF RetireKey, VaultTypeOK
    <3> QED  BY <1>1, <3>1 DEF VaultInv, RotationIsComplete
  <2>2. CASE InstallKey(k) \/ LoseKey(k)
    BY <2>2 DEF InstallKey, LoseKey, RotationIsComplete
  <2> QED  BY <2>1, <2>2
<1>6. SecretsSurviveRotation'
  <2>1. CASE InstallKey(k)
    <3>1. Loaded = {files.current} /\ Loaded' = {k, files.current}
      BY <1>0, <2>1, VaultAssumption DEF InstallKey, Loaded, VaultTypeOK
    <3> QED  BY <1>1, <2>1, <3>1 DEF InstallKey, VaultInv, SecretsSurviveRotation, Opens
  <2>2. CASE RetireKey
    <3>1. rotated /\ files'.current = files.current /\ lost' = lost
      BY <1>0, <2>2 DEF RetireKey, VaultTypeOK
    <3>2. files.current \in Loaded'  BY <1>2, <3>1, VaultAssumption DEF VaultTypeOK, Loaded
    <3> QED  BY <1>1, <3>1, <3>2 DEF VaultInv, RotationIsComplete, SecretsSurviveRotation, Opens
  <2>3. CASE LoseKey(k)
    BY <2>3 DEF LoseKey, SecretsSurviveRotation
  <2> QED  BY <2>1, <2>2, <2>3
<1> QED  BY <1>2, <1>3, <1>4, <1>5, <1>6 DEF VaultInv

\* A boot begins, or a process ends: no row changes.
LEMMA BootKeepsVault ==
    ASSUME VaultInv, (\E rotate \in BOOLEAN : Boot(rotate)) \/ Crash \/ StopServing
    PROVE  VaultInv'
<1>0. VaultTypeOK  BY DEF VaultInv
<1>1. UNCHANGED <<files, kek, totp, rotated, lost, writes>> /\ crashes' \in 0..MaxCrashes
  BY <1>0, VaultAssumption DEF Boot, Crash, StopServing, VaultTypeOK
<1>2. \/ proc' = Down
      \/ kek /\ \E rotate \in BOOLEAN : proc' = Migrating("secret", rotate)
      \/ ~kek /\ proc' \in {Rotating("secret"), [phase |-> "serving"]}
  BY DEF Boot, Crash, StopServing, AfterMigration
<1>3. VaultTypeOK'
  BY <1>0, <1>1, <1>2 DEF VaultTypeOK, Down, Migrating, Rotating, Columns,
                          scanLegacyRows, scanRotatable
<1>4. \A u \in Users : totp[u]["secret"] \in Cells  BY <1>0 DEF VaultTypeOK, Columns
<1>5. MigrationProceeds'
  BY <1>1, <1>2 DEF MigrationProceeds, Down, Migrating, Rotating, scanLegacyRows
<1>6. RotationProceeds'
  <2>1. ~kek => \A u \in Users : totp[u]["secret"] # "legacy"
    BY DEF VaultInv, LegacyKeyOutlivesItsRows, Columns
  <2> QED
    BY <1>1, <1>2, <1>4, <2>1
       DEF RotationProceeds, Down, Migrating, Rotating, scanRotatable, Cells
<1>7. (LegacyKeyOutlivesItsRows /\ RotationIsComplete /\ SecretsSurviveRotation)'
  BY <1>1 DEF VaultInv, LegacyKeyOutlivesItsRows, RotationIsComplete, SecretsSurviveRotation,
              Opens, Loaded
<1> QED  BY <1>3, <1>5, <1>6, <1>7 DEF VaultInv

\* A row is sealed under the current key: nothing that was readable is lost.
LEMMA SealingARow ==
    ASSUME VaultInv, NEW u \in Users, NEW c \in Columns,
           totp' = [totp EXCEPT ![u][c] = files.current],
           UNCHANGED <<files, kek, rotated, lost>>
    PROVE  /\ totp' \in [Users -> [Columns -> Cells]]
           /\ \A v \in Users, d \in Columns :
                totp'[v][d] = IF v = u /\ d = c THEN files.current ELSE totp[v][d]
           /\ (LegacyKeyOutlivesItsRows /\ RotationIsComplete /\ SecretsSurviveRotation)'
<1>0. VaultTypeOK /\ files.current \in Loaded /\ files.current \in Keys /\ Keys \subseteq Cells
  BY LoadedKeys DEF VaultInv, Cells
<1>1. totp' \in [Users -> [Columns -> Cells]]
  BY <1>0 DEF VaultTypeOK
<1>2. \A v \in Users, d \in Columns :
         totp'[v][d] = IF v = u /\ d = c THEN files.current ELSE totp[v][d]
  BY <1>0 DEF VaultTypeOK
<1>3. files.current # "legacy" /\ Loaded' = Loaded  BY <1>0, VaultAssumption DEF Loaded
<1>4. LegacyKeyOutlivesItsRows'  BY <1>2, <1>3 DEF VaultInv, LegacyKeyOutlivesItsRows
<1>5. RotationIsComplete'  BY <1>2 DEF VaultInv, RotationIsComplete
<1>6. SecretsSurviveRotation'
  BY <1>0, <1>2, <1>3 DEF VaultInv, SecretsSurviveRotation, Opens
<1> QED  BY <1>1, <1>2, <1>4, <1>5, <1>6

LEMMA MigrateKeepsVault ==
    ASSUME VaultInv, (\E u \in Users : MigrateRow(u)) \/ MigrateColumn
    PROVE  VaultInv'
<1>0. VaultTypeOK /\ MigrationProceeds /\ proc.phase = "migrate"
  BY DEF VaultInv, MigrateRow, MigrateColumn
<1>1. proc \in [phase : {"migrate"}, col : Columns, rotate : BOOLEAN, work : SUBSET Users]
  BY <1>0 DEF VaultTypeOK, Down
<1>2. ASSUME NEW u \in Users, MigrateRow(u)  PROVE VaultInv'
  <2>1. /\ UNCHANGED <<files, kek, rotated, lost, crashes, writes>>
        /\ totp' = [totp EXCEPT ![u][proc.col] = files.current]
        /\ proc' = [proc EXCEPT !.work = @ \ {u}]
    BY <1>2 DEF MigrateRow
  <2>2. proc' \in [phase : {"migrate"}, col : Columns, rotate : BOOLEAN, work : SUBSET Users]
        /\ proc'.col = proc.col /\ proc'.work = proc.work \ {u}
    BY <1>1, <2>1
  <2>3. proc.col \in Columns  BY <1>1
  <2>4. /\ totp' \in [Users -> [Columns -> Cells]]
        /\ \A v \in Users, d \in Columns :
             totp'[v][d] = IF v = u /\ d = proc.col THEN files.current ELSE totp[v][d]
        /\ (LegacyKeyOutlivesItsRows /\ RotationIsComplete /\ SecretsSurviveRotation)'
    BY <2>1, <2>3, SealingARow
  <2>5. VaultTypeOK'  BY <1>0, <2>1, <2>2, <2>4 DEF VaultTypeOK
  <2>6. files.current # "legacy"  BY <1>0, LoadedKeys, VaultAssumption
  <2>7. MigrationProceeds'
    BY <1>0, <1>1, <2>1, <2>2, <2>3, <2>4, <2>6 DEF MigrationProceeds, Columns
  <2>8. RotationProceeds'  BY <2>2 DEF RotationProceeds
  <2> QED  BY <2>4, <2>5, <2>7, <2>8 DEF VaultInv
<1>3. ASSUME MigrateColumn  PROVE VaultInv'
  <2>1. /\ UNCHANGED <<files, totp, rotated, lost, crashes, writes>>
        /\ \A u \in Users : totp[u][proc.col] # "legacy"
    BY <1>0, <1>3 DEF MigrateColumn, MigrationProceeds
  <2>2. CASE proc.col = "secret" /\ proc' = Migrating("pending", proc.rotate) /\ kek' = kek
    <3>1. VaultTypeOK'
      BY <1>0, <1>1, <2>1, <2>2 DEF VaultTypeOK, Migrating, scanLegacyRows, Columns
    <3>2. MigrationProceeds'
      BY <1>0, <2>1, <2>2 DEF MigrationProceeds, Migrating, scanLegacyRows
    <3>3. RotationProceeds'  BY <2>2 DEF RotationProceeds, Migrating
    <3>4. (LegacyKeyOutlivesItsRows /\ RotationIsComplete /\ SecretsSurviveRotation)'
      BY <2>1, <2>2 DEF VaultInv, LegacyKeyOutlivesItsRows, RotationIsComplete,
                        SecretsSurviveRotation, Opens, Loaded
    <3> QED  BY <3>1, <3>2, <3>3, <3>4 DEF VaultInv
  <2>3. CASE proc.col = "pending" /\ kek' = FALSE /\ proc' = AfterMigration(proc.rotate)
    <3>1. \A u \in Users, c \in Columns : totp[u][c] # "legacy"
      BY <1>0, <2>1, <2>3 DEF MigrationProceeds, Columns
    <3>2. proc' \in {Rotating("secret"), [phase |-> "serving"]}
      BY <2>3 DEF AfterMigration
    <3>3. VaultTypeOK'
      <4>1. \/ proc' = [phase |-> "serving"]
            \/ proc' \in [phase : {"rotate"}, col : Columns, work : SUBSET Users]
        BY <3>2 DEF Rotating, scanRotatable, Columns
      <4>2. kek' \in BOOLEAN  BY <2>3
      <4> QED  BY <1>0, <2>1, <4>1, <4>2 DEF VaultTypeOK
    <3>4. MigrationProceeds'
      BY <2>3, <3>2 DEF MigrationProceeds, Rotating
    <3>5. RotationProceeds'
      <4>1. \A u \in Users : totp[u]["secret"] \in Cells /\ totp[u]["secret"] # "legacy"
        BY <1>0, <3>1 DEF VaultTypeOK, Columns
      <4> QED
        BY <2>1, <3>2, <4>1 DEF RotationProceeds, Rotating, scanRotatable, Cells
    <3>6. (LegacyKeyOutlivesItsRows /\ RotationIsComplete /\ SecretsSurviveRotation)'
      BY <2>1, <3>1 DEF VaultInv, LegacyKeyOutlivesItsRows, RotationIsComplete,
                        SecretsSurviveRotation, Opens, Loaded
    <3> QED  BY <3>3, <3>4, <3>5, <3>6 DEF VaultInv
  <2> QED  BY <1>3, <2>2, <2>3 DEF MigrateColumn
<1> QED  BY <1>2, <1>3

LEMMA RotateKeepsVault ==
    ASSUME VaultInv, (\E u \in Users : RotateRow(u)) \/ RotateColumn
    PROVE  VaultInv'
<1>0. VaultTypeOK /\ MigrationProceeds /\ RotationProceeds /\ proc.phase = "rotate"
  BY DEF VaultInv, RotateRow, RotateColumn
<1>1. proc \in [phase : {"rotate"}, col : Columns, work : SUBSET Users]
  BY <1>0 DEF VaultTypeOK, Down
<1>2. ASSUME NEW u \in Users, RotateRow(u), Opens(totp[u][proc.col])  PROVE VaultInv'
  <2>1. /\ UNCHANGED <<files, kek, rotated, lost, crashes, writes>>
        /\ totp' = [totp EXCEPT ![u][proc.col] = files.current]
        /\ proc' = [proc EXCEPT !.work = @ \ {u}]
    BY <1>2 DEF RotateRow
  <2>2. proc' \in [phase : {"rotate"}, col : Columns, work : SUBSET Users]
        /\ proc'.col = proc.col /\ proc'.work = proc.work \ {u}
    BY <1>1, <2>1
  <2>3. proc.col \in Columns  BY <1>1
  <2>4. /\ totp' \in [Users -> [Columns -> Cells]]
        /\ \A v \in Users, d \in Columns :
             totp'[v][d] = IF v = u /\ d = proc.col THEN files.current ELSE totp[v][d]
        /\ (LegacyKeyOutlivesItsRows /\ RotationIsComplete /\ SecretsSurviveRotation)'
    BY <2>1, <2>3, SealingARow
  <2>5. VaultTypeOK'  BY <1>0, <2>1, <2>2, <2>4 DEF VaultTypeOK
  <2>6. MigrationProceeds'  BY <1>0, <2>1, <2>2 DEF MigrationProceeds
  <2>7. RotationProceeds'
    BY <1>0, <1>1, <2>1, <2>2, <2>3, <2>4 DEF RotationProceeds, Columns
  <2> QED  BY <2>4, <2>5, <2>6, <2>7 DEF VaultInv
<1>3. ASSUME NEW u \in Users, RotateRow(u), ~Opens(totp[u][proc.col])  PROVE VaultInv'
  <2>1. proc' = Down /\ UNCHANGED <<files, kek, totp, rotated, lost, crashes, writes>>
    BY <1>3 DEF RotateRow
  <2> QED
    BY <1>0, <2>1 DEF VaultInv, VaultTypeOK, MigrationProceeds, RotationProceeds, Down,
                      LegacyKeyOutlivesItsRows, RotationIsComplete, SecretsSurviveRotation,
                      Opens, Loaded
<1>4. ASSUME RotateColumn  PROVE VaultInv'
  <2>1. /\ UNCHANGED <<files, kek, totp, lost, crashes, writes>>
        /\ \A u \in Users : totp[u][proc.col] \in {"none", files.current}
    BY <1>0, <1>4 DEF RotateColumn, RotationProceeds
  <2>2. (LegacyKeyOutlivesItsRows /\ SecretsSurviveRotation)'
    BY <2>1 DEF VaultInv, LegacyKeyOutlivesItsRows, SecretsSurviveRotation, Opens, Loaded
  <2>3. CASE proc.col = "secret" /\ proc' = Rotating("pending") /\ rotated' = rotated
    <3>1. VaultTypeOK' /\ MigrationProceeds'
      BY <1>0, <2>1, <2>3 DEF VaultTypeOK, MigrationProceeds, Rotating, scanRotatable, Columns
    <3>2. \A u \in Users : totp[u]["pending"] \in Cells /\ totp[u]["pending"] # "legacy"
      BY <1>0 DEF VaultInv, VaultTypeOK, LegacyKeyOutlivesItsRows, MigrationProceeds, Columns
    <3>3. RotationProceeds'
      BY <2>1, <2>3, <3>2 DEF RotationProceeds, Rotating, scanRotatable, Cells
    <3>4. RotationIsComplete'  BY <2>1, <2>3 DEF VaultInv, RotationIsComplete
    <3> QED  BY <2>2, <3>1, <3>3, <3>4 DEF VaultInv
  <2>4. CASE proc.col = "pending" /\ proc' = Down /\ rotated' = TRUE
    <3>1. VaultTypeOK' /\ MigrationProceeds' /\ RotationProceeds'
      BY <1>0, <2>1, <2>4 DEF VaultTypeOK, MigrationProceeds, RotationProceeds, Down
    <3>2. RotationIsComplete'
      BY <1>0, <2>1, <2>4 DEF RotationProceeds, RotationIsComplete, Columns
    <3> QED  BY <2>2, <3>1, <3>2 DEF VaultInv
  <2> QED  BY <1>4, <2>3, <2>4 DEF RotateColumn
<1> QED  BY <1>2, <1>3, <1>4

\* A request of a serving process, which holds no legacy row any more.
LEMMA RequestsKeepVault ==
    ASSUME VaultInv, NEW u \in Users, SetPendingSecret(u) \/ ActivateTOTP(u) \/ DisableTOTP(u)
    PROVE  VaultInv'
<1>0. VaultTypeOK /\ Serving  BY DEF VaultInv, SetPendingSecret, ActivateTOTP, DisableTOTP
<1>1. UNCHANGED <<files, kek, proc, rotated, lost, crashes>> /\ writes' \in 0..MaxWrites
  BY <1>0, VaultAssumption
     DEF SetPendingSecret, ActivateTOTP, DisableTOTP, Write, VaultTypeOK
<1>2. MigrationProceeds' /\ RotationProceeds'
  BY <1>0, <1>1 DEF VaultInv, Serving, MigrationProceeds, RotationProceeds
<1>3. /\ totp' \in [Users -> [Columns -> Cells]]
      /\ (LegacyKeyOutlivesItsRows /\ RotationIsComplete /\ SecretsSurviveRotation)'
  <2>1. CASE SetPendingSecret(u)
    <3>1. totp' = [totp EXCEPT ![u]["pending"] = files.current]  BY <2>1 DEF SetPendingSecret
    <3> QED  BY <1>1, <3>1, SealingARow DEF Columns
  <2>2. CASE ActivateTOTP(u)
    <3>1. /\ totp' \in [Users -> [Columns -> Cells]]
          /\ \A v \in Users, d \in Columns :
               totp'[v][d] = IF v # u THEN totp[v][d]
                             ELSE IF d = "secret" THEN totp[u]["pending"] ELSE "none"
      <4>1. totp' = [totp EXCEPT ![u] = [secret |-> totp[u]["pending"], pending |-> "none"]]
        BY <2>2 DEF ActivateTOTP
      <4>2. totp[u]["pending"] \in Cells /\ "none" \in Cells
        BY <1>0 DEF VaultTypeOK, Columns, Cells
      <4> QED  BY <1>0, <4>1, <4>2 DEF VaultTypeOK, Columns
    <3>2. "pending" \in Columns  BY DEF Columns
    <3>3. Loaded' = Loaded  BY <1>1 DEF Loaded
    <3> QED
      BY <1>1, <3>1, <3>2, <3>3 DEF VaultInv, LegacyKeyOutlivesItsRows, RotationIsComplete,
                               SecretsSurviveRotation, Opens
  <2>3. CASE DisableTOTP(u)
    <3>1. /\ totp' \in [Users -> [Columns -> Cells]]
          /\ \A v \in Users, d \in Columns :
               totp'[v][d] = IF v # u THEN totp[v][d] ELSE "none"
      BY <1>0, <2>3 DEF DisableTOTP, VaultTypeOK, Cells
    <3>2. Loaded' = Loaded  BY <1>1 DEF Loaded
    <3> QED
      BY <1>1, <3>1, <3>2 DEF VaultInv, LegacyKeyOutlivesItsRows, RotationIsComplete,
                          SecretsSurviveRotation, Opens
  <2> QED  BY <2>1, <2>2, <2>3
<1>4. VaultTypeOK'  BY <1>0, <1>1, <1>3 DEF VaultTypeOK
<1> QED  BY <1>2, <1>3, <1>4 DEF VaultInv

\* What a request to the other stores does to the vault: at most it counts.
LEMMA OthersKeepVault ==
    ASSUME VaultInv, UNCHANGED <<files, kek, totp, proc, rotated, lost, crashes>>,
           writes' \in 0..MaxWrites
    PROVE  VaultInv'
BY DEF VaultInv, VaultTypeOK, MigrationProceeds, RotationProceeds, LegacyKeyOutlivesItsRows,
       RotationIsComplete, SecretsSurviveRotation, Opens, Loaded

LEMMA VaultStep ==
    ASSUME VaultInv, VaultNext \/ StopServing
    PROVE  VaultInv'
BY OperatorKeepsVault, BootKeepsVault, MigrateKeepsVault, RotateKeepsVault, RequestsKeepVault,
   VaultAssumption
   DEF VaultNext

-----------------------------------------------------------------------------
\* The kinds of step of the whole: of the vault alone, the end of the server,
\* or a request to the stores.
StoreRequest ==
    \/ \E a \in Clients :
        \/ \E s \in Scopes, edit \in Edits : PutSlot(a, s, edit)
        \/ UpsertLookup(a) \/ UpsertWrite(a)
        \/ \E c \in Chans, t \in Types, fresh \in BOOLEAN : UpdateChannelRead(a, c, t, fresh)
        \/ UpdateChannelWrite(a)
    \/ \E s \in Scopes : DeleteSlot(s) \/ DeleteParent(s)
    \/ ResolveStart \/ ResolveNext \/ UseCredentials
    \/ \E c \in Chans, t \in Types, fresh \in BOOLEAN : CreateChannel(c, t, fresh)
    \/ \E c \in Chans : DeleteChannel(c)

LEMMA StepKinds ==
    Next => (VaultNext /\ UNCHANGED storeVars) \/ Stop \/ StoreRequest
BY DEF Next, StoreRequest

LEMMA StoreRequestFrame ==
    ASSUME VaultTypeOK, StoreRequest
    PROVE  /\ UNCHANGED <<files, kek, totp, proc, rotated, lost, crashes>>
           /\ writes' \in 0..MaxWrites /\ writes <= writes'
<1>1. /\ UNCHANGED <<files, kek, totp, proc, rotated, lost, crashes>>
      /\ Write \/ writes' = writes
  BY DEF StoreRequest, PutSlot, UpsertLookup, UpsertWrite, UpdateChannelRead,
         UpdateChannelWrite, DeleteSlot, DeleteParent, ResolveStart, ResolveNext,
         UseCredentials, CreateChannel, DeleteChannel, Sealing, vaultVars
<1> QED  BY <1>1, VaultAssumption DEF VaultTypeOK, Write

LEMMA VaultAlways == VaultInv /\ [Next]_vars => VaultInv'
<1> SUFFICES ASSUME VaultInv, [Next]_vars PROVE VaultInv'  OBVIOUS
<1>0. VaultTypeOK  BY DEF VaultInv
<1>1. CASE VaultNext \/ Stop  BY <1>1, VaultStep DEF Stop
<1>2. CASE StoreRequest  BY <1>0, <1>2, StoreRequestFrame, OthersKeepVault
<1>3. CASE UNCHANGED vars
  BY <1>0, <1>3, OthersKeepVault DEF vars, vaultVars, VaultTypeOK
<1> QED  BY <1>1, <1>2, <1>3, StepKinds

THEOREM VaultSoundness == Spec => []VaultInv
<1>1. Init => VaultInv  BY VaultInitInvariant DEF Init
<1> QED  BY <1>1, VaultAlways, PTL DEF Spec

\* Neither the legacy key nor a previous one is given up before the last TOTP
\* secret it seals, whatever boot dies where, and what a serving process cannot
\* read it reports (auth/rotate.go, auth/legacy_migration.go, main.go's -rotate-keys).
THEOREM SecretsAreKept == Spec => []TOTPSecretsAreKept
<1>1. VaultInv => TOTPSecretsAreKept
  <2> SUFFICES ASSUME VaultInv PROVE TOTPSecretsAreKept  OBVIOUS
  <2>1. UnreadableIsListed
    <3> SUFFICES ASSUME Serving, NEW u \in Users, NEW c \in Columns,
                        totp[u][c] # "none", ~Opens(totp[u][c])
                 PROVE  <<u, c>> \in UndecryptableTOTP
      BY DEF UnreadableIsListed
    <3>1. totp[u][c] \in Cells /\ totp[u][c] # "legacy"
      BY DEF VaultInv, VaultTypeOK, MigrationProceeds, LegacyKeyOutlivesItsRows, Serving
    <3> QED  BY <3>1 DEF Cells, UndecryptableTOTP
  <2> QED  BY <2>1 DEF VaultInv, TOTPSecretsAreKept
<1> QED  BY <1>1, VaultSoundness, PTL

-----------------------------------------------------------------------------
\* A slot that may be stored, and a channel's row that may be.
Whole(slot) == (slot.user \/ HasKey(slot)) /\ slot.pub = slot.priv.pair
Fits(row) == /\ row.secret # NoSecret => row.secret.of = row.type
             /\ row.type \in SecretTypes => row.secret # NoSecret

\* What a request is about to write is as good as what is there already.
RequestsAreWhole ==
    \A a \in Clients :
        /\ reqs[a].pc \in {"upsert", "write"} => Whole(reqs[a].slot)
        /\ reqs[a].pc = "channel" => Fits(reqs[a].row)

\* Every key pair but the first was made by a request.
PairsAreCounted == pairs <= writes + 1

\* Missing rows, keys and secrets are none of the present ones.
LEMMA Distinct ==
    /\ \A x \in Slots : x # NoRow
    /\ \A x \in ChanRows : x # NoRow
    /\ \A n, k : [pair |-> n, version |-> k] # NoPair
    /\ \A t, k : [of |-> t, version |-> k] # NoSecret
<1>1. \A x \in Slots : DOMAIN x # DOMAIN NoRow
  BY DEF Slots, NoRow
<1>2. \A x \in ChanRows : DOMAIN x # DOMAIN NoRow
  BY DEF ChanRows, NoRow
<1>3. \A n, k : DOMAIN [pair |-> n, version |-> k] # DOMAIN NoPair
  BY DEF NoPair
<1>4. \A n, k : DOMAIN [of |-> n, version |-> k] # DOMAIN NoSecret
  BY DEF NoSecret
<1> QED  BY <1>1, <1>2, <1>3, <1>4

StoresIInv == /\ TypeOK /\ RequestsAreWhole /\ PairsAreCounted
              /\ KeyPairsStayWhole /\ SecretFitsTransport

\* The slot a request works from.
LEMMA LoadedSlot ==
    ASSUME StoresIInv, NEW s \in Scopes
    PROVE  Loaded0(s) \in Slots /\ Loaded0(s).pub = Loaded0(s).priv.pair
<1>1. CASE slots[s] = NoRow
  <2>1. [id |-> 0, user |-> FALSE, pub |-> 0, priv |-> NoPair] \in Slots
    BY VaultAssumption DEF Slots, Pairs, FirstRow
  <2> QED  BY <1>1, <2>1 DEF Loaded0, NoPair
<1>2. CASE slots[s] # NoRow
  BY <1>2 DEF Loaded0, StoresIInv, TypeOK, KeyPairsStayWhole
<1> QED  BY <1>1, <1>2

\* A merge that is let through can be stored.
LEMMA MergedSlot ==
    ASSUME NEW slot \in Slots, slot.pub = slot.priv.pair, NEW edit \in Edits,
           NEW n \in 1..FirstRow, files.current \in Keys
    PROVE  /\ Merge(slot, edit, n) \in Slots
           /\ Valid(Merge(slot, edit, n)) => Whole(Merge(slot, edit, n))
<1>1. Sealed(n) \in Pairs /\ Sealed(n).pair = n  BY DEF Sealed, Pairs
<1>2. NoPair \in Pairs /\ NoPair.pair = 0  BY DEF NoPair, Pairs
<1>3. n \in 0..FirstRow /\ 0 \in 0..FirstRow  BY VaultAssumption DEF FirstRow
<1>4. /\ slot.id \in 0..FirstRow /\ slot.user \in BOOLEAN
      /\ slot.pub \in 0..FirstRow /\ slot.priv \in Pairs
  BY DEF Slots
<1> DEFINE m == Merge(slot, edit, n)
           u == IF edit.user = "keep" THEN slot.user ELSE edit.user = "set"
           p == CASE edit.key = "keep" -> slot.pub [] edit.key = "new" -> n [] OTHER -> 0
           v == CASE edit.key = "keep" -> slot.priv
                  [] edit.key = "new" -> Sealed(n)
                  [] OTHER -> NoPair
<1>5. m = [slot EXCEPT !.user = u, !.pub = p, !.priv = v]
  BY DEF Merge
<1>6. u \in BOOLEAN  BY <1>4
<1>7. p \in 0..FirstRow /\ v \in Pairs /\ p = v.pair
  BY <1>1, <1>2, <1>3, <1>4
<1> HIDE DEF m, u, p, v
<1>8. m \in Slots /\ m.pub = p /\ m.priv = v
  BY <1>4, <1>5, <1>6, <1>7 DEF Slots
<1>9. Valid(m) => Whole(m)  BY <1>7, <1>8 DEF Valid, Whole
<1> QED  BY <1>8, <1>9 DEF m

\* The requests to the credential slots.
LEMMA PutKeepsStores ==
    ASSUME VaultInv, StoresIInv, NEW a \in Clients, NEW s \in Scopes, NEW edit \in Edits,
           PutSlot(a, s, edit)
    PROVE  StoresIInv'
<1>0. VaultTypeOK /\ files.current \in Keys  BY LoadedKeys DEF VaultInv
<1>1. /\ writes < MaxWrites /\ writes' = writes + 1
      /\ pairs' = pairs + (IF edit.key = "new" THEN 1 ELSE 0)
      /\ reqs' = [reqs EXCEPT ![a] =
            IF Valid(Merge(Loaded0(s), edit, pairs + 1))
            THEN [pc |-> "upsert", scope |-> s, slot |-> Merge(Loaded0(s), edit, pairs + 1)]
            ELSE Idle]
      /\ UNCHANGED <<files, kek, totp, proc, rotated, lost, crashes, databaseVars, walk>>
  BY DEF PutSlot, Write, Sealing
<1>2. pairs \in Nat /\ writes \in Nat /\ pairs <= writes + 1 /\ pairs + 1 \in 1..FirstRow
      /\ pairs' \in 0..FirstRow /\ pairs' <= writes' + 1
  BY <1>0, <1>1, VaultAssumption DEF StoresIInv, TypeOK, PairsAreCounted, VaultTypeOK, FirstRow
<1>3. /\ Merge(Loaded0(s), edit, pairs + 1) \in Slots
      /\ Valid(Merge(Loaded0(s), edit, pairs + 1)) => Whole(Merge(Loaded0(s), edit, pairs + 1))
  BY <1>0, <1>2, LoadedSlot, MergedSlot
<1>4. VaultTypeOK'
  BY <1>0, <1>1, OthersKeepVault, VaultAssumption DEF VaultInv, VaultTypeOK
<1>5. \A b \in Clients :
        \/ reqs'[b] = reqs[b] \/ reqs'[b] = Idle
        \/ /\ reqs'[b] \in Puts /\ reqs'[b].pc = "upsert"
           /\ Whole(reqs'[b].slot)
  BY <1>1, <1>3 DEF Puts
<1>6. TypeOK'
  <2>1. reqs' \in [Clients -> {Idle} \cup Puts \cup Updates]
    BY <1>1, <1>3 DEF StoresIInv, TypeOK, Puts
  <2> QED  BY <1>1, <1>2, <1>4, <2>1 DEF StoresIInv, TypeOK, databaseVars
<1>7. RequestsAreWhole'
  BY <1>5 DEF StoresIInv, RequestsAreWhole, Idle, Puts
<1> QED
  BY <1>1, <1>2, <1>6, <1>7 DEF StoresIInv, PairsAreCounted, KeyPairsStayWhole,
                                 SecretFitsTransport, databaseVars

\* Nothing a request carries, and nothing of the vault, changes.
LEMMA FrameType ==
    ASSUME VaultInv, StoresIInv, StoreRequest, pairs' = pairs
    PROVE  VaultTypeOK' /\ pairs' \in 0..FirstRow /\ PairsAreCounted'
<1>0. VaultTypeOK  BY DEF VaultInv
<1>1. VaultTypeOK'
  BY <1>0, StoreRequestFrame, OthersKeepVault DEF VaultInv
<1>2. pairs \in Nat /\ writes \in Nat /\ writes' \in Nat /\ writes <= writes'
  BY <1>0, StoreRequestFrame, VaultAssumption DEF StoresIInv, TypeOK, FirstRow, VaultTypeOK
<1>3. pairs \in 0..FirstRow  BY DEF StoresIInv, TypeOK
<1>4. pairs <= writes + 1  BY DEF StoresIInv, PairsAreCounted
<1>5. \A m, n, k \in Nat : m <= n + 1 /\ n <= k => m <= k + 1  OBVIOUS
<1>6. pairs <= writes' + 1  BY <1>2, <1>4, <1>5
<1>7. PairsAreCounted'  BY <1>6 DEF PairsAreCounted
<1> QED  BY <1>1, <1>3, <1>7

LEMMA LookupKeepsStores ==
    ASSUME VaultInv, StoresIInv, NEW a \in Clients, UpsertLookup(a)
    PROVE  StoresIInv'
<1>0. reqs[a] \in Puts /\ reqs[a].pc = "upsert" /\ Whole(reqs[a].slot)
      /\ reqs[a].slot \in Slots /\ reqs[a].scope \in Scopes
  BY DEF UpsertLookup, StoresIInv, TypeOK, RequestsAreWhole, Idle, Puts, Updates
<1>1. /\ reqs' = [reqs EXCEPT ![a].pc = "write", ![a].slot.id = slots[reqs[a].scope].id]
      /\ UNCHANGED <<vaultVars, databaseVars, pairs, walk>>
  BY DEF UpsertLookup
<1>2. slots[reqs[a].scope].id \in 0..FirstRow
  BY <1>0, VaultAssumption DEF StoresIInv, TypeOK, NoRow, Slots, FirstRow
<1> DEFINE i == slots[reqs[a].scope].id
           slot == [reqs[a].slot EXCEPT !.id = i]
<1>3. slot \in Slots /\ Whole(slot)
  BY <1>0, <1>2 DEF Slots, Whole, HasKey
<1>4. [reqs[a] EXCEPT !.pc = "write", !.slot = slot] \in Puts
  BY <1>0, <1>3 DEF Puts
<1>5. reqs' = [reqs EXCEPT ![a] = [reqs[a] EXCEPT !.pc = "write", !.slot = slot]]
  BY <1>0, <1>1 DEF StoresIInv, TypeOK, Puts
<1>6. reqs' \in [Clients -> {Idle} \cup Puts \cup Updates]
  BY <1>4, <1>5 DEF StoresIInv, TypeOK
<1>7. /\ reqs'[a].pc = "write" /\ reqs'[a].slot = slot
      /\ \A b \in Clients : b # a => reqs'[b] = reqs[b]
  BY <1>0, <1>5 DEF Puts, StoresIInv, TypeOK
<1> HIDE DEF slot
<1>8. RequestsAreWhole'
  BY <1>3, <1>7 DEF StoresIInv, RequestsAreWhole
<1>9. VaultTypeOK' /\ pairs' \in 0..FirstRow /\ PairsAreCounted'
  BY <1>1, FrameType DEF StoreRequest
<1>10. TypeOK'
  BY <1>1, <1>6, <1>9 DEF StoresIInv, TypeOK, databaseVars
<1> QED
  BY <1>1, <1>8, <1>9, <1>10
     DEF StoresIInv, KeyPairsStayWhole, SecretFitsTransport, databaseVars

\* The type of a walk does not depend on what was written meanwhile.
LEMMA StirredType ==
    ASSUME walk \in {NoWalk} \cup Walks, Stirred
    PROVE  /\ walk' \in {NoWalk} \cup Walks
           /\ walk = NoWalk => walk' = NoWalk
           /\ walk # NoWalk => /\ walk' \in Walks /\ walk'.stirred
                               /\ walk'.pub = walk.pub /\ walk'.priv = walk.priv
BY DEF Stirred, NoWalk, Walks

LEMMA WriteKeepsStores ==
    ASSUME VaultInv, StoresIInv, NEW a \in Clients, UpsertWrite(a)
    PROVE  StoresIInv'
<1>0. reqs[a] \in Puts /\ Whole(reqs[a].slot)
      /\ reqs[a].slot \in Slots /\ reqs[a].scope \in Scopes
  BY DEF UpsertWrite, StoresIInv, TypeOK, RequestsAreWhole, Idle, Puts, Updates
<1> DEFINE s == reqs[a].scope
           slot == reqs[a].slot
           new == CASE slot.id = 0 /\ slots[s] = NoRow -> [slot EXCEPT !.id = writes]
                    [] slot.id # 0 /\ slots[s].id = slot.id -> slot
                    [] OTHER -> slots[s]
<1>1. /\ slots' = [slots EXCEPT ![s] = new]
      /\ reqs' = [reqs EXCEPT ![a] = Idle]
      /\ Stirred /\ UNCHANGED <<vaultVars, exists, grouped, pairs, chans>>
  BY DEF UpsertWrite
<1>2. new \in {NoRow} \cup Slots /\ (new # NoRow => new = slots[s] \/ Whole(new))
  <2>1. writes \in 0..FirstRow
    BY VaultAssumption DEF VaultInv, VaultTypeOK, FirstRow
  <2>2. [slot EXCEPT !.id = writes] \in Slots /\ Whole([slot EXCEPT !.id = writes])
    BY <1>0, <2>1 DEF Slots, Whole, HasKey
  <2>3. slots[s] \in {NoRow} \cup Slots  BY <1>0 DEF StoresIInv, TypeOK
  <2> QED  BY <1>0, <2>2, <2>3
<1> HIDE DEF new
<1>3. /\ slots' \in [Scopes -> {NoRow} \cup Slots]
      /\ \A t \in Scopes : slots'[t] # NoRow => slots'[t] = slots[t] \/ Whole(slots'[t])
  BY <1>0, <1>1, <1>2 DEF StoresIInv, TypeOK
<1>4. /\ reqs' \in [Clients -> {Idle} \cup Puts \cup Updates]
      /\ \A b \in Clients : reqs'[b] = reqs[b] \/ reqs'[b] = Idle
  BY <1>1 DEF StoresIInv, TypeOK
<1>5. VaultTypeOK' /\ pairs' \in 0..FirstRow /\ PairsAreCounted'
  BY <1>1, FrameType DEF StoreRequest
<1>6. walk' \in {NoWalk} \cup Walks
      /\ (walk' # NoWalk => walk # NoWalk /\ walk'.pub = walk.pub /\ walk'.priv = walk.priv)
  BY <1>1, StirredType DEF StoresIInv, TypeOK
<1>7. TypeOK'
  BY <1>1, <1>3, <1>4, <1>5, <1>6 DEF StoresIInv, TypeOK
<1>8. RequestsAreWhole'  BY <1>4 DEF StoresIInv, RequestsAreWhole, Idle
<1>9. KeyPairsStayWhole'
  BY <1>3, <1>6 DEF StoresIInv, KeyPairsStayWhole, Whole
<1> QED
  BY <1>1, <1>5, <1>7, <1>8, <1>9 DEF StoresIInv, SecretFitsTransport

\* The deletions.
LEMMA DeleteKeepsStores ==
    ASSUME VaultInv, StoresIInv, NEW s \in Scopes, DeleteSlot(s) \/ DeleteParent(s)
    PROVE  StoresIInv'
<1>1. /\ slots' = [slots EXCEPT ![s] = NoRow]
      /\ Stirred /\ UNCHANGED <<pairs, chans, reqs>>
      /\ exists' \in [Scopes -> BOOLEAN] /\ grouped' \in BOOLEAN
  BY DEF DeleteSlot, DeleteParent, StoresIInv, TypeOK
<1>2. /\ slots' \in [Scopes -> {NoRow} \cup Slots]
      /\ \A t \in Scopes : slots'[t] \in {NoRow, slots[t]}
  BY <1>1 DEF StoresIInv, TypeOK
<1>3. VaultTypeOK' /\ pairs' \in 0..FirstRow /\ PairsAreCounted'
  BY <1>1, FrameType DEF StoreRequest
<1>4. walk' \in {NoWalk} \cup Walks
      /\ (walk' # NoWalk => walk # NoWalk /\ walk'.pub = walk.pub /\ walk'.priv = walk.priv)
  BY <1>1, StirredType DEF StoresIInv, TypeOK
<1>5. TypeOK'  BY <1>1, <1>2, <1>3, <1>4 DEF StoresIInv, TypeOK
<1>6. KeyPairsStayWhole'  BY <1>2, <1>4 DEF StoresIInv, KeyPairsStayWhole
<1> QED
  BY <1>1, <1>3, <1>5, <1>6 DEF StoresIInv, RequestsAreWhole, SecretFitsTransport

\* The channels.
LEMMA CreateKeepsStores ==
    ASSUME VaultInv, StoresIInv, NEW c \in Chans, NEW t \in Types, NEW fresh \in BOOLEAN,
           CreateChannel(c, t, fresh)
    PROVE  StoresIInv'
<1>0. VaultTypeOK /\ files.current \in Keys  BY LoadedKeys DEF VaultInv
<1> DEFINE row == [id |-> writes', type |-> t, secret |-> IF fresh THEN SealSecret(t) ELSE NoSecret]
<1>1. /\ writes < MaxWrites /\ writes' = writes + 1
      /\ t \in SecretTypes => fresh
      /\ chans' = [chans EXCEPT ![c] = row]
      /\ UNCHANGED <<slots, exists, grouped, pairs, reqs, walk>>
  BY DEF CreateChannel, Write
<1>2. writes' \in 1..FirstRow
  BY <1>0, <1>1, VaultAssumption DEF VaultTypeOK, FirstRow
<1>3. SealSecret(t) \in [of : Types, version : Keys] /\ SealSecret(t) # NoSecret
      /\ SealSecret(t).of = t
  BY <1>0, Distinct DEF SealSecret
<1>4. row \in ChanRows /\ Fits(row)
  <2>1. row.secret \in {NoSecret} \cup [of : Types, version : Keys]  BY <1>3
  <2>2. row \in ChanRows  BY <1>2, <2>1 DEF ChanRows
  <2>3. Fits(row)  BY <1>1, <1>3 DEF Fits
  <2> QED  BY <2>2, <2>3
<1> HIDE DEF row
<1>5. /\ chans' \in [Chans -> {NoRow} \cup ChanRows]
      /\ \A d \in Chans : chans'[d] = chans[d] \/ Fits(chans'[d])
  BY <1>1, <1>4 DEF StoresIInv, TypeOK
<1>6. VaultTypeOK' /\ pairs' \in 0..FirstRow /\ PairsAreCounted'
  BY <1>1, FrameType DEF StoreRequest
<1>7. TypeOK'  BY <1>1, <1>5, <1>6 DEF StoresIInv, TypeOK
<1>8. SecretFitsTransport'  BY <1>5 DEF StoresIInv, SecretFitsTransport, Fits
<1> QED  BY <1>1, <1>6, <1>7, <1>8 DEF StoresIInv, RequestsAreWhole, KeyPairsStayWhole

LEMMA ReadKeepsStores ==
    ASSUME VaultInv, StoresIInv, NEW a \in Clients, NEW c \in Chans, NEW t \in Types,
           NEW fresh \in BOOLEAN, UpdateChannelRead(a, c, t, fresh)
    PROVE  StoresIInv'
<1>0. VaultTypeOK /\ files.current \in Keys  BY LoadedKeys DEF VaultInv
<1> DEFINE secret == IF fresh THEN SealSecret(t) ELSE KeptSecret(chans[c], t)
           row == [id |-> chans[c].id, type |-> t, secret |-> secret]
           req == [pc |-> "channel", chan |-> c, row |-> row]
<1>1. /\ chans[c] # NoRow
      /\ t \in SecretTypes => secret # NoSecret
      /\ reqs' = [reqs EXCEPT ![a] = req]
      /\ UNCHANGED <<slots, exists, grouped, chans, pairs, walk>>
  BY DEF UpdateChannelRead, databaseVars
<1>2. chans[c] \in ChanRows /\ Fits(chans[c])
  BY <1>1 DEF StoresIInv, TypeOK, SecretFitsTransport, Fits
<1>3. SealSecret(t) \in [of : Types, version : Keys] /\ SealSecret(t) # NoSecret
      /\ SealSecret(t).of = t
  BY <1>0, Distinct DEF SealSecret
<1>4. row \in ChanRows /\ Fits(row)
  <2>1. secret \in {NoSecret} \cup [of : Types, version : Keys]
    BY <1>2, <1>3 DEF KeptSecret, ChanRows
  <2>2. secret # NoSecret => secret.of = t
    BY <1>2, <1>3 DEF KeptSecret, Fits
  <2>3. chans[c].id \in 1..FirstRow  BY <1>2 DEF ChanRows
  <2> HIDE DEF secret
  <2>4. row \in ChanRows  BY <2>1, <2>3 DEF ChanRows
  <2>5. Fits(row)  BY <1>1, <2>2 DEF Fits
  <2> QED  BY <2>4, <2>5
<1> HIDE DEF row
<1>5. /\ reqs' \in [Clients -> {Idle} \cup Puts \cup Updates]
      /\ \A b \in Clients : reqs'[b] = reqs[b] \/ reqs'[b] = req
  BY <1>1, <1>4 DEF StoresIInv, TypeOK, Updates
<1>6. VaultTypeOK' /\ pairs' \in 0..FirstRow /\ PairsAreCounted'
  BY <1>1, FrameType DEF StoreRequest
<1>7. TypeOK'  BY <1>1, <1>5, <1>6 DEF StoresIInv, TypeOK
<1>8. RequestsAreWhole'  BY <1>4, <1>5 DEF StoresIInv, RequestsAreWhole
<1> QED  BY <1>1, <1>6, <1>7, <1>8 DEF StoresIInv, SecretFitsTransport, KeyPairsStayWhole

LEMMA UpdateKeepsStores ==
    ASSUME VaultInv, StoresIInv, NEW a \in Clients, UpdateChannelWrite(a)
    PROVE  StoresIInv'
<1>0. reqs[a] \in Updates /\ Fits(reqs[a].row)
      /\ reqs[a].row \in ChanRows /\ reqs[a].chan \in Chans
  BY DEF UpdateChannelWrite, StoresIInv, TypeOK, RequestsAreWhole, Idle, Puts, Updates
<1>1. /\ \E row \in {reqs[a].row, chans[reqs[a].chan]} :
            chans' = [chans EXCEPT ![reqs[a].chan] = row]
      /\ reqs' = [reqs EXCEPT ![a] = Idle]
      /\ UNCHANGED <<vaultVars, slots, exists, grouped, pairs, walk>>
  BY DEF UpdateChannelWrite
<1>2. /\ chans' \in [Chans -> {NoRow} \cup ChanRows]
      /\ \A d \in Chans : chans'[d] = chans[d] \/ Fits(chans'[d])
  BY <1>0, <1>1 DEF StoresIInv, TypeOK
<1>3. /\ reqs' \in [Clients -> {Idle} \cup Puts \cup Updates]
      /\ \A b \in Clients : reqs'[b] = reqs[b] \/ reqs'[b] = Idle
  BY <1>1 DEF StoresIInv, TypeOK
<1>4. VaultTypeOK' /\ pairs' \in 0..FirstRow /\ PairsAreCounted'
  BY <1>1, FrameType DEF StoreRequest
<1>5. TypeOK'  BY <1>1, <1>2, <1>3, <1>4 DEF StoresIInv, TypeOK
<1>6. RequestsAreWhole'  BY <1>3 DEF StoresIInv, RequestsAreWhole, Idle
<1>7. SecretFitsTransport'  BY <1>2 DEF StoresIInv, SecretFitsTransport, Fits
<1> QED  BY <1>1, <1>4, <1>5, <1>6, <1>7 DEF StoresIInv, KeyPairsStayWhole

LEMMA RemoveKeepsStores ==
    ASSUME VaultInv, StoresIInv, NEW c \in Chans, DeleteChannel(c)
    PROVE  StoresIInv'
<1>1. /\ chans' = [chans EXCEPT ![c] = NoRow]
      /\ UNCHANGED <<slots, exists, grouped, pairs, reqs, walk>>
  BY DEF DeleteChannel
<1>2. /\ chans' \in [Chans -> {NoRow} \cup ChanRows]
      /\ \A d \in Chans : chans'[d] \in {NoRow, chans[d]}
  BY <1>1 DEF StoresIInv, TypeOK
<1>3. VaultTypeOK' /\ pairs' \in 0..FirstRow /\ PairsAreCounted'
  BY <1>1, FrameType DEF StoreRequest
<1>4. TypeOK'  BY <1>1, <1>2, <1>3 DEF StoresIInv, TypeOK
<1> QED
  BY <1>1, <1>2, <1>3, <1>4 DEF StoresIInv, RequestsAreWhole, KeyPairsStayWhole, SecretFitsTransport

-----------------------------------------------------------------------------
\* What is left of a resolution's chain, and the scopes it has passed.
Suffixes == IF grouped THEN {<<"system", "group", "global">>, <<"group", "global">>,
                             <<"global">>, <<>>}
            ELSE {<<"system", "global">>, <<"global">>, <<>>}
Passed(chain) == {s \in Scopes : InChain(s) /\ \A i \in 1..Len(chain) : chain[i] # s}

NamesUser(s) == slots[s] # NoRow /\ slots[s].user
NamesKey(s) == slots[s] # NoRow /\ HasKey(slots[s])

\* Undisturbed, a walk has the user and the key of the most specific scope it
\* has passed; from the system up, so that what comes later is less specific.
WalkFollows ==
    /\ walk.pc = "resolved" => walk.chain = <<>>
    /\ (walk # NoWalk /\ ~walk.stirred) =>
        /\ walk.chain \in Suffixes
        /\ \/ walk.user = "none" /\ \A s \in Passed(walk.chain) : ~NamesUser(s)
           \/ /\ walk.user \in Passed(walk.chain) /\ NamesUser(walk.user)
              /\ \A s \in Passed(walk.chain) :
                    NamesUser(s) => Specificity(walk.user) <= Specificity(s)
        /\ \/ walk.key = "none" /\ \A s \in Passed(walk.chain) : ~NamesKey(s)
           \/ /\ walk.key \in Passed(walk.chain) /\ NamesKey(walk.key)
              /\ walk.priv = slots[walk.key].priv
              /\ \A s \in Passed(walk.chain) :
                    NamesKey(s) => Specificity(walk.key) <= Specificity(s)

\* One scope further.
LEMMA ChainStep ==
    ASSUME grouped \in BOOLEAN, NEW chain \in Suffixes, chain # <<>>
    PROVE  /\ Head(chain) \in Scopes /\ Tail(chain) \in Suffixes
           /\ Passed(Tail(chain)) = Passed(chain) \cup {Head(chain)}
           /\ \A s \in Passed(chain) : Specificity(s) <= Specificity(Head(chain))
<1>0. Specificity("system") = 1 /\ Specificity("group") = 2 /\ Specificity("global") = 3
  BY DEF Specificity
<1>1. CASE grouped
  <2>1. CASE chain = <<"system", "group", "global">>
    <3>1. Head(chain) = "system" /\ Tail(chain) = <<"group", "global">>  BY <2>1
    <3>2. Passed(chain) = {} /\ Passed(<<"group", "global">>) = {"system"}
      BY <1>1, <2>1 DEF Passed, Scopes, InChain
    <3> QED  BY <1>1, <3>1, <3>2 DEF Suffixes, Scopes
  <2>2. CASE chain = <<"group", "global">>
    <3>1. Head(chain) = "group" /\ Tail(chain) = <<"global">>  BY <2>2
    <3>2. Passed(chain) = {"system"} /\ Passed(<<"global">>) = {"system", "group"}
      BY <1>1, <2>2 DEF Passed, Scopes, InChain
    <3>3. Passed(Tail(chain)) = Passed(chain) \cup {Head(chain)}  BY <3>1, <3>2 DEF Scopes
    <3>4. \A s \in Passed(chain) : Specificity(s) <= Specificity(Head(chain))
      BY <1>0, <3>1, <3>2
    <3> QED  BY <1>1, <3>1, <3>3, <3>4 DEF Suffixes, Scopes
  <2>3. CASE chain = <<"global">>
    <3>1. Head(chain) = "global" /\ Tail(chain) = <<>>  BY <2>3
    <3>2. Passed(chain) = {"system", "group"} /\ Passed(<<>>) = Scopes
      BY <1>1, <2>3 DEF Passed, Scopes, InChain
    <3>3. Passed(Tail(chain)) = Passed(chain) \cup {Head(chain)}  BY <3>1, <3>2 DEF Scopes
    <3>4. \A s \in Passed(chain) : Specificity(s) <= Specificity(Head(chain))
      BY <1>0, <3>1, <3>2
    <3> QED  BY <1>1, <3>1, <3>3, <3>4 DEF Suffixes, Scopes
  <2> QED  BY <1>1, <2>1, <2>2, <2>3 DEF Suffixes
<1>2. CASE ~grouped
  <2>1. CASE chain = <<"system", "global">>
    <3>1. Head(chain) = "system" /\ Tail(chain) = <<"global">>  BY <2>1
    <3>2. Passed(chain) = {} /\ Passed(<<"global">>) = {"system"}
      BY <1>2, <2>1 DEF Passed, Scopes, InChain
    <3> QED  BY <1>2, <3>1, <3>2 DEF Suffixes, Scopes
  <2>2. CASE chain = <<"global">>
    <3>1. Head(chain) = "global" /\ Tail(chain) = <<>>  BY <2>2
    <3>2. Passed(chain) = {"system"} /\ Passed(<<>>) = {"system", "global"}
      BY <1>2, <2>2 DEF Passed, Scopes, InChain
    <3>3. Passed(Tail(chain)) = Passed(chain) \cup {Head(chain)}  BY <3>1, <3>2
    <3>4. \A s \in Passed(chain) : Specificity(s) <= Specificity(Head(chain))
      BY <1>0, <3>1, <3>2
    <3> QED  BY <1>2, <3>1, <3>3, <3>4 DEF Suffixes, Scopes
  <2> QED  BY <1>2, <2>1, <2>2 DEF Suffixes
<1> QED  BY <1>1, <1>2

\* A walk's fields after a scope.
LEMMA ScopeFields ==
    ASSUME NEW w \in Walks, NEW s \in Scopes, NEW slot \in {NoRow} \cup Slots
    PROVE  /\ ResolveScope(w, s, slot) \in Walks
           /\ ResolveScope(w, s, slot).pc = w.pc
           /\ ResolveScope(w, s, slot).chain = w.chain
           /\ ResolveScope(w, s, slot).stirred = w.stirred
           /\ ResolveScope(w, s, slot).user =
                IF slot # NoRow /\ w.user = "none" /\ slot.user THEN s ELSE w.user
           /\ IF slot # NoRow /\ w.key = "none" /\ HasKey(slot)
              THEN /\ ResolveScope(w, s, slot).key = s
                   /\ ResolveScope(w, s, slot).pub = slot.pub
                   /\ ResolveScope(w, s, slot).priv = slot.priv
              ELSE /\ ResolveScope(w, s, slot).key = w.key
                   /\ ResolveScope(w, s, slot).pub = w.pub
                   /\ ResolveScope(w, s, slot).priv = w.priv
<1>1. CASE slot = NoRow  BY <1>1 DEF ResolveScope
<1>2. CASE slot # NoRow
  <2>1. slot \in Slots /\ slot.pub \in 0..FirstRow /\ slot.priv \in Pairs
    BY <1>2 DEF Slots
  <2> DEFINE key == w.key = "none" /\ HasKey(slot)
             u == IF w.user = "none" /\ slot.user THEN s ELSE w.user
             k == IF key THEN s ELSE w.key
             p == IF key THEN slot.pub ELSE w.pub
             v == IF key THEN slot.priv ELSE w.priv
  <2>2. ResolveScope(w, s, slot) = [w EXCEPT !.user = u, !.key = k, !.pub = p, !.priv = v]
    BY <1>2 DEF ResolveScope
  <2>3. u \in Scopes \cup {"none"} /\ k \in Scopes \cup {"none"}
        /\ p \in 0..FirstRow /\ v \in Pairs
    BY <2>1 DEF Walks
  <2> HIDE DEF u, k, p, v
  <2>4. /\ ResolveScope(w, s, slot) \in Walks
        /\ ResolveScope(w, s, slot).pc = w.pc
        /\ ResolveScope(w, s, slot).chain = w.chain
        /\ ResolveScope(w, s, slot).stirred = w.stirred
        /\ ResolveScope(w, s, slot).user = u /\ ResolveScope(w, s, slot).key = k
        /\ ResolveScope(w, s, slot).pub = p /\ ResolveScope(w, s, slot).priv = v
    BY <2>2, <2>3 DEF Walks
  <2> QED  BY <1>2, <2>4 DEF u, k, p, v
<1> QED  BY <1>1, <1>2

\* A resolution begins, passes a scope, or ends.
LEMMA StartFollows ==
    ASSUME VaultInv, StoresIInv, ResolveStart
    PROVE  StoresIInv' /\ WalkFollows'
<1>1. /\ walk' = [pc |-> "walk", chain |-> buildScopeChain, user |-> "none", key |-> "none",
                  pub |-> 0, priv |-> NoPair, stirred |-> FALSE]
      /\ UNCHANGED <<vaultVars, databaseVars, pairs, reqs>>
  BY DEF ResolveStart
<1>2. grouped \in BOOLEAN /\ grouped' = grouped
  BY <1>1 DEF StoresIInv, TypeOK, databaseVars
<1>3. /\ buildScopeChain \in Seq(Scopes) /\ buildScopeChain \in Suffixes
      /\ Passed(buildScopeChain) = {}
  <2>1. CASE grouped
    <3>1. buildScopeChain = <<"system", "group", "global">>  BY <2>1 DEF buildScopeChain
    <3>2. Passed(<<"system", "group", "global">>) = {}  BY DEF Passed, Scopes
    <3>3. <<"system", "group", "global">> \in Seq(Scopes)  BY DEF Scopes
    <3> QED  BY <2>1, <3>1, <3>2, <3>3 DEF Suffixes
  <2>2. CASE ~grouped
    <3>1. buildScopeChain = <<"system", "global">>  BY <2>2 DEF buildScopeChain
    <3>2. Passed(<<"system", "global">>) = {}  BY <2>2 DEF Passed, Scopes, InChain
    <3>3. <<"system", "global">> \in Seq(Scopes)  BY DEF Scopes
    <3> QED  BY <2>2, <3>1, <3>2, <3>3 DEF Suffixes
  <2> QED  BY <2>1, <2>2
<1>4. walk' \in Walks /\ walk'.pub = walk'.priv.pair
  BY <1>1, <1>3, VaultAssumption DEF Walks, Pairs, NoPair, FirstRow
<1>5. VaultTypeOK' /\ pairs' \in 0..FirstRow /\ PairsAreCounted'
  BY <1>1, FrameType DEF StoreRequest
<1>6. TypeOK'  BY <1>1, <1>4, <1>5 DEF StoresIInv, TypeOK, databaseVars
<1>7. StoresIInv'
  BY <1>1, <1>4, <1>5, <1>6 DEF StoresIInv, RequestsAreWhole, KeyPairsStayWhole,
                                 SecretFitsTransport, databaseVars
<1>8. walk'.chain = buildScopeChain /\ walk'.user = "none" /\ walk'.key = "none"
      /\ walk'.pc = "walk"
  BY <1>1
<1>9. Suffixes' = Suffixes /\ Passed(walk.chain)' = Passed(buildScopeChain)
  BY <1>2, <1>8 DEF Suffixes, Passed, InChain
<1>10. WalkFollows'
  BY <1>3, <1>8, <1>9 DEF WalkFollows
<1> QED  BY <1>7, <1>10

LEMMA NextFollows ==
    ASSUME VaultInv, StoresIInv, WalkFollows, ResolveNext
    PROVE  StoresIInv' /\ WalkFollows'
<1>0. walk \in Walks /\ walk # NoWalk /\ walk.pc = "walk"
  BY DEF ResolveNext, StoresIInv, TypeOK, NoWalk
<1>1. UNCHANGED <<vaultVars, databaseVars, pairs, reqs>>  BY DEF ResolveNext
<1>2. VaultTypeOK' /\ pairs' \in 0..FirstRow /\ PairsAreCounted'
  BY <1>1, FrameType DEF StoreRequest
<1>3. walk.pub = walk.priv.pair /\ grouped \in BOOLEAN /\ slots \in [Scopes -> {NoRow} \cup Slots]
  BY <1>0 DEF StoresIInv, KeyPairsStayWhole, TypeOK
<1>4. ASSUME walk' \in Walks, walk'.pub = walk'.priv.pair
      PROVE  StoresIInv'
  <2>1. TypeOK'  BY <1>1, <1>2, <1>4 DEF StoresIInv, TypeOK, databaseVars
  <2> QED  BY <1>1, <1>2, <1>4, <2>1 DEF StoresIInv, RequestsAreWhole, KeyPairsStayWhole,
                                         SecretFitsTransport, databaseVars
<1>5. UNCHANGED <<slots, grouped>>  BY <1>1 DEF databaseVars
<1>6. CASE walk.chain = <<>>
  <2>1. walk' = [walk EXCEPT !.pc = "resolved"]  BY <1>6 DEF ResolveNext
  <2>2. walk' \in Walks /\ walk'.pc = "resolved" /\ walk'.chain = walk.chain
        /\ walk'.user = walk.user /\ walk'.key = walk.key /\ walk'.pub = walk.pub
        /\ walk'.priv = walk.priv /\ walk'.stirred = walk.stirred
    BY <1>0, <2>1 DEF Walks
  <2>3. StoresIInv'  BY <1>3, <1>4, <2>2
  <2>4. WalkFollows'
    BY <1>0, <1>5, <1>6, <2>2
       DEF WalkFollows, Suffixes, Passed, InChain, NamesUser, NamesKey
  <2> QED  BY <2>3, <2>4
<1>7. CASE walk.chain # <<>>
  <2> DEFINE h == Head(walk.chain)
             w == ResolveScope(walk, h, slots[h])
  <2>1. walk' = [w EXCEPT !.chain = Tail(walk.chain)]
    <3>1. walk.chain \in Seq(Scopes) /\ h \in Scopes  BY <1>0, <1>7 DEF Walks
    <3>2. w.chain = walk.chain  BY <1>0, <1>3, <3>1, ScopeFields
    <3>3. walk' = [w EXCEPT !.chain = Tail(@)]  BY <1>7 DEF ResolveNext
    <3> QED  BY <3>2, <3>3
  <2>2. walk.chain \in Seq(Scopes) /\ h \in Scopes /\ Tail(walk.chain) \in Seq(Scopes)
    BY <1>0, <1>7 DEF Walks
  <2>3. slots[h] \in {NoRow} \cup Slots  BY <1>3, <2>2
  <2>4. /\ w \in Walks /\ w.pc = walk.pc /\ w.stirred = walk.stirred
        /\ w.user = IF NamesUser(h) /\ walk.user = "none" THEN h ELSE walk.user
        /\ IF NamesKey(h) /\ walk.key = "none"
           THEN w.key = h /\ w.pub = slots[h].pub /\ w.priv = slots[h].priv
           ELSE w.key = walk.key /\ w.pub = walk.pub /\ w.priv = walk.priv
    BY <1>0, <2>2, <2>3, ScopeFields DEF NamesUser, NamesKey
  <2> HIDE DEF w
  <2>5. /\ walk' \in Walks /\ walk'.pc = "walk" /\ walk'.stirred = walk.stirred
        /\ walk'.chain = Tail(walk.chain)
        /\ walk'.user = w.user /\ walk'.key = w.key
        /\ walk'.pub = w.pub /\ walk'.priv = w.priv
    BY <1>0, <2>1, <2>2, <2>4 DEF Walks
  <2>6. w.pub = w.priv.pair
    BY <1>3, <2>2, <2>4 DEF StoresIInv, KeyPairsStayWhole, NamesKey
  <2>7. StoresIInv'  BY <1>4, <2>5, <2>6
  <2>8. WalkFollows'
    <3>1. SUFFICES ASSUME ~walk.stirred
                   PROVE  WalkFollows'
      BY <2>5 DEF WalkFollows
    <3> DEFINE P == Passed(walk.chain)
    <3>2. walk.chain \in Suffixes
          /\ \/ walk.user = "none" /\ \A s \in P : ~NamesUser(s)
             \/ /\ walk.user \in P /\ NamesUser(walk.user)
                /\ \A s \in P : NamesUser(s) => Specificity(walk.user) <= Specificity(s)
          /\ \/ walk.key = "none" /\ \A s \in P : ~NamesKey(s)
             \/ /\ walk.key \in P /\ NamesKey(walk.key)
                /\ walk.priv = slots[walk.key].priv
                /\ \A s \in P : NamesKey(s) => Specificity(walk.key) <= Specificity(s)
      BY <1>0, <3>1 DEF WalkFollows
    <3>3. /\ Tail(walk.chain) \in Suffixes
          /\ Passed(Tail(walk.chain)) = P \cup {h}
          /\ \A s \in P : Specificity(s) <= Specificity(h)
      BY <1>3, <1>7, <3>2, ChainStep
    <3>4. P \subseteq Scopes /\ "none" \notin Scopes  BY DEF Passed, Scopes
    <3>5. \A s \in Scopes : Specificity(s) <= Specificity(s)
      BY DEF Scopes, Specificity
    <3> HIDE DEF P, h
    <3>6. \/ w.user = "none" /\ \A s \in P \cup {h} : ~NamesUser(s)
          \/ /\ w.user \in P \cup {h} /\ NamesUser(w.user)
             /\ \A s \in P \cup {h} : NamesUser(s) => Specificity(w.user) <= Specificity(s)
      BY <2>2, <2>4, <3>2, <3>3, <3>4, <3>5
    <3>7. \/ w.key = "none" /\ \A s \in P \cup {h} : ~NamesKey(s)
          \/ /\ w.key \in P \cup {h} /\ NamesKey(w.key)
             /\ w.priv = slots[w.key].priv
             /\ \A s \in P \cup {h} : NamesKey(s) => Specificity(w.key) <= Specificity(s)
      BY <2>2, <2>4, <3>2, <3>3, <3>4, <3>5
    <3>8. Suffixes' = Suffixes /\ Passed(walk.chain)' = P \cup {h}
          /\ \A s : (NamesUser(s)' <=> NamesUser(s)) /\ (NamesKey(s)' <=> NamesKey(s))
      BY <1>5, <2>5, <3>3 DEF Suffixes, Passed, InChain, NamesUser, NamesKey
    <3> QED  BY <1>5, <2>5, <3>3, <3>6, <3>7, <3>8 DEF WalkFollows
  <2> QED  BY <2>7, <2>8
<1> QED  BY <1>6, <1>7

LEMMA UseFollows ==
    ASSUME VaultInv, StoresIInv, UseCredentials
    PROVE  StoresIInv' /\ WalkFollows'
<1>1. walk' = NoWalk /\ UNCHANGED <<vaultVars, databaseVars, pairs, reqs>>
  BY DEF UseCredentials
<1>2. VaultTypeOK' /\ pairs' \in 0..FirstRow /\ PairsAreCounted'
  BY <1>1, FrameType DEF StoreRequest
<1>3. TypeOK'  BY <1>1, <1>2 DEF StoresIInv, TypeOK, databaseVars
<1>4. StoresIInv'
  BY <1>1, <1>2, <1>3 DEF StoresIInv, RequestsAreWhole, KeyPairsStayWhole,
                          SecretFitsTransport, databaseVars
<1>5. WalkFollows'  BY <1>1 DEF WalkFollows, NoWalk
<1> QED  BY <1>4, <1>5

\* A walk that a write cut across is owed nothing; another step leaves what
\* the walk has seen as it was.
LEMMA OthersFollow ==
    ASSUME StoresIInv, WalkFollows,
           \/ Stirred
           \/ UNCHANGED <<slots, grouped, walk>>
           \/ walk' = NoWalk
    PROVE  WalkFollows'
<1>1. CASE Stirred
  <2>1. CASE walk = NoWalk
    BY <1>1, <2>1, StirredType DEF StoresIInv, TypeOK, WalkFollows, NoWalk
  <2>2. CASE walk # NoWalk
    <3>1. walk \in Walks  BY <2>2 DEF StoresIInv, TypeOK
    <3>2. walk' = [walk EXCEPT !.stirred = TRUE]
      BY <1>1, <3>1 DEF Stirred, Walks
    <3>3. walk'.stirred /\ walk'.pc = walk.pc /\ walk'.chain = walk.chain
      BY <3>1, <3>2 DEF Walks
    <3> QED  BY <3>3 DEF WalkFollows
  <2> QED  BY <2>1, <2>2
<1>2. CASE UNCHANGED <<slots, grouped, walk>>
  BY <1>2 DEF WalkFollows, Suffixes, Passed, InChain, NamesUser, NamesKey
<1>3. CASE walk' = NoWalk
  BY <1>3 DEF WalkFollows, NoWalk
<1> QED  BY <1>1, <1>2, <1>3

LEMMA RequestKeepsStores ==
    ASSUME VaultInv, StoresIInv, WalkFollows, StoreRequest
    PROVE  StoresIInv' /\ WalkFollows'
<1>1. CASE \E a \in Clients, s \in Scopes, edit \in Edits : PutSlot(a, s, edit)
  <2>1. UNCHANGED <<slots, grouped, walk>>  BY <1>1 DEF PutSlot, databaseVars
  <2> QED  BY <1>1, <2>1, PutKeepsStores, OthersFollow
<1>2. CASE \E a \in Clients : UpsertLookup(a)
  <2>1. UNCHANGED <<slots, grouped, walk>>  BY <1>2 DEF UpsertLookup, databaseVars
  <2> QED  BY <1>2, <2>1, LookupKeepsStores, OthersFollow
<1>3. CASE \E a \in Clients : UpsertWrite(a)
  <2>1. Stirred  BY <1>3 DEF UpsertWrite
  <2> QED  BY <1>3, <2>1, WriteKeepsStores, OthersFollow
<1>4. CASE \E a \in Clients, c \in Chans, t \in Types, fresh \in BOOLEAN :
              UpdateChannelRead(a, c, t, fresh)
  <2>1. UNCHANGED <<slots, grouped, walk>>  BY <1>4 DEF UpdateChannelRead, databaseVars
  <2> QED  BY <1>4, <2>1, ReadKeepsStores, OthersFollow
<1>5. CASE \E a \in Clients : UpdateChannelWrite(a)
  <2>1. UNCHANGED <<slots, grouped, walk>>  BY <1>5 DEF UpdateChannelWrite
  <2> QED  BY <1>5, <2>1, UpdateKeepsStores, OthersFollow
<1>6. CASE \E s \in Scopes : DeleteSlot(s) \/ DeleteParent(s)
  <2>1. Stirred  BY <1>6 DEF DeleteSlot, DeleteParent
  <2> QED  BY <1>6, <2>1, DeleteKeepsStores, OthersFollow
<1>7. CASE ResolveStart \/ ResolveNext \/ UseCredentials
  BY <1>7, StartFollows, NextFollows, UseFollows
<1>8. CASE \E c \in Chans, t \in Types, fresh \in BOOLEAN : CreateChannel(c, t, fresh)
  <2>1. UNCHANGED <<slots, grouped, walk>>  BY <1>8 DEF CreateChannel
  <2> QED  BY <1>8, <2>1, CreateKeepsStores, OthersFollow
<1>9. CASE \E c \in Chans : DeleteChannel(c)
  <2>1. UNCHANGED <<slots, grouped, walk>>  BY <1>9 DEF DeleteChannel
  <2> QED  BY <1>9, <2>1, RemoveKeepsStores, OthersFollow
<1> QED  BY <1>1, <1>2, <1>3, <1>4, <1>5, <1>6, <1>7, <1>8, <1>9 DEF StoreRequest

\* The vault at work leaves the stores alone; the end of the server drops the
\* requests under way.
LEMMA VaultKeepsStores ==
    ASSUME VaultInv, VaultInv', StoresIInv, WalkFollows,
           (VaultNext /\ UNCHANGED storeVars) \/ Stop \/ UNCHANGED vars
    PROVE  StoresIInv' /\ WalkFollows'
<1>1. /\ UNCHANGED <<slots, exists, grouped, pairs, chans>>
      /\ UNCHANGED <<reqs, walk>> \/ (reqs' = [a \in Clients |-> Idle] /\ walk' = NoWalk)
  BY DEF storeVars, Stop, databaseVars, vars
<1>2. writes' = writes \/ writes' = writes + 1
  BY DEF VaultNext, InstallKey, LoseKey, RetireKey, Boot, MigrateColumn, RotateColumn, Crash,
         MigrateRow, RotateRow, SetPendingSecret, ActivateTOTP, DisableTOTP, Write,
         Stop, StopServing, vars, vaultVars
<1>3. VaultTypeOK /\ VaultTypeOK'  BY DEF VaultInv
<1>4. TypeOK'  BY <1>1, <1>3 DEF StoresIInv, TypeOK
<1>5. PairsAreCounted'
  <2>1. pairs \in Nat /\ writes \in Nat
    BY <1>3, VaultAssumption DEF StoresIInv, TypeOK, VaultTypeOK, FirstRow
  <2> QED  BY <1>1, <1>2, <2>1 DEF StoresIInv, PairsAreCounted
<1>6. RequestsAreWhole'
  BY <1>1 DEF StoresIInv, RequestsAreWhole, Idle
<1>7. KeyPairsStayWhole' /\ SecretFitsTransport'
  BY <1>1 DEF StoresIInv, KeyPairsStayWhole, SecretFitsTransport
<1>8. WalkFollows'  BY <1>1, OthersFollow
<1> QED  BY <1>4, <1>5, <1>6, <1>7, <1>8 DEF StoresIInv

AllInv == VaultInv /\ StoresIInv /\ WalkFollows

LEMMA StoresInit == Init => AllInv
<1> SUFFICES ASSUME Init PROVE AllInv  OBVIOUS
<1>1. VaultInv /\ VaultTypeOK /\ files.current \in Keys
  BY VaultInitInvariant, LoadedKeys DEF Init, VaultInv
<1>2. FirstRow \in 1..FirstRow /\ 1 \in 1..FirstRow /\ writes \in Nat
  BY <1>1, VaultAssumption DEF FirstRow, VaultTypeOK
<1>3. Sealed(1) \in Pairs /\ Sealed(1) # NoPair /\ Sealed(1).pair = 1
  BY <1>1, <1>2, Distinct DEF Sealed, Pairs
<1> DEFINE g == [id |-> FirstRow, user |-> TRUE, pub |-> 1, priv |-> Sealed(1)]
<1>4. g \in Slots /\ Whole(g)
  BY <1>2, <1>3 DEF Slots, Whole
<1> HIDE DEF g
<1>5. /\ slots \in [Scopes -> {NoRow} \cup Slots]
      /\ \A s \in Scopes : slots[s] # NoRow => Whole(slots[s])
  BY <1>4 DEF Init, g
<1>6. /\ chans \in [Chans -> {NoRow} \cup ChanRows]
      /\ \A c \in Chans : chans[c] # NoRow => Fits(chans[c])
  <2>1. CASE chans = [c \in Chans |-> NoRow]  BY <2>1
  <2>2. CASE \E t \in SecretTypes : chans =
               [c \in Chans |-> [id |-> FirstRow, type |-> t, secret |-> SealSecret(t)]]
    <3>1. PICK t \in SecretTypes : chans =
               [c \in Chans |-> [id |-> FirstRow, type |-> t, secret |-> SealSecret(t)]]
      BY <2>2
    <3>2. t \in Types  BY StoresAssumption
    <3>3. SealSecret(t) \in [of : Types, version : Keys] /\ SealSecret(t).of = t
          /\ SealSecret(t) # NoSecret
      BY <1>1, <3>2, Distinct DEF SealSecret
    <3> DEFINE row == [id |-> FirstRow, type |-> t, secret |-> SealSecret(t)]
    <3>4. row \in ChanRows /\ Fits(row)
      BY <1>2, <3>2, <3>3 DEF ChanRows, Fits
    <3>5. chans = [c \in Chans |-> row]  BY <3>1
    <3> HIDE DEF row
    <3> QED  BY <3>4, <3>5
  <2> QED  BY <2>1, <2>2 DEF Init
<1>7. /\ pairs = 1 /\ walk = NoWalk /\ reqs = [a \in Clients |-> Idle]
      /\ exists \in [Scopes -> BOOLEAN] /\ grouped \in BOOLEAN
  BY DEF Init
<1>8. TypeOK
  BY <1>1, <1>2, <1>5, <1>6, <1>7 DEF TypeOK
<1>9. RequestsAreWhole  BY <1>7 DEF RequestsAreWhole, Idle
<1>10. PairsAreCounted  BY <1>2, <1>7 DEF PairsAreCounted
<1>11. KeyPairsStayWhole /\ SecretFitsTransport
  BY <1>5, <1>6, <1>7 DEF KeyPairsStayWhole, SecretFitsTransport, Whole, Fits
<1>12. WalkFollows  BY <1>7 DEF WalkFollows, NoWalk
<1> QED  BY <1>1, <1>8, <1>9, <1>10, <1>11, <1>12 DEF AllInv, StoresIInv

LEMMA StoresStep == AllInv /\ [Next]_vars => AllInv'
<1> SUFFICES ASSUME AllInv, [Next]_vars PROVE AllInv'  OBVIOUS
<1>1. VaultInv'  BY VaultAlways DEF AllInv
<1>2. CASE StoreRequest  BY <1>1, <1>2, RequestKeepsStores DEF AllInv
<1>3. CASE ~StoreRequest  BY <1>1, <1>3, VaultKeepsStores, StepKinds DEF AllInv
<1> QED  BY <1>2, <1>3

THEOREM Soundness == Spec => []AllInv
<1> QED  BY StoresInit, StoresStep, PTL DEF Spec

\* The CHOOSE of MostSpecific finds the one scope that nothing undercuts.
LEMMA ChoiceIsLeast ==
    ASSUME NEW S \in SUBSET Scopes, NEW b \in S,
           \A t \in S : Specificity(b) <= Specificity(t)
    PROVE  b = CHOOSE s \in S : \A t \in S : Specificity(s) <= Specificity(t)
<1> DEFINE c == CHOOSE s \in S : \A t \in S : Specificity(s) <= Specificity(t)
<1>1. c \in S /\ \A t \in S : Specificity(c) <= Specificity(t)  OBVIOUS
<1>2. \A s, t \in Scopes : Specificity(s) <= Specificity(t) /\ Specificity(t) <= Specificity(s)
                              => s = t
  BY DEF Scopes, Specificity
<1> QED  BY <1>1, <1>2

\* What an undisturbed walk ends with.
LEMMA WalkEnds ==
    ASSUME AllInv, walk.pc = "resolved", ~walk.stirred
    PROVE  /\ walk.user = MostSpecific(LAMBDA slot : slot.user)
           /\ walk.key = MostSpecific(HasKey)
           /\ walk.key # "none" => /\ walk.key \in Scopes /\ NamesKey(walk.key)
                                   /\ walk.priv = slots[walk.key].priv
<1>1. walk \in Walks /\ walk # NoWalk  BY DEF AllInv, StoresIInv, TypeOK, NoWalk
<1> DEFINE U == {s \in Scopes : InChain(s) /\ slots[s] # NoRow /\ slots[s].user}
           K == {s \in Scopes : InChain(s) /\ slots[s] # NoRow /\ HasKey(slots[s])}
<1>2. Passed(walk.chain) = {s \in Scopes : InChain(s)}
  BY <1>1 DEF AllInv, WalkFollows, Passed
<1>3. \/ walk.user = "none" /\ U = {}
      \/ walk.user \in U /\ \A s \in U : Specificity(walk.user) <= Specificity(s)
  BY <1>1, <1>2 DEF AllInv, WalkFollows, NamesUser
<1>4. \/ walk.key = "none" /\ K = {}
      \/ /\ walk.key \in K /\ \A s \in K : Specificity(walk.key) <= Specificity(s)
         /\ walk.priv = slots[walk.key].priv
  BY <1>1, <1>2 DEF AllInv, WalkFollows, NamesKey
<1>5. /\ MostSpecific(LAMBDA slot : slot.user) =
           IF U = {} THEN "none"
           ELSE CHOOSE s \in U : \A t \in U : Specificity(s) <= Specificity(t)
      /\ MostSpecific(HasKey) =
           IF K = {} THEN "none"
           ELSE CHOOSE s \in K : \A t \in K : Specificity(s) <= Specificity(t)
  BY DEF MostSpecific
<1>6. U \in SUBSET Scopes /\ K \in SUBSET Scopes  OBVIOUS
<1>7. walk.user = MostSpecific(LAMBDA slot : slot.user)
  <2> HIDE DEF U, K
  <2> QED  BY <1>3, <1>5, <1>6, ChoiceIsLeast
<1>8. walk.key = MostSpecific(HasKey)
  <2> HIDE DEF U, K
  <2> QED  BY <1>4, <1>5, <1>6, ChoiceIsLeast
<1>9. walk.key # "none" => /\ walk.key \in Scopes /\ NamesKey(walk.key)
                           /\ walk.priv = slots[walk.key].priv
  BY <1>4 DEF NamesKey
<1> QED  BY <1>7, <1>8, <1>9

\* However PUTs overlap, a stored key pair is a pair and a channel's secret is
\* its own transport's; a resolution no write cut across gets the most specific
\* user and key, and a refusal of it is explained (credentials/sqlite_store.go's Upsert,
\* resolve.go's Resolve, notifications/sqlite_store.go's Update).
THEOREM StoresStayWhole == Spec => []StoresInv
<1>1. AllInv => StoresInv
  <2> SUFFICES ASSUME AllInv PROVE StoresInv  OBVIOUS
  <2>1. TypeOK /\ KeyPairsStayWhole /\ SecretFitsTransport  BY DEF AllInv, StoresIInv
  <2>2. ResolvesMostSpecific  BY WalkEnds DEF ResolvesMostSpecific
  <2>3. RefusalIsExplained
    <3> SUFFICES ASSUME walk.pc = "resolved", ~walk.stirred, Refused,
                        MostSpecific(LAMBDA slot : slot.user) # "none",
                        MostSpecific(HasKey) # "none"
                 PROVE  walk.key \in UndecryptableSlots
      BY DEF RefusalIsExplained
    <3>1. walk.user # "none" /\ walk.key # "none" /\ walk.key \in Scopes /\ NamesKey(walk.key)
          /\ walk.priv = slots[walk.key].priv
      BY WalkEnds
    <3>2. ~Opens(walk.priv.version)  BY <3>1 DEF Refused
    <3> QED  BY <3>1, <3>2 DEF UndecryptableSlots, NamesKey, HasKey
  <2> QED  BY <2>1, <2>2, <2>3 DEF StoresInv
<1> QED  BY <1>1, Soundness, PTL
=============================================================================
