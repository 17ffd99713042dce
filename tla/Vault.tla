-------------------------------- MODULE Vault --------------------------------
(***************************************************************************)
(* The keys that seal secrets at rest, and what a boot does with the rows  *)
(* sealed under older ones: the migration of TOTP secrets from the key     *)
(* that used to live in the database, and -rotate-keys.  Both re-seal one  *)
(* row per statement, so a process that dies leaves the table half done,   *)
(* and both are only ever repeated, never undone.                          *)
(*                                                                         *)
(* A key is its version (versionOf is injective but for a collision of 32  *)
(* bits of a hash), a sealed column is the version it is tagged with.      *)
(***************************************************************************)
EXTENDS Integers, FiniteSets

CONSTANTS Users, Keys, NoKey,
          FirstKey,               \* the key of the installation
          MaxCrashes, MaxWrites   \* bounds: deaths during a boot, requests that write

ASSUME VaultAssumption ==
    /\ FirstKey \in Keys /\ NoKey \notin Keys /\ {"none", "legacy"} \cap Keys = {}
    /\ MaxCrashes \in Nat /\ MaxWrites \in Nat

VARIABLES files,     \* SW_MASTER_KEY_FILE and SW_MASTER_KEY_FILE_PREVIOUS
          kek,       \* the legacy key is in the meta table
          totp,      \* users.totp_secret and users.totp_pending_secret
          proc,      \* the server process
          rotated,   \* -rotate-keys has exited 0 under the present files
          lost,      \* the operator once replaced the key without rotating
          crashes, writes

vaultVars == <<files, kek, totp, proc, rotated, lost, crashes, writes>>

Columns == {"secret", "pending"}
Cells == {"none", "legacy"} \cup Keys
Down == [phase |-> "down"]

\* Mutant: the previous key is checked and not kept.
Loaded_currentOnly == {files.current}

\* The versions the vault of a process started now holds.
Loaded == {files.current, files.previous} \ {NoKey}
Opens(version) == version \in Loaded

VaultInit ==
    /\ files = [current |-> FirstKey, previous |-> NoKey]
    /\ kek \in BOOLEAN
    /\ totp \in [Users -> [Columns -> {"none", IF kek THEN "legacy" ELSE files.current}]]
    /\ proc = Down
    /\ rotated = FALSE /\ lost = FALSE
    /\ crashes \in 0..MaxCrashes /\ writes \in 0..MaxWrites   \* what is left of the bounds

-----------------------------------------------------------------------------
\* The operator, who touches the key files only while the server is down.
InstallKey(k) ==
    /\ proc = Down /\ files.previous = NoKey /\ k # files.current
    /\ files' = [current |-> k, previous |-> files.current]
    /\ rotated' = FALSE
    /\ UNCHANGED <<kek, totp, proc, lost, crashes, writes>>

\* The old key file is taken away once the rotation has exited 0.
RetireKey ==
    /\ proc = Down /\ files.previous # NoKey /\ rotated
    /\ files' = [files EXCEPT !.previous = NoKey]
    /\ UNCHANGED <<kek, totp, proc, rotated, lost, crashes, writes>>

\* A database restored against another key file, or a key dropped too early.
LoseKey(k) ==
    /\ proc = Down /\ ~lost
    /\ k # files.current \/ files.previous # NoKey
    /\ files' = [current |-> k, previous |-> NoKey]
    /\ lost' = TRUE /\ rotated' = FALSE
    /\ UNCHANGED <<kek, totp, proc, crashes, writes>>

-----------------------------------------------------------------------------
\* The rows of a column that the legacy key sealed, and those of a version
\* that is not the current one.
scanLegacyRows(col) == {u \in Users : totp[u][col] = "legacy"}
scanRotatable(col) == {u \in Users : totp[u][col] \in Keys \ {files.current}}

Migrating(col, rotate) ==
    [phase |-> "migrate", col |-> col, rotate |-> rotate, work |-> scanLegacyRows(col)]
Rotating(col) == [phase |-> "rotate", col |-> col, work |-> scanRotatable(col)]
AfterMigration(rotate) == IF rotate THEN Rotating("secret") ELSE [phase |-> "serving"]

\* Mutant: a rotation that finds a row of the new key takes it for done.
Boot_refusesRetry(rotate) ==
    /\ proc = Down
    /\ files.previous # files.current
    /\ rotate => \A u \in Users, c \in Columns : totp[u][c] # files.current
    /\ proc' = IF kek THEN Migrating("secret", rotate) ELSE AfterMigration(rotate)
    /\ UNCHANGED <<files, kek, totp, rotated, lost, crashes, writes>>

(* run: NewVault, which refuses a previous key that is the current one,    *)
(* then the migration, then the rotation or the server.                    *)
Boot(rotate) ==
    /\ proc = Down
    /\ files.previous # files.current
    /\ proc' = IF kek THEN Migrating("secret", rotate) ELSE AfterMigration(rotate)
    /\ UNCHANGED <<files, kek, totp, rotated, lost, crashes, writes>>

\* One UPDATE of migrateLegacyColumn.
MigrateRow(u) ==
    /\ proc.phase = "migrate" /\ u \in proc.work
    /\ totp' = [totp EXCEPT ![u][proc.col] = files.current]
    /\ proc' = [proc EXCEPT !.work = @ \ {u}]
    /\ UNCHANGED <<files, kek, rotated, lost, crashes, writes>>

\* The end of one column: the next one, or the end of the legacy key.
MigrateColumn ==
    /\ proc.phase = "migrate" /\ proc.work = {}
    /\ \/ /\ proc.col = "secret"
          /\ proc' = Migrating("pending", proc.rotate)
          /\ UNCHANGED kek
       \/ /\ proc.col = "pending"
          /\ kek' = FALSE
          /\ proc' = AfterMigration(proc.rotate)
    /\ UNCHANGED <<files, totp, rotated, lost, crashes, writes>>

(* One row of rotateColumn.  A version the vault does not hold ends the    *)
(* run with an error; the rows before it stay re-sealed.                   *)
RotateRow(u) ==
    /\ proc.phase = "rotate" /\ u \in proc.work
    /\ IF Opens(totp[u][proc.col])
       THEN /\ totp' = [totp EXCEPT ![u][proc.col] = files.current]
            /\ proc' = [proc EXCEPT !.work = @ \ {u}]
       ELSE UNCHANGED totp /\ proc' = Down
    /\ UNCHANGED <<files, kek, rotated, lost, crashes, writes>>

\* The end of one column: the next one, or exit 0.
RotateColumn ==
    /\ proc.phase = "rotate" /\ proc.work = {}
    /\ \/ proc.col = "secret" /\ proc' = Rotating("pending") /\ UNCHANGED rotated
       \/ proc.col = "pending" /\ proc' = Down /\ rotated' = TRUE
    /\ UNCHANGED <<files, kek, totp, lost, crashes, writes>>

Crash ==
    /\ proc.phase \in {"migrate", "rotate"} /\ crashes < MaxCrashes
    /\ proc' = Down
    /\ crashes' = crashes + 1
    /\ UNCHANGED <<files, kek, totp, rotated, lost, writes>>

-----------------------------------------------------------------------------
\* The requests that seal or drop a TOTP secret; SecondFactor has the rest.
Serving == proc.phase = "serving"
Write == writes < MaxWrites /\ writes' = writes + 1

SetPendingSecret(u) ==
    /\ Serving /\ Write
    /\ totp' = [totp EXCEPT ![u].pending = files.current]
    /\ UNCHANGED <<files, kek, proc, rotated, lost, crashes>>

\* Confirming needs the pending secret opened, and moves it as it is sealed.
ActivateTOTP(u) ==
    /\ Serving
    /\ Opens(totp[u].pending)
    /\ totp' = [totp EXCEPT ![u] = [secret |-> @.pending, pending |-> "none"]]
    /\ UNCHANGED <<files, kek, proc, rotated, lost, crashes, writes>>

DisableTOTP(u) ==
    /\ Serving /\ Write
    /\ totp' = [totp EXCEPT ![u] = [c \in Columns |-> "none"]]
    /\ UNCHANGED <<files, kek, proc, rotated, lost, crashes>>

\* The shutdown signal.
StopServing ==
    /\ Serving
    /\ proc' = Down
    /\ UNCHANGED <<files, kek, totp, rotated, lost, crashes, writes>>

\* CountUndecryptableTOTP and ListUndecryptableTOTP: rows with a version.
UndecryptableTOTP ==
    {r \in Users \X Columns : totp[r[1]][r[2]] \in Keys /\ ~Opens(totp[r[1]][r[2]])}

VaultNext ==
    \/ \E k \in Keys : InstallKey(k) \/ LoseKey(k)
    \/ RetireKey
    \/ \E rotate \in BOOLEAN : Boot(rotate)
    \/ MigrateColumn \/ RotateColumn \/ Crash
    \/ \E u \in Users :
        \/ MigrateRow(u) \/ RotateRow(u)
        \/ SetPendingSecret(u) \/ ActivateTOTP(u) \/ DisableTOTP(u)

(* A boot goes on unless it dies, and an operator who has installed a new  *)
(* key stops the server for -rotate-keys until that has exited 0.          *)
VaultFairness ==
    /\ WF_vaultVars(\E u \in Users : MigrateRow(u) \/ RotateRow(u))
    /\ WF_vaultVars(MigrateColumn \/ RotateColumn)
    /\ WF_vaultVars(files.previous # NoKey /\ StopServing)
    /\ SF_vaultVars(files.previous # NoKey /\ ~rotated /\ Boot(TRUE))
-----------------------------------------------------------------------------
VaultTypeOK ==
    /\ files \in [current : Keys, previous : Keys \cup {NoKey}]
    /\ kek \in BOOLEAN /\ rotated \in BOOLEAN /\ lost \in BOOLEAN
    /\ totp \in [Users -> [Columns -> Cells]]
    /\ \/ proc \in {Down, [phase |-> "serving"]}
       \/ proc \in [phase : {"rotate"}, col : Columns, work : SUBSET Users]
       \/ proc \in [phase : {"migrate"}, col : Columns, rotate : BOOLEAN, work : SUBSET Users]
    /\ crashes \in 0..MaxCrashes /\ writes \in 0..MaxWrites

(* MigrateLegacyTOTPSecrets deletes the key from the meta table only when  *)
(* no row needs it any more, whatever boot dies where.                     *)
LegacyKeyOutlivesItsRows ==
    \A u \in Users, c \in Columns : totp[u][c] = "legacy" => kek

(* What RotateKeys is for: once it has exited 0, no TOTP secret is under   *)
(* any key but the current one, rows of a key that is gone included: those *)
(* make it fail instead.                                                   *)
RotationIsComplete ==
    rotated => \A u \in Users, c \in Columns : totp[u][c] \in {"none", files.current}

(* An operator who follows the procedure, however often its steps die and  *)
(* whatever is enrolled in between, never loses a TOTP secret: every row   *)
(* opens under the files in place, or under the legacy key.                *)
SecretsSurviveRotation ==
    ~lost => \A u \in Users, c \in Columns :
        totp[u][c] # "none" => Opens(totp[u][c]) \/ (totp[u][c] = "legacy" /\ kek)

(* A secret a serving process cannot open is on the list that warns of it. *)
UnreadableIsListed ==
    Serving => \A u \in Users, c \in Columns :
        totp[u][c] # "none" /\ ~Opens(totp[u][c]) => <<u, c>> \in UndecryptableTOTP

(* "retries after a partial run converge": a new key, once installed, ends *)
(* up as the key of every row, unless the old one was lost.                *)
RotationConverges == files.previous # NoKey ~> rotated \/ lost

(* No boot, however it dies, and no rotation makes a TOTP secret           *)
(* unreadable that an operator has the keys for: neither key is given up   *)
(* before its last row, and what cannot be read is reported.               *)
TOTPSecretsAreKept ==
    /\ LegacyKeyOutlivesItsRows
    /\ RotationIsComplete
    /\ SecretsSurviveRotation
    /\ UnreadableIsListed
==============================================================================
