---------------------------- MODULE SecondFactor ----------------------------
(***************************************************************************)
(* The second factor of one account: enrolment, the check of a code at     *)
(* login with its fallback to recovery codes, and trusted devices.  A      *)
(* handler reads the account's TOTP state in one statement and acts on     *)
(* that copy in later ones, between which other requests of the same user, *)
(* or an administrator's reset, run.                                       *)
(*                                                                         *)
(* A code of an authenticator is the pair of its secret and its 30-second  *)
(* step; hashing, sealing and the throttle and lockout counters are left   *)
(* out.                                                                    *)
(***************************************************************************)
EXTENDS Integers, FiniteSets

CONSTANTS Requests, Devices,
          RecoveryCodes,     \* the codes of one enrolment
          MaxSecrets, MaxStep, MaxEpoch, MaxEnrolments   \* bounds

ASSUME BoundsAssumption ==
    MaxSecrets \in Nat /\ MaxStep \in Nat \ {0} /\ MaxEpoch \in Nat /\ MaxEnrolments \in Nat

VARIABLES enabled,     \* users.totp_enabled
          secret,      \* users.totp_secret, 0 for NULL
          pending,     \* users.totp_pending_secret, 0 for NULL
          lastStep,    \* users.totp_last_step
          epoch,       \* users.totp_epoch
          codes,       \* recovery_codes with no used_at
          devices,     \* trusted_devices: the epoch of a row, or NoRow
          cookies,     \* trusted-device cookies handed out: <<device, epoch>>
          challenge,   \* somebody holds a challenge cookie that is not expired
          clock,       \* the current step
          minted,      \* secrets generated so far
          enrolments,  \* sets of recovery codes written so far
          reqs

vars == <<enabled, secret, pending, lastStep, epoch, codes, devices, cookies,
          challenge, clock, minted, enrolments, reqs>>
userVars == <<enabled, secret, pending, lastStep, epoch>>
envVars == <<clock, minted, enrolments>>

NoRow == -1
TOTP == [secret : 1..MaxSecrets, step : 1..MaxStep]
Recovery == [enrolment : 1..MaxEnrolments, code : RecoveryCodes]
CodesOf(n) == [enrolment : {n}, code : RecoveryCodes]

(* cred: the code the request carries; step, epoch, secret: from the copy  *)
(* of the TOTP state it read; device: of the cookie it carries.            *)
Idle == [pc |-> "idle"]
Request ==
    [pc : {"idle", "disable", "session"}]
    \cup [pc : {"activate"}, secret : 1..MaxSecrets]
    \cup [pc : {"device", "session"}, device : Devices, epoch : 0..MaxEpoch]
    \cup [pc : {"consume"}, cred : TOTP, epoch : 0..MaxEpoch]
    \cup [pc : {"recovery", "verified", "session"}, cred : TOTP \cup Recovery, epoch : 0..MaxEpoch]

Done(q) == reqs' = [reqs EXCEPT ![q] = Idle]
Goto(q, pc) == reqs' = [reqs EXCEPT ![q].pc = pc]
At(q, pc) == reqs[q].pc = pc

Init ==
    /\ enabled = FALSE /\ secret = 0 /\ pending = 0 /\ lastStep = 0 /\ epoch = 0
    /\ codes = {}
    /\ devices = [d \in Devices |-> NoRow] /\ cookies = {}
    /\ challenge = FALSE
    /\ clock = 1 /\ minted = 0 /\ enrolments = 0
    /\ reqs = [q \in Requests |-> Idle]

-----------------------------------------------------------------------------
Tick ==
    /\ clock < MaxStep
    /\ clock' = clock + 1
    /\ UNCHANGED <<userVars, codes, devices, cookies, challenge, minted, enrolments, reqs>>

ChallengeExpires ==
    /\ challenge
    /\ challenge' = FALSE
    /\ UNCHANGED <<userVars, codes, devices, cookies, envVars, reqs>>

(* VerifyTOTPCode: the code is of this secret, one step off at most, and   *)
(* later than the last one consumed.                                       *)
Verifies(c, sec, last) ==
    c.secret = sec /\ c.step \in (clock - 1)..(clock + 1) /\ c.step > last

-----------------------------------------------------------------------------
\* Enrolment.  A new secret replaces one that is waiting.
TOTPSetup ==
    /\ minted < MaxSecrets
    /\ minted' = minted + 1
    /\ pending' = minted + 1
    /\ UNCHANGED <<enabled, secret, lastStep, epoch, codes, devices, cookies,
                   challenge, clock, enrolments, reqs>>

TOTPConfirm(q, c) ==
    /\ At(q, "idle")
    /\ pending # 0 /\ Verifies(c, pending, 0)
    /\ reqs' = [reqs EXCEPT ![q] = [pc |-> "activate", secret |-> pending]]
    /\ UNCHANGED <<userVars, codes, devices, cookies, challenge, envVars>>

\* Mutant: new recovery codes are added to those of the enrolment before.
Activate_keepsCodes(q) ==
    /\ At(q, "activate") /\ enrolments < MaxEnrolments
    /\ enabled' = TRUE
    /\ secret' = reqs[q].secret /\ pending' = 0 /\ lastStep' = 0
    /\ enrolments' = enrolments + 1
    /\ codes' = codes \cup CodesOf(enrolments + 1)
    /\ Done(q)
    /\ UNCHANGED <<epoch, devices, cookies, challenge, clock, minted>>

(* activateTOTPWithAudit, one transaction: the secret that was confirmed,  *)
(* and new recovery codes in the place of the old.                         *)
Activate(q) ==
    /\ At(q, "activate") /\ enrolments < MaxEnrolments
    /\ enabled' = TRUE
    /\ secret' = reqs[q].secret /\ pending' = 0 /\ lastStep' = 0
    /\ enrolments' = enrolments + 1
    /\ codes' = CodesOf(enrolments + 1)
    /\ Done(q)
    /\ UNCHANGED <<epoch, devices, cookies, challenge, clock, minted>>

TOTPDisable(q, c) ==
    /\ At(q, "idle")
    /\ enabled /\ Verifies(c, secret, lastStep)
    /\ reqs' = [reqs EXCEPT ![q] = [pc |-> "disable"]]
    /\ UNCHANGED <<userVars, codes, devices, cookies, challenge, envVars>>

\* Mutant: the rows are deleted and the epoch stays.
ClearTOTP_sameEpoch ==
    /\ enabled' = FALSE /\ secret' = 0 /\ pending' = 0 /\ lastStep' = 0
    /\ epoch' = epoch
    /\ codes' = {}
    /\ devices' = [d \in Devices |-> NoRow]

\* One transaction, of disableTOTPIn and of AdminResetTOTP.
ClearTOTP ==
    /\ enabled' = FALSE /\ secret' = 0 /\ pending' = 0 /\ lastStep' = 0
    /\ epoch < MaxEpoch /\ epoch' = epoch + 1
    /\ codes' = {}
    /\ devices' = [d \in Devices |-> NoRow]

DisableTOTP(q) ==
    /\ At(q, "disable")
    /\ ClearTOTP
    /\ Done(q)
    /\ UNCHANGED <<cookies, challenge, envVars>>

AdminResetTOTP ==
    /\ ClearTOTP
    /\ UNCHANGED <<cookies, challenge, envVars, reqs>>

-----------------------------------------------------------------------------
(* handleLogin after the password: no second factor, a trusted-device      *)
(* cookie of this epoch whose row is to be looked up, or a challenge.      *)
Login(q) ==
    /\ At(q, "idle") /\ ~enabled
    /\ reqs' = [reqs EXCEPT ![q] = [pc |-> "session"]]
    /\ UNCHANGED <<userVars, codes, devices, cookies, challenge, envVars>>

LoginWithDevice(q, d) ==
    /\ At(q, "idle") /\ enabled
    /\ <<d, epoch>> \in cookies
    /\ reqs' = [reqs EXCEPT ![q] = [pc |-> "device", device |-> d, epoch |-> epoch]]
    /\ UNCHANGED <<userVars, codes, devices, cookies, challenge, envVars>>

LoginChallenged(q) ==
    /\ At(q, "idle") /\ enabled
    /\ challenge' = TRUE
    /\ UNCHANGED <<userVars, codes, devices, cookies, envVars, reqs>>

honorTrustedDevice(q) ==
    /\ At(q, "device")
    /\ IF devices[reqs[q].device] = reqs[q].epoch
       THEN Goto(q, "session") /\ UNCHANGED challenge
       ELSE Done(q) /\ challenge' = TRUE
    /\ UNCHANGED <<userVars, codes, devices, cookies, envVars>>

-----------------------------------------------------------------------------
(* handleTOTPVerify reads the state and tries the code against it.  A code *)
(* that verifies is consumed; any other, and every code when the vault     *)
(* cannot open the secret, is tried as a recovery code.                    *)
TOTPVerify(q, c) ==
    /\ At(q, "idle") /\ challenge /\ enabled
    /\ \E pc \in {"consume", "recovery"} :
          /\ pc = "consume" => c \in TOTP /\ Verifies(c, secret, lastStep)
          /\ reqs' = [reqs EXCEPT ![q] = [pc |-> pc, cred |-> c, epoch |-> epoch]]
    /\ UNCHANGED <<userVars, codes, devices, cookies, challenge, envVars>>

\* Mutant: the step is stored without a look at the one that is there.
ConsumeStep_blind(q) ==
    /\ At(q, "consume")
    /\ lastStep' = reqs[q].cred.step
    /\ Goto(q, "verified")
    /\ UNCHANGED <<enabled, secret, pending, epoch, codes, devices, cookies, challenge, envVars>>

\* UPDATE ... WHERE totp_last_step < step; without a row, on to recovery.
ConsumeStep(q) ==
    /\ At(q, "consume")
    /\ IF lastStep < reqs[q].cred.step
       THEN lastStep' = reqs[q].cred.step /\ Goto(q, "verified")
       ELSE UNCHANGED lastStep /\ Goto(q, "recovery")
    /\ UNCHANGED <<enabled, secret, pending, epoch, codes, devices, cookies, challenge, envVars>>

ConsumeRecoveryCode(q) ==
    /\ At(q, "recovery")
    /\ IF reqs[q].cred \in codes
       THEN codes' = codes \ {reqs[q].cred} /\ Goto(q, "verified")
       ELSE UNCHANGED codes /\ Done(q)
    /\ UNCHANGED <<userVars, devices, cookies, challenge, envVars>>

\* The row carries the epoch that was read before the code was verified.
rememberDevice(q, d) ==
    /\ At(q, "verified")
    /\ devices[d] = NoRow /\ \A c \in cookies : c[1] # d
    /\ devices' = [devices EXCEPT ![d] = reqs[q].epoch]
    /\ cookies' = cookies \cup {<<d, reqs[q].epoch>>}
    /\ Goto(q, "session")
    /\ UNCHANGED <<userVars, codes, challenge, envVars>>

\* The login ends with a session; or, at any point, with an error.
issueCookie(q) ==
    /\ At(q, "verified") \/ At(q, "session")
    /\ Done(q)
    /\ UNCHANGED <<userVars, codes, devices, cookies, challenge, envVars>>

Fails(q) ==
    /\ reqs[q] # Idle
    /\ Done(q)
    /\ UNCHANGED <<userVars, codes, devices, cookies, challenge, envVars>>

\* Revoked by the user, or thirty days old.
RevokeDevice(d) ==
    /\ devices[d] # NoRow
    /\ devices' = [devices EXCEPT ![d] = NoRow]
    /\ UNCHANGED <<userVars, codes, cookies, challenge, envVars, reqs>>

-----------------------------------------------------------------------------
Handle(q) ==
    \/ \E c \in TOTP : TOTPConfirm(q, c) \/ TOTPDisable(q, c)
    \/ Activate(q) \/ DisableTOTP(q)
    \/ Login(q) \/ LoginChallenged(q) \/ honorTrustedDevice(q)
    \/ \E d \in Devices : LoginWithDevice(q, d) \/ rememberDevice(q, d)
    \/ \E c \in TOTP \cup Recovery : TOTPVerify(q, c)
    \/ ConsumeStep(q) \/ ConsumeRecoveryCode(q) \/ issueCookie(q) \/ Fails(q)

Next ==
    \/ Tick \/ ChallengeExpires \/ TOTPSetup \/ AdminResetTOTP
    \/ \E d \in Devices : RevokeDevice(d)
    \/ \E q \in Requests : Handle(q)

Spec == Init /\ [][Next]_vars

-----------------------------------------------------------------------------
\* The columns, tables and copies in flight keep their types.
TypeOK ==
    /\ enabled \in BOOLEAN /\ challenge \in BOOLEAN
    /\ secret \in 0..MaxSecrets /\ pending \in 0..MaxSecrets
    /\ lastStep \in 0..MaxStep /\ epoch \in 0..MaxEpoch
    /\ codes \subseteq Recovery
    /\ devices \in [Devices -> {NoRow} \cup (0..MaxEpoch)]
    /\ cookies \subseteq Devices \X (0..MaxEpoch)
    /\ clock \in 1..MaxStep /\ minted \in 0..MaxSecrets /\ enrolments \in 0..MaxEnrolments
    /\ reqs \in [Requests -> Request]

(* The second factor is all there or not at all, whatever confirm, disable *)
(* and reset requests overlap: an enabled account has a secret and, of the *)
(* recovery codes, only those handed out with it; another has neither.     *)
EnrolmentIsWhole ==
    IF enabled THEN secret # 0 /\ codes \subseteq CodesOf(enrolments)
               ELSE secret = 0 /\ codes = {}

(* The account's columns and rows have their types and are one enrolment.  *)
SecondFactorInv == TypeOK /\ EnrolmentIsWhole
=============================================================================
