------------------------- MODULE SecondFactorProofs -------------------------
(***************************************************************************)
(* For any number of overlapping requests, any codes and any bounds: the   *)
(* second factor is enrolled as a whole and removed as a whole, every      *)
(* request under way keeps a copy of what it read of the right type, an    *)
(* authenticator code lets one login through, and a device's trust does    *)
(* not outlive the second factor it was given under.                       *)
(***************************************************************************)
EXTENDS MCSecondFactor, TLAPS

(* A confirmation carries the secret that was pending when it verified the *)
(* code, so what it activates later is a secret.                           *)
ConfirmedSecrets ==
    /\ DOMAIN reqs = Requests
    /\ \A q \in Requests : reqs[q].pc = "activate" => reqs[q].secret # 0

Whole == EnrolmentIsWhole /\ ConfirmedSecrets

LEMMA InitWhole == Init => Whole
  BY DEF Init, Whole, EnrolmentIsWhole, ConfirmedSecrets, Idle

\* A request that is done, or is put at another place, activates nothing.
LEMMA DoneConfirmed ==
  ASSUME ConfirmedSecrets, NEW q \in Requests, Done(q)
  PROVE  ConfirmedSecrets'
  BY DEF ConfirmedSecrets, Done, Idle

LEMMA PutConfirmed ==
  ASSUME ConfirmedSecrets, NEW q \in Requests, NEW r,
         r.pc = "activate" => r.secret # 0, reqs' = [reqs EXCEPT ![q] = r]
  PROVE  ConfirmedSecrets'
  BY DEF ConfirmedSecrets

LEMMA GotoConfirmed ==
  ASSUME ConfirmedSecrets, NEW q \in Requests, NEW pc, pc # "activate",
         Goto(q, pc)
  PROVE  ConfirmedSecrets'
  BY DEF ConfirmedSecrets, Goto

-----------------------------------------------------------------------------
\* Steps that no request takes, or that leave the enrolment alone.
LEMMA QuietSteps ==
  ASSUME Whole, UNCHANGED <<enabled, secret, codes, enrolments>>, ConfirmedSecrets'
  PROVE  Whole'
  BY DEF Whole, EnrolmentIsWhole, CodesOf

LEMMA EnvironmentWhole ==
  ASSUME Whole,
         \/ Tick \/ ChallengeExpires \/ TOTPSetup \/ AdminResetTOTP
         \/ \E d \in Devices : RevokeDevice(d)
  PROVE  Whole'
  <1>1. UNCHANGED reqs
    BY DEF Tick, ChallengeExpires, TOTPSetup, AdminResetTOTP, RevokeDevice
  <1>2. ConfirmedSecrets'
    BY <1>1 DEF Whole, ConfirmedSecrets
  <1>3. CASE AdminResetTOTP
    BY <1>2, <1>3 DEF AdminResetTOTP, ClearTOTP, Whole, EnrolmentIsWhole
  <1>4. CASE \/ Tick \/ ChallengeExpires \/ TOTPSetup
             \/ \E d \in Devices : RevokeDevice(d)
    <2>1. UNCHANGED <<enabled, secret, codes, enrolments>>
      BY <1>4 DEF Tick, ChallengeExpires, TOTPSetup, RevokeDevice, userVars, envVars
    <2> QED BY <1>2, <2>1, QuietSteps
  <1> QED BY <1>3, <1>4

\* Turning the second factor on and off.
LEMMA EnrolmentWhole ==
  ASSUME Whole, NEW q \in Requests,
         \/ \E c \in TOTP : TOTPConfirm(q, c) \/ TOTPDisable(q, c)
         \/ Activate(q) \/ DisableTOTP(q)
  PROVE  Whole'
  <1> ConfirmedSecrets
    BY DEF Whole
  <1>1. ASSUME NEW c \in TOTP, TOTPConfirm(q, c) PROVE Whole'
    <2>1. ConfirmedSecrets'
      BY <1>1, PutConfirmed DEF TOTPConfirm
    <2> QED BY <1>1, <2>1, QuietSteps DEF TOTPConfirm, userVars, envVars
  <1>2. ASSUME NEW c \in TOTP, TOTPDisable(q, c) PROVE Whole'
    <2>1. ConfirmedSecrets'
      BY <1>2, PutConfirmed DEF TOTPDisable
    <2> QED BY <1>2, <2>1, QuietSteps DEF TOTPDisable, userVars, envVars
  <1>3. CASE Activate(q)
    <2>1. ConfirmedSecrets'
      BY <1>3, DoneConfirmed DEF Activate
    <2>2. enabled' = TRUE /\ secret' # 0
      BY <1>3 DEF Activate, At, ConfirmedSecrets
    <2>3. codes' = CodesOf(enrolments')
      BY <1>3 DEF Activate
    <2> QED BY <2>1, <2>2, <2>3 DEF Whole, EnrolmentIsWhole, CodesOf
  <1>4. CASE DisableTOTP(q)
    <2>1. ConfirmedSecrets'
      BY <1>4, DoneConfirmed DEF DisableTOTP
    <2> QED BY <1>4, <2>1 DEF DisableTOTP, ClearTOTP, Whole, EnrolmentIsWhole
  <1> QED BY <1>1, <1>2, <1>3, <1>4

\* Logins, of which only the use of a recovery code touches the enrolment.
LEMMA LoginWhole ==
  ASSUME Whole, NEW q \in Requests,
         \/ Login(q) \/ LoginChallenged(q) \/ honorTrustedDevice(q)
         \/ \E d \in Devices : LoginWithDevice(q, d) \/ rememberDevice(q, d)
         \/ \E c \in TOTP \cup Recovery : TOTPVerify(q, c)
         \/ ConsumeStep(q) \/ ConsumeRecoveryCode(q) \/ issueCookie(q) \/ Fails(q)
  PROVE  Whole'
  <1> ConfirmedSecrets
    BY DEF Whole
  <1>1. CASE ConsumeRecoveryCode(q)
    <2>1. ConfirmedSecrets'
      BY <1>1, GotoConfirmed, DoneConfirmed DEF ConsumeRecoveryCode
    <2>2. codes' \subseteq codes /\ UNCHANGED <<enabled, secret, enrolments>>
      BY <1>1 DEF ConsumeRecoveryCode, userVars, envVars
    <2> QED BY <2>1, <2>2 DEF Whole, EnrolmentIsWhole, CodesOf
  <1>2. CASE \/ Login(q) \/ LoginChallenged(q) \/ honorTrustedDevice(q)
             \/ ConsumeStep(q) \/ issueCookie(q) \/ Fails(q)
    <2>1. CASE Login(q)
      <3>1. ConfirmedSecrets'
        BY <2>1, PutConfirmed DEF Login
      <3> QED BY <2>1, <3>1, QuietSteps DEF Login, userVars, envVars
    <2>2. CASE LoginChallenged(q)
      BY <2>2, QuietSteps DEF LoginChallenged, userVars, envVars, ConfirmedSecrets
    <2>3. CASE honorTrustedDevice(q)
      <3>1. ConfirmedSecrets'
        BY <2>3, GotoConfirmed, DoneConfirmed DEF honorTrustedDevice
      <3> QED BY <2>3, <3>1, QuietSteps DEF honorTrustedDevice, userVars, envVars
    <2>4. CASE ConsumeStep(q)
      <3>1. ConfirmedSecrets'
        BY <2>4, GotoConfirmed DEF ConsumeStep
      <3> QED BY <2>4, <3>1, QuietSteps DEF ConsumeStep, envVars
    <2>5. CASE issueCookie(q) \/ Fails(q)
      <3>1. ConfirmedSecrets'
        BY <2>5, DoneConfirmed DEF issueCookie, Fails
      <3> QED BY <2>5, <3>1, QuietSteps DEF issueCookie, Fails, userVars, envVars
    <2> QED BY <1>2, <2>1, <2>2, <2>3, <2>4, <2>5
  <1>3. ASSUME NEW d \in Devices, LoginWithDevice(q, d) PROVE Whole'
    <2>1. ConfirmedSecrets'
      BY <1>3, PutConfirmed DEF LoginWithDevice
    <2> QED BY <1>3, <2>1, QuietSteps DEF LoginWithDevice, userVars, envVars
  <1>4. ASSUME NEW d \in Devices, rememberDevice(q, d) PROVE Whole'
    <2>1. ConfirmedSecrets'
      BY <1>4, GotoConfirmed DEF rememberDevice
    <2> QED BY <1>4, <2>1, QuietSteps DEF rememberDevice, userVars, envVars
  <1>5. ASSUME NEW c \in TOTP \cup Recovery, TOTPVerify(q, c) PROVE Whole'
    <2>1. PICK pc \in {"consume", "recovery"} :
            reqs' = [reqs EXCEPT ![q] = [pc |-> pc, cred |-> c, epoch |-> epoch]]
      BY <1>5 DEF TOTPVerify
    <2>2. ConfirmedSecrets'
      BY <2>1, PutConfirmed
    <2> QED BY <1>5, <2>2, QuietSteps DEF TOTPVerify, userVars, envVars
  <1> QED BY <1>1, <1>2, <1>3, <1>4, <1>5

LEMMA NextWhole == Whole /\ [Next]_vars => Whole'
  <1> SUFFICES ASSUME Whole, [Next]_vars PROVE Whole'
    OBVIOUS
  <1>1. ASSUME NEW q \in Requests, Handle(q) PROVE Whole'
    BY <1>1, EnrolmentWhole, LoginWhole DEF Handle
  <1>2. CASE UNCHANGED vars
    BY <1>2, QuietSteps DEF vars, Whole, ConfirmedSecrets
  <1> QED BY <1>1, <1>2, EnvironmentWhole DEF Next

-----------------------------------------------------------------------------
(* The types, which the handlers' copies carry from one statement to the   *)
(* next.                                                                   *)
LEMMA RequestTypes ==
  /\ Idle \in Request
  /\ \A s \in 1..MaxSecrets : [pc |-> "activate", secret |-> s] \in Request
  /\ \A pc \in {"disable", "session"} : [pc |-> pc] \in Request
  /\ \A d \in Devices, n \in 0..MaxEpoch :
        [pc |-> "device", device |-> d, epoch |-> n] \in Request
  /\ \A c \in TOTP, n \in 0..MaxEpoch :
        [pc |-> "consume", cred |-> c, epoch |-> n] \in Request
  /\ \A c \in TOTP \cup Recovery, n \in 0..MaxEpoch :
        [pc |-> "recovery", cred |-> c, epoch |-> n] \in Request
  BY DEF Request, Idle

\* Where a request is says what it carries.
LEMMA RequestAt ==
  ASSUME NEW r \in Request
  PROVE  /\ r.pc = "activate" => r.secret \in 1..MaxSecrets
         /\ r.pc = "device" => [r EXCEPT !.pc = "session"] \in Request
         /\ r.pc = "consume" => /\ r.cred \in TOTP /\ r.epoch \in 0..MaxEpoch
                                /\ [r EXCEPT !.pc = "verified"] \in Request
                                /\ [r EXCEPT !.pc = "recovery"] \in Request
         /\ r.pc = "recovery" => [r EXCEPT !.pc = "verified"] \in Request
         /\ r.pc = "verified" => /\ r.epoch \in 0..MaxEpoch
                                 /\ [r EXCEPT !.pc = "session"] \in Request
  <1>1. CASE r \in [pc : {"idle", "disable", "session"}]
    BY <1>1
  <1>2. CASE r \in [pc : {"activate"}, secret : 1..MaxSecrets]
    BY <1>2
  <1>3. CASE r \in [pc : {"device", "session"}, device : Devices, epoch : 0..MaxEpoch]
    BY <1>3 DEF Request
  <1>4. CASE r \in [pc : {"consume"}, cred : TOTP, epoch : 0..MaxEpoch]
    BY <1>4 DEF Request
  <1>5. CASE r \in [pc : {"recovery", "verified", "session"}, cred : TOTP \cup Recovery,
                    epoch : 0..MaxEpoch]
    BY <1>5 DEF Request
  <1> QED BY <1>1, <1>2, <1>3, <1>4, <1>5 DEF Request

LEMMA InitTypes == Init => TypeOK
  <1> SUFFICES ASSUME Init PROVE TypeOK
    OBVIOUS
  <1>1. /\ secret \in 0..MaxSecrets /\ pending \in 0..MaxSecrets /\ lastStep \in 0..MaxStep
        /\ epoch \in 0..MaxEpoch /\ clock \in 1..MaxStep /\ minted \in 0..MaxSecrets
        /\ enrolments \in 0..MaxEnrolments
    BY BoundsAssumption DEF Init
  <1>2. /\ devices \in [Devices -> {NoRow} \cup (0..MaxEpoch)]
        /\ reqs \in [Requests -> Request]
    BY RequestTypes DEF Init
  <1> QED BY <1>1, <1>2 DEF Init, TypeOK

\* A step that moves one request to a typed one keeps reqs typed.
LEMMA PutTypes ==
  ASSUME TypeOK, NEW q \in Requests, NEW r \in Request, reqs' = [reqs EXCEPT ![q] = r]
  PROVE  reqs' \in [Requests -> Request]
  BY DEF TypeOK

LEMMA DoneTypes ==
  ASSUME TypeOK, NEW q \in Requests, Done(q)
  PROVE  reqs' \in [Requests -> Request]
  BY PutTypes, RequestTypes DEF Done

LEMMA GotoTypes ==
  ASSUME TypeOK, NEW q \in Requests, NEW pc, Goto(q, pc),
         [reqs[q] EXCEPT !.pc = pc] \in Request
  PROVE  reqs' \in [Requests -> Request]
  <1>1. reqs' = [reqs EXCEPT ![q] = [reqs[q] EXCEPT !.pc = pc]]
    BY DEF Goto
  <1> QED BY <1>1, PutTypes

LEMMA ClearTypes ==
  ASSUME TypeOK, ClearTOTP
  PROVE  /\ enabled' \in BOOLEAN /\ secret' \in 0..MaxSecrets /\ pending' \in 0..MaxSecrets
         /\ lastStep' \in 0..MaxStep /\ epoch' \in 0..MaxEpoch /\ codes' \subseteq Recovery
         /\ devices' \in [Devices -> {NoRow} \cup (0..MaxEpoch)]
  <1>1. /\ secret' \in 0..MaxSecrets /\ pending' \in 0..MaxSecrets
        /\ lastStep' \in 0..MaxStep /\ epoch' \in 0..MaxEpoch
    BY BoundsAssumption DEF ClearTOTP, TypeOK
  <1>2. /\ enabled' \in BOOLEAN /\ codes' \subseteq Recovery
        /\ devices' \in [Devices -> {NoRow} \cup (0..MaxEpoch)]
    BY DEF ClearTOTP
  <1> QED BY <1>1, <1>2

LEMMA EnvironmentTypes ==
  ASSUME TypeOK,
         \/ Tick \/ ChallengeExpires \/ TOTPSetup \/ AdminResetTOTP
         \/ \E d \in Devices : RevokeDevice(d)
  PROVE  TypeOK'
  <1> USE BoundsAssumption DEF TypeOK, userVars, envVars
  <1>1. CASE Tick
    BY <1>1 DEF Tick
  <1>2. CASE ChallengeExpires
    BY <1>2 DEF ChallengeExpires
  <1>3. CASE TOTPSetup
    BY <1>3 DEF TOTPSetup
  <1>4. CASE AdminResetTOTP
    BY <1>4, ClearTypes DEF AdminResetTOTP
  <1>5. ASSUME NEW d \in Devices, RevokeDevice(d) PROVE TypeOK'
    BY <1>5 DEF RevokeDevice
  <1> QED BY <1>1, <1>2, <1>3, <1>4, <1>5

LEMMA EnrolmentTypes ==
  ASSUME TypeOK, NEW q \in Requests,
         \/ \E c \in TOTP : TOTPConfirm(q, c) \/ TOTPDisable(q, c)
         \/ Activate(q) \/ DisableTOTP(q)
  PROVE  TypeOK'
  <1>1. ASSUME NEW c \in TOTP, TOTPConfirm(q, c) PROVE TypeOK'
    <2>1. pending \in 1..MaxSecrets
      BY <1>1, BoundsAssumption DEF TOTPConfirm, TypeOK
    <2>2. reqs' \in [Requests -> Request]
      BY <1>1, <2>1, PutTypes, RequestTypes DEF TOTPConfirm
    <2> QED BY <1>1, <2>2 DEF TOTPConfirm, TypeOK, userVars, envVars
  <1>2. ASSUME NEW c \in TOTP, TOTPDisable(q, c) PROVE TypeOK'
    <2>1. reqs' \in [Requests -> Request]
      BY <1>2, PutTypes, RequestTypes DEF TOTPDisable
    <2> QED BY <1>2, <2>1 DEF TOTPDisable, TypeOK, userVars, envVars
  <1>3. CASE Activate(q)
    <2>1. reqs' \in [Requests -> Request]
      BY <1>3, DoneTypes DEF Activate
    <2>2. secret' \in 0..MaxSecrets
      <3>1. reqs[q] \in Request
        BY DEF TypeOK
      <3>2. reqs[q].secret \in 1..MaxSecrets
        BY <1>3, <3>1, RequestAt DEF Activate, At
      <3>3. secret' = reqs[q].secret
        BY <1>3 DEF Activate
      <3> QED BY <3>2, <3>3, BoundsAssumption
    <2>3. enrolments' \in 0..MaxEnrolments /\ codes' \subseteq Recovery
      BY <1>3, BoundsAssumption DEF Activate, TypeOK, CodesOf, Recovery
    <2>4. pending' \in 0..MaxSecrets /\ lastStep' \in 0..MaxStep /\ enabled' \in BOOLEAN
      BY <1>3, BoundsAssumption DEF Activate
    <2> QED BY <1>3, <2>1, <2>2, <2>3, <2>4 DEF Activate, TypeOK
  <1>4. CASE DisableTOTP(q)
    <2>1. reqs' \in [Requests -> Request]
      BY <1>4, DoneTypes DEF DisableTOTP
    <2> QED BY <1>4, <2>1, ClearTypes DEF DisableTOTP, TypeOK, envVars
  <1> QED BY <1>1, <1>2, <1>3, <1>4

LEMMA LoginTypes ==
  ASSUME TypeOK, NEW q \in Requests,
         \/ Login(q) \/ LoginChallenged(q) \/ honorTrustedDevice(q)
         \/ \E d \in Devices : LoginWithDevice(q, d) \/ rememberDevice(q, d)
         \/ \E c \in TOTP \cup Recovery : TOTPVerify(q, c)
         \/ ConsumeStep(q) \/ ConsumeRecoveryCode(q) \/ issueCookie(q) \/ Fails(q)
  PROVE  TypeOK'
  <1>0. reqs[q] \in Request /\ epoch \in 0..MaxEpoch
    BY DEF TypeOK
  <1>1. CASE Login(q)
    <2>1. reqs' \in [Requests -> Request]
      BY <1>1, PutTypes, RequestTypes DEF Login
    <2> QED BY <1>1, <2>1 DEF Login, TypeOK, userVars, envVars
  <1>2. CASE LoginChallenged(q)
    BY <1>2 DEF LoginChallenged, TypeOK, userVars, envVars
  <1>3. CASE honorTrustedDevice(q)
    <2>1. reqs' \in [Requests -> Request] /\ challenge' \in BOOLEAN
      BY <1>0, <1>3, RequestAt, GotoTypes, DoneTypes DEF honorTrustedDevice, At, TypeOK
    <2> QED BY <1>3, <2>1 DEF honorTrustedDevice, TypeOK, userVars, envVars
  <1>4. ASSUME NEW d \in Devices, LoginWithDevice(q, d) PROVE TypeOK'
    <2>1. reqs' \in [Requests -> Request]
      BY <1>0, <1>4, PutTypes, RequestTypes DEF LoginWithDevice
    <2> QED BY <1>4, <2>1 DEF LoginWithDevice, TypeOK, userVars, envVars
  <1>5. ASSUME NEW d \in Devices, rememberDevice(q, d) PROVE TypeOK'
    <2>1. reqs[q].epoch \in 0..MaxEpoch /\ [reqs[q] EXCEPT !.pc = "session"] \in Request
      BY <1>0, <1>5, RequestAt DEF rememberDevice, At
    <2>2. reqs' \in [Requests -> Request]
      BY <1>5, <2>1, GotoTypes DEF rememberDevice
    <2> QED BY <1>5, <2>1, <2>2 DEF rememberDevice, TypeOK, userVars, envVars
  <1>6. ASSUME NEW c \in TOTP \cup Recovery, TOTPVerify(q, c) PROVE TypeOK'
    <2>1. PICK pc \in {"consume", "recovery"} :
            /\ pc = "consume" => c \in TOTP
            /\ reqs' = [reqs EXCEPT ![q] = [pc |-> pc, cred |-> c, epoch |-> epoch]]
      BY <1>6 DEF TOTPVerify
    <2>2. reqs' \in [Requests -> Request]
      BY <1>0, <2>1, PutTypes, RequestTypes
    <2> QED BY <1>6, <2>2 DEF TOTPVerify, TypeOK, userVars, envVars
  <1>7. CASE ConsumeStep(q)
    <2>1. /\ reqs[q].cred \in TOTP
          /\ [reqs[q] EXCEPT !.pc = "verified"] \in Request
          /\ [reqs[q] EXCEPT !.pc = "recovery"] \in Request
      BY <1>0, <1>7, RequestAt DEF ConsumeStep, At
    <2>2. reqs' \in [Requests -> Request]
      BY <1>7, <2>1, GotoTypes DEF ConsumeStep
    <2>3. lastStep' \in 0..MaxStep
      BY <1>7, <2>1, BoundsAssumption DEF ConsumeStep, TypeOK, TOTP
    <2> QED BY <1>7, <2>2, <2>3 DEF ConsumeStep, TypeOK, envVars
  <1>8. CASE ConsumeRecoveryCode(q)
    <2>1. reqs' \in [Requests -> Request]
      BY <1>0, <1>8, RequestAt, GotoTypes, DoneTypes DEF ConsumeRecoveryCode, At
    <2>2. codes' \subseteq codes
      BY <1>8 DEF ConsumeRecoveryCode
    <2> QED BY <1>8, <2>1, <2>2 DEF ConsumeRecoveryCode, TypeOK, userVars, envVars
  <1>9. CASE issueCookie(q) \/ Fails(q)
    <2>1. reqs' \in [Requests -> Request]
      BY <1>9, DoneTypes DEF issueCookie, Fails
    <2> QED BY <1>9, <2>1 DEF issueCookie, Fails, TypeOK, userVars, envVars
  <1> QED BY <1>1, <1>2, <1>3, <1>4, <1>5, <1>6, <1>7, <1>8, <1>9

LEMMA NextTypes == TypeOK /\ [Next]_vars => TypeOK'
  <1> SUFFICES ASSUME TypeOK, [Next]_vars PROVE TypeOK'
    OBVIOUS
  <1>1. ASSUME NEW q \in Requests, Handle(q) PROVE TypeOK'
    BY <1>1, EnrolmentTypes, LoginTypes DEF Handle
  <1>2. CASE UNCHANGED vars
    BY <1>2 DEF vars, TypeOK
  <1> QED BY <1>1, <1>2, EnvironmentTypes DEF Next

\* The columns, tables and copies in flight keep their types.
THEOREM TypeCorrect == Spec => []TypeOK
  BY InitTypes, NextTypes, PTL DEF Spec

(* The second factor is all there or not at all: overlapping confirmations,*)
(* a disable or an administrator's reset between a confirmation's check    *)
(* and its transaction, and late uses of recovery codes cannot leave an    *)
(* enabled account without a secret, or codes of another enrolment.        *)
THEOREM EnrolmentStaysWhole == Spec => []EnrolmentIsWhole
  <1>1. Whole => EnrolmentIsWhole
    BY DEF Whole
  <1> QED BY <1>1, InitWhole, NextWhole, PTL DEF Spec

(* Both: at every moment the account's rows and the handlers' copies are   *)
(* well formed and belong to one enrolment, or to none.                    *)
THEOREM AccountStaysSound == Spec => []SecondFactorInv
  <1>1. TypeOK /\ EnrolmentIsWhole => SecondFactorInv
    BY DEF SecondFactorInv
  <1> QED BY <1>1, TypeCorrect, EnrolmentStaysWhole, PTL

-----------------------------------------------------------------------------
(* The history.  A request that carries an epoch, and a device's row, are  *)
(* stamped with the epoch that was read and the number of resets at that   *)
(* time.  Both are counted up in one transaction, so stamps of one epoch   *)
(* have one number of resets, and no stamp is ahead of the account.        *)
Carries(r) == r.pc \in {"device", "consume", "recovery", "verified"}
Stamps == {<<reqs[q].epoch, since[q]>> : q \in {r \in Requests : Carries(reqs[r])}}
          \cup {<<devices[d], since[d]>> : d \in {e \in Devices : devices[e] # NoRow}}
Consistent(S) == \A s, t \in S : s[1] = t[1] => s[2] = t[2]

StampsAgree == /\ Consistent(Stamps \cup {<<epoch, resets>>})
               /\ \A s \in Stamps : s[1] \in 0..epoch

\* The step of a code that was consumed is not ahead of the step stored.
UsedAreBehind == \A c \in used : c \in TOTP /\ c.step <= lastStep

HistoryInv == TypeOK /\ StampsAgree /\ UsedAreBehind

\* What one request's step does to itself, to the devices and to the codes.
Moves(q) ==
    /\ \A p \in Requests \ {q} : reqs'[p] = reqs[p]
    /\ \/ ~Carries(reqs'[q]) \/ reqs'[q] = reqs[q]
       \/ reqs[q] = Idle /\ reqs'[q].epoch = epoch
       \/ reqs[q] # Idle /\ Carries(reqs[q]) /\ reqs'[q].epoch = reqs[q].epoch
    /\ reqs[q].pc = "device" /\ reqs'[q].pc = "session" =>
          devices[reqs[q].device] = reqs[q].epoch /\ reqs[q].device \in Devices
    /\ reqs[q].pc = "consume" /\ reqs'[q].pc = "verified" =>
          reqs[q].cred \in TOTP /\ lastStep < reqs[q].cred.step /\ lastStep' = reqs[q].cred.step

\* A request's step that leaves the enrolment and the devices' rows alone.
Plain(q) == UNCHANGED <<enabled, epoch, devices, enrolments>>

\* A request at rest is idle; one that carries an epoch has its fields.
LEMMA RequestFields ==
  ASSUME NEW r \in Request
  PROVE  /\ r.pc = "idle" => r = Idle
         /\ Carries(r) => r # Idle /\ r.epoch \in 0..MaxEpoch
         /\ r.pc = "device" => r.device \in Devices
         /\ r.pc = "consume" => r.cred \in TOTP
         /\ \A pc : /\ [r EXCEPT !.pc = pc].pc = pc
                    /\ Carries(r) => [r EXCEPT !.pc = pc].epoch = r.epoch
  <1>1. CASE r \in [pc : {"idle", "disable", "session"}]
    BY <1>1 DEF Carries, Idle
  <1>2. CASE r \in [pc : {"activate"}, secret : 1..MaxSecrets]
    BY <1>2 DEF Carries, Idle
  <1>3. CASE r \in [pc : {"device", "session"}, device : Devices, epoch : 0..MaxEpoch]
    BY <1>3 DEF Carries, Idle
  <1>4. CASE r \in [pc : {"consume"}, cred : TOTP, epoch : 0..MaxEpoch]
    BY <1>4 DEF Carries, Idle
  <1>5. CASE r \in [pc : {"recovery", "verified", "session"}, cred : TOTP \cup Recovery,
                    epoch : 0..MaxEpoch]
    BY <1>5 DEF Carries, Idle
  <1> QED BY <1>1, <1>2, <1>3, <1>4, <1>5 DEF Request

LEMMA DoneMoves ==
  ASSUME TypeOK, NEW q \in Requests, Done(q)
  PROVE  Moves(q)
  BY DEF TypeOK, Done, Moves, Carries, Idle

LEMMA GotoMoves ==
  ASSUME TypeOK, NEW q \in Requests, NEW pc, Goto(q, pc), Carries(reqs[q]),
         reqs[q].pc = "device" /\ pc = "session" => devices[reqs[q].device] = reqs[q].epoch,
         reqs[q].pc = "consume" /\ pc = "verified" =>
            lastStep < reqs[q].cred.step /\ lastStep' = reqs[q].cred.step
  PROVE  Moves(q)
  <1>1. reqs[q] \in Request
    BY DEF TypeOK
  <1>2. /\ reqs'[q] = [reqs[q] EXCEPT !.pc = pc]
        /\ \A p \in Requests \ {q} : reqs'[p] = reqs[p]
    BY DEF TypeOK, Goto
  <1>3. reqs'[q].pc = pc /\ reqs'[q].epoch = reqs[q].epoch
    BY <1>1, <1>2, RequestFields
  <1> QED BY <1>1, <1>2, <1>3, RequestFields DEF Moves

LEMMA BeginMoves ==
  ASSUME TypeOK, NEW q \in Requests, At(q, "idle"), NEW r, reqs' = [reqs EXCEPT ![q] = r],
         ~Carries(r) \/ r.epoch = epoch
  PROVE  Moves(q)
  <1>1. reqs[q] = Idle /\ reqs[q].pc = "idle"
    BY RequestFields DEF TypeOK, At
  <1>2. reqs'[q] = r /\ \A p \in Requests \ {q} : reqs'[p] = reqs[p]
    BY DEF TypeOK
  <1> QED BY <1>1, <1>2 DEF Moves

\* The requests' steps that touch neither enrolment, device nor step.
Reads(q) ==
    \/ \E c \in TOTP : TOTPConfirm(q, c) \/ TOTPDisable(q, c)
    \/ Login(q) \/ LoginChallenged(q) \/ honorTrustedDevice(q)
    \/ \E d \in Devices : LoginWithDevice(q, d)
    \/ \E c \in TOTP \cup Recovery : TOTPVerify(q, c)
    \/ ConsumeRecoveryCode(q) \/ issueCookie(q) \/ Fails(q)

LEMMA ReadMoves ==
  ASSUME TypeOK, NEW q \in Requests, Reads(q)
  PROVE  Moves(q) /\ Plain(q) /\ lastStep' = lastStep
  <1>0. reqs[q] \in Request
    BY DEF TypeOK
  <1>1. Plain(q) /\ lastStep' = lastStep
    BY DEF Reads, Plain, TOTPConfirm, TOTPDisable, Login, LoginChallenged, honorTrustedDevice,
           LoginWithDevice, TOTPVerify, ConsumeRecoveryCode, issueCookie, Fails, userVars, envVars
  <1>2. CASE \E c \in TOTP : TOTPConfirm(q, c) \/ TOTPDisable(q, c)
    <2>1. At(q, "idle") /\ \E r : ~Carries(r) /\ reqs' = [reqs EXCEPT ![q] = r]
      BY <1>2 DEF TOTPConfirm, TOTPDisable, Carries
    <2> QED BY <1>1, <2>1, BeginMoves
  <1>3. CASE Login(q)
    <2>1. At(q, "idle") /\ \E r : ~Carries(r) /\ reqs' = [reqs EXCEPT ![q] = r]
      BY <1>3 DEF Login, Carries
    <2> QED BY <1>1, <2>1, BeginMoves
  <1>4. CASE LoginChallenged(q)
    <2>1. reqs' = reqs /\ reqs[q].pc = "idle"
      BY <1>4 DEF LoginChallenged, At
    <2> QED BY <1>1, <2>1 DEF Moves
  <1>5. CASE honorTrustedDevice(q)
    <2>1. reqs[q].pc = "device"
      BY <1>5 DEF honorTrustedDevice, At
    <2>2. Carries(reqs[q])
      BY <2>1 DEF Carries
    <2>3. Done(q) \/ (devices[reqs[q].device] = reqs[q].epoch /\ Goto(q, "session"))
      BY <1>5 DEF honorTrustedDevice
    <2> QED BY <1>1, <2>1, <2>2, <2>3, DoneMoves, GotoMoves
  <1>6. CASE \E d \in Devices : LoginWithDevice(q, d)
    <2>1. At(q, "idle") /\ \E r : r.epoch = epoch /\ reqs' = [reqs EXCEPT ![q] = r]
      BY <1>6 DEF LoginWithDevice
    <2> QED BY <1>1, <2>1, BeginMoves
  <1>7. CASE \E c \in TOTP \cup Recovery : TOTPVerify(q, c)
    <2>1. At(q, "idle") /\ \E r : r.epoch = epoch /\ reqs' = [reqs EXCEPT ![q] = r]
      BY <1>7 DEF TOTPVerify
    <2> QED BY <1>1, <2>1, BeginMoves
  <1>8. CASE ConsumeRecoveryCode(q)
    <2>1. reqs[q].pc = "recovery" /\ Carries(reqs[q])
      BY <1>8 DEF ConsumeRecoveryCode, At, Carries
    <2>2. Done(q) \/ Goto(q, "verified")
      BY <1>8 DEF ConsumeRecoveryCode
    <2> QED BY <1>1, <2>1, <2>2, DoneMoves, GotoMoves
  <1>9. CASE issueCookie(q) \/ Fails(q)
    BY <1>1, <1>9, DoneMoves DEF issueCookie, Fails
  <1> QED BY <1>2, <1>3, <1>4, <1>5, <1>6, <1>7, <1>8, <1>9 DEF Reads

LEMMA ConsumeMoves ==
  ASSUME TypeOK, NEW q \in Requests, ConsumeStep(q)
  PROVE  /\ Moves(q) /\ Plain(q) /\ reqs[q].pc = "consume" /\ reqs[q].cred \in TOTP
         /\ lastStep' \in {lastStep, reqs[q].cred.step} /\ lastStep <= lastStep'
         /\ reqs'[q].pc # "session"
  <1>1. reqs[q] \in Request /\ reqs[q].pc = "consume" /\ Carries(reqs[q]) /\ reqs[q].cred \in TOTP
    BY RequestFields DEF TypeOK, ConsumeStep, At, Carries
  <1>2. \/ Goto(q, "recovery") /\ lastStep' = lastStep
        \/ /\ Goto(q, "verified")
           /\ lastStep' = reqs[q].cred.step /\ lastStep < reqs[q].cred.step
    BY DEF ConsumeStep
  <1>3. Moves(q)
    BY <1>1, <1>2, GotoMoves
  <1>4. reqs'[q].pc \in {"recovery", "verified"}
    <2>1. PICK pc \in {"recovery", "verified"} : reqs'[q] = [reqs[q] EXCEPT !.pc = pc]
      BY <1>2 DEF TypeOK, Goto
    <2> QED BY <1>1, <2>1, RequestFields
  <1>5. lastStep \in Int /\ reqs[q].cred.step \in Int
    BY <1>1 DEF TypeOK, TOTP
  <1> QED BY <1>1, <1>2, <1>3, <1>4, <1>5 DEF ConsumeStep, Plain, envVars

LEMMA RememberMoves ==
  ASSUME TypeOK, NEW q \in Requests, NEW d \in Devices, rememberDevice(q, d)
  PROVE  /\ Moves(q) /\ Carries(reqs[q]) /\ reqs'[q] # reqs[q]
         /\ devices[d] = NoRow /\ devices'[d] = reqs[q].epoch /\ reqs[q].epoch # NoRow
         /\ \A e \in Devices \ {d} : devices'[e] = devices[e]
         /\ UNCHANGED <<enabled, epoch, enrolments, lastStep>>
  <1>1. reqs[q] \in Request /\ reqs[q].pc = "verified" /\ Carries(reqs[q])
    BY DEF TypeOK, rememberDevice, At, Carries
  <1>2. Goto(q, "session") /\ UNCHANGED <<enabled, epoch, enrolments, lastStep>>
    BY DEF rememberDevice, userVars, envVars
  <1>3. Moves(q)
    BY <1>1, <1>2, GotoMoves
  <1>4. reqs'[q].pc = "session"
    BY <1>1, <1>2, RequestFields DEF TypeOK, Goto
  <1>5. reqs[q].epoch \in 0..MaxEpoch
    BY <1>1, RequestFields
  <1>6. reqs[q].epoch # NoRow
    BY <1>5 DEF NoRow
  <1> QED BY <1>1, <1>2, <1>3, <1>4, <1>6 DEF rememberDevice, TypeOK

\* The steps of the account: a reset, an activation, a step of a request
\* between them, or none.
LEMMA StepShapes ==
  ASSUME TypeOK, Next
  PROVE  \/ /\ TurnsOff /\ ClearTOTP /\ UNCHANGED enrolments
            /\ \A q \in Requests : reqs'[q] \in {reqs[q], Idle}
         \/ \E q \in Requests : Reads(q) \/ ConsumeStep(q)
         \/ \E q \in Requests, d \in Devices : rememberDevice(q, d)
         \/ \E q \in Requests : Activate(q) /\ Moves(q) /\ UNCHANGED <<epoch, devices>>
         \/ /\ UNCHANGED <<enabled, epoch, enrolments, lastStep, reqs>>
            /\ \A d \in Devices : devices'[d] \in {devices[d], NoRow}
  <1>1. CASE AdminResetTOTP
    BY <1>1 DEF AdminResetTOTP, TurnsOff, envVars
  <1>2. ASSUME NEW q \in Requests, DisableTOTP(q)
        PROVE  /\ TurnsOff /\ ClearTOTP /\ UNCHANGED enrolments
               /\ \A p \in Requests : reqs'[p] \in {reqs[p], Idle}
    BY <1>2 DEF DisableTOTP, TurnsOff, Done, TypeOK, envVars
  <1>3. ASSUME NEW q \in Requests, Activate(q)
        PROVE  Moves(q) /\ UNCHANGED <<epoch, devices>>
    BY <1>3, DoneMoves DEF Activate
  <1>4. CASE Tick \/ ChallengeExpires \/ TOTPSetup
    BY <1>4 DEF Tick, ChallengeExpires, TOTPSetup, userVars, envVars
  <1>5. CASE \E d \in Devices : RevokeDevice(d)
    BY <1>5 DEF RevokeDevice, userVars, envVars, TypeOK
  <1>6. ASSUME NEW q \in Requests, Handle(q)
        PROVE  \/ Reads(q) \/ ConsumeStep(q) \/ Activate(q) \/ DisableTOTP(q)
               \/ \E d \in Devices : rememberDevice(q, d)
    BY <1>6 DEF Handle, Reads
  <1> QED BY <1>1, <1>2, <1>3, <1>4, <1>5, <1>6 DEF Next

-----------------------------------------------------------------------------
\* A step that turns nothing off: every stamp is one there was, or that of now.
LEMMA StampsMove ==
  ASSUME TypeOK, MCNext, epoch' = epoch, resets' = resets,
         \/ UNCHANGED <<reqs>> /\ \A d \in Devices : devices'[d] \in {devices[d], NoRow}
         \/ \E q \in Requests : Moves(q) /\ devices' = devices
         \/ \E q \in Requests, d \in Devices : rememberDevice(q, d)
  PROVE  Stamps' \cup {<<epoch', resets'>>} \subseteq Stamps \cup {<<epoch, resets>>}
  <1> DEFINE All == Stamps \cup {<<epoch, resets>>}
  <1>1. /\ \A q \in Requests :
             since'[q] = IF reqs[q] = Idle /\ reqs'[q] # Idle THEN resets ELSE since[q]
        /\ \A d \in Devices :
             since'[d] = IF \E q \in Requests : Remembers(q, d)
                         THEN since[CHOOSE q \in Requests : Remembers(q, d)]
                         ELSE since[d]
    BY TableAssumption DEF MCNext
  <1>2. ASSUME NEW q \in Requests, Carries(reqs'[q]),
               reqs'[q] = reqs[q] \/ Moves(q)
        PROVE  <<reqs'[q].epoch, since'[q]>> \in All
    <2>1. CASE reqs'[q] = reqs[q]
      BY <1>1, <1>2, <2>1 DEF Stamps
    <2>2. CASE reqs'[q] # reqs[q]
      <3>1. reqs'[q] # Idle
        BY <1>2 DEF Carries, Idle
      <3>2. CASE reqs[q] = Idle /\ reqs'[q].epoch = epoch
        BY <1>1, <3>1, <3>2
      <3>3. CASE reqs[q] # Idle /\ Carries(reqs[q]) /\ reqs'[q].epoch = reqs[q].epoch
        BY <1>1, <3>3 DEF Stamps
      <3> QED BY <1>2, <2>2, <3>2, <3>3 DEF Moves
    <2> QED BY <2>1, <2>2
  <1>3. \A q \in Requests : Carries(reqs'[q]) => <<reqs'[q].epoch, since'[q]>> \in All
    <2>1. \A q \in Requests : reqs'[q] = reqs[q] \/ Moves(q)
      <3>1. CASE UNCHANGED reqs
        BY <3>1
      <3>2. CASE \E q \in Requests : Moves(q)
        BY <3>2 DEF Moves
      <3>3. CASE \E q \in Requests, d \in Devices : rememberDevice(q, d)
        <4>1. \E q \in Requests : Moves(q)
          BY <3>3, RememberMoves
        <4> QED BY <4>1 DEF Moves
      <3> QED BY <3>1, <3>2, <3>3
    <2> QED BY <1>2, <2>1
  <1>4. ASSUME NEW d \in Devices, devices'[d] # NoRow
        PROVE  <<devices'[d], since'[d]>> \in All
    <2>1. CASE devices'[d] = devices[d]
      <3>1. \A q \in Requests : ~Remembers(q, d)
        BY <1>4, <2>1 DEF Remembers
      <3>2. since'[d] = since[d]
        BY <1>1, <3>1
      <3> QED BY <1>4, <2>1, <3>2 DEF Stamps
    <2>2. CASE devices'[d] # devices[d]
      <3>1. PICK q \in Requests : rememberDevice(q, d)
        BY <1>4, <2>2, RememberMoves
      <3>2. /\ Moves(q) /\ Carries(reqs[q]) /\ reqs'[q] # reqs[q]
            /\ devices[d] = NoRow /\ devices'[d] = reqs[q].epoch
        BY <3>1, RememberMoves
      <3>3. Remembers(q, d) /\ \A p \in Requests \ {q} : ~Remembers(p, d)
        BY <1>4, <3>2 DEF Remembers, Moves
      <3>4. (CHOOSE p \in Requests : Remembers(p, d)) = q
        BY <3>3
      <3>5. since'[d] = since[q]
        BY <1>1, <3>3, <3>4
      <3> QED BY <3>2, <3>5 DEF Stamps
    <2> QED BY <2>1, <2>2
  <1> QED BY <1>3, <1>4 DEF Stamps

\* A reset: no stamp is new, and the account is ahead of them all.
LEMMA StampsCleared ==
  ASSUME HistoryInv, MCNext, ClearTOTP, \A q \in Requests : reqs'[q] \in {reqs[q], Idle}
  PROVE  StampsAgree'
  <1>0. epoch \in Nat /\ epoch' = epoch + 1
    BY BoundsAssumption DEF ClearTOTP, HistoryInv, TypeOK
  <1>1. \A q \in Requests : Carries(reqs'[q]) => reqs'[q] = reqs[q] /\ since'[q] = since[q]
    BY DEF MCNext, Carries, Idle
  <1>2. \A d \in Devices : devices'[d] = NoRow
    BY DEF ClearTOTP
  <1>3. Stamps' \subseteq Stamps
    BY <1>1, <1>2 DEF Stamps
  <1>4. \A s \in Stamps : s[1] \in 0..epoch
    BY DEF HistoryInv, StampsAgree
  <1>5. \A s \in Stamps' : s[1] \in 0..epoch' /\ s[1] # epoch'
    BY <1>0, <1>3, <1>4
  <1>6. Consistent(Stamps)
    BY DEF HistoryInv, StampsAgree, Consistent
  <1>7. Consistent(Stamps' \cup {<<epoch', resets'>>})
    BY <1>3, <1>5, <1>6 DEF Consistent
  <1> QED BY <1>5, <1>7 DEF StampsAgree, Consistent

LEMMA StampsKept ==
  ASSUME HistoryInv, epoch' = epoch,
         Stamps' \cup {<<epoch', resets'>>} \subseteq Stamps \cup {<<epoch, resets>>}
  PROVE  StampsAgree'
  <1>0. epoch \in Nat
    BY BoundsAssumption DEF HistoryInv, TypeOK
  <1>1. Consistent(Stamps' \cup {<<epoch', resets'>>})
    BY DEF HistoryInv, StampsAgree, Consistent
  <1>2. \A s \in Stamps' : s[1] \in 0..epoch'
    BY <1>0 DEF HistoryInv, StampsAgree
  <1> QED BY <1>1, <1>2 DEF StampsAgree, Consistent

\* Whatever the step, each request moves as it should or stays, or is dropped.
LEMMA RequestsMove ==
  ASSUME TypeOK, Next, NEW q \in Requests
  PROVE  Moves(q) \/ reqs'[q] = reqs[q] \/ reqs'[q] = Idle
  <1>1. \A p \in Requests : Moves(p) => Moves(q) \/ reqs'[q] = reqs[q]
    BY DEF Moves
  <1> QED BY <1>1, StepShapes, ReadMoves, ConsumeMoves, RememberMoves

LEMMA UsedKept ==
  ASSUME HistoryInv, MCNext
  PROVE  UsedAreBehind'
  <1>0. TypeOK /\ Next /\ lastStep \in Int /\ UsedAreBehind
    BY DEF HistoryInv, MCNext, TypeOK
  <1>1. used' \in {{}, used \cup {reqs[q].cred : q \in {r \in Requests : Consumes(r)}}}
    BY DEF MCNext
  <1>2. ASSUME lastStep' = lastStep, \A q \in Requests : ~Consumes(q)
        PROVE  UsedAreBehind'
    BY <1>0, <1>1, <1>2 DEF UsedAreBehind
  <1>3. ASSUME NEW q \in Requests, Moves(q), lastStep' = lastStep
        PROVE  \A p \in Requests : ~Consumes(p)
    <2>1. ~Consumes(q)
      <3> SUFFICES ASSUME Consumes(q) PROVE FALSE
        OBVIOUS
      <3>1. reqs[q].cred \in TOTP /\ lastStep < reqs[q].cred.step /\ lastStep' = reqs[q].cred.step
        BY <1>3 DEF Consumes, Moves
      <3> QED BY <1>0, <1>3, <3>1
    <2>2. \A p \in Requests \ {q} : ~Consumes(p)
      BY <1>3 DEF Moves, Consumes
    <2> QED BY <2>1, <2>2
  <1>4. CASE TurnsOff \/ (\E q \in Requests : Activate(q))
    <2>1. CASE TurnsOff
      BY <2>1 DEF MCNext, UsedAreBehind
    <2>2. CASE \E q \in Requests : Activate(q)
      <3>1. enrolments' # enrolments
        BY <1>0, <2>2 DEF Activate, TypeOK
      <3> QED BY <3>1 DEF MCNext, UsedAreBehind
    <2> QED BY <1>4, <2>1, <2>2
  <1>5. CASE \E q \in Requests : Reads(q)
    BY <1>0, <1>2, <1>3, <1>5, ReadMoves
  <1>6. ASSUME NEW q \in Requests, ConsumeStep(q) PROVE UsedAreBehind'
    <2>1. /\ Moves(q) /\ reqs[q].cred \in TOTP
          /\ lastStep' \in {lastStep, reqs[q].cred.step} /\ lastStep <= lastStep'
      BY <1>0, <1>6, ConsumeMoves
    <2>2. lastStep' \in Int /\ reqs[q].cred.step \in Int
      BY <1>0, <2>1 DEF TOTP
    <2>3. \A p \in Requests \ {q} : ~Consumes(p)
      BY <2>1 DEF Moves, Consumes
    <2>4. Consumes(q) => reqs[q].cred.step = lastStep'
      BY <2>1 DEF Moves, Consumes
    <2>5. \A c \in used : c \in TOTP /\ c.step <= lastStep'
      <3> SUFFICES ASSUME NEW c \in used PROVE c \in TOTP /\ c.step <= lastStep'
        OBVIOUS
      <3>1. c \in TOTP /\ c.step <= lastStep /\ c.step \in Int
        BY <1>0 DEF UsedAreBehind, TOTP
      <3> QED BY <1>0, <2>1, <2>2, <3>1
    <2>6. \A c \in used' : c \in used \/ (c = reqs[q].cred /\ Consumes(q))
      BY <1>1, <2>3
    <2> QED BY <2>1, <2>2, <2>4, <2>5, <2>6 DEF UsedAreBehind
  <1>7. CASE \E q \in Requests, d \in Devices : rememberDevice(q, d)
    BY <1>0, <1>2, <1>3, <1>7, RememberMoves
  <1>8. CASE UNCHANGED <<lastStep, reqs>>
    <2>1. \A q \in Requests : ~Consumes(q)
      BY <1>8 DEF Consumes
    <2> QED BY <1>2, <1>8, <2>1
  <1> QED BY <1>0, <1>4, <1>5, <1>6, <1>7, <1>8, StepShapes

LEMMA StampsStep ==
  ASSUME HistoryInv, MCNext
  PROVE  StampsAgree'
  <1>0. TypeOK /\ Next /\ resets' = IF enabled /\ ~enabled' THEN resets + 1 ELSE resets
    BY DEF HistoryInv, MCNext
  <1>1. CASE /\ TurnsOff /\ ClearTOTP /\ UNCHANGED enrolments
             /\ \A q \in Requests : reqs'[q] \in {reqs[q], Idle}
    BY <1>1, StampsCleared
  <1>2. CASE \E q \in Requests : Reads(q) \/ ConsumeStep(q)
    <2>1. PICK q \in Requests : Moves(q) /\ Plain(q)
      BY <1>0, <1>2, ReadMoves, ConsumeMoves
    <2>2. epoch' = epoch /\ resets' = resets /\ devices' = devices
      BY <1>0, <2>1 DEF Plain
    <2> QED BY <1>0, <2>1, <2>2, StampsMove, StampsKept
  <1>3. CASE \E q \in Requests, d \in Devices : rememberDevice(q, d)
    <2>1. epoch' = epoch /\ enabled' = enabled
      BY <1>0, <1>3, RememberMoves
    <2>2. resets' = resets
      BY <1>0, <2>1
    <2> QED BY <1>0, <1>3, <2>1, <2>2, StampsMove, StampsKept
  <1>4. CASE \E q \in Requests : Activate(q) /\ Moves(q) /\ UNCHANGED <<epoch, devices>>
    <2>1. PICK q \in Requests : Activate(q) /\ Moves(q) /\ UNCHANGED <<epoch, devices>>
      BY <1>4
    <2>2. resets' = resets
      BY <1>0, <2>1 DEF Activate
    <2> QED BY <1>0, <2>1, <2>2, StampsMove, StampsKept
  <1>5. CASE /\ UNCHANGED <<enabled, epoch, enrolments, lastStep, reqs>>
             /\ \A d \in Devices : devices'[d] \in {devices[d], NoRow}
    <2>1. resets' = resets
      BY <1>0, <1>5
    <2> QED BY <1>0, <1>5, <2>1, StampsMove, StampsKept
  <1> QED BY <1>0, <1>1, <1>2, <1>3, <1>4, <1>5, StepShapes

LEMMA HistoryInit == MCInit => HistoryInv
  <1> SUFFICES ASSUME MCInit PROVE HistoryInv
    OBVIOUS
  <1>1. TypeOK
    BY InitTypes DEF MCInit
  <1>2. Stamps = {}
    BY DEF MCInit, Init, Stamps, Carries, Idle
  <1> QED BY <1>1, <1>2 DEF HistoryInv, StampsAgree, Consistent, UsedAreBehind, MCInit

LEMMA HistoryStep == HistoryInv /\ [MCNext]_mcVars => HistoryInv'
  <1> SUFFICES ASSUME HistoryInv, [MCNext]_mcVars PROVE HistoryInv'
    OBVIOUS
  <1>1. CASE MCNext
    <2>1. TypeOK'
      BY <1>1, NextTypes DEF HistoryInv, MCNext
    <2> QED BY <1>1, <2>1, StampsStep, UsedKept DEF HistoryInv
  <1>2. CASE UNCHANGED mcVars
    <2>1. TypeOK'
      BY <1>2, NextTypes DEF HistoryInv, mcVars, vars
    <2>2. Stamps' = Stamps
      BY <1>2 DEF mcVars, Stamps
    <2> QED BY <1>2, <2>1, <2>2 DEF HistoryInv, StampsAgree, UsedAreBehind, mcVars
  <1> QED BY <1>1, <1>2

THEOREM HistorySoundness == MCSpec => []HistoryInv
  BY HistoryInit, HistoryStep, PTL DEF MCSpec

(* Between an enrolment and the next, or a reset, an authenticator code    *)
(* lets one login through, however many read the state before any of them  *)
(* stored its step (store.go:758-759).                                     *)
THEOREM CodesWorkOnce == MCSpec => CodeWorksOnce
  <1>1. HistoryInv /\ [MCNext]_mcVars =>
          [\A q \in Requests : Consumes(q) => reqs[q].cred \notin used]_mcVars
    <2> SUFFICES ASSUME HistoryInv, MCNext, NEW q \in Requests, Consumes(q), reqs[q].cred \in used
                 PROVE  FALSE
      OBVIOUS
    <2>1. TypeOK /\ Next /\ lastStep \in Int
      BY DEF HistoryInv, MCNext, TypeOK
    <2>2. Moves(q)
      BY <2>1, RequestsMove DEF Consumes, Idle
    <2>3. reqs[q].cred \in TOTP /\ lastStep < reqs[q].cred.step
      BY <2>2 DEF Moves, Consumes
    <2>4. reqs[q].cred.step <= lastStep
      BY DEF HistoryInv, UsedAreBehind
    <2>5. reqs[q].cred.step \in Int
      BY <2>3 DEF TOTP
    <2> QED BY <2>1, <2>3, <2>4, <2>5
  <1> QED BY <1>1, HistorySoundness, PTL DEF MCSpec, CodeWorksOnce

(* A device remembered before the second factor was turned off is not      *)
(* trusted by a login that began after, even when its row was written      *)
(* late: the epoch the row carries is that of the login that asked for it  *)
(* (handler.go's rememberDevice and honorTrustedDevice).                   *)
THEOREM TrustDoesEnd == MCSpec => TrustEndsWithReset
  <1>1. HistoryInv /\ [MCNext]_mcVars =>
          [\A q \in Requests : reqs[q].pc = "device" /\ reqs'[q].pc = "session" =>
              since[reqs[q].device] = since[q]]_mcVars
    <2> SUFFICES ASSUME HistoryInv, MCNext, NEW q \in Requests,
                        reqs[q].pc = "device", reqs'[q].pc = "session"
                 PROVE  since[reqs[q].device] = since[q]
      OBVIOUS
    <2>1. TypeOK /\ Next /\ reqs[q] \in Request
      BY DEF HistoryInv, MCNext, TypeOK
    <2>2. Moves(q)
      BY <2>1, RequestsMove DEF Idle
    <2>3. devices[reqs[q].device] = reqs[q].epoch /\ reqs[q].device \in Devices
      BY <2>2 DEF Moves
    <2>4. Carries(reqs[q]) /\ reqs[q].epoch # NoRow
      <3>1. Carries(reqs[q])
        BY DEF Carries
      <3>2. reqs[q].epoch \in 0..MaxEpoch
        BY <2>1, <3>1, RequestFields
      <3> QED BY <3>1, <3>2 DEF NoRow
    <2>5. /\ <<reqs[q].epoch, since[q]>> \in Stamps
          /\ <<reqs[q].epoch, since[reqs[q].device]>> \in Stamps
      BY <2>3, <2>4 DEF Stamps
    <2> QED BY <2>5 DEF HistoryInv, StampsAgree, Consistent
  <1> QED BY <1>1, HistorySoundness, PTL DEF MCSpec, TrustEndsWithReset
=============================================================================
