-------------------------- MODULE MCSecondFactor --------------------------
(* SecondFactor with the history its properties speak of.                  *)
EXTENDS SecondFactor, TLC

\* The history keeps one table for both.
ASSUME TableAssumption == Requests \cap Devices = {}

VARIABLES used,      \* authenticator codes consumed since the last enrolment
                     \* or reset
          resets,    \* times the second factor was turned off
          since      \* resets when a request, or a device's login, began

mcVars == <<enabled, secret, pending, lastStep, epoch, codes, devices, cookies,
            challenge, clock, minted, enrolments, reqs, used, resets, since>>

Symmetry == Permutations(Requests)

Consumes(q) == reqs[q].pc = "consume" /\ reqs'[q].pc = "verified"
Remembers(q, d) == devices[d] = NoRow /\ devices'[d] # NoRow /\ reqs'[q] # reqs[q]

TurnsOff == AdminResetTOTP \/ \E q \in Requests : DisableTOTP(q)

MCInit == Init /\ used = {} /\ resets = 0 /\ since = [x \in Requests \cup Devices |-> 0]

MCNext ==
    /\ Next
    /\ used' = IF enrolments' # enrolments \/ TurnsOff THEN {}
               ELSE used \cup {reqs[q].cred : q \in {r \in Requests : Consumes(r)}}
    /\ resets' = IF enabled /\ ~enabled' THEN resets + 1 ELSE resets
    /\ since' = [x \in Requests \cup Devices |->
          IF x \in Requests /\ reqs[x] = Idle /\ reqs'[x] # Idle THEN resets
          ELSE IF x \in Requests THEN since[x]
          ELSE IF \E q \in Requests : Remembers(q, x)
               THEN since[CHOOSE q \in Requests : Remembers(q, x)]
          ELSE since[x]]

MCSpec == MCInit /\ [][MCNext]_mcVars

(* "a concurrent verify with the same code can only succeed once"          *)
(* (store.go:758-759): until the second factor is enrolled anew or turned  *)
(* off, no authenticator code lets two logins through, although each read  *)
(* the state before the other's step was stored.                           *)
CodeWorksOnce ==
    [][\A q \in Requests : Consumes(q) => reqs[q].cred \notin used]_mcVars

(* A device remembered by a login that began before the second factor was  *)
(* turned off is not trusted by a login that began after, not even when    *)
(* its row was written late, and the account enrolled again meanwhile.     *)
TrustEndsWithReset ==
    [][\A q \in Requests :
          reqs[q].pc = "device" /\ reqs'[q].pc = "session" =>
             since[reqs[q].device] = since[q]]_mcVars
=============================================================================
