-------------------------- MODULE ActionRunsProofs --------------------------
(***************************************************************************)
(* The gate and the safety of runs, for any number of callers, runs,       *)
(* hosts, retained rows and settings, any fallback, through crashes,       *)
(* drains, failing statements and moves of the limit.                      *)
(*                                                                         *)
(* The gate comes first, on its own.  Its inductive invariant is Inv: the  *)
(* type invariant, the shape of the queue, the slot count, and the reason  *)
(* a waiter is never left alone, which has to be stated about `active'     *)
(* rather than about the callers for the induction to go through.          *)
(*                                                                         *)
(* The invariant Sound of the runs is inductive only as a whole: the lock  *)
(* table protects a run because a lock is dropped by its owner or with the *)
(* process (LiveNeedsServer), and the table wiped at boot is known to have *)
(* no owner because nothing survives the process.                          *)
(***************************************************************************)
EXTENDS ActionRuns, MCGate, FiniteSetTheorems, SequenceTheorems, TLAPS

Served == waiters # <<>> => active >= 1

Inv == GateTypeOK /\ QueueWellFormed /\ NoSlotLeak /\ Served

-----------------------------------------------------------------------------
\* The fallback of LimitOf makes every ceiling positive (gate.go:36-45).
LEMMA LimitPositive ==
    ASSUME setting \in Settings
    PROVE  limit \in Nat \ {0}
BY GateAssumption DEF limit, LimitOf

\* releaseLocked admits as many waiters as fit, and stops short of the queue
\* only at the ceiling (gate.go:103-117).
LEMMA AdmittedBound ==
    ASSUME GateTypeOK, NEW a \in Nat
    PROVE  /\ Admitted(a) \in 0..Len(waiters)
           /\ Admitted(a) > 0 => a + Admitted(a) <= limit
           /\ Admitted(a) < Len(waiters) => a + Admitted(a) >= limit
<1>1. limit \in Nat \ {0}  BY LimitPositive DEF GateTypeOK
<1>2. Len(waiters) \in Nat  BY LenProperties DEF GateTypeOK
<1> QED  BY <1>1, <1>2 DEF Admitted

\* Dropping the first k elements of a sequence.
LEMMA DropFirst ==
    ASSUME NEW S, NEW s \in Seq(S), NEW k \in 0..Len(s)
    PROVE  /\ SubSeq(s, k + 1, Len(s)) \in Seq(S)
           /\ Len(SubSeq(s, k + 1, Len(s))) = Len(s) - k
           /\ \A i \in 1..(Len(s) - k) : SubSeq(s, k + 1, Len(s))[i] = s[k + i]
<1>1. Len(s) \in Nat /\ \A i \in 1..Len(s) : s[i] \in S
  BY LenProperties, ElementOfSeq
<1>2. k + 1 \in Int /\ Len(s) \in Int /\ \A i \in (k + 1)..Len(s) : s[i] \in S
  BY <1>1
<1>3. /\ SubSeq(s, k + 1, Len(s)) \in Seq(S)
      /\ Len(SubSeq(s, k + 1, Len(s))) =
            IF k + 1 <= Len(s) THEN Len(s) - (k + 1) + 1 ELSE 0
      /\ \A i \in 1..(Len(s) - (k + 1) + 1) :
            SubSeq(s, k + 1, Len(s))[i] = s[(k + 1) + i - 1]
  BY <1>2, SubSeqProperties
<1> QED  BY <1>1, <1>3

\* Taking element n out of a sequence.
LEMMA DropOne ==
    ASSUME NEW S, NEW s \in Seq(S), NEW n \in 1..Len(s)
    PROVE  LET t == SubSeq(s, 1, n - 1) \o SubSeq(s, n + 1, Len(s))
           IN  /\ t \in Seq(S)
               /\ Len(t) = Len(s) - 1
               /\ \A i \in 1..(Len(s) - 1) : t[i] = IF i < n THEN s[i] ELSE s[i + 1]
<1> DEFINE u == SubSeq(s, 1, n - 1)
           v == SubSeq(s, n + 1, Len(s))
<1>1. Len(s) \in Nat /\ \A i \in 1..Len(s) : s[i] \in S
  BY LenProperties, ElementOfSeq
<1>2. 1 \in Int /\ n - 1 \in Int /\ \A i \in 1..(n - 1) : s[i] \in S
  BY <1>1
<1>3. /\ u \in Seq(S)
      /\ Len(u) = IF 1 <= n - 1 THEN (n - 1) - 1 + 1 ELSE 0
      /\ \A i \in 1..((n - 1) - 1 + 1) : u[i] = s[1 + i - 1]
  BY <1>2, SubSeqProperties
<1>4. v \in Seq(S) /\ Len(v) = Len(s) - n /\ \A i \in 1..(Len(s) - n) : v[i] = s[n + i]
  <2>1. n \in 0..Len(s)  BY <1>1
  <2> QED  BY <2>1, DropFirst
<1>5. Len(u) = n - 1 /\ \A i \in 1..(n - 1) : u[i] = s[i]
  BY <1>1, <1>3
<1>6. /\ u \o v \in Seq(S)
      /\ Len(u \o v) = Len(u) + Len(v)
      /\ \A i \in 1..(Len(u) + Len(v)) :
            (u \o v)[i] = IF i <= Len(u) THEN u[i] ELSE v[i - Len(u)]
  BY <1>3, <1>4, ConcatProperties
<1> HIDE DEF u, v
<1>7. Len(u) + Len(v) = Len(s) - 1
  BY <1>1, <1>4, <1>5
<1>8. ASSUME NEW i \in 1..(Len(s) - 1)
      PROVE  (u \o v)[i] = IF i < n THEN s[i] ELSE s[i + 1]
  <2>1. CASE i < n
    <3>1. i \in 1..(n - 1) /\ i <= Len(u) /\ i \in 1..(Len(u) + Len(v))
      BY <1>1, <1>5, <1>7, <2>1
    <3>2. (u \o v)[i] = u[i]  BY <1>6, <3>1
    <3> QED  BY <1>5, <2>1, <3>1, <3>2
  <2>2. CASE ~(i < n)
    <3>1. i - (n - 1) \in 1..(Len(s) - n) /\ ~(i <= n - 1)  BY <1>1, <2>2
    <3>2. (u \o v)[i] = v[i - (n - 1)]  BY <1>5, <1>6, <1>7, <3>1
    <3>3. v[i - (n - 1)] = s[n + (i - (n - 1))]  BY <1>4, <3>1
    <3>4. n + (i - (n - 1)) = i + 1  BY <1>1
    <3> QED  BY <2>2, <3>2, <3>3, <3>4
  <2> QED  BY <2>1, <2>2
<1> QED  BY <1>6, <1>7, <1>8, Zenon DEF u, v

-----------------------------------------------------------------------------
\* The channels releaseLocked closes when it admits k waiters.
First(k) == {waiters[i] : i \in 1..k}

\* The slots' owners can be counted.
LEMMA OwnersFinite ==
    IsFiniteSet(SlotOwners) /\ SlotOwners \subseteq Callers
<1>1. SlotOwners \in SUBSET Callers  BY DEF SlotOwners, Holding, Signaled
<1> QED  BY <1>1, GateAssumption, FS_Subset

\* Queued channels are distinct, so that k of them are k callers.
LEMMA FirstCardinality ==
    ASSUME GateTypeOK, QueueWellFormed, NEW k \in 0..Len(waiters)
    PROVE  IsFiniteSet(First(k)) /\ Cardinality(First(k)) = k
<1> DEFINE f == [i \in 1..k |-> waiters[i]]
<1>1. Len(waiters) \in Nat  BY LenProperties DEF GateTypeOK
<1>2. k \in Nat /\ 1..k \subseteq 1..Len(waiters)  BY <1>1
<1>3. f \in [1..k -> First(k)]  BY DEF First
<1>4. \A i, j \in 1..k : f[i] = f[j] => i = j  BY <1>2 DEF QueueWellFormed
<1>5. \A c \in First(k) : \E i \in 1..k : f[i] = c  BY DEF First
<1>6. f \in Bijection(1..k, First(k))
  BY <1>3, <1>4, <1>5, Zenon DEF Bijection, Injection, Surjection, IsInjective
<1>7. ExistsBijection(1..k, First(k))  BY <1>6, Zenon DEF ExistsBijection
<1> QED  BY <1>2, <1>7, FS_CountingElements, FS_NatBijection

\* A caller that gives its slot up: releaseLocked hands slots to a prefix of
\* the queue and to nobody else.
LEMMA HandOff ==
    ASSUME Inv, NEW c \in SlotOwners, releaseLocked,
           stage' = [stage EXCEPT ![c] = "out"]
    PROVE  LET k == Admitted(active - 1)
           IN  /\ active \in Nat \ {0}
               /\ k \in 0..Len(waiters)
               /\ active' = active - 1 + k
               /\ waiters' \in Seq(Callers)
               /\ Len(waiters') = Len(waiters) - k
               /\ \A i \in 1..(Len(waiters) - k) : waiters'[i] = waiters[k + i]
               /\ SlotOwners' = (SlotOwners \ {c}) \cup First(k)
               /\ First(k) \cap SlotOwners = {}
               /\ Signaled' = (Signaled \ {c}) \cup First(k)
<1> DEFINE k == Admitted(active - 1)
<1> USE DEF Inv
<1>1. active \in Nat \ {0}
  <2>1. Cardinality(SlotOwners) # 0  BY OwnersFinite, FS_EmptySet
  <2> QED  BY <2>1 DEF GateTypeOK, NoSlotLeak
<1>2. active - 1 \in Nat  BY <1>1
<1>3. k \in 0..Len(waiters)  BY <1>2, AdmittedBound
<1>4. active' = active - 1 + k /\ waiters' = SubSeq(waiters, k + 1, Len(waiters))
  <2>1. (IF active > 0 THEN active - 1 ELSE active) = active - 1  BY <1>1
  <2> QED  BY <2>1, Zenon DEF releaseLocked
<1> HIDE DEF k
<1>5. /\ waiters' \in Seq(Callers)
      /\ Len(waiters') = Len(waiters) - k
      /\ \A i \in 1..(Len(waiters) - k) : waiters'[i] = waiters[k + i]
  BY <1>3, <1>4, DropFirst DEF GateTypeOK
<1>6. Len(waiters) \in Nat  BY LenProperties DEF GateTypeOK
<1>7. Queued' = {waiters[i] : i \in (k + 1)..Len(waiters)}
  <2>1. \A i \in 1..(Len(waiters) - k) : k + i \in (k + 1)..Len(waiters)
    BY <1>3, <1>6
  <2>2. \A j \in (k + 1)..Len(waiters) : j - k \in 1..(Len(waiters) - k) /\ k + (j - k) = j
    BY <1>3, <1>6
  <2>3. Queued' = {waiters'[i] : i \in 1..(Len(waiters) - k)}  BY <1>5 DEF Queued
  <2>4. ASSUME NEW d \in Queued'
        PROVE  d \in {waiters[i] : i \in (k + 1)..Len(waiters)}
    BY <1>5, <2>1, <2>3, <2>4
  <2>5. ASSUME NEW j \in (k + 1)..Len(waiters)
        PROVE  waiters[j] \in Queued'
    BY <1>5, <2>2, <2>3
  <2> QED  BY <2>4, <2>5
<1>8. Queued = First(k) \cup Queued'
  <2>1. \A i : i \in 1..Len(waiters) <=> (i \in 1..k \/ i \in (k + 1)..Len(waiters))
    BY <1>3, <1>6
  <2> QED  BY <1>7, <2>1 DEF Queued, First
<1>9. First(k) \cap Queued' = {}
  <2>1. \A i \in 1..k, j \in (k + 1)..Len(waiters) :
           i \in 1..Len(waiters) /\ j \in 1..Len(waiters) /\ i # j
    BY <1>3, <1>6
  <2> QED  BY <1>7, <2>1 DEF QueueWellFormed, First
<1>10. \A d \in Queued : d \in Callers /\ stage[d] \in {"select", "cancelling"}
  <2>1. \A i \in 1..Len(waiters) : waiters[i] \in Callers
    BY ElementOfSeq DEF GateTypeOK
  <2> QED  BY <2>1 DEF Queued, QueueWellFormed
<1>11. c \in Callers /\ c \notin Queued
  BY <1>10, OwnersFinite DEF SlotOwners, Holding, Signaled
<1>12. \A d \in Callers : stage'[d] = IF d = c THEN "out" ELSE stage[d]
  BY <1>11 DEF GateTypeOK
<1>13. Signaled' = (Signaled \ {c}) \cup First(k)
  BY <1>8, <1>9, <1>10, <1>11, <1>12 DEF Signaled
<1>14. Holding' = Holding \ {c}
  BY <1>12 DEF Holding
<1>15. First(k) \cap SlotOwners = {}
  BY <1>8, <1>10 DEF SlotOwners, Holding, Signaled
<1>16. SlotOwners' = (SlotOwners \ {c}) \cup First(k)
  BY <1>8, <1>11, <1>13, <1>14, <1>15 DEF SlotOwners
<1> QED  BY <1>1, <1>3, <1>4, <1>5, <1>13, <1>15, <1>16 DEF k

-----------------------------------------------------------------------------
\* Queued callers are inside Acquire; nobody else's stage matters to them.
LEMMA QueuedCallers ==
    ASSUME GateTypeOK, QueueWellFormed
    PROVE  /\ Len(waiters) \in Nat
           /\ \A i \in 1..Len(waiters) :
                 waiters[i] \in Callers /\ waiters[i] \in Queued
           /\ \A d \in Queued : d \in Callers /\ stage[d] \in {"select", "cancelling"}
<1>1. \A i \in 1..Len(waiters) : waiters[i] \in Callers
  BY ElementOfSeq DEF GateTypeOK
<1>2. Len(waiters) \in Nat  BY LenProperties DEF GateTypeOK
<1> QED  BY <1>1, <1>2 DEF Queued, QueueWellFormed

\* Acquire past a free slot (gate.go:55-60).
LEMMA AcquireFreeInv ==
    ASSUME Inv, NEW c \in Callers, AcquireFree(c)
    PROVE  Inv' /\ SlotOwners' = SlotOwners \cup {c} /\ c \notin SlotOwners
<1> USE DEF Inv
<1>1. \A d \in Callers : stage'[d] = IF d = c THEN "holding" ELSE stage[d]
  BY DEF AcquireFree, GateTypeOK
<1>2. GateTypeOK'  BY DEF AcquireFree, GateTypeOK, Stages
<1>3. c \notin Queued  BY QueuedCallers DEF AcquireFree
<1>4. Queued' = Queued  BY DEF AcquireFree, Queued
<1>5. QueueWellFormed'
  BY <1>1, <1>3, QueuedCallers DEF AcquireFree, QueueWellFormed
<1>6. SlotOwners' = SlotOwners \cup {c} /\ c \notin SlotOwners
  BY <1>1, <1>3, <1>4 DEF AcquireFree, SlotOwners, Holding, Signaled
<1>7. NoSlotLeak'
  BY <1>6, OwnersFinite, FS_AddElement DEF AcquireFree, NoSlotLeak
<1>8. Served'  BY DEF AcquireFree, Served, GateTypeOK
<1> QED  BY <1>2, <1>5, <1>6, <1>7, <1>8

\* Acquire at the ceiling: the caller joins the queue, and the ceiling being
\* positive somebody owns a slot (gate.go:61-64).
LEMMA AcquireQueueInv ==
    ASSUME Inv, NEW c \in Callers, AcquireQueue(c)
    PROVE  Inv' /\ SlotOwners' = SlotOwners
<1> USE DEF Inv
<1>1. \A d \in Callers : stage'[d] = IF d = c THEN "select" ELSE stage[d]
  BY DEF AcquireQueue, GateTypeOK
<1>2. c \notin Queued  BY QueuedCallers DEF AcquireQueue
<1>3. /\ waiters' \in Seq(Callers)
      /\ Len(waiters') = Len(waiters) + 1
      /\ \A i \in 1..Len(waiters) : waiters'[i] = waiters[i]
      /\ waiters'[Len(waiters) + 1] = c
  BY AppendProperties DEF AcquireQueue, GateTypeOK
<1>4. GateTypeOK'  BY <1>3 DEF AcquireQueue, GateTypeOK, Stages
<1>5. \A i \in 1..Len(waiters') :
         i \in 1..Len(waiters) \/ (i = Len(waiters) + 1 /\ waiters'[i] = c)
  BY <1>3, QueuedCallers
<1>6. QueueWellFormed'
  <2>1. \A i, j \in 1..Len(waiters') : waiters'[i] = waiters'[j] => i = j
    BY <1>2, <1>3, <1>5, QueuedCallers DEF QueueWellFormed
  <2>2. \A i \in 1..Len(waiters') : stage'[waiters'[i]] \in {"select", "cancelling"}
    BY <1>1, <1>3, <1>5, QueuedCallers DEF QueueWellFormed
  <2> QED  BY <2>1, <2>2 DEF QueueWellFormed
<1>7. Queued' = Queued \cup {c}
  <2>1. \A i \in 1..Len(waiters) : i \in 1..Len(waiters')  BY <1>3, QueuedCallers
  <2>2. Len(waiters) + 1 \in 1..Len(waiters')  BY <1>3, QueuedCallers
  <2> QED  BY <1>3, <1>5, <2>1, <2>2 DEF Queued
<1>8. SlotOwners' = SlotOwners
  BY <1>1, <1>7 DEF AcquireQueue, SlotOwners, Holding, Signaled
<1>9. NoSlotLeak'  BY <1>8 DEF AcquireQueue, NoSlotLeak
<1>10. Served'
  <2>1. limit \in Nat \ {0}  BY LimitPositive DEF GateTypeOK
  <2> QED  BY <2>1 DEF AcquireQueue, Served, GateTypeOK
<1> QED  BY <1>4, <1>6, <1>8, <1>9, <1>10

\* Leaving the queue moves no slot (gate.go:72-79).
LEMMA CancelDequeueInv ==
    ASSUME Inv, NEW c \in Callers, CancelDequeue(c)
    PROVE  /\ Inv'
           /\ SlotOwners' = SlotOwners
           /\ \A d \in Queued : d # c => d \in Queued'
<1> USE DEF Inv
<1>1. PICK n \in 1..Len(waiters) :
         /\ waiters[n] = c
         /\ waiters' = SubSeq(waiters, 1, n - 1) \o SubSeq(waiters, n + 1, Len(waiters))
  BY DEF CancelDequeue
<1>2. \A d \in Callers : stage'[d] = IF d = c THEN "out" ELSE stage[d]
  BY DEF CancelDequeue, GateTypeOK
<1>3. /\ waiters' \in Seq(Callers)
      /\ Len(waiters') = Len(waiters) - 1
      /\ \A i \in 1..(Len(waiters) - 1) :
            waiters'[i] = IF i < n THEN waiters[i] ELSE waiters[i + 1]
  <2>1. waiters \in Seq(Callers)  BY DEF GateTypeOK
  <2> QED  BY <1>1, <2>1, DropOne
<1> DEFINE old(i) == IF i < n THEN i ELSE i + 1
<1>4. \A i \in 1..Len(waiters') : /\ old(i) \in 1..Len(waiters)
                                  /\ old(i) # n
                                  /\ waiters'[i] = waiters[old(i)]
  BY <1>3, QueuedCallers
<1>5. \A i, j \in 1..Len(waiters') : old(i) = old(j) => i = j
  BY <1>3, QueuedCallers
<1>6. \A j \in 1..Len(waiters) : j # n => \E i \in 1..Len(waiters') : j = old(i)
  <2> SUFFICES ASSUME NEW j \in 1..Len(waiters), j # n
               PROVE  \E i \in 1..Len(waiters') : j = old(i)
    OBVIOUS
  <2>1. CASE j < n
    <3>1. j \in 1..Len(waiters') /\ j = old(j)  BY <1>3, <2>1, QueuedCallers
    <3> QED  BY <3>1
  <2>2. CASE n < j
    <3>1. j - 1 \in 1..Len(waiters') /\ j = old(j - 1)  BY <1>3, <2>2, QueuedCallers
    <3> QED  BY <3>1
  <2> QED  BY <2>1, <2>2, QueuedCallers
<1> HIDE DEF old
<1>7. GateTypeOK'  BY <1>3 DEF CancelDequeue, GateTypeOK, Stages
<1>8. \A j \in 1..Len(waiters) : j # n => waiters[j] # c
  BY <1>1 DEF QueueWellFormed
<1>9. QueueWellFormed'
  <2>1. ASSUME NEW i \in 1..Len(waiters'), NEW j \in 1..Len(waiters'), waiters'[i] = waiters'[j]
        PROVE  i = j
    <3>1. /\ old(i) \in 1..Len(waiters) /\ old(j) \in 1..Len(waiters)
          /\ waiters[old(i)] = waiters[old(j)]
      BY <1>4, <2>1
    <3>2. old(i) = old(j)  BY <3>1 DEF QueueWellFormed
    <3> QED  BY <1>5, <3>2
  <2>2. \A i \in 1..Len(waiters') : stage'[waiters'[i]] \in {"select", "cancelling"}
    BY <1>2, <1>4, <1>8, QueuedCallers DEF QueueWellFormed
  <2> QED  BY <2>1, <2>2 DEF QueueWellFormed
<1>10. Queued' = Queued \ {c}
  <2>1. ASSUME NEW d \in Queued'  PROVE  d \in Queued /\ d # c
    BY <1>4, <1>8 DEF Queued
  <2>2. ASSUME NEW d \in Queued, d # c  PROVE  d \in Queued'
    <3>1. PICK j \in 1..Len(waiters) : d = waiters[j] /\ j # n
      BY <1>1, <2>2 DEF Queued
    <3>2. PICK i \in 1..Len(waiters') : j = old(i)  BY <1>6, <3>1
    <3> QED  BY <1>4, <3>1, <3>2 DEF Queued
  <2> QED  BY <2>1, <2>2
<1>11. c \in Queued  BY <1>1, QueuedCallers
<1>12. SlotOwners' = SlotOwners
  BY <1>2, <1>10, <1>11 DEF CancelDequeue, SlotOwners, Holding, Signaled
<1>13. NoSlotLeak'  BY <1>12 DEF CancelDequeue, NoSlotLeak
<1>14. Served'
  <2>1. waiters # <<>>  BY <1>1, QueuedCallers
  <2> QED  BY <2>1 DEF CancelDequeue, Served
<1> QED  BY <1>7, <1>9, <1>10, <1>12, <1>13, <1>14

\* Giving a slot up, in Release or in a cancellation that was too late
\* (gate.go:80-86, 94-101): the slot is passed on or counted free.
LEMMA GiveUpInv ==
    ASSUME Inv, NEW c \in SlotOwners, releaseLocked,
           stage' = [stage EXCEPT ![c] = "out"],
           ctxDone' = ctxDone \ {c}, UNCHANGED setting
    PROVE  Inv'
<1> USE DEF Inv
<1> DEFINE k == Admitted(active - 1)
<1>1. /\ active \in Nat \ {0}
      /\ k \in 0..Len(waiters)
      /\ active' = active - 1 + k
      /\ waiters' \in Seq(Callers)
      /\ Len(waiters') = Len(waiters) - k
      /\ \A i \in 1..(Len(waiters) - k) : waiters'[i] = waiters[k + i]
      /\ SlotOwners' = (SlotOwners \ {c}) \cup First(k)
      /\ First(k) \cap SlotOwners = {}
  BY HandOff
<1>2. /\ k > 0 => active - 1 + k <= limit
      /\ k < Len(waiters) => active - 1 + k >= limit
  <2>1. active - 1 \in Nat  BY <1>1
  <2> QED  BY <2>1, AdmittedBound
<1> HIDE DEF k
<1>3. c \in Callers /\ c \notin Queued
  BY QueuedCallers, OwnersFinite DEF SlotOwners, Holding, Signaled
<1>4. \A d \in Callers : stage'[d] = IF d = c THEN "out" ELSE stage[d]
  BY <1>3 DEF GateTypeOK
<1>5. GateTypeOK'
  <2>1. active' \in Nat  BY <1>1, QueuedCallers
  <2>2. stage' \in [Callers -> Stages]  BY <1>3 DEF GateTypeOK, Stages
  <2> QED  BY <1>1, <2>1, <2>2 DEF GateTypeOK
<1>6. \A i \in 1..Len(waiters') : k + i \in 1..Len(waiters) /\ waiters'[i] = waiters[k + i]
  BY <1>1, QueuedCallers
<1>7. QueueWellFormed'
  <2>1. ASSUME NEW i \in 1..Len(waiters'), NEW j \in 1..Len(waiters'),
               waiters'[i] = waiters'[j]
        PROVE  i = j
    <3>1. k + i = k + j  BY <1>6, <2>1 DEF QueueWellFormed
    <3> QED  BY <1>1, <3>1, QueuedCallers
  <2>2. \A i \in 1..Len(waiters') : stage'[waiters'[i]] \in {"select", "cancelling"}
    BY <1>3, <1>4, <1>6, QueuedCallers
  <2> QED  BY <2>1, <2>2 DEF QueueWellFormed
<1>8. NoSlotLeak'
  <2>1. IsFiniteSet(SlotOwners \ {c}) /\ Cardinality(SlotOwners \ {c}) = active - 1
    BY OwnersFinite, FS_RemoveElement DEF NoSlotLeak
  <2>2. IsFiniteSet(First(k)) /\ Cardinality(First(k)) = k
    BY <1>1, FirstCardinality
  <2>3. Cardinality((SlotOwners \ {c}) \cap First(k)) = 0
    <3>1. (SlotOwners \ {c}) \cap First(k) = {}  BY <1>1
    <3> QED  BY <3>1, FS_EmptySet
  <2>4. Cardinality((SlotOwners \ {c}) \cup First(k)) = (active - 1) + k - 0
    BY <2>1, <2>2, <2>3, FS_Union
  <2> QED  BY <1>1, <2>4, QueuedCallers DEF NoSlotLeak
<1>9. Served'
  <2>1. limit \in Nat \ {0}  BY LimitPositive DEF GateTypeOK
  <2>2. waiters' # <<>> => k < Len(waiters)
    <3>1. Len(waiters') = 0 => waiters' = <<>>  BY <1>1, EmptySeq
    <3> QED  BY <1>1, <3>1, QueuedCallers
  <2> QED  BY <1>1, <1>2, <2>1, <2>2, QueuedCallers DEF Served
<1> QED  BY <1>5, <1>7, <1>8, <1>9

\* Coming out of the select keeps the slot if there is one (gate.go:66-71).
LEMMA SelectInv ==
    ASSUME Inv, NEW c \in Callers, SelectSlot(c) \/ SelectDone(c)
    PROVE  Inv' /\ SlotOwners' = SlotOwners
<1> USE DEF Inv
<1>1. GateTypeOK'  BY DEF SelectSlot, SelectDone, GateTypeOK, Stages
<1>2. Queued' = Queued  BY DEF SelectSlot, SelectDone, Queued
<1>3. QueueWellFormed'
  BY QueuedCallers DEF SelectSlot, SelectDone, GateTypeOK, QueueWellFormed, Signaled
<1>4. SlotOwners' = SlotOwners
  <2>1. CASE SelectSlot(c)
    <3>1. \A d \in Callers : stage'[d] = IF d = c THEN "holding" ELSE stage[d]
      BY <2>1 DEF SelectSlot, GateTypeOK
    <3> QED  BY <1>2, <2>1, <3>1 DEF SelectSlot, SlotOwners, Holding, Signaled
  <2>2. CASE SelectDone(c)
    <3>1. \A d \in Callers : stage'[d] = IF d = c THEN "cancelling" ELSE stage[d]
      BY <2>2 DEF SelectDone, GateTypeOK
    <3> QED  BY <1>2, <2>2, <3>1 DEF SelectDone, SlotOwners, Holding, Signaled
  <2> QED  BY <2>1, <2>2
<1>5. NoSlotLeak' /\ Served'
  BY <1>4 DEF SelectSlot, SelectDone, NoSlotLeak, Served
<1> QED  BY <1>1, <1>3, <1>4, <1>5

\* A caller giving its slot up is one that owned it.
LEMMA GiversOwn ==
    ASSUME Inv, NEW c \in Callers, Release(c) \/ CancelForward(c)
    PROVE  /\ c \in SlotOwners
           /\ releaseLocked
           /\ stage' = [stage EXCEPT ![c] = "out"]
           /\ ctxDone' = ctxDone \ {c}
           /\ UNCHANGED setting
BY DEF Release, CancelForward, SlotOwners, Holding, Signaled

\* Moving the limit or cancelling a context touches no slot and no queue.
LEMMA OutsideInv ==
    ASSUME Inv, (\E c \in Callers : Cancel(c)) \/ (\E n \in Settings : SetLimit(n))
                  \/ UNCHANGED gateVars
    PROVE  /\ Inv'
           /\ UNCHANGED <<active, waiters, stage>>
           /\ SlotOwners' = SlotOwners
<1>1. UNCHANGED <<active, waiters, stage>>  BY DEF Cancel, SetLimit, gateVars
<1>2. GateTypeOK'  BY DEF Inv, GateTypeOK, Cancel, SetLimit, gateVars
<1>3. SlotOwners' = SlotOwners /\ QueueWellFormed' /\ Served'
  BY <1>1 DEF Inv, SlotOwners, Holding, Signaled, Queued, QueueWellFormed, Served
<1> QED  BY <1>1, <1>2, <1>3 DEF Inv, NoSlotLeak

\* The gate's invariant holds at the start and is kept by every critical
\* section of Acquire and Release (gate.go:53-117).
THEOREM InvInductive ==
    (GateInit => Inv) /\ (Inv /\ [GateNext]_gateVars => Inv')
<1>1. ASSUME GateInit PROVE Inv
  <2>1. GateTypeOK  BY <1>1 DEF GateInit, GateTypeOK, Stages
  <2>2. Len(waiters) = 0 /\ 1..0 = {}  BY <1>1 DEF GateInit
  <2>3. QueueWellFormed  BY <2>2 DEF QueueWellFormed
  <2>4. SlotOwners = {}  BY <1>1 DEF GateInit, SlotOwners, Holding, Signaled
  <2>5. NoSlotLeak  BY <1>1, <2>4, FS_EmptySet DEF GateInit, NoSlotLeak
  <2> QED  BY <1>1, <2>1, <2>3, <2>5 DEF GateInit, Inv, Served
<1>2. ASSUME Inv, [GateNext]_gateVars PROVE Inv'
  <2>1. ASSUME NEW c \in Callers, CallerStep(c) PROVE Inv'
    <3>1. CASE AcquireFree(c)  BY <1>2, <3>1, AcquireFreeInv
    <3>2. CASE AcquireQueue(c)  BY <1>2, <3>2, AcquireQueueInv
    <3>3. CASE SelectSlot(c) \/ SelectDone(c)  BY <1>2, <3>3, SelectInv
    <3>4. CASE CancelDequeue(c)  BY <1>2, <3>4, CancelDequeueInv
    <3>5. CASE CancelForward(c) \/ Release(c)  BY <1>2, <3>5, GiversOwn, GiveUpInv
    <3>6. CASE Cancel(c)  BY <1>2, <3>6, OutsideInv
    <3> QED  BY <2>1, <3>1, <3>2, <3>3, <3>4, <3>5, <3>6 DEF CallerStep
  <2>2. CASE \E n \in Settings : SetLimit(n)  BY <1>2, <2>2, OutsideInv
  <2>3. CASE UNCHANGED gateVars  BY <1>2, <2>3, OutsideInv
  <2> QED  BY <1>2, <2>1, <2>2, <2>3 DEF GateNext
<1> QED  BY <1>1, <1>2

\* It holds always.
THEOREM Invariance == GateSpec => []Inv
BY InvInductive, PTL DEF GateSpec

-----------------------------------------------------------------------------
\* The state of the gate stays well formed: `active' never goes negative and
\* the queue holds callers only.
THEOREM TypeCorrect == GateSpec => []GateTypeOK
<1>1. Inv => GateTypeOK  BY DEF Inv
<1> QED  BY <1>1, Invariance, PTL

\* "no slot leaks" (gate.go:47-52), for any number of callers and whatever
\* the limit does.
THEOREM SlotsNeverLeak == GateSpec => []NoSlotLeak
<1>1. Inv => NoSlotLeak  BY DEF Inv
<1> QED  BY <1>1, Invariance, PTL

\* A positive count has an owner behind it.
LEMMA SomebodyServes == Inv => QueueNeverStranded
<1> SUFFICES ASSUME Inv, waiters # <<>> PROVE SlotOwners # {}
  BY DEF QueueNeverStranded
<1>1. Cardinality(SlotOwners) >= 1  BY DEF Inv, Served, NoSlotLeak
<1> QED  BY <1>1, FS_EmptySet

\* Whoever waits, waits for a caller that owns a slot.
THEOREM QueueIsServed == GateSpec => []QueueNeverStranded
BY SomebodyServes, Invariance, PTL

\* "extras queue in arrival order" (gate.go:10-14): hand-offs never overtake.
THEOREM ArrivalOrder == GateSpec => HandOffInOrder
<1> DEFINE InOrder == \A i, j \in 1..Len(waiters) :
              (i < j /\ waiters[j] \in Signaled') => waiters[i] \notin Queued'
<1>1. ASSUME Inv, [GateNext]_gateVars PROVE InOrder \/ UNCHANGED gateVars
  <2> SUFFICES ASSUME NEW i \in 1..Len(waiters), NEW j \in 1..Len(waiters),
                      i < j, waiters[j] \in Signaled', GateNext
               PROVE  waiters[i] \notin Queued'
    BY <1>1
  <2>1. waiters[j] \in Callers /\ waiters[j] \in Queued /\ waiters[j] \notin Queued'
    BY <1>1, QueuedCallers DEF Inv, Signaled
  <2>2. ASSUME waiters' = waiters PROVE FALSE
    BY <2>1, <2>2 DEF Queued
  <2>3. ASSUME NEW c \in Callers, AcquireQueue(c) PROVE FALSE
    <3>1. j \in 1..Len(waiters') /\ waiters'[j] = waiters[j]
      BY <1>1, <2>3, AppendProperties, QueuedCallers DEF AcquireQueue, Inv, GateTypeOK
    <3> QED  BY <2>1, <3>1 DEF Queued
  <2>4. ASSUME NEW c \in Callers, CancelDequeue(c) PROVE FALSE
    <3>1. waiters[j] = c  BY <1>1, <2>1, <2>4, CancelDequeueInv
    <3>2. stage'[c] = "out"  BY <1>1, <2>4 DEF CancelDequeue, Inv, GateTypeOK
    <3> QED  BY <3>1, <3>2 DEF Signaled
  <2>5. ASSUME NEW c \in Callers, Release(c) \/ CancelForward(c)
        PROVE  waiters[i] \notin Queued'
    <3> DEFINE k == Admitted(active - 1)
    <3>1. /\ k \in 0..Len(waiters)
          /\ Len(waiters') = Len(waiters) - k
          /\ \A n \in 1..(Len(waiters) - k) : waiters'[n] = waiters[k + n]
          /\ Signaled' = (Signaled \ {c}) \cup First(k)
      BY <1>1, <2>5, GiversOwn, HandOff
    <3> HIDE DEF k
    <3>2. waiters[j] \in First(k)
      BY <2>1, <3>1 DEF Signaled
    <3>3. j \in 1..k
      <4>1. PICK n \in 1..k : waiters[j] = waiters[n]  BY <3>2 DEF First
      <4>2. n \in 1..Len(waiters)  BY <1>1, <3>1, QueuedCallers DEF Inv
      <4> QED  BY <1>1, <4>1, <4>2 DEF Inv, QueueWellFormed
    <3>4. ASSUME waiters[i] \in Queued' PROVE FALSE
      <4>1. PICK n \in 1..Len(waiters') : waiters[i] = waiters'[n]  BY <3>4 DEF Queued
      <4>2. k + n \in 1..Len(waiters) /\ waiters[i] = waiters[k + n]
        BY <1>1, <3>1, <4>1, QueuedCallers DEF Inv
      <4>3. i = k + n  BY <1>1, <4>2 DEF Inv, QueueWellFormed
      <4> QED  BY <1>1, <3>1, <3>3, <4>1, <4>3, QueuedCallers DEF Inv
    <3> QED  BY <3>4
  <2>6. ASSUME NEW c \in Callers, CallerStep(c) PROVE waiters[i] \notin Queued'
    BY <2>2, <2>3, <2>4, <2>5, <2>6
       DEF CallerStep, AcquireFree, SelectSlot, SelectDone, Cancel
  <2> QED  BY <2>2, <2>6 DEF GateNext, SetLimit
<1>2. Inv /\ [GateNext]_gateVars => [InOrder]_gateVars  BY <1>1
<1> QED  BY <1>2, Invariance, PTL DEF GateSpec, HandOffInOrder

\* Seen from outside, the gate is a counting semaphore whose ceiling the
\* operator may move at any time (gate.go:15-18).
THEOREM GateIsSemaphore == GateSpec => ImplementsSemaphore
<1>1. ASSUME GateInit PROVE Sem!Init
  <2>1. SlotOwners = {}  BY <1>1 DEF GateInit, SlotOwners, Holding, Signaled
  <2> QED  BY <1>1, <2>1 DEF GateInit, Sem!Init, limit
<1>2. ASSUME Inv, [GateNext]_gateVars PROVE [Sem!Next]_Sem!svars
  <2>0. /\ IsFiniteSet(SlotOwners) /\ SlotOwners' \in SUBSET Callers
        /\ Cardinality(SlotOwners') = active'
    <3>1. Inv'  BY <1>2, InvInductive
    <3>2. SlotOwners' \in SUBSET Callers  BY DEF SlotOwners, Holding, Signaled
    <3> QED  BY <3>1, <3>2, OwnersFinite DEF Inv, NoSlotLeak
  <2>1. ASSUME SlotOwners' = SlotOwners, UNCHANGED setting PROVE [Sem!Next]_Sem!svars
    BY <2>1 DEF Sem!svars, limit
  <2>2. ASSUME NEW c \in Callers, AcquireFree(c) PROVE Sem!Move
    <3>1. SlotOwners' = SlotOwners \cup {c}  BY <1>2, <2>2, AcquireFreeInv
    <3>2. SlotOwners \ SlotOwners' = {}  BY <3>1
    <3>3. active' <= limit /\ limit' = limit
      <4>1. limit \in Nat  BY <1>2, LimitPositive DEF Inv, GateTypeOK
      <4> QED  BY <1>2, <2>2, <4>1 DEF AcquireFree, limit, Inv, GateTypeOK
    <3>4. Cardinality(SlotOwners \ SlotOwners') <= 1  BY <3>2, FS_EmptySet
    <3>5. Cardinality(SlotOwners') <= limit  BY <2>0, <3>3
    <3> QED  BY <2>0, <3>3, <3>4, <3>5 DEF Sem!Move, Sem!Cardinality, Cardinality
  <2>3. ASSUME NEW c \in Callers, Release(c) \/ CancelForward(c) PROVE Sem!Move
    <3> DEFINE k == Admitted(active - 1)
    <3>1. /\ c \in SlotOwners /\ active \in Nat \ {0}
          /\ k \in 0..Len(waiters)
          /\ active' = active - 1 + k
          /\ SlotOwners' = (SlotOwners \ {c}) \cup First(k)
          /\ First(k) \cap SlotOwners = {}
          /\ UNCHANGED setting
      BY <1>2, <2>3, GiversOwn, HandOff
    <3>2. k > 0 => active - 1 + k <= limit
      <4>1. active - 1 \in Nat  BY <3>1
      <4> QED  BY <1>2, <4>1, AdmittedBound DEF Inv
    <3> HIDE DEF k
    <3>3. SlotOwners \ SlotOwners' = {c}  BY <3>1
    <3>4. Cardinality(SlotOwners \ SlotOwners') <= 1  BY <3>3, FS_Singleton
    <3>5. SlotOwners' \subseteq SlotOwners \/ Cardinality(SlotOwners') <= limit
      <4>1. CASE k = 0
        <5>1. First(k) = {}  BY <4>1 DEF First
        <5> QED  BY <3>1, <5>1
      <4>2. CASE k > 0  BY <2>0, <3>1, <3>2, <4>2
      <4> QED  BY <1>2, <3>1, <4>1, <4>2, QueuedCallers DEF Inv
    <3>6. limit' = limit  BY <3>1 DEF limit
    <3> QED  BY <2>0, <3>4, <3>5, <3>6 DEF Sem!Move, Sem!Cardinality, Cardinality
  <2>4. ASSUME NEW n \in Settings, SetLimit(n) PROVE Sem!Retune
    <3>1. SlotOwners' = SlotOwners  BY <1>2, <2>4, OutsideInv
    <3>2. limit' = LimitOf(n)  BY <2>4 DEF SetLimit, limit, LimitOf
    <3> QED  BY <3>1, <3>2 DEF Sem!Retune
  <2>5. ASSUME NEW c \in Callers, CallerStep(c) PROVE [Sem!Next]_Sem!svars
    <3>1. CASE AcquireQueue(c)
      BY <1>2, <2>1, <3>1, AcquireQueueInv DEF AcquireQueue
    <3>2. CASE SelectSlot(c) \/ SelectDone(c)
      BY <1>2, <2>1, <3>2, SelectInv DEF SelectSlot, SelectDone
    <3>3. CASE CancelDequeue(c)
      BY <1>2, <2>1, <3>3, CancelDequeueInv DEF CancelDequeue
    <3>4. CASE Cancel(c)
      BY <1>2, <2>1, <3>4, OutsideInv DEF Cancel
    <3> QED  BY <2>2, <2>3, <2>5, <3>1, <3>2, <3>3, <3>4 DEF CallerStep, Sem!Next
  <2>6. CASE UNCHANGED gateVars
    BY <1>2, <2>1, <2>6, OutsideInv DEF gateVars
  <2> QED  BY <1>2, <2>4, <2>5, <2>6 DEF GateNext, Sem!Next
<1> QED  BY <1>1, <1>2, Invariance, PTL DEF GateSpec, ImplementsSemaphore, Sem!Spec
-----------------------------------------------------------------------------
\* After a hand-off nobody is left queueing beside a free slot.
LEMMA GiveUpFillsSlots ==
    ASSUME Inv, NEW c \in Callers, Release(c) \/ CancelForward(c),
           waiters' # <<>>
    PROVE  ~(active' < limit')
<1> DEFINE k == Admitted(active - 1)
<1>1. /\ active \in Nat \ {0}
      /\ k \in 0..Len(waiters)
      /\ active' = active - 1 + k
      /\ waiters' \in Seq(Callers)
      /\ Len(waiters') = Len(waiters) - k
      /\ UNCHANGED setting
  BY GiversOwn, HandOff
<1>2. k < Len(waiters) => active - 1 + k >= limit
  <2>1. active - 1 \in Nat  BY <1>1
  <2> QED  BY <2>1, AdmittedBound DEF Inv
<1> HIDE DEF k
<1>3. k < Len(waiters)
  <2>1. Len(waiters') = 0 => waiters' = <<>>  BY <1>1, EmptySeq
  <2> QED  BY <1>1, <2>1, QueuedCallers DEF Inv
<1>4. limit \in Nat /\ limit' = limit
  BY <1>1, LimitPositive DEF Inv, GateTypeOK, limit
<1> QED  BY <1>1, <1>2, <1>3, <1>4, QueuedCallers DEF Inv

\* What `raised' records is kept by every step of the gate.
LEMMA IdleSlotsInductive ==
    ASSUME Inv, IdleSlotsOnlyAfterRaise, [MCNext]_mcVars
    PROVE  IdleSlotsOnlyAfterRaise'
<1>1. ASSUME UNCHANGED <<active, waiters, setting, raised>>
      PROVE  IdleSlotsOnlyAfterRaise'
  BY <1>1 DEF IdleSlotsOnlyAfterRaise, limit
<1>2. ASSUME NEW c \in Callers, Step(c) PROVE IdleSlotsOnlyAfterRaise'
  <2>1. CASE Decides(c)
    BY <2>1, GiveUpFillsSlots DEF Decides, IdleSlotsOnlyAfterRaise
  <2>2. CASE AcquireFree(c) /\ UNCHANGED raised
    <3>1. limit \in Nat /\ active \in Nat
      BY LimitPositive DEF Inv, GateTypeOK
    <3> QED  BY <2>2, <3>1 DEF AcquireFree, IdleSlotsOnlyAfterRaise, limit
  <2>3. CASE AcquireQueue(c)
    BY <2>3 DEF AcquireQueue, IdleSlotsOnlyAfterRaise, limit
  <2>4. CASE CancelDequeue(c) /\ UNCHANGED raised
    <3>1. waiters # <<>>
      <4>1. PICK i \in 1..Len(waiters) : waiters[i] = c  BY <2>4 DEF CancelDequeue
      <4>2. Len(<<>>) = 0  OBVIOUS
      <4> QED  BY <4>1, <4>2
    <3> QED  BY <2>4, <3>1 DEF CancelDequeue, IdleSlotsOnlyAfterRaise, limit
  <2>5. CASE (SelectSlot(c) \/ SelectDone(c) \/ Cancel(c)) /\ UNCHANGED raised
    BY <1>1, <2>5 DEF SelectSlot, SelectDone, Cancel
  <2> QED  BY <1>2, <2>1, <2>2, <2>3, <2>4, <2>5 DEF Step
<1>3. ASSUME NEW n \in Settings, MoveLimit(n) PROVE IdleSlotsOnlyAfterRaise'
  <2>1. limit \in Nat /\ limit' = LimitOf(n) /\ LimitOf(n) \in Nat /\ active \in Nat
    BY <1>3, LimitPositive, GateAssumption
       DEF MoveLimit, SetLimit, limit, LimitOf, Inv, GateTypeOK
  <2>2. active' = active /\ waiters' = waiters /\ raised' = (raised \/ LimitOf(n) > limit)
    BY <1>3 DEF MoveLimit, SetLimit
  <2>3. CASE LimitOf(n) > limit  BY <2>2, <2>3 DEF IdleSlotsOnlyAfterRaise
  <2>4. CASE ~(LimitOf(n) > limit)
    <3>1. active < LimitOf(n) => active < limit  BY <2>1, <2>4
    <3>2. raised => raised'  BY <2>2, Zenon
    <3> QED  BY <2>1, <2>2, <3>1, <3>2, Zenon DEF IdleSlotsOnlyAfterRaise
  <2> QED  BY <2>3, <2>4
<1>4. CASE UNCHANGED mcVars  BY <1>1, <1>4 DEF mcVars
<1> QED  BY <1>2, <1>3, <1>4 DEF MCNext

\* The queue is looked after, for any number of callers and however the
\* operator moves the limit: whoever waits, waits for an owner of a slot, and
\* waits beside a free slot only since the limit was raised (gate.go:103-117).
THEOREM QueueStaysServed == MCSpec => []QueueServed
<1>1. MCInit => Inv /\ IdleSlotsOnlyAfterRaise
  BY InvInductive DEF MCInit, GateInit, IdleSlotsOnlyAfterRaise
<1>2. [MCNext]_mcVars => [GateNext]_gateVars
  BY DEF MCNext, mcVars, Step, Decides, MoveLimit, GateNext, gateVars, CallerStep
<1>3. Inv /\ IdleSlotsOnlyAfterRaise /\ [MCNext]_mcVars
        => (Inv /\ IdleSlotsOnlyAfterRaise)'
  BY <1>2, InvInductive, IdleSlotsInductive
<1>4. Inv /\ IdleSlotsOnlyAfterRaise => QueueServed
  BY SomebodyServes DEF QueueServed
<1> QED  BY <1>1, <1>3, <1>4, PTL DEF MCSpec

-----------------------------------------------------------------------------
\* Runs

\* Goroutines exist only while their process does.
LiveNeedsServer == \A r \in Runs : pc[r] \in Live => server \in Running

\* Between the two reconciliations what is left of locks and open rows is
\* an exporter's row or the work of a failed statement.
HalfReconciled ==
    server = "booting" =>
        /\ \A s \in Systems : locks[s] # NoRun => locks[s] \in faulted
        /\ \A r \in Runs : row[r] = "open" => IsExporterRun(r) \/ r \in faulted

\* A lock names a run on its host, also while no process runs.
LocksNameRuns == \A s \in Systems : locks[s] # NoRun => target[locks[s]] = s

\* Where a run is in the gate, seen from where it is in its own course.
GatePlaces ==
    \A r \in Runs :
        /\ stage[r] \in {"select", "cancelling"} => pc[r] = "gate"
        /\ stage[r] = "holding" => pc[r] \in {"play", "finish", "ungate"}
        /\ (pc[r] = "gate" \/ stage[r] # "out") => Gated(kind[r])

RunTypeOK ==
    /\ server \in Servers
    /\ pc \in [Runs -> Places]
    /\ target \in [Runs -> Systems]
    /\ kind \in [Runs -> Kinds]
    /\ row \in [Runs -> {"none", "open", "closed"}]
    /\ newer \in [Runs -> SUBSET Runs]
    /\ locks \in [Systems -> Runs \cup {NoRun}]
    /\ faulted \in SUBSET Runs
    /\ hosts \in SUBSET Systems

RunInv == /\ RunTypeOK /\ LockedRunsOwnTheirLock /\ NoOrphanLock /\ NoOrphanRow
          /\ LiveNeedsServer /\ HalfReconciled /\ LocksNameRuns /\ GatePlaces

Sound == Inv /\ RunInv

-----------------------------------------------------------------------------
\* Steps of one run that leave the gate alone.
PlainStep(r) ==
    \/ Admit(r) \/ InsertRun(r)
    \/ AcquireLock(r) \/ AcquireLockConflict(r) \/ AcquireLockFails(r)
    \/ FinishRefused(r) \/ FinishFails(r) \/ PlaybookEnds(r) \/ FinishRun(r)
    \/ ReleaseLock(r) \/ ReleaseLockFails(r)
    \/ RebootIfRequired(r) \/ RebootEnds(r)

\* Steps of one run through the gate.
GatedStep(r) ==
    \/ GateAdmits(r) \/ GateWaits(r) \/ GateCancel(r) \/ GateCancelled(r)
    \/ GateRelease(r)

\* The tables keep their types.
LEMMA PlainStepType ==
    ASSUME RunTypeOK, NEW r \in Runs, PlainStep(r)
    PROVE  RunTypeOK'
<1> USE DEF RunTypeOK, Places, Goto
<1>1. CASE InsertRun(r)
  <2>1. newer' \in [Runs -> SUBSET Runs]  BY <1>1 DEF InsertRun
  <2>2. row' \in [Runs -> {"none", "open", "closed"}]  BY <1>1 DEF InsertRun
  <2> QED  BY <1>1, <2>1, <2>2 DEF InsertRun
<1>2. CASE AcquireLock(r)  BY <1>2 DEF AcquireLock
<1>3. CASE ReleaseLock(r)  BY <1>3 DEF ReleaseLock
<1>4. CASE FinishRefused(r) \/ FinishRun(r)
  BY <1>4 DEF FinishRefused, FinishRun, Stamp
<1>5. CASE Admit(r) \/ PlaybookEnds(r) \/ RebootIfRequired(r) \/ RebootEnds(r)
  BY <1>5 DEF Admit, PlaybookEnds, RebootIfRequired, RebootEnds
<1>6. CASE AcquireLockConflict(r) \/ AcquireLockFails(r) \/ ReleaseLockFails(r) \/ FinishFails(r)
  BY <1>6 DEF AcquireLockConflict, AcquireLockFails, ReleaseLockFails, FinishFails
<1> QED  BY <1>1, <1>2, <1>3, <1>4, <1>5, <1>6 DEF PlainStep

\* What a plain step does to a run, to its host's lock and to its row agrees
\* with where it leaves the run.
LEMMA PlainStepInv ==
    ASSUME RunInv, NEW r \in Runs, PlainStep(r)
    PROVE  RunInv'
<1>0. RunTypeOK'  BY PlainStepType DEF RunInv
<1> USE DEF RunInv, RunTypeOK, LockedRunsOwnTheirLock, NoOrphanLock, NoOrphanRow,
            LiveNeedsServer, HalfReconciled, LocksNameRuns, GatePlaces, gateVars,
            Places, Locked, Live, Running, Goto, Gated, IsExporterRun
<1>1. CASE Admit(r)  BY <1>0, <1>1 DEF Admit
<1>2. CASE InsertRun(r)  BY <1>0, <1>2 DEF InsertRun
<1>3. CASE AcquireLock(r)
  \* Nobody else is locked on this host: its run would own the lock.
  <2>1. \A q \in Runs : pc[q] \in Locked /\ target[q] \in hosts => target[q] # target[r]
    BY <1>3, ActionRunsAssumption DEF AcquireLock, Runs
  <2>2. LockedRunsOwnTheirLock'  BY <1>0, <1>3, <2>1 DEF AcquireLock
  <2>3. NoOrphanLock' /\ HalfReconciled' /\ LocksNameRuns'  BY <1>0, <1>3 DEF AcquireLock
  <2>4. NoOrphanRow' /\ LiveNeedsServer' /\ GatePlaces'  BY <1>0, <1>3 DEF AcquireLock
  <2> QED  BY <1>0, <2>2, <2>3, <2>4
<1>4. CASE AcquireLockConflict(r)  BY <1>0, <1>4 DEF AcquireLockConflict
<1>5. CASE AcquireLockFails(r)  BY <1>0, <1>5 DEF AcquireLockFails
<1>6. CASE FinishRefused(r)  BY <1>0, <1>6 DEF FinishRefused, Stamp
<1>7. CASE PlaybookEnds(r)  BY <1>0, <1>7 DEF PlaybookEnds
<1>8. CASE FinishRun(r)
  <2>1. row'[r] # "open"  BY <1>8 DEF FinishRun, Stamp
  <2>2. NoOrphanRow' /\ HalfReconciled'  BY <1>0, <1>8, <2>1 DEF FinishRun, Stamp
  <2>3. LockedRunsOwnTheirLock' /\ NoOrphanLock' /\ LocksNameRuns'  BY <1>0, <1>8 DEF FinishRun
  <2>4. GatePlaces' /\ LiveNeedsServer'  BY <1>0, <1>8 DEF FinishRun
  <2> QED  BY <1>0, <2>2, <2>3, <2>4
<1>9. CASE ReleaseLock(r)
  \* The DELETE names the owner, so that it can only drop this run's lock.
  <2>1. \A s \in Systems : locks'[s] # locks[s] => s = target[r] /\ locks[s] = r
    BY <1>9 DEF ReleaseLock
  <2>2. LockedRunsOwnTheirLock' /\ NoOrphanLock' /\ LocksNameRuns'  BY <1>0, <1>9, <2>1 DEF ReleaseLock
  <2>3. NoOrphanRow' /\ LiveNeedsServer' /\ HalfReconciled' /\ GatePlaces'
    BY <1>0, <1>9 DEF ReleaseLock
  <2> QED  BY <1>0, <2>2, <2>3
<1>10. CASE ReleaseLockFails(r)  BY <1>0, <1>10 DEF ReleaseLockFails
<1>11. CASE RebootIfRequired(r)  BY <1>0, <1>11 DEF RebootIfRequired
<1>12. CASE RebootEnds(r)  BY <1>0, <1>12 DEF RebootEnds
<1>13. CASE FinishFails(r)
  <2>1. pc'[r] \in {"done", "ungate", "unlock"} /\ r \in faulted'  BY <1>13 DEF FinishFails
  <2>2. NoOrphanRow' /\ HalfReconciled' /\ NoOrphanLock' /\ LocksNameRuns'
    BY <1>0, <1>13, <2>1 DEF FinishFails
  <2>3. LockedRunsOwnTheirLock' /\ LiveNeedsServer'  BY <1>0, <1>13 DEF FinishFails
  <2>4. GatePlaces'  BY <1>0, <1>13 DEF FinishFails
  <2> QED  BY <1>0, <2>2, <2>3, <2>4
<1> QED  BY <1>1, <1>2, <1>3, <1>4, <1>5, <1>6, <1>7, <1>8, <1>9, <1>10, <1>11, <1>12, <1>13
            DEF PlainStep

\* The gate's own invariant through the runner's use of it.
LEMMA GatedStepGate ==
    ASSUME Inv, NEW r \in Runs, GatedStep(r)
    PROVE  Inv' /\ r \in Callers
<1>0. r \in Callers  BY DEF Runs
<1>1. CASE GateAdmits(r)  BY <1>0, <1>1, AcquireFreeInv, SelectInv DEF GateAdmits
<1>2. CASE GateWaits(r)  BY <1>0, <1>2, AcquireQueueInv, SelectInv DEF GateWaits
<1>3. CASE GateCancel(r)  BY <1>0, <1>3, OutsideInv DEF GateCancel
<1>4. CASE GateCancelled(r)
  BY <1>0, <1>4, CancelDequeueInv, GiversOwn, GiveUpInv DEF GateCancelled
<1>5. CASE GateRelease(r)  BY <1>0, <1>5, GiversOwn, GiveUpInv DEF GateRelease
<1> QED  BY <1>0, <1>1, <1>2, <1>3, <1>4, <1>5 DEF GatedStep

\* A run moves through the gate with its lock in hand.
LEMMA GatedStepInv ==
    ASSUME Inv, RunInv, NEW r \in Runs, GatedStep(r)
    PROVE  RunInv'
<1>0. stage \in [Runs -> Stages] /\ r \in Runs  BY DEF Inv, GateTypeOK, Runs
<1>1. UNCHANGED <<server, target, kind, row, newer, locks, faulted, hosts>>
  BY DEF GatedStep, GateAdmits, GateWaits, GateCancel, GateCancelled, GateRelease, runVars
<1>2. /\ pc[r] \in {"gate", "ungate"}
      /\ \E p \in {"gate", "play", "finish", "unlock"} : pc' = [pc EXCEPT ![r] = p]
      /\ \E t \in Stages : stage' = [stage EXCEPT ![r] = t]
      /\ stage'[r] \in {"select", "cancelling"} => pc'[r] = "gate"
      /\ stage'[r] = "holding" => pc'[r] = "play"
      /\ pc[r] = "gate" => pc'[r] \in {"gate", "play", "finish"}
      /\ pc[r] = "ungate" => pc'[r] = "unlock" /\ stage'[r] = "out"
  <2> USE <1>0 DEF RunInv, RunTypeOK, GatePlaces, Goto, runVars, Stages
  <2>1. CASE GateAdmits(r)  BY <2>1 DEF GateAdmits, AcquireFree, SelectSlot
  <2>2. CASE GateWaits(r)
    <3>1. pc' = [pc EXCEPT ![r] = "gate"]  BY <2>2 DEF GateWaits
    <3> QED  BY <2>2, <3>1 DEF GateWaits, AcquireQueue, SelectDone
  <2>3. CASE GateCancel(r)
    <3>1. pc' = [pc EXCEPT ![r] = "gate"] /\ stage' = [stage EXCEPT ![r] = "select"]
      BY <2>3 DEF GateCancel, Cancel
    <3> QED  BY <2>3, <3>1 DEF GateCancel
  <2>4. CASE GateCancelled(r)  BY <2>4 DEF GateCancelled, CancelDequeue, CancelForward
  <2>5. CASE GateRelease(r)  BY <2>5 DEF GateRelease, Release
  <2> QED  BY <2>1, <2>2, <2>3, <2>4, <2>5 DEF GatedStep
<1>3. RunTypeOK'  BY <1>1, <1>2 DEF RunInv, RunTypeOK, Places
<1> USE DEF RunInv, RunTypeOK, Places, Locked, Live, Running
<1>4. LockedRunsOwnTheirLock' /\ NoOrphanLock' /\ LocksNameRuns'
  BY <1>1, <1>2 DEF LockedRunsOwnTheirLock, NoOrphanLock, LocksNameRuns
<1>5. NoOrphanRow' /\ HalfReconciled'
  BY <1>1, <1>2 DEF NoOrphanRow, HalfReconciled, Gated, IsExporterRun
<1>6. LiveNeedsServer'  BY <1>1, <1>2 DEF LiveNeedsServer
<1>7. GatePlaces'  BY <1>0, <1>1, <1>2 DEF GatePlaces, Gated, Stages
<1> QED  BY <1>3, <1>4, <1>5, <1>6, <1>7

-----------------------------------------------------------------------------
\* The life of the process: what it leaves in the database when it dies is
\* reconciled before the next one serves.
LEMMA ServerStepInv ==
    ASSUME Inv, RunInv, ServerStep
    PROVE  Inv' /\ RunInv'
<1> USE DEF RunInv, RunTypeOK, LockedRunsOwnTheirLock, NoOrphanLock, NoOrphanRow,
            LiveNeedsServer, HalfReconciled, LocksNameRuns, GatePlaces,
            Servers, Places, Locked, Live, Running, Gated, IsExporterRun
<1>1. CASE ShutdownSignal \/ DrainReturns
  <2>1. UNCHANGED gateVars  BY <1>1 DEF ShutdownSignal, DrainReturns
  <2>2. Inv'  BY <2>1, OutsideInv
  <2>3. RunInv'  BY <1>1 DEF ShutdownSignal, DrainReturns, gateVars
  <2> QED  BY <2>2, <2>3
<1>2. CASE ProcessEnds
  <2>1. GateTypeOK'  BY <1>2 DEF ProcessEnds, Inv, GateTypeOK, Stages, Runs
  <2>2. Len(waiters') = 0 /\ 1..0 = {}  BY <1>2 DEF ProcessEnds
  <2>3. QueueWellFormed' /\ Served'
    BY <1>2, <2>2 DEF ProcessEnds, QueueWellFormed, Served
  <2>4. SlotOwners' = {}
    BY <1>2 DEF ProcessEnds, SlotOwners, Holding, Signaled, Runs
  <2>5. NoSlotLeak'  BY <1>2, <2>4, FS_EmptySet DEF ProcessEnds, NoSlotLeak
  <2>6. RunInv'  BY <1>2 DEF ProcessEnds
  <2> QED  BY <2>1, <2>3, <2>5, <2>6 DEF Inv
<1>3. CASE ReconcileUpdaters
  <2>1. Inv'  BY <1>3, OutsideInv DEF ReconcileUpdaters
  <2>2. RunInv'  BY <1>3 DEF ReconcileUpdaters, CloseRows, gateVars
  <2> QED  BY <2>1, <2>2
<1>4. CASE ReconcileExporters
  <2>1. Inv'  BY <1>4, OutsideInv DEF ReconcileExporters
  <2>2. RunInv'  BY <1>4 DEF ReconcileExporters, CloseRows, gateVars
  <2> QED  BY <2>1, <2>2
<1>5. CASE ReconcileUpdatersFails
  <2>1. Inv'  BY <1>5, OutsideInv DEF ReconcileUpdatersFails
  <2>2. RunTypeOK'  BY <1>5 DEF ReconcileUpdatersFails, CloseRows
  <2>3. HalfReconciled'
    <3>1. \A s \in Systems : locks'[s] # NoRun => locks'[s] \in faulted'
      BY <1>5 DEF ReconcileUpdatersFails
    <3>2. \A r \in Runs : row'[r] = "open" => IsExporterRun(r)' \/ r \in faulted'
      BY <1>5 DEF ReconcileUpdatersFails
    <3> QED  BY <3>1, <3>2
  <2>4. RunInv'  BY <1>5, <2>2, <2>3 DEF ReconcileUpdatersFails, gateVars
  <2> QED  BY <2>1, <2>4
<1>6. CASE ReconcileExportersFails
  <2>1. Inv'  BY <1>6, OutsideInv DEF ReconcileExportersFails
  <2>2. RunInv'  BY <1>6 DEF ReconcileExportersFails, gateVars
  <2> QED  BY <2>1, <2>2
<1> QED  BY <1>1, <1>2, <1>3, <1>4, <1>5, <1>6 DEF ServerStep

\* A system is deleted: its lock goes, and with it what its lock promised.
LEMMA DeleteSystemInv ==
    ASSUME Inv, RunInv, NEW s \in Systems, DeleteSystem(s)
    PROVE  Inv' /\ RunInv'
<1>1. Inv'  BY OutsideInv DEF DeleteSystem
<1> USE DEF DeleteSystem, RunInv, RunTypeOK
<1>2. RunTypeOK'  OBVIOUS
<1>3. \A t \in Systems : locks'[t] # NoRun => locks'[t] = locks[t] /\ t # s  OBVIOUS
<1>4. LockedRunsOwnTheirLock'  BY <1>2 DEF LockedRunsOwnTheirLock
<1>5. NoOrphanLock' /\ LocksNameRuns'  BY <1>3 DEF NoOrphanLock, LocksNameRuns
<1>6. NoOrphanRow' /\ LiveNeedsServer'  BY DEF NoOrphanRow, LiveNeedsServer
<1>7. HalfReconciled'  BY DEF HalfReconciled, Running
<1>8. GatePlaces'  BY DEF GatePlaces, Gated, gateVars
<1> QED  BY <1>1, <1>2, <1>4, <1>5, <1>6, <1>7, <1>8

\* Gate and runs together: Sound holds at the start and is kept by every
\* statement, critical section, signal, crash and boot step.
THEOREM SoundInductive ==
    (Init => Sound) /\ (Sound /\ [Next]_vars => Sound')
<1>1. ASSUME Init PROVE Sound
  <2>1. Inv  BY <1>1, InvInductive DEF Init
  <2>2. RunInv
    BY <1>1, ActionRunsAssumption
       DEF Init, GateInit, RunInv, RunTypeOK, LockedRunsOwnTheirLock, NoOrphanLock, NoOrphanRow,
           LiveNeedsServer, HalfReconciled, LocksNameRuns, GatePlaces, Servers, Places, Locked, Live, Running, Runs
  <2> QED  BY <2>1, <2>2 DEF Sound
<1>2. ASSUME Sound, [Next]_vars PROVE Sound'
  <2>1. ASSUME NEW r \in Runs, PlainStep(r) PROVE Sound'
    <3>1. UNCHANGED gateVars
      BY <2>1 DEF PlainStep, Admit, InsertRun, AcquireLock, AcquireLockConflict, AcquireLockFails,
                  FinishRefused, FinishFails, PlaybookEnds, FinishRun, ReleaseLock, ReleaseLockFails,
                  RebootIfRequired, RebootEnds
    <3> QED  BY <1>2, <2>1, <3>1, PlainStepInv, OutsideInv DEF Sound
  <2>2. ASSUME NEW r \in Runs, GatedStep(r) PROVE Sound'
    BY <1>2, <2>2, GatedStepGate, GatedStepInv DEF Sound
  <2>3. ASSUME NEW n \in Settings, Retune(n) PROVE Sound'
    <3>1. Inv' /\ UNCHANGED stage  BY <1>2, <2>3, OutsideInv DEF Sound, Retune
    <3>2. UNCHANGED <<stage, server, pc, target, kind, row, newer, locks, faulted, hosts>>
      BY <2>3, <3>1 DEF Retune, runVars
    <3> QED  BY <1>2, <3>1, <3>2
                DEF Sound, RunInv, RunTypeOK, LockedRunsOwnTheirLock, NoOrphanLock, NoOrphanRow,
                    LiveNeedsServer, HalfReconciled, LocksNameRuns, GatePlaces, Gated, IsExporterRun
  <2>4. CASE ServerStep  BY <1>2, <2>4, ServerStepInv DEF Sound
  <2>5. CASE UNCHANGED vars
    <3>1. Inv'  BY <1>2, <2>5, OutsideInv DEF Sound, vars, gateVars
    <3> QED  BY <1>2, <2>5, <3>1
                DEF vars, Sound, RunInv, RunTypeOK, LockedRunsOwnTheirLock, NoOrphanLock, NoOrphanRow,
                    LiveNeedsServer, HalfReconciled, LocksNameRuns, GatePlaces, Gated, IsExporterRun
  <2>6. ASSUME NEW r \in Runs, RunStep(r) PROVE PlainStep(r) \/ GatedStep(r)
    BY <2>6 DEF RunStep, PlainStep, GatedStep
  <2>7. ASSUME NEW s \in Systems, DeleteSystem(s) PROVE Sound'
    BY <1>2, <2>7, DeleteSystemInv DEF Sound
  <2> QED  BY <1>2, <2>1, <2>2, <2>3, <2>4, <2>5, <2>6, <2>7 DEF Next
<1> QED  BY <1>1, <1>2

\* It holds always.
THEOREM Soundness == Spec => []Sound
BY SoundInductive, PTL DEF Spec

-----------------------------------------------------------------------------
\* The tables, the gate and the program counters keep their types.
THEOREM RunsTypeCorrect == Spec => []TypeOK
<1>1. Sound => TypeOK  BY DEF Sound, Inv, RunInv, RunTypeOK, TypeOK
<1> QED  BY <1>1, Soundness, PTL

\* The advisory lock does its work: no two runs that take it are between
\* AcquireLock and ReleaseLock on one host, whatever crashes and restarts
\* happen (sqlite_store.go:905-933, main.go:193-210).
THEOREM MutualExclusion == Spec => []OneRunPerHost
<1>1. Sound => OneRunPerHost
  BY DEF Sound, RunInv, LockedRunsOwnTheirLock, OneRunPerHost
<1> QED  BY <1>1, Soundness, PTL

\* No restart, drain or late statement takes the lock from a run at work on
\* a host that has not been deleted.
THEOREM LocksAreKept == Spec => []LockedRunsOwnTheirLock
<1>1. Sound => LockedRunsOwnTheirLock  BY DEF Sound, RunInv
<1> QED  BY <1>1, Soundness, PTL

\* No host is left locked while the server serves, except by a DELETE that
\* failed.
THEOREM LocksHaveOwners == Spec => []NoOrphanLock
<1>1. Sound => NoOrphanLock  BY DEF Sound, RunInv
<1> QED  BY <1>1, Soundness, PTL

\* No run is shown as running while the server serves and nobody is at it,
\* except after a statement that failed.
THEOREM RowsHaveOwners == Spec => []NoOrphanRow
<1>1. Sound => NoOrphanRow  BY DEF Sound, RunInv
<1> QED  BY <1>1, Soundness, PTL

\* Slots go to locked hosts only.
THEOREM SlotsNeedLocks == Spec => []SlotsAreForLockedHosts
<1>1. Sound => SlotsAreForLockedHosts
  BY DEF Sound, Inv, GateTypeOK, Stages, RunInv, RunTypeOK, LockedRunsOwnTheirLock, GatePlaces,
         Locked, SlotsAreForLockedHosts, Runs
<1> QED  BY <1>1, Soundness, PTL

\* The gate keeps its count in the company of the runner: a crash empties
\* it, a cancelled run gives its slot on, a finished one gives it back.
THEOREM SlotsNeverLeakInRuns == Spec => []NoSlotLeak
<1>1. Sound => NoSlotLeak  BY DEF Sound, Inv
<1> QED  BY <1>1, Soundness, PTL

\* All of it together: lock table, run rows, gate and goroutines agree on who
\* is at work, whatever fails, crashes, boots or is deleted.
THEOREM TablesAlwaysAgree == Spec => []TablesAgree
<1>1. TypeOK /\ LockedRunsOwnTheirLock /\ NoOrphanLock /\ NoOrphanRow /\ SlotsAreForLockedHosts
        => TablesAgree
  BY DEF TablesAgree
<1> QED  BY <1>1, RunsTypeCorrect, LocksAreKept, LocksHaveOwners, RowsHaveOwners, SlotsNeedLocks, PTL
=============================================================================
