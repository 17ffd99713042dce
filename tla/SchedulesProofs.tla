-------------------------- MODULE SchedulesProofs --------------------------
(***************************************************************************)
(* For any number of schedules, goroutines and systems, any fire times and *)
(* any grace: fires of one schedule exclude each other, rows agree with    *)
(* goroutines, and what the ticker dispatches is not from before the       *)
(* grace.                                                                  *)
(*                                                                         *)
(* The mutex is the heart of it.  What the runs check, that a schedule is  *)
(* locked if and only if one fire is past dispatch, is not inductive; that *)
(* each of the two knows the other is.                                     *)
(*                                                                         *)
(* For any calendar, zones and expressions: where the clock keeps time the *)
(* search for a fire time passes none.  And for any input: a label         *)
(* selector means what is written.  The proofs of those come second and    *)
(* third; the three share no state.                                        *)
(***************************************************************************)
EXTENDS MCSchedules, Cron, Selector, FiniteSetTheorems, SequenceTheorems,
        WellFoundedInduction, TLAPS

\* A fire that has taken its schedule's mutex holds it; a mutex that is held
\* is held by a fire of that schedule.
FiresHoldTheirMutex ==
    \A f \in Slots : (fires[f] # None /\ fires[f].pc # "dispatched")
                        => locked[fires[f].id] = f
MutexesHaveHolders ==
    \A i \in Ids : locked[i] # None =>
        /\ fires[locked[i]] # None
        /\ fires[locked[i]].id = i
        /\ fires[locked[i]].pc # "dispatched"
Mutex == FiresHoldTheirMutex /\ MutexesHaveHolders

Open == {"running", "worked"}

\* A run that is under way has its row, unless the schedule was deleted.
OpenRunsHaveRows ==
    \A f \in Slots : (fires[f] # None /\ fires[f].pc \in Open /\ Exists(fires[f].id))
                        => rows[fires[f].id] >= 1

IInv == TypeOK /\ Mutex /\ OpenRunsHaveRows /\ NextRunIffEnabled

-----------------------------------------------------------------------------
\* Every nonempty set of naturals has a least element: the least interval
\* 0..n, as inclusion is well-founded on finite sets.
LEMMA LeastNatural ==
    ASSUME NEW S \in SUBSET Nat, S # {}
    PROVE  \E m \in S : \A n \in S : m <= n
<1> DEFINE T == {0..n : n \in S}
<1>1. T \subseteq FiniteSubsetsOf(Nat) /\ T # {}
  <2>1. ASSUME NEW n \in S PROVE 0..n \in SUBSET Nat /\ IsFiniteSet(0..n)
    <3>1. n \in Int /\ 0 \in Int  OBVIOUS
    <3> QED  BY <3>1, FS_Interval
  <2> QED  BY <2>1 DEF FiniteSubsetsOf
<1>2. PICK X \in T : \A Y \in T : ~ (<<Y, X>> \in StrictSubsetOrdering(Nat))
  <2> HIDE DEF T
  <2> QED  BY <1>1, FS_StrictSubsetOrderingWellFounded, WFMin
<1>3. PICK m \in S : X = 0..m  OBVIOUS
<1>4. ASSUME NEW n \in S PROVE m <= n
  <2>1. ASSUME n < m PROVE <<0..n, 0..m>> \in StrictSubsetOrdering(Nat)
    <3>1. m \in 0..m /\ m \notin 0..n  BY <2>1
    <3>2. 0..n \subseteq 0..m /\ 0..m \subseteq Nat  BY <2>1
    <3> QED  BY <3>1, <3>2 DEF StrictSubsetOrdering
  <2>2. 0..n \in T  OBVIOUS
  <2>3. ~(n < m)  BY <2>1, <1>2, <1>3, <2>2
  <2> QED  BY <2>3
<1> QED  BY <1>4

\* computeNext finds a fire time, and a later one than now (cron.go: Next is
\* strictly after its argument).
LEMMA NextIsLater ==
    ASSUME NEW from \in 0..MaxTime
    PROVE  computeNext(from) \in Occurrences /\ computeNext(from) > from
<1> DEFINE S == {o \in Occurrences : o > from}
<1>1. S \in SUBSET Nat /\ S # {}
  <2>1. PICK o \in Occurrences : o > MaxTime  BY SchedulesAssumption
  <2>2. o > from /\ Occurrences \subseteq Nat  BY <2>1, SchedulesAssumption
  <2> QED  BY <2>2
<1>2. PICK o \in S : \A p \in S : o <= p
  <2> HIDE DEF S
  <2> QED  BY <1>1, LeastNatural
<1>3. o \in Occurrences /\ o > from /\ \A p \in Occurrences : p > from => o <= p  BY <1>2
<1> QED  BY <1>3 DEF computeNext

\* What Row writes is a row, with a fire time if it is enabled.
LEMMA RowIsSchedule ==
    ASSUME NEW e \in BOOLEAN, NEW from \in 0..MaxTime, NEW last \in Statuses \cup {None}
    PROVE  /\ Row(e, from, last) \in Schedule
           /\ Row(e, from, last) # None
           /\ Row(e, from, last).enabled <=> Row(e, from, last).next # None
           /\ Row(e, from, last).enabled => /\ Row(e, from, last).next \in Nat
                                         /\ Row(e, from, last).next > from
<1>1. computeNext(from) \in Occurrences /\ computeNext(from) > from /\ computeNext(from) # None
  BY NextIsLater, SchedulesAssumption
<1>2. Row(e, from, last) \in Schedule  BY <1>1 DEF Row, Schedule
<1> QED  BY <1>1, <1>2, SchedulesAssumption DEF Row

LEMMA InitInv == Init => IInv
<1> SUFFICES ASSUME Init PROVE IInv  OBVIOUS
<1>1. Row(TRUE, 1, None) \in Schedule /\ (Row(TRUE, 1, None).enabled <=> Row(TRUE, 1, None).next # None)
  <2>1. 1 \in 0..MaxTime  BY SchedulesAssumption
  <2> QED  BY <2>1, RowIsSchedule
<1>2. TypeOK
  <2>1. now \in 1..MaxTime /\ lastTick \in 0..MaxTime  BY SchedulesAssumption DEF Init
  <2>2. schedules \in [Ids -> {None} \cup Schedule]  BY <1>1 DEF Init
  <2>3. up \in BOOLEAN /\ ticker \in {None} \cup 1..MaxTime /\ inventory \subseteq Hosts
    BY DEF Init
  <2>4. rows \in [Ids -> Nat] /\ locked \in [Ids -> Slots \cup {None}]
    BY DEF Init
  <2>5. fires \in [Slots -> {None} \cup Fire]  BY DEF Init
  <2> QED  BY <2>1, <2>2, <2>3, <2>4, <2>5 DEF TypeOK
<1>3. NextRunIffEnabled  BY <1>1 DEF Init, NextRunIffEnabled, Exists
<1>4. Mutex /\ OpenRunsHaveRows
  BY DEF Init, Mutex, FiresHoldTheirMutex, MutexesHaveHolders, OpenRunsHaveRows
<1> QED  BY <1>2, <1>3, <1>4 DEF IInv

-----------------------------------------------------------------------------
\* Placing a goroutine somewhere keeps the types and every other goroutine.
LEMMA MoveTypes ==
    ASSUME TypeOK, NEW f \in Slots, fires[f] # None, NEW place \in Places, Move(f, place)
    PROVE  /\ fires' \in [Slots -> {None} \cup Fire]
           /\ fires[f].id \in Ids /\ fires'[f].id = fires[f].id /\ fires'[f].pc = place
           /\ fires'[f] # None
           /\ \A g \in Slots \ {f} : fires'[g] = fires[g]
<1>1. fires[f] \in Fire  BY DEF TypeOK
<1>2. [fires[f] EXCEPT !.pc = place] \in Fire  BY <1>1 DEF Fire
<1>3. fires' = [fires EXCEPT ![f] = [fires[f] EXCEPT !.pc = place]]  BY DEF Move
<1> QED  BY <1>1, <1>2, <1>3, SchedulesAssumption DEF TypeOK, Fire

\* The two ways a fan-out ends store its status.
LEMMA WorkedTypes ==
    ASSUME TypeOK, NEW f \in Slots, At(f, "running"), FanOut(f) \/ ResolveTargetsFails(f)
    PROVE  /\ fires' \in [Slots -> {None} \cup Fire]
           /\ fires[f].id \in Ids /\ fires'[f].id = fires[f].id /\ fires'[f].pc = "worked"
           /\ fires'[f] # None
           /\ \A g \in Slots \ {f} : fires'[g] = fires[g]
<1>1. fires[f] \in Fire  BY DEF TypeOK, At
<1>2. PICK st \in Statuses : fires' = [fires EXCEPT ![f].pc = "worked", ![f].status = st]
  BY DEF FanOut, ResolveTargetsFails, finalStatus, Statuses
<1>3. [fires[f] EXCEPT !.pc = "worked", !.status = st] \in Fire
  BY <1>1 DEF Fire, Places
<1>4. fires' = [fires EXCEPT ![f] = [fires[f] EXCEPT !.pc = "worked", !.status = st]]
  BY <1>2, <1>1 DEF TypeOK
<1> QED  BY <1>1, <1>3, <1>4, SchedulesAssumption DEF TypeOK, Fire

\* A step of a fire keeps the invariant: it moves its own goroutine only, and
\* touches no mutex but its schedule's.
LEMMA FireStepInv ==
    ASSUME IInv, NEW f \in Slots,
           FireStep(f) \/ RecordRunStartFails(f) \/ RecordRunFinishFails(f)
    PROVE  IInv'
<1> USE DEF IInv
<1> USE DEF TypeOK, Mutex, FiresHoldTheirMutex, MutexesHaveHolders, OpenRunsHaveRows,
            NextRunIffEnabled, Exists, Open, At
<1>1. CASE TryLock(f)
  <2>1. fires[f] # None /\ Move(f, "locked") /\ "locked" \in Places  BY <1>1 DEF TryLock, Places
  <2>2. PICK i \in Ids : i = fires[f].id  BY <2>1, MoveTypes
  <2>3. locked[i] = None /\ locked' = [locked EXCEPT ![i] = f]
    BY <1>1, <2>2 DEF TryLock
  <2>4. TypeOK' /\ NextRunIffEnabled'  BY <1>1, <2>1, <2>3, MoveTypes DEF TryLock
  <2>5. FiresHoldTheirMutex'
    <3>1. \A g \in Slots \ {f} : fires[g] # None /\ fires[g].pc # "dispatched" => fires[g].id # i
      BY <2>3, SchedulesAssumption
    <3> QED  BY <2>1, <2>2, <2>3, <3>1, MoveTypes DEF Fire
  <2>6. MutexesHaveHolders'
    <3>1. \A j \in Ids \ {i} : locked[j] # None => locked[j] # f  BY <2>2
    <3> QED  BY <2>1, <2>2, <2>3, <3>1, MoveTypes
  <2>7. OpenRunsHaveRows'  BY <1>1, <2>1, MoveTypes DEF TryLock, Fire
  <2> QED  BY <2>4, <2>5, <2>6, <2>7
<1>2. CASE SkipOverlapping(f)  BY <1>2 DEF SkipOverlapping
<1>3. CASE RecordRunStart(f)
  <2>1. fires[f] # None /\ Move(f, "running") /\ "running" \in Places
    BY <1>3 DEF RecordRunStart, Places
  <2>2. PICK i \in Ids : i = fires[f].id  BY <2>1, MoveTypes
  <2>3. rows' = [rows EXCEPT ![i] = @ + 1]  BY <1>3, <2>2 DEF RecordRunStart
  <2> QED  BY <1>3, <2>1, <2>2, <2>3, MoveTypes DEF RecordRunStart
<1>4. CASE RecordRunStartFails(f)
  <2>1. fires[f] # None /\ Move(f, "finished") /\ "finished" \in Places
    BY <1>4 DEF RecordRunStartFails, Places
  <2> QED  BY <1>4, <2>1, MoveTypes DEF RecordRunStartFails
<1>5. CASE FanOut(f) \/ ResolveTargetsFails(f)
  <2>1. At(f, "running")  BY <1>5 DEF FanOut, ResolveTargetsFails
  <2>2. UNCHANGED <<now, schedules, locked, ticker, lastTick, up, inventory, rows>>
    BY <1>5 DEF FanOut, ResolveTargetsFails
  <2> QED  BY <1>5, <2>1, <2>2, WorkedTypes
<1>6. CASE RecordRunFinish(f)
  <2>1. fires[f] # None /\ fires[f].pc = "worked" /\ Move(f, "finished") /\ "finished" \in Places
    BY <1>6 DEF RecordRunFinish, Places
  <2>2. PICK i \in Ids : i = fires[f].id  BY <2>1, MoveTypes
  <2>3. fires[f].status \in Statuses \cup {None}  BY <2>1 DEF Fire
  <2>4. CASE schedules[i] = None
    <3>1. UNCHANGED <<schedules, rows>>  BY <1>6, <2>2, <2>4 DEF RecordRunFinish
    <3> QED  BY <1>6, <2>1, <3>1, MoveTypes DEF RecordRunFinish
  <2>5. CASE schedules[i] # None
    <3>1. schedules[i].enabled \in BOOLEAN /\ now \in 0..MaxTime
      BY <2>5 DEF Schedule
    <3>2. schedules' = [schedules EXCEPT ![i] = Row(schedules[i].enabled, now, fires[f].status)]
      BY <1>6, <2>2, <2>5 DEF RecordRunFinish
    <3>3. rows' = [rows EXCEPT ![i] = @ - 1] /\ rows[i] >= 1
      BY <1>6, <2>1, <2>2, <2>5 DEF RecordRunFinish
    <3>4. TypeOK' /\ NextRunIffEnabled'
      BY <1>6, <2>1, <2>3, <3>1, <3>2, <3>3, MoveTypes, RowIsSchedule DEF RecordRunFinish
    <3>5. Mutex'  BY <1>6, <2>1, MoveTypes DEF RecordRunFinish
    <3>6. \A g \in Slots \ {f} : fires[g] # None /\ fires[g].pc \in Open => fires[g].id # i
      BY <2>1, <2>2
    <3>7. OpenRunsHaveRows'
      BY <1>6, <2>1, <2>2, <3>2, <3>3, <3>6, MoveTypes DEF RecordRunFinish, Fire
    <3> QED  BY <3>4, <3>5, <3>7
  <2> QED  BY <2>4, <2>5
<1>7. CASE RecordRunFinishFails(f)
  <2>1. fires[f] # None /\ Move(f, "finished") /\ "finished" \in Places
    BY <1>7 DEF RecordRunFinishFails, Places
  <2> QED  BY <1>7, <2>1, MoveTypes DEF RecordRunFinishFails
<1>8. CASE Unlock(f)
  <2>1. PICK i \in Ids : i = fires[f].id  BY <1>8 DEF Unlock, Fire
  <2>2. locked' = [locked EXCEPT ![i] = None]  BY <1>8, <2>1 DEF Unlock
  <2> QED  BY <1>8, <2>1, <2>2 DEF Unlock, Fire
<1> QED  BY <1>1, <1>2, <1>3, <1>4, <1>5, <1>6, <1>7, <1>8 DEF FireStep

\* The ticker writes fire times and starts goroutines that hold nothing yet.
LEMMA TickInv ==
    ASSUME IInv, Tick \/ ReconcileMissedFails \/ DueFails
    PROVE  IInv'
<1> USE DEF IInv
<1> USE DEF TypeOK, Mutex, FiresHoldTheirMutex, MutexesHaveHolders, OpenRunsHaveRows,
            NextRunIffEnabled, Exists, Open
<1>1. CASE ReconcileMissed
  <2>1. now \in 1..MaxTime /\ now \in 0..MaxTime  OBVIOUS
  <2>2. ASSUME NEW i \in Ids
        PROVE  /\ schedules'[i] \in {None} \cup Schedule
               /\ schedules'[i] = None <=> schedules[i] = None
               /\ schedules'[i] # None => (schedules'[i].enabled <=> schedules'[i].next # None)
    <3>1. CASE Exists(i) /\ schedules[i].enabled /\ schedules[i].next < now - Grace
      <4>1. schedules'[i] = [schedules[i] EXCEPT !.next = computeNext(now)]
        BY <1>1, <3>1 DEF ReconcileMissed
      <4>2. schedules[i] \in Schedule  BY <3>1
      <4>3. schedules'[i] \in Schedule  BY <2>1, <4>1, <4>2, NextIsLater DEF Schedule
      <4>4. computeNext(now) # None  BY <2>1, NextIsLater, SchedulesAssumption
      <4> QED  BY <3>1, <4>1, <4>2, <4>3, <4>4, SchedulesAssumption DEF Schedule
    <3>2. CASE ~(Exists(i) /\ schedules[i].enabled /\ schedules[i].next < now - Grace)
      <4>1. schedules'[i] = schedules[i]  BY <1>1, <3>2 DEF ReconcileMissed
      <4> QED  BY <4>1
    <3> QED  BY <3>1, <3>2
  <2>3. schedules' = [i \in Ids |-> schedules'[i]]  BY <1>1 DEF ReconcileMissed
  <2>4. schedules' \in [Ids -> {None} \cup Schedule]  BY <2>2, <2>3
  <2>5. TypeOK'  BY <1>1, <2>1, <2>4 DEF ReconcileMissed
  <2>6. Mutex'  BY <1>1 DEF ReconcileMissed
  <2>7. OpenRunsHaveRows'  BY <1>1, <2>2 DEF ReconcileMissed, Fire
  <2> QED  BY <2>2, <2>5, <2>6, <2>7
<1>2. CASE ReconcileMissedFails  BY <1>2 DEF ReconcileMissedFails
<1>3. CASE Due
  <2>1. PICK g \in [DueAt(ticker) -> Idle] :
          fires' = [f \in Slots |->
                IF \E i \in DueAt(ticker) : g[i] = f
                THEN LET i == CHOOSE i \in DueAt(ticker) : g[i] = f
                     IN  [id |-> i, pc |-> "dispatched", status |-> None]
                ELSE fires[f]]
    BY <1>3 DEF Due
  <2>2. ASSUME NEW f \in Slots
        PROVE  \/ fires'[f] = fires[f]
               \/ /\ fires[f] = None
                  /\ fires'[f] \in Fire /\ fires'[f] # None /\ fires'[f].pc = "dispatched"
    <3>1. CASE \E i \in DueAt(ticker) : g[i] = f
      <4>1. PICK i \in DueAt(ticker) : fires'[f] = [id |-> i, pc |-> "dispatched", status |-> None]
        BY <2>1, <3>1
      <4>2. fires[f] = None  BY <3>1 DEF Idle
      <4>3. i \in Ids  BY DEF DueAt
      <4>4. fires'[f] \in Fire  BY <4>1, <4>3 DEF Fire, Places
      <4> QED  BY <4>1, <4>2, <4>4, SchedulesAssumption
    <3>2. CASE ~ \E i \in DueAt(ticker) : g[i] = f  BY <2>1, <3>2
    <3> QED  BY <3>1, <3>2
  <2>3. fires' \in [Slots -> {None} \cup Fire]
    <3>1. fires' = [f \in Slots |-> fires'[f]]  BY <2>1
    <3> QED  BY <2>2, <3>1
  <2>4. UNCHANGED <<now, schedules, locked, lastTick, up, inventory, rows>> /\ ticker' = None
    BY <1>3 DEF Due
  <2> QED  BY <2>2, <2>3, <2>4
<1>4. CASE DueFails  BY <1>4 DEF DueFails
<1> QED  BY <1>1, <1>2, <1>3, <1>4 DEF Tick

\* Operators change rows of the two tables under running fires.
LEMMA OperatorInv ==
    ASSUME IInv, Operator
    PROVE  IInv'
<1> USE DEF IInv
<1> USE DEF TypeOK, Mutex, FiresHoldTheirMutex, MutexesHaveHolders, OpenRunsHaveRows,
            NextRunIffEnabled, Exists, Open
<1>1. ASSUME NEW i \in Ids, NEW f \in Slots, RunNow(i, f) PROVE IInv'
  <2>1. [id |-> i, pc |-> "dispatched", status |-> None] \in Fire  BY DEF Fire, Places
  <2>2. fires[f] = None  BY <1>1 DEF RunNow, Idle
  <2> QED  BY <1>1, <2>1, <2>2, SchedulesAssumption DEF RunNow
<1>2. ASSUME NEW i \in Ids, NEW e \in BOOLEAN, Save(i, e) PROVE IInv'
  <2>1. schedules[i] # None /\ schedules[i].last \in Statuses \cup {None} /\ now \in 0..MaxTime
    BY <1>2 DEF Save, Schedule
  <2>2. schedules' = [schedules EXCEPT ![i] = Row(e, now, schedules[i].last)]
    BY <1>2 DEF Save
  <2>3. TypeOK' /\ NextRunIffEnabled'  BY <1>2, <2>1, <2>2, RowIsSchedule DEF Save
  <2>4. Mutex'  BY <1>2 DEF Save
  <2>5. OpenRunsHaveRows'  BY <1>2, <2>1, <2>2 DEF Save, Fire
  <2> QED  BY <2>3, <2>4, <2>5
<1>3. ASSUME NEW i \in Ids, Delete(i) PROVE IInv'
  BY <1>3 DEF Delete, Fire
<1>4. ASSUME NEW h \in Hosts, RemoveSystem(h) PROVE IInv'
  BY <1>4 DEF RemoveSystem
<1> QED  BY <1>1, <1>2, <1>3, <1>4 DEF Operator

\* Time, death and boot: what a crash leaves is rows, and no mutex.
LEMMA ProcessInv ==
    ASSUME IInv, Advance \/ Crash \/ Boot \/ UNCHANGED vars
    PROVE  IInv'
<1> USE DEF IInv
<1> USE DEF TypeOK, Mutex, FiresHoldTheirMutex, MutexesHaveHolders, OpenRunsHaveRows,
            NextRunIffEnabled, Exists, Open
<1>1. CASE Advance  BY <1>1, SchedulesAssumption DEF Advance
<1>2. CASE Crash  BY <1>2 DEF Crash
<1>3. CASE Boot  BY <1>3, SchedulesAssumption DEF Boot
<1>4. CASE UNCHANGED vars  BY <1>4 DEF vars
<1> QED  BY <1>1, <1>2, <1>3, <1>4

LEMMA StepInv == IInv /\ [Next]_vars => IInv'
  BY FireStepInv, TickInv, OperatorInv, ProcessInv DEF Next, Steady, StatementFails

\* The inductive invariant holds always.
THEOREM Soundness == Spec => []IInv
BY InitInv, StepInv, PTL DEF Spec

-----------------------------------------------------------------------------
\* Two fires of one schedule are never at work, and its mutex is held exactly
\* while one is (orchestrator.go: TryLock skips an overlapping fire).
LEMMA MutexExcludes ==
    ASSUME TypeOK, Mutex
    PROVE  NoOverlappingFires
<1> USE DEF Mutex, FiresHoldTheirMutex, MutexesHaveHolders, TypeOK
<1> SUFFICES ASSUME NEW i \in Ids
             PROVE  locked[i] # None <=>
                \E f \in Slots : /\ fires[f] # None /\ fires[f].id = i
                                 /\ fires[f].pc # "dispatched"
                                 /\ \A g \in Slots :
                                      (fires[g] # None /\ fires[g].id = i /\ g # f)
                                        => fires[g].pc = "dispatched"
  BY DEF NoOverlappingFires
<1>1. CASE locked[i] # None
  <2>1. locked[i] \in Slots  BY <1>1
  <2> QED  BY <1>1, <2>1
<1>2. CASE locked[i] = None  BY <1>2, SchedulesAssumption
<1> QED  BY <1>1, <1>2

\* Rows, mutexes and goroutines have their types, fires of one schedule do not
\* overlap, and what is enabled has a fire time, whatever operators, crashes
\* and failing statements do meanwhile.
THEOREM SchedulesStaySound == Spec => []SchedulesInv
<1>1. IInv => SchedulesInv  BY MutexExcludes DEF IInv, SchedulesInv
<1> QED  BY <1>1, Soundness, PTL

-----------------------------------------------------------------------------
(* With the history of MCSchedules: what holds as long as the process has  *)
(* not died and no statement has failed.                                   *)
Counts == crashes \in Nat /\ failures \in Nat

\* The row of a run is open while its fire is between its first and its last
\* statement.
RowsFollowFires ==
    (crashes = 0 /\ failures = 0) => \A i \in Ids : Exists(i) =>
        rows[i] = IF locked[i] # None /\ fires[locked[i]].pc \in Open THEN 1 ELSE 0

\* Between the ticker's two statements every enabled schedule is within the
\* grace of the tick, the ones that are written meanwhile included.
NothingOlderThanGrace ==
    ticker # None =>
        /\ ticker <= now
        /\ failures = 0 => \A i \in Ids : (Exists(i) /\ schedules[i].enabled)
                                => schedules[i].next >= ticker - Grace

MCInv == IInv /\ Counts /\ RowsFollowFires /\ NothingOlderThanGrace

LEMMA MCInitInv == MCInit => MCInv
<1> SUFFICES ASSUME MCInit PROVE MCInv  OBVIOUS
<1>1. IInv  BY InitInv DEF MCInit
<1>2. Counts /\ RowsFollowFires /\ NothingOlderThanGrace
  BY DEF MCInit, Init, Counts, RowsFollowFires, NothingOlderThanGrace
<1> QED  BY <1>1, <1>2 DEF MCInv

\* What an edit or a finished fire writes lies ahead of every tick.
LEMMA WrittenIsRecent ==
    ASSUME IInv, NothingOlderThanGrace, NEW i \in Ids, NEW e \in BOOLEAN,
           NEW last \in Statuses \cup {None},
           schedules' = [schedules EXCEPT ![i] = Row(e, now, last)],
           UNCHANGED <<now, ticker, failures>>
    PROVE  NothingOlderThanGrace'
<1>1. now \in 0..MaxTime /\ Grace \in Nat /\ ticker \in {None} \cup 1..MaxTime
  BY SchedulesAssumption DEF IInv, TypeOK
<1>2. ASSUME NEW j \in Ids PROVE schedules'[j] = IF j = i THEN Row(e, now, last) ELSE schedules[j]
  BY DEF IInv, TypeOK
<1>3. Row(e, now, last).enabled => Row(e, now, last).next \in Nat /\ Row(e, now, last).next > now
  BY <1>1, RowIsSchedule
<1> SUFFICES ASSUME ticker # None, failures = 0, NEW j \in Ids,
                    schedules'[j] # None, schedules'[j].enabled
             PROVE  schedules'[j].next >= ticker - Grace
  BY DEF NothingOlderThanGrace, Exists
<1>4. CASE j # i  BY <1>2, <1>4 DEF NothingOlderThanGrace, Exists
<1>5. CASE j = i
  <2>1. ticker \in Nat /\ ticker <= now  BY <1>1 DEF NothingOlderThanGrace
  <2>2. schedules'[j] = Row(e, now, last)  BY <1>2, <1>5
  <2> QED  BY <1>1, <1>3, <2>1, <2>2
<1> QED  BY <1>4, <1>5

\* A fire opens its row and closes it; the next fire time it writes is later
\* than any tick.
LEMMA MCFireStep ==
    ASSUME MCInv, NEW f \in Slots, FireStep(f), UNCHANGED <<crashes, failures>>
    PROVE  RowsFollowFires' /\ NothingOlderThanGrace'
<1> USE DEF MCInv, IInv, Counts
<1> USE DEF TypeOK, Mutex, FiresHoldTheirMutex, MutexesHaveHolders,
            NextRunIffEnabled, Exists, Open, At, RowsFollowFires, NothingOlderThanGrace
<1>1. CASE TryLock(f)
  <2>1. fires[f] # None /\ Move(f, "locked") /\ "locked" \in Places  BY <1>1 DEF TryLock, Places
  <2>2. PICK i \in Ids : i = fires[f].id  BY <2>1, MoveTypes
  <2>3. locked[i] = None /\ locked' = [locked EXCEPT ![i] = f]
    BY <1>1, <2>2 DEF TryLock
  <2>4. \A j \in Ids \ {i} : locked[j] # None => locked[j] # f  BY <2>2
  <2> QED  BY <1>1, <2>1, <2>2, <2>3, <2>4, MoveTypes DEF TryLock
<1>2. CASE SkipOverlapping(f)
  <2>1. \A j \in Ids : locked[j] # None => locked[j] # f  BY <1>2 DEF SkipOverlapping
  <2> QED  BY <1>2, <2>1 DEF SkipOverlapping
<1>3. CASE RecordRunStart(f)
  <2>1. fires[f] # None /\ fires[f].pc = "locked" /\ Move(f, "running") /\ "running" \in Places
    BY <1>3 DEF RecordRunStart, Places
  <2>2. PICK i \in Ids : i = fires[f].id  BY <2>1, MoveTypes
  <2>3. rows' = [rows EXCEPT ![i] = @ + 1]  BY <1>3, <2>2 DEF RecordRunStart
  <2>4. locked[i] = f /\ \A j \in Ids \ {i} : locked[j] # None => locked[j] # f
    BY <2>1, <2>2
  <2>5. UNCHANGED <<now, schedules, locked, ticker>>  BY <1>3 DEF RecordRunStart
  <2>6. fires'[f].pc = "running" /\ \A g \in Slots \ {f} : fires'[g] = fires[g]
    BY <2>1, MoveTypes
  <2>7. ASSUME crashes = 0, failures = 0, NEW j \in Ids, Exists(j)
        PROVE  rows'[j] = IF locked[j] # None /\ fires'[locked[j]].pc \in Open THEN 1 ELSE 0
    <3>1. CASE j = i  BY <2>1, <2>3, <2>4, <2>6, <2>7, <3>1, SchedulesAssumption
    <3>2. CASE j # i  BY <2>3, <2>4, <2>6, <2>7, <3>2
    <3> QED  BY <3>1, <3>2
  <2> QED  BY <2>5, <2>7
<1>4. CASE FanOut(f) \/ ResolveTargetsFails(f)
  <2>1. At(f, "running")  BY <1>4 DEF FanOut, ResolveTargetsFails
  <2>2. UNCHANGED <<now, schedules, locked, ticker, lastTick, up, inventory, rows>>
    BY <1>4 DEF FanOut, ResolveTargetsFails
  <2> QED  BY <1>4, <2>1, <2>2, WorkedTypes
<1>5. CASE RecordRunFinish(f)
  <2>1. fires[f] # None /\ fires[f].pc = "worked" /\ Move(f, "finished") /\ "finished" \in Places
    BY <1>5 DEF RecordRunFinish, Places
  <2>2. PICK i \in Ids : i = fires[f].id  BY <2>1, MoveTypes
  <2>3. fires[f].status \in Statuses \cup {None}  BY <2>1 DEF Fire
  <2>4. locked[i] = f /\ \A j \in Ids \ {i} : locked[j] # None => locked[j] # f
    BY <2>1, <2>2
  <2>5. CASE schedules[i] = None
    <3>1. UNCHANGED <<schedules, rows>>  BY <1>5, <2>2, <2>5 DEF RecordRunFinish
    <3> QED  BY <1>5, <2>1, <2>4, <2>5, <3>1, MoveTypes DEF RecordRunFinish
  <2>6. CASE schedules[i] # None
    <3>1. schedules[i].enabled \in BOOLEAN /\ now \in 0..MaxTime
      BY <2>6 DEF Schedule
    <3>2. schedules' = [schedules EXCEPT ![i] = Row(schedules[i].enabled, now, fires[f].status)]
      BY <1>5, <2>2, <2>6 DEF RecordRunFinish
    <3>3. rows' = [rows EXCEPT ![i] = @ - 1]  BY <1>5, <2>2, <2>6 DEF RecordRunFinish
    <3>4. UNCHANGED <<now, locked, ticker>>  BY <1>5 DEF RecordRunFinish
    <3>5. RowsFollowFires'
      <4>1. fires'[f].pc = "finished" /\ \A g \in Slots \ {f} : fires'[g] = fires[g]
        BY <2>1, MoveTypes
      <4> SUFFICES ASSUME crashes = 0, failures = 0, NEW j \in Ids, schedules'[j] # None
                   PROVE  rows'[j] = IF locked[j] # None /\ fires'[locked[j]].pc \in Open
                                     THEN 1 ELSE 0
        BY <3>4
      <4>2. CASE j = i
        <5>1. rows[i] = 1  BY <2>1, <2>4, <2>6, SchedulesAssumption
        <5> QED  BY <2>4, <3>3, <4>1, <4>2, <5>1
      <4>3. CASE j # i  BY <2>4, <3>2, <3>3, <4>1, <4>3
      <4> QED  BY <4>2, <4>3
    <3>6. NothingOlderThanGrace'
      BY <2>3, <3>1, <3>2, <3>4, WrittenIsRecent
    <3> QED  BY <3>5, <3>6
  <2> QED  BY <2>5, <2>6
<1>6. CASE Unlock(f)
  <2>1. PICK i \in Ids : i = fires[f].id  BY <1>6 DEF Unlock, Fire
  <2>2. locked' = [locked EXCEPT ![i] = None]  BY <1>6, <2>1 DEF Unlock
  <2>3. locked[i] = f /\ \A j \in Ids \ {i} : locked[j] # None => locked[j] # f
    BY <1>6, <2>1 DEF Unlock
  <2> QED  BY <1>6, <2>1, <2>2, <2>3 DEF Unlock
<1> QED  BY <1>1, <1>2, <1>3, <1>4, <1>5, <1>6 DEF FireStep

\* What is past the grace moves; what is dispatched has no row yet.
LEMMA MCTick ==
    ASSUME MCInv, Tick, UNCHANGED <<crashes, failures>>
    PROVE  RowsFollowFires' /\ NothingOlderThanGrace'
<1> USE DEF MCInv, IInv, Counts
<1> USE DEF TypeOK, Mutex, FiresHoldTheirMutex, MutexesHaveHolders,
            NextRunIffEnabled, Exists, Open, RowsFollowFires, NothingOlderThanGrace
<1>1. CASE ReconcileMissed
  <2>1. now \in 0..MaxTime /\ ticker' = now  BY <1>1 DEF ReconcileMissed
  <2>2. ASSUME NEW i \in Ids
        PROVE  /\ schedules'[i] = None <=> schedules[i] = None
               /\ (schedules'[i] # None /\ schedules'[i].enabled) => schedules'[i].next >= now - Grace
    <3>1. CASE Exists(i) /\ schedules[i].enabled /\ schedules[i].next < now - Grace
      <4>1. schedules'[i] = [schedules[i] EXCEPT !.next = computeNext(now)]
        BY <1>1, <3>1 DEF ReconcileMissed
      <4>2. schedules[i] \in Schedule  BY <3>1
      <4>3. computeNext(now) \in Occurrences /\ computeNext(now) > now  BY <2>1, NextIsLater
      <4>4. schedules'[i] \in Schedule  BY <4>1, <4>2, <4>3 DEF Schedule
      <4>5. schedules'[i].next = computeNext(now)  BY <4>1, <4>2 DEF Schedule
      <4> QED  BY <3>1, <4>3, <4>4, <4>5, SchedulesAssumption
    <3>2. CASE ~(Exists(i) /\ schedules[i].enabled /\ schedules[i].next < now - Grace)
      <4>1. schedules'[i] = schedules[i]  BY <1>1, <3>2 DEF ReconcileMissed
      <4>2. schedules[i] # None /\ schedules[i].enabled
              => schedules[i].next \in Nat /\ ~(schedules[i].next < now - Grace)
        BY <3>2, SchedulesAssumption DEF Schedule
      <4> QED  BY <2>1, <4>1, <4>2, SchedulesAssumption
    <3> QED  BY <3>1, <3>2
  <2> QED  BY <1>1, <2>1, <2>2 DEF ReconcileMissed
<1>2. CASE Due
  <2>1. UNCHANGED <<now, schedules, locked, rows>> /\ ticker' = None  BY <1>2 DEF Due
  <2>2. PICK g \in [DueAt(ticker) -> Idle] :
          fires' = [f \in Slots |->
                IF \E i \in DueAt(ticker) : g[i] = f
                THEN LET i == CHOOSE i \in DueAt(ticker) : g[i] = f
                     IN  [id |-> i, pc |-> "dispatched", status |-> None]
                ELSE fires[f]]
    BY <1>2 DEF Due
  <2>3. ASSUME NEW f \in Slots, fires[f] # None PROVE fires'[f] = fires[f]
    BY <2>2, <2>3 DEF Idle
  <2> QED  BY <2>1, <2>3
<1> QED  BY <1>1, <1>2 DEF Tick

LEMMA MCOperator ==
    ASSUME MCInv, Operator, UNCHANGED <<crashes, failures>>
    PROVE  RowsFollowFires' /\ NothingOlderThanGrace'
<1> USE DEF MCInv, IInv, Counts
<1> USE DEF TypeOK, Mutex, FiresHoldTheirMutex, MutexesHaveHolders, Exists, Open
<1>1. ASSUME NEW i \in Ids, NEW f \in Slots, RunNow(i, f)
      PROVE  RowsFollowFires' /\ NothingOlderThanGrace'
  <2>1. fires[f] = None  BY <1>1 DEF RunNow, Idle
  <2> QED  BY <1>1, <2>1 DEF RunNow, RowsFollowFires, NothingOlderThanGrace
<1>2. ASSUME NEW i \in Ids, NEW e \in BOOLEAN, Save(i, e)
      PROVE  RowsFollowFires' /\ NothingOlderThanGrace'
  <2>1. schedules[i] # None /\ schedules[i].last \in Statuses \cup {None}
    BY <1>2 DEF Save, Schedule
  <2>2. schedules' = [schedules EXCEPT ![i] = Row(e, now, schedules[i].last)]
    BY <1>2 DEF Save
  <2>3. NothingOlderThanGrace'
    <3>1. UNCHANGED <<now, ticker, failures>>  BY <1>2 DEF Save
    <3> QED  BY <2>1, <2>2, <3>1, WrittenIsRecent
  <2>4. RowsFollowFires'  BY <1>2, <2>1, <2>2 DEF Save, RowsFollowFires
  <2> QED  BY <2>3, <2>4
<1>3. ASSUME NEW i \in Ids, Delete(i)
      PROVE  RowsFollowFires' /\ NothingOlderThanGrace'
  BY <1>3 DEF Delete, RowsFollowFires, NothingOlderThanGrace
<1>4. ASSUME NEW h \in Hosts, RemoveSystem(h)
      PROVE  RowsFollowFires' /\ NothingOlderThanGrace'
  BY <1>4 DEF RemoveSystem, RowsFollowFires, NothingOlderThanGrace
<1> QED  BY <1>1, <1>2, <1>3, <1>4 DEF Operator

\* A statement that fails takes the promise about failures away, and no more.
LEMMA MCFault ==
    ASSUME MCInv,
           \/ Crash /\ crashes' = crashes + 1 /\ UNCHANGED failures
           \/ StatementFails /\ failures' = failures + 1 /\ UNCHANGED crashes
    PROVE  Counts' /\ RowsFollowFires' /\ NothingOlderThanGrace'
<1> USE DEF MCInv, Counts
<1>1. CASE Crash /\ crashes' = crashes + 1 /\ UNCHANGED failures
  BY <1>1 DEF Crash, RowsFollowFires, NothingOlderThanGrace
<1>2. CASE StatementFails /\ failures' = failures + 1 /\ UNCHANGED crashes
  <2>1. Counts' /\ failures' # 0  BY <1>2
  <2>2. UNCHANGED now /\ (UNCHANGED ticker \/ ticker' \in {now, None})
    BY <1>2 DEF StatementFails, ReconcileMissedFails, DueFails, RecordRunStartFails,
                RecordRunFinishFails
  <2>3. now \in Nat  BY SchedulesAssumption DEF IInv, TypeOK
  <2> QED  BY <2>1, <2>2, <2>3 DEF RowsFollowFires, NothingOlderThanGrace
<1> QED  BY <1>1, <1>2

LEMMA MCStepInv == MCInv /\ [MCNext]_mcVars => MCInv'
<1> SUFFICES ASSUME MCInv, [MCNext]_mcVars PROVE MCInv'  OBVIOUS
<1>1. [Next]_vars  BY DEF MCNext, Next, mcVars, vars
<1>2. IInv'  BY <1>1, StepInv DEF MCInv
<1>3. CASE UNCHANGED mcVars
  BY <1>2, <1>3 DEF mcVars, MCInv, Counts, RowsFollowFires, NothingOlderThanGrace, Exists
<1>4. CASE Steady /\ UNCHANGED <<crashes, failures>>
  <2>1. Counts'  BY <1>4 DEF MCInv, Counts
  <2>2. CASE Advance
    BY <1>2, <2>1, <2>2, <1>4, SchedulesAssumption
       DEF Advance, MCInv, IInv, TypeOK, RowsFollowFires, NothingOlderThanGrace, Exists
  <2>3. CASE Boot
    BY <1>2, <2>1, <2>3, <1>4 DEF Boot, MCInv, RowsFollowFires, NothingOlderThanGrace, Exists
  <2> QED  BY <1>2, <1>4, <2>1, <2>2, <2>3, MCFireStep, MCTick, MCOperator DEF Steady, MCInv
<1> QED  BY <1>2, <1>3, <1>4, MCFault DEF MCNext, MCInv

THEOREM MCSoundness == MCSpec => []MCInv
BY MCInitInv, MCStepInv, PTL DEF MCSpec

\* Neither a restart nor a stalled ticker runs what was missed before the
\* grace, whatever is written between the ticker's two statements
\* (ticker.go:74-78).
THEOREM GraceIsKept == MCSpec => []NoCatchUpSpike
<1>1. MCInv => NoCatchUpSpike
  BY DEF MCInv, NothingOlderThanGrace, NoCatchUpSpike, DueAt
<1> QED  BY <1>1, MCSoundness, PTL

\* The history shows as many runs 'running' as goroutines are at work, one at
\* most, until the process dies or a statement fails (sqlite_store.go:
\* RecordRunStart, RecordRunFinish).
THEOREM RunningRowsStayLive == MCSpec => []RunningRowsAreLive
<1>1. ASSUME MCInv PROVE RunningRowsAreLive
  <2> SUFFICES ASSUME crashes = 0, failures = 0, NEW i \in Ids, Exists(i)
               PROVE  rows[i] = Cardinality({f \in Slots : (At(f, "running") \/ At(f, "worked"))
                                                /\ fires[f].id = i})
    BY DEF RunningRowsAreLive
  <2> DEFINE W == {f \in Slots : (At(f, "running") \/ At(f, "worked")) /\ fires[f].id = i}
  <2> USE DEF MCInv, IInv, TypeOK, Mutex, FiresHoldTheirMutex, MutexesHaveHolders, At, Open
  <2>1. CASE locked[i] # None /\ fires[locked[i]].pc \in Open
    <3>1. W = {locked[i]}  BY <1>1, <2>1
    <3>2. rows[i] = 1  BY <1>1, <2>1 DEF RowsFollowFires
    <3> QED  BY <3>1, <3>2, FS_Singleton
  <2>2. CASE ~(locked[i] # None /\ fires[locked[i]].pc \in Open)
    <3>1. W = {}  BY <1>1, <2>2, SchedulesAssumption
    <3>2. rows[i] = 0  BY <1>1, <2>2 DEF RowsFollowFires
    <3> QED  BY <3>1, <3>2, FS_EmptySet
  <2> QED  BY <2>1, <2>2
<1> QED  BY <1>1, MCSoundness, PTL

-----------------------------------------------------------------------------
\* The search for a fire time: the calendar.
LEMMA NextDate ==
  ASSUME NEW n \in 1..MaxDay
  PROVE  /\ Calendar[n] \in Date /\ Calendar[n - 1] \in Date
         /\ Calendar[n].dom # 1 => /\ Calendar[n].month = Calendar[n - 1].month
                                   /\ Calendar[n].dom = Calendar[n - 1].dom + 1
         /\ Calendar[n - 1].year <= Calendar[n].year
  <1> DEFINE p == Calendar[n - 1]
             q == Calendar[n]
  <1>1. p \in Date /\ q \in Date /\ q \in NextDates(p)
    <2>1. n \in 0..MaxDay /\ n - 1 \in 0..MaxDay
      BY CalendarAssumption
    <2> QED BY <2>1, CalendarAssumption
  <1>2. \/ q = [p EXCEPT !.dom = @ + 1]
        \/ q = [p EXCEPT !.month = @ + 1, !.dom = 1]
        \/ q = [year |-> p.year + 1, month |-> 1, dom |-> 1]
    BY <1>1 DEF NextDates
  <1> HIDE DEF p, q
  <1>3. /\ q.dom # 1 => q.month = p.month /\ q.dom = p.dom + 1
        /\ p.year <= q.year
    <2>1. p.year \in Nat /\ p.dom \in Nat
      BY <1>1 DEF Date
    <2>2. CASE q = [p EXCEPT !.dom = @ + 1]
      <3>1. q.dom = p.dom + 1 /\ q.month = p.month /\ q.year = p.year
        BY <1>1, <2>2 DEF Date
      <3> QED BY <2>1, <3>1
    <2>3. CASE q = [p EXCEPT !.month = @ + 1, !.dom = 1]
      <3>1. q.dom = 1 /\ q.year = p.year
        BY <1>1, <2>3 DEF Date
      <3> QED BY <2>1, <3>1
    <2>4. CASE q = [year |-> p.year + 1, month |-> 1, dom |-> 1]
      BY <2>1, <2>4
    <2> QED BY <1>2, <2>2, <2>3, <2>4
  <1> QED BY <1>1, <1>3 DEF p, q

\* Until the next first of a month it stays the same month.
LEMMA SameMonth ==
  ASSUME NEW d \in 0..MaxDay, NEW e \in 0..MaxDay, d <= e,
         \A n \in (d + 1)..e : Calendar[n].dom # 1
  PROVE  Calendar[e].month = Calendar[d].month /\ Calendar[e].dom = Calendar[d].dom + (e - d)
  <1> DEFINE Same(n) == Calendar[n].month = Calendar[d].month /\ Calendar[n].dom = Calendar[d].dom + (n - d)
             Wrong == {n \in d..e : ~Same(n)}
  <1>1. ASSUME Wrong # {} PROVE FALSE
    <2>1. Wrong \in SUBSET Nat
      OBVIOUS
    <2>2. PICK n \in Wrong : \A m \in Wrong : n <= m
      <3> HIDE DEF Wrong
      <3> QED BY <1>1, <2>1, LeastNatural
    <2>3. n # d
      <3>1. Calendar[d] \in Date
        BY CalendarAssumption
      <3> QED BY <3>1 DEF Date
    <2>4. n \in (d + 1)..e /\ n - 1 \in d..e /\ n \in 1..MaxDay
      BY <2>2, <2>3, CalendarAssumption
    <2>5. Same(n - 1)
      BY <2>2, <2>4
    <2>6. Calendar[n].month = Calendar[n - 1].month /\ Calendar[n].dom = Calendar[n - 1].dom + 1
      BY <2>4, NextDate
    <2>7. Calendar[d] \in Date
      BY CalendarAssumption
    <2> QED BY <2>2, <2>4, <2>5, <2>6, <2>7 DEF Date
  <1> QED BY <1>1

\* The first of the next month, when a later month is reached at all.
FirstOfNextMonth(today) ==
    CHOOSE d \in today + 1 .. today + MaxDom :
        /\ Calendar[d].dom = 1
        /\ \A d2 \in today + 1 .. d - 1 : Calendar[d2].dom # 1

LEMMA NextMonth ==
  ASSUME NEW d \in 0..MaxDay, NEW e \in 0..MaxDay, d <= e,
         Calendar[e].month # Calendar[d].month
  PROVE  /\ FirstOfNextMonth(d) \in (d + 1)..e
         /\ \A n \in d..(FirstOfNextMonth(d) - 1) : Calendar[n].month = Calendar[d].month
  <1> DEFINE Firsts == {n \in (d + 1)..e : Calendar[n].dom = 1}
             IsNext(k) == Calendar[k].dom = 1 /\ \A n \in (d + 1)..(k - 1) : Calendar[n].dom # 1
             next == CHOOSE k \in (d + 1)..(d + MaxDom) : IsNext(k)
  <1>1. d \in Nat /\ e \in Nat /\ MaxDom \in Nat \ {0} /\ MaxDay \in Nat /\ e <= MaxDay
    BY CalendarAssumption
  <1>2. ASSUME Firsts = {} PROVE FALSE
    <2>1. \A n \in (d + 1)..e : Calendar[n].dom # 1
      BY <1>2
    <2> QED BY <2>1, SameMonth
  <1>3. Firsts \in SUBSET Nat
    BY <1>1
  <1>4. PICK k \in Firsts : \A n \in Firsts : k <= n
    <2> HIDE DEF Firsts
    <2> QED BY <1>2, <1>3, LeastNatural
  <1>5. k \in (d + 1)..e /\ IsNext(k)
    BY <1>1, <1>4
  <1>6. k <= d + MaxDom
    <2>1. k - 1 \in 0..MaxDay /\ d <= k - 1 /\ \A n \in (d + 1)..(k - 1) : Calendar[n].dom # 1
      BY <1>1, <1>5
    <2>2. Calendar[k - 1].dom = Calendar[d].dom + ((k - 1) - d)
      BY <2>1, SameMonth
    <2>3. Calendar[k - 1] \in Date /\ Calendar[d] \in Date
      BY <2>1, CalendarAssumption
    <2> QED BY <1>1, <1>5, <2>2, <2>3 DEF Date
  <1>7. next \in (d + 1)..(d + MaxDom) /\ IsNext(next)
    <2>1. k \in (d + 1)..(d + MaxDom)
      BY <1>1, <1>5, <1>6
    <2> HIDE DEF IsNext
    <2> QED BY <1>5, <2>1
  <1>8. FirstOfNextMonth(d) = next
    BY DEF FirstOfNextMonth
  <1> HIDE DEF next
  <1>9. next <= k
    <2>1. k < next => k \in (d + 1)..(next - 1)
      BY <1>1, <1>5, <1>7
    <2> QED BY <1>1, <1>5, <1>7, <2>1
  <1>10. ASSUME NEW n \in d..(next - 1) PROVE Calendar[n].month = Calendar[d].month
    <2>1. n \in 0..MaxDay /\ d <= n /\ \A j \in (d + 1)..n : Calendar[j].dom # 1
      BY <1>1, <1>5, <1>7, <1>9
    <2> QED BY <2>1, SameMonth
  <1> QED BY <1>1, <1>5, <1>7, <1>8, <1>9, <1>10

\* Years do not go back, and four of them are over in four times DaysPerYear.
LEMMA YearsGrow ==
  ASSUME NEW d \in 0..MaxDay, NEW e \in 0..MaxDay, d <= e
  PROVE  Calendar[d].year <= Calendar[e].year
  <1> DEFINE Wrong == {n \in d..e : ~(Calendar[d].year <= Calendar[n].year)}
  <1>1. ASSUME Wrong # {} PROVE FALSE
    <2>1. Wrong \in SUBSET Nat
      OBVIOUS
    <2>2. PICK n \in Wrong : \A m \in Wrong : n <= m
      <3> HIDE DEF Wrong
      <3> QED BY <1>1, <2>1, LeastNatural
    <2>3. Calendar[d] \in Date
      BY CalendarAssumption
    <2>4. n # d
      BY <2>2, <2>3 DEF Date
    <2>5. n - 1 \in d..e /\ n \in 1..MaxDay
      BY <2>2, <2>4, CalendarAssumption
    <2>6. Calendar[d].year <= Calendar[n - 1].year
      BY <2>2, <2>5
    <2>7. /\ Calendar[n - 1].year <= Calendar[n].year
          /\ Calendar[n] \in Date /\ Calendar[n - 1] \in Date
      BY <2>5, NextDate
    <2> QED BY <2>2, <2>3, <2>6, <2>7 DEF Date
  <1> QED BY <1>1

LEMMA FourYears ==
  ASSUME NEW d \in 0..MaxDay, NEW e \in 0..MaxDay, d + 4 * DaysPerYear <= e
  PROVE  Calendar[e].year >= Calendar[d].year + 4
  <1> DEFINE Y == DaysPerYear
  <1>1. /\ Y \in Nat /\ MaxDay \in Nat /\ d \in Nat /\ e \in Nat /\ e <= MaxDay
        /\ d + (Y + Y + Y + Y) <= e
    BY CalendarAssumption
  <1> HIDE DEF Y
  <1>2. /\ d + Y \in 0..MaxDay /\ d + Y + Y \in 0..MaxDay
        /\ d + Y + Y + Y \in 0..MaxDay /\ d + Y + Y + Y + Y \in 0..MaxDay
        /\ d \in 0..(MaxDay - Y) /\ d + Y \in 0..(MaxDay - Y)
        /\ d + Y + Y \in 0..(MaxDay - Y) /\ d + Y + Y + Y \in 0..(MaxDay - Y)
        /\ d + Y + Y + Y + Y <= e
    BY <1>1
  <1>3. \A n \in 0..(MaxDay - Y) : Calendar[n].year < Calendar[n + Y].year
    BY CalendarAssumption DEF Y
  <1>4. \A n \in 0..MaxDay : Calendar[n].year \in Nat
    BY CalendarAssumption DEF Date
  <1>5. /\ Calendar[d].year < Calendar[d + Y].year
        /\ Calendar[d + Y].year < Calendar[d + Y + Y].year
        /\ Calendar[d + Y + Y].year < Calendar[d + Y + Y + Y].year
        /\ Calendar[d + Y + Y + Y].year < Calendar[d + Y + Y + Y + Y].year
    BY <1>2, <1>3
  <1>6. Calendar[d + Y + Y + Y + Y].year <= Calendar[e].year
    BY <1>2, YearsGrow
  <1> QED BY <1>2, <1>4, <1>5, <1>6

-----------------------------------------------------------------------------
\* Package time.
LEMMA LeastInteger ==
  ASSUME NEW u \in Int, NEW S \in SUBSET Int, S # {}, \A s \in S : u <= s
  PROVE  \E m \in S : \A s \in S : m <= s
  <1> DEFINE T == {s - u : s \in S}
  <1>1. T \in SUBSET Nat
    OBVIOUS
  <1>2. T # {}
    OBVIOUS
  <1>3. PICK k \in T : \A j \in T : k <= j
    <2> HIDE DEF T
    <2> QED BY <1>1, <1>2, LeastNatural
  <1>4. PICK m \in S : k = m - u
    OBVIOUS
  <1>5. ASSUME NEW s \in S PROVE m <= s
    <2>1. s - u \in T /\ s \in Int /\ m \in Int
      OBVIOUS
    <2>2. m - u <= s - u
      BY <1>3, <1>4, <2>1
    <2> QED BY <2>1, <2>2
  <1> QED BY <1>5

LEMMA Units ==
  /\ MinutesPerHour \in Nat \ {0} /\ HoursPerDay \in Nat /\ HoursPerDay >= 2
  /\ MaxDom \in Nat \ {0} /\ DaysPerYear \in Nat \ {0} /\ MaxDay \in Nat
  BY CalendarAssumption, SearchAssumption

LEMMA Parts ==
  ASSUME NEW u \in Times
  PROVE  /\ u.day \in Int /\ u.hour \in Int /\ u.minute \in Int
         /\ 0 <= u.hour /\ u.hour <= HoursPerDay - 1
         /\ 0 <= u.minute /\ u.minute <= MinutesPerHour - 1
         /\ u = Moment(u.day, u.hour, u.minute)
  BY Units DEF Times, Moment

LEMMA Fields ==
  ASSUME NEW d, NEW h, NEW m
  PROVE  /\ Moment(d, h, m).day = d /\ Moment(d, h, m).hour = h /\ Moment(d, h, m).minute = m
         /\ [Moment(d, h, m) EXCEPT !.day = @ + 1] = Moment(d + 1, h, m)
         /\ [Moment(d, h, m) EXCEPT !.minute = @ + 1] = Moment(d, h, m + 1)
         /\ [Moment(d, h, m) EXCEPT !.minute = 0] = Moment(d, h, 0)
  BY DEF Moment

LEMMA Division ==
  ASSUME NEW n \in Int, NEW B \in Nat \ {0}
  PROVE  n \div B \in Int /\ n % B \in 0..(B - 1)
  OBVIOUS

LEMMA ClockShowsTimes ==
  ASSUME zone \in Zone, NEW n \in Int
  PROVE  ClockAt(n) \in Times
  <1>1. OffsetAt(n) \in Int
    BY DEF OffsetAt, Zone
  <1>2. ASSUME NEW k \in Int PROVE TimeOf(k) \in Times
    <2> DEFINE hd == HoursPerDay * MinutesPerHour
    <2>1. hd \in Nat \ {0}
      BY Units
    <2>2. k \div hd \in Int
      <3> HIDE DEF hd
      <3> QED BY <2>1, Division
    <2>3. k % MinutesPerHour \in 0..(MinutesPerHour - 1) /\ k \div MinutesPerHour \in Int
      BY Units, Division
    <2>4. (k \div MinutesPerHour) % HoursPerDay \in 0..(HoursPerDay - 1)
      <3> DEFINE q == k \div MinutesPerHour
      <3>1. q \in Int
        BY <2>3
      <3> HIDE DEF q
      <3>2. q % HoursPerDay \in 0..(HoursPerDay - 1)
        BY <3>1, Units, Division
      <3> QED BY <3>2 DEF q
    <2> QED BY <2>2, <2>3, <2>4 DEF TimeOf, Moment, Times
  <1>3. n + OffsetAt(n) \in Int
    BY <1>1
  <1> HIDE DEF OffsetAt
  <1> QED BY <1>2, <1>3 DEF ClockAt

-----------------------------------------------------------------------------
(* From a midnight lo to n the clock keeps time.  Then days and hours are  *)
(* passed in order, every day of those between is found by its midnight,   *)
(* and the hour after one begins an hour after Date's answer for it.       *)
Regular(lo, n) ==
  /\ lo \in Int /\ n \in Int /\ lo <= n
  /\ ClockAt(lo).hour = 0 /\ ClockAt(lo).minute = 0
  /\ \A m \in lo..(n - 1) : Ticks(ClockAt(m), ClockAt(m + 1))
  /\ \A m \in lo..n :
        /\ ClockAt(m).minute = 0
        /\ ClockAt(m).hour = 0 \/ ClockAt(m + MinutesPerHour) # ClockAt(m)
        => TimeDate(ClockAt(m)) = m

\* What a minute does to the day and the hour.
LEMMA AMinuteOn ==
  ASSUME NEW x \in Times, NEW y \in Times, Ticks(x, y)
  PROVE  \/ y = [x EXCEPT !.minute = @ + 1] /\ y.day = x.day /\ y.hour = x.hour
                /\ y.minute = x.minute + 1
         \/ x.minute = MinutesPerHour - 1 /\ y.minute = 0 /\ y.day = x.day + 1 /\ y.hour = 0
         \/ x.minute = MinutesPerHour - 1 /\ y.minute = 0 /\ y.day = x.day /\ x.hour <= y.hour
                /\ y.hour # 0
  BY DEF Ticks, Times, Moment

LEMMA InOrder ==
  ASSUME zone \in Zone, NEW lo, NEW n, Regular(lo, n), NEW u \in lo..n, NEW v \in u..n
  PROVE  /\ ClockAt(u).day <= ClockAt(v).day
         /\ ClockAt(u).day = ClockAt(v).day => ClockAt(u).hour <= ClockAt(v).hour
  <1> DEFINE Later(m) == /\ ClockAt(u).day <= ClockAt(m).day
                         /\ ClockAt(u).day = ClockAt(m).day => ClockAt(u).hour <= ClockAt(m).hour
             Wrong == {m \in u..n : ~Later(m)}
  <1>1. lo \in Int /\ n \in Int /\ u \in Int /\ v \in Int /\ lo <= u /\ u <= v /\ v <= n
    BY DEF Regular
  <1>2. ASSUME Wrong # {} PROVE FALSE
    <2>1. Wrong \in SUBSET Int /\ \A m \in Wrong : u <= m
      OBVIOUS
    <2>2. PICK m \in Wrong : \A k \in Wrong : m <= k
      <3> HIDE DEF Wrong
      <3> QED BY <1>1, <1>2, <2>1, LeastInteger
    <2>3. m \in Int /\ u <= m /\ m <= n /\ ~Later(m)
      BY <1>1, <2>2
    <2>4. Later(u)
      BY <1>1, ClockShowsTimes, Parts
    <2>5. m # u
      BY <2>3, <2>4
    <2>6. m - 1 \in u..n /\ m - 1 \in lo..(n - 1) /\ (m - 1) + 1 = m /\ m - 1 \in Int
      BY <1>1, <2>3, <2>5
    <2>7. Later(m - 1)
      BY <2>2, <2>3, <2>6
    <2>8. Ticks(ClockAt(m - 1), ClockAt(m))
      BY <2>6 DEF Regular
    <2>9. ClockAt(u) \in Times /\ ClockAt(m - 1) \in Times /\ ClockAt(m) \in Times
      BY <1>1, <2>3, <2>6, ClockShowsTimes
    <2> QED BY <2>3, <2>7, <2>8, <2>9, AMinuteOn, Parts
  <1> HIDE DEF Later
  <1>3. Later(v)
    BY <1>1, <1>2
  <1> QED BY <1>3 DEF Later

\* The midnight of a later day is found, and no day from it on is passed.
LEMMA MidnightIsFound ==
  ASSUME zone \in Zone, NEW lo, NEW n, Regular(lo, n), NEW u \in lo..n, NEW d \in Int,
         ClockAt(u).day < d, d <= ClockAt(n).day
  PROVE  LET m == TimeDate(Moment(d, 0, 0)) IN
         m \in (u + 1)..n /\ ClockAt(m) = Moment(d, 0, 0)
  <1> DEFINE Reached == {m \in (u + 1)..n : ClockAt(m).day >= d}
  <1>1. lo \in Int /\ n \in Int /\ u \in Int /\ lo <= u /\ u <= n
    BY DEF Regular
  <1>2. \A m \in Int : ClockAt(m) \in Times /\ ClockAt(m).day \in Int
    BY ClockShowsTimes, Parts
  <1>3. n \in Reached
    <2>1. u # n
      BY <1>1, <1>2
    <2> QED BY <1>1, <1>2, <2>1
  <1>4. Reached \in SUBSET Int /\ \A m \in Reached : u <= m
    BY <1>1
  <1>5. PICK m \in Reached : \A k \in Reached : m <= k
    <2> HIDE DEF Reached
    <2> QED BY <1>1, <1>3, <1>4, LeastInteger
  <1>6. m \in Int /\ u + 1 <= m /\ m <= n /\ ClockAt(m).day >= d
    BY <1>1, <1>5
  <1>7. m - 1 \in Int /\ (m - 1) + 1 = m /\ m - 1 \in lo..(n - 1) /\ m \in lo..n
    BY <1>1, <1>6
  <1>8. ClockAt(m - 1).day < d
    <2>1. CASE m - 1 = u
      BY <2>1
    <2>2. CASE m - 1 # u
      <3>1. m - 1 \in (u + 1)..n /\ m - 1 \notin Reached
        BY <1>1, <1>5, <1>6, <2>2
      <3> QED BY <1>2, <1>7, <3>1
    <2> QED BY <2>1, <2>2
  <1>9. Ticks(ClockAt(m - 1), ClockAt(m))
    BY <1>7 DEF Regular
  <1>10. ClockAt(m).day = d /\ ClockAt(m).hour = 0 /\ ClockAt(m).minute = 0
    BY <1>2, <1>6, <1>7, <1>8, <1>9, AMinuteOn
  <1>11. ClockAt(m) = Moment(d, 0, 0)
    BY <1>2, <1>6, <1>10, Parts
  <1>12. TimeDate(ClockAt(m)) = m
    BY <1>7, <1>10 DEF Regular
  <1> QED BY <1>1, <1>6, <1>11, <1>12

\* The midnight before is found as well.
LEMMA MidnightBefore ==
  ASSUME zone \in Zone, NEW lo, NEW n, Regular(lo, n), NEW u \in lo..n
  PROVE  ClockAt(TimeDate(Moment(ClockAt(u).day, 0, 0))) = Moment(ClockAt(u).day, 0, 0)
  <1> DEFINE d == ClockAt(u).day
  <1>1. lo \in Int /\ n \in Int /\ u \in Int /\ lo <= u /\ u <= n
    BY DEF Regular
  <1>2. ClockAt(lo) \in Times /\ ClockAt(lo).day \in Int /\ d \in Int
    BY <1>1, ClockShowsTimes, Parts
  <1>3. ClockAt(lo).day <= d /\ d <= ClockAt(n).day
    <2>1. lo \in lo..n /\ u \in lo..n /\ n \in u..n
      BY <1>1
    <2> QED BY <2>1, InOrder
  <1>4. CASE ClockAt(lo).day < d
    <2>1. lo \in lo..n
      BY <1>1
    <2> HIDE DEF d
    <2>2. ClockAt(TimeDate(Moment(d, 0, 0))) = Moment(d, 0, 0)
      BY <1>2, <1>3, <1>4, <2>1, MidnightIsFound
    <2> QED BY <2>2 DEF d
  <1>5. CASE ClockAt(lo).day = d
    <2>1. ClockAt(lo) = Moment(d, 0, 0)
      BY <1>2, <1>5, Parts DEF Regular
    <2>2. lo \in lo..n /\ ClockAt(lo).minute = 0 /\ ClockAt(lo).hour = 0
      BY <1>1 DEF Regular
    <2>3. TimeDate(ClockAt(lo)) = lo
      BY <2>2 DEF Regular
    <2> QED BY <2>1, <2>3
  <1> QED BY <1>2, <1>3, <1>4, <1>5

\* An hour ends where one hour is added to its start, in a later one.
LEMMA HourEnds ==
  ASSUME zone \in Zone, NEW lo, NEW n, Regular(lo, n), NEW u \in lo..n,
         ~(ClockAt(u).day = ClockAt(n).day /\ ClockAt(u).hour = ClockAt(n).hour)
  PROVE  LET e == startOfNextHour(u) IN
         /\ e \in (u + 1)..n /\ ClockAt(e).minute = 0
         /\ \/ ClockAt(e).day = ClockAt(u).day + 1 /\ ClockAt(e).hour = 0
            \/ ClockAt(e).day = ClockAt(u).day /\ ClockAt(u).hour < ClockAt(e).hour
  <1> DEFINE d == ClockAt(u).day
             h == ClockAt(u).hour
             M == MinutesPerHour
             Same(m) == ClockAt(m).day = d /\ ClockAt(m).hour = h
             Over == {m \in (u + 1)..n : ~Same(m)}
  <1>1. lo \in Int /\ n \in Int /\ u \in Int /\ lo <= u /\ u <= n /\ M \in Nat \ {0}
    BY Units DEF Regular
  <1>2. \A m \in Int : /\ ClockAt(m) \in Times /\ ClockAt(m).day \in Int /\ ClockAt(m).hour \in Int
                       /\ ClockAt(m).minute \in Int
                       /\ 0 <= ClockAt(m).minute /\ ClockAt(m).minute <= M - 1
    BY ClockShowsTimes, Parts
  <1>3. PICK e \in Over : \A k \in Over : e <= k
    <2>1. n # u
      OBVIOUS
    <2>2. n \in Over
      BY <1>1, <2>1
    <2>3. Over \in SUBSET Int /\ \A k \in Over : u <= k
      BY <1>1
    <2> HIDE DEF Over
    <2> QED BY <1>1, <2>2, <2>3, LeastInteger
  <1>4. e \in Int /\ u + 1 <= e /\ e <= n /\ ~Same(e)
    BY <1>1, <1>3
  <1>5. \A m \in u..(e - 1) : Same(m)
    <2>1. ASSUME NEW m \in u..(e - 1), m # u PROVE Same(m)
      <3>1. m \in (u + 1)..n /\ ~(e <= m)
        BY <1>1, <1>4, <2>1
      <3>2. m \notin Over
        BY <1>3, <3>1
      <3> QED BY <3>1, <3>2
    <2> QED BY <2>1
  <1> HIDE DEF Over
  <1>6. e - 1 \in Int /\ (e - 1) + 1 = e /\ e - 1 \in lo..(n - 1) /\ e - 1 \in u..(e - 1)
    BY <1>1, <1>4
  <1>7. Ticks(ClockAt(e - 1), ClockAt(e)) /\ Same(e - 1)
    BY <1>5, <1>6 DEF Regular
  <1>8. /\ ClockAt(e - 1).minute = M - 1 /\ ClockAt(e).minute = 0
        /\ \/ ClockAt(e).day = d + 1 /\ ClockAt(e).hour = 0
           \/ ClockAt(e).day = d /\ h <= ClockAt(e).hour
    BY <1>2, <1>4, <1>6, <1>7, AMinuteOn
  <1>9. \/ ClockAt(e).day = d + 1 /\ ClockAt(e).hour = 0
        \/ ClockAt(e).day = d /\ h < ClockAt(e).hour
    <2>1. ClockAt(e).hour \in Int /\ h \in Int /\ ~(ClockAt(e).day = d /\ ClockAt(e).hour = h)
      BY <1>1, <1>2, <1>4
    <2> HIDE DEF d, h
    <2> QED BY <1>8, <2>1
  <1> DEFINE Back(k) == lo <= (e - 1) - k /\ Same((e - 1) - k)
                        /\ ClockAt((e - 1) - k).minute = (M - 1) - k
             Lost == {k \in 0..(M - 1) : ~Back(k)}
  <1>10. Lost = {}
    <2>1. SUFFICES ASSUME Lost # {} PROVE FALSE
      OBVIOUS
    <2>2. Lost \in SUBSET Nat
      OBVIOUS
    <2>3. PICK k \in Lost : \A j \in Lost : k <= j
      <3> HIDE DEF Lost
      <3> QED BY <2>1, <2>2, LeastNatural
    <2>4. k \in Nat /\ k <= M - 1 /\ ~Back(k)
      BY <1>1, <2>3
    <2>5. Back(0)
      <3>1. (e - 1) - 0 = e - 1 /\ (M - 1) - 0 = M - 1 /\ lo <= e - 1
        BY <1>1, <1>6
      <3> QED BY <1>7, <1>8, <3>1
    <2>6. k # 0
      BY <2>4, <2>5
    <2>7. k - 1 \in 0..(M - 1) /\ k - 1 \notin Lost
      BY <1>1, <2>3, <2>4, <2>6
    <2>8. Back(k - 1)
      BY <2>7
    <2> DEFINE b == (e - 1) - k
    <2>9. b \in Int /\ (e - 1) - (k - 1) = b + 1 /\ (M - 1) - (k - 1) = ((M - 1) - k) + 1
      BY <1>1, <1>4, <2>4
    <2>10. lo <= b + 1 /\ Same(b + 1) /\ ClockAt(b + 1).minute = ((M - 1) - k) + 1
      BY <2>8, <2>9
    <2>11. ClockAt(b + 1).minute # 0
      BY <1>1, <2>4, <2>10
    <2>12. b + 1 # lo
      BY <2>11 DEF Regular
    <2>13. lo <= b /\ b \in lo..(n - 1) /\ b + 1 \in Int
      BY <1>1, <1>4, <2>4, <2>9, <2>10, <2>12
    <2> HIDE DEF b
    <2>14. Ticks(ClockAt(b), ClockAt(b + 1))
      BY <2>13 DEF Regular
    <2>15. /\ ClockAt(b).day = ClockAt(b + 1).day /\ ClockAt(b).hour = ClockAt(b + 1).hour
           /\ ClockAt(b + 1).minute = ClockAt(b).minute + 1
      BY <1>2, <2>9, <2>11, <2>13, <2>14, AMinuteOn
    <2>16. ClockAt(b).minute = (M - 1) - k
      <3>1. ClockAt(b).minute \in Int /\ ClockAt(b).minute + 1 = ((M - 1) - k) + 1
        BY <1>2, <2>9, <2>10, <2>15
      <3> QED BY <1>1, <2>4, <3>1
    <2>17. Same(b) /\ lo <= b
      BY <2>10, <2>13, <2>15
    <2> QED BY <2>4, <2>16, <2>17 DEF b
  <1> DEFINE s == e - M
  <1>11. lo <= s /\ Same(s) /\ ClockAt(s).minute = 0
    <2>1. M - 1 \in 0..(M - 1) /\ (e - 1) - (M - 1) = s /\ (M - 1) - (M - 1) = 0
      BY <1>1, <1>4
    <2>2. Back(M - 1)
      BY <1>10, <2>1
    <2> QED BY <2>1, <2>2
  <1>12. s \in Int /\ s \in lo..n /\ s + M = e
    BY <1>1, <1>4, <1>11
  <1>13. ClockAt(s + M) # ClockAt(s)
    BY <1>4, <1>11, <1>12
  <1>14. TimeDate(ClockAt(s)) = s
    BY <1>11, <1>12, <1>13 DEF Regular
  <1>15. [ClockAt(u) EXCEPT !.minute = 0] = ClockAt(s)
    <2>1. ClockAt(s) = Moment(d, h, 0)
      BY <1>2, <1>11, <1>12, Parts
    <2>2. ClockAt(u) = Moment(d, h, ClockAt(u).minute)
      BY <1>1, <1>2, Parts
    <2> DEFINE m == ClockAt(u).minute
    <2> HIDE DEF m, d, h
    <2>3. [Moment(d, h, m) EXCEPT !.minute = 0] = Moment(d, h, 0)
      BY DEF Moment
    <2>4. ClockAt(u) = Moment(d, h, m)
      BY <2>2 DEF m
    <2> QED BY <2>1, <2>3, <2>4
  <1>16. startOfNextHour(u) = e
    BY <1>12, <1>14, <1>15 DEF startOfNextHour
  <1>17. e \in (u + 1)..n
    BY <1>1, <1>4
  <1> QED BY <1>8, <1>9, <1>16, <1>17

-----------------------------------------------------------------------------
(* The inductive invariant: where the clock keeps time, a search has not   *)
(* passed a time that the expression names, nor gone round more often than *)
(* the time it has come to accounts for.  In its first hour every round is *)
(* a minute.  After it a round is a day, but for the hours of a day that   *)
(* fits; one of these is named, and is looked into from its first minute   *)
(* to the first that is named, so that in it nothing is passed.            *)
Started == cronPc \in {"search", "found", "failed"}

CronTypeOK ==
  /\ expr \in Exprs /\ zone \in Zones /\ after \in Afters /\ iter \in 0..MaxIter
  /\ cronPc \in {"parse", "search", "found", "failed", "invalid"}
  /\ cronPc = "parse" => iter = 0
  /\ Started => cron = ParseCron(expr) /\ cron.ok

FitsDay(day) == Calendar[day].month \in cron.months /\ matchesDay(day)
Settled(u) ==
  /\ ~(u.hour = 0 /\ u.minute = 0) => FitsDay(u.day)
  /\ u.minute # 0 => u.hour \in cron.hours
  /\ \A m \in cron.minutes : u.minute <= m

\* The hours of a day before hour h that hour k is not one of.
Others(k, h) == IF h > k THEN h - 1 ELSE h
RoundsTo(u, i) ==
  \/ i <= u.minute
  \/ /\ Settled(u) /\ ClockAt(after + 1).day <= u.day
     /\ \A k \in cron.hours :
          i <= MinutesPerHour + (HoursPerDay - 1) * (u.day - ClockAt(after + 1).day)
                 + Others(k, u.hour) + u.minute

Goes(n, v, i) == v \in (after + 1)..n /\ RoundsTo(ClockAt(v), i)
Promise(n) == Named(n) /\ KeepsTime(after, n)

CronInv ==
  /\ CronTypeOK
  /\ Started => \A n \in Instants : Promise(n) => Goes(n, t, iter)
  /\ cronPc = "found" => Matches(Shown)
  /\ cronPc = "failed" => iter = MaxIter

-----------------------------------------------------------------------------
\* Fields: a legal one names something, and within its range.
LEMMA StampedInRange ==
  ASSUME NEW lo \in Nat, NEW hi \in Nat, lo <= hi, NEW dow \in BOOLEAN, dow => lo = 0,
         NEW term \in Terms, Legal(term, lo, hi, dow)
  PROVE  /\ Stamped(term, lo, hi, dow) # {}
         /\ Stamped(term, lo, hi, dow) \subseteq lo..hi
         /\ term.kind = "*" /\ term.step = 1 => lo..hi \subseteq Stamped(term, lo, hi, dow)
  <1> DEFINE a == IF term.kind = "*" THEN lo ELSE term.lo
             b == IF term.kind = "*" THEN hi ELSE term.hi
             Steps == {u \in a..b : (u - a) % term.step = 0}
             Day(v) == IF dow /\ v = hi + 1 THEN 0 ELSE v
  <1>1. Stamped(term, lo, hi, dow) = {Day(v) : v \in Steps}
    BY DEF Stamped
  <1>2. term.step \in Nat \ {0}
    BY DEF Legal, Terms
  <1>3. /\ a \in Nat /\ b \in Nat /\ lo <= a /\ a <= b
        /\ b <= hi \/ (dow /\ b = hi + 1)
    <2>1. CASE term.kind = "*"
      BY <2>1
    <2>2. CASE term.kind # "*"
      <3>1. parseAtom(term.lo, lo, hi, dow) /\ parseAtom(term.hi, lo, hi, dow) /\ term.lo <= term.hi
        BY <2>2 DEF Legal
      <3>2. /\ term.lo \in Int /\ term.hi \in Int /\ term.lo <= term.hi
            /\ lo <= term.lo
            /\ term.hi <= hi \/ (dow /\ term.hi = hi + 1)
        BY <3>1 DEF parseAtom, Terms
      <3>3. a = term.lo /\ b = term.hi
        BY <2>2
      <3> HIDE DEF a, b
      <3> QED BY <3>2, <3>3
    <2> QED BY <2>1, <2>2
  <1>4. a \in Steps
    <2>1. (a - a) % term.step = 0
      <3>1. a - a = 0
        BY <1>3
      <3> QED BY <1>2, <3>1
    <2> QED BY <1>3, <2>1
  <1>5. ASSUME NEW v \in Steps PROVE Day(v) \in lo..hi
    <2>1. v \in Int /\ a <= v /\ v <= b
      BY <1>3
    <2> HIDE DEF a, b, Steps
    <2> QED BY <1>3, <2>1
  <1>6. ASSUME term.kind = "*", term.step = 1, NEW v \in lo..hi
        PROVE  v \in Steps /\ Day(v) = v
    <2>1. (v - a) % 1 = 0
      BY <1>3
    <2> QED BY <1>6, <2>1
  <1> HIDE DEF Steps, Day
  <1> QED BY <1>1, <1>4, <1>5, <1>6

LEMMA FieldInRange ==
  ASSUME NEW lo \in Nat, NEW hi \in Nat, lo <= hi, NEW dow \in BOOLEAN, dow => lo = 0,
         NEW field \in Field, parseFieldStarred(field, lo, hi, dow).ok
  PROVE  /\ parseFieldStarred(field, lo, hi, dow).mask # {}
         /\ parseFieldStarred(field, lo, hi, dow).mask \subseteq lo..hi
         /\ parseFieldStarred(field, lo, hi, dow).starred \in BOOLEAN
         /\ parseFieldStarred(field, lo, hi, dow).starred <=> ~Restricted(field)
         /\ parseFieldStarred(field, lo, hi, dow).starred /\ ~SteppedStar(field) =>
               lo..hi \subseteq parseFieldStarred(field, lo, hi, dow).mask
  <1> DEFINE p == parseFieldStarred(field, lo, hi, dow)
             S(term) == Stamped(term, lo, hi, dow)
  <1>1. /\ p.mask = UNION {S(term) : term \in field}
        /\ p.starred = (\E term \in field : term.kind = "*")
        /\ \A term \in field : Legal(term, lo, hi, dow)
    BY DEF parseFieldStarred
  <1>2. \A term \in field : term \in Terms
    BY DEF Field
  <1>3. \A term \in field :
          /\ S(term) # {} /\ S(term) \subseteq lo..hi
          /\ term.kind = "*" /\ term.step = 1 => lo..hi \subseteq S(term)
    BY <1>1, <1>2, StampedInRange
  <1>4. \A term \in field : term.step \in Int /\ term.step >= 1
    BY <1>1, <1>2 DEF Legal, Terms
  <1>5. PICK term : term \in field
    <2>1. field # {}
      BY DEF Field
    <2> QED BY <2>1
  <1> HIDE DEF p, S
  <1>6. p.mask # {} /\ p.mask \subseteq lo..hi
    BY <1>1, <1>3, <1>5
  <1>7. p.starred \in BOOLEAN /\ (p.starred <=> ~Restricted(field))
    BY <1>1 DEF Restricted
  <1>8. ASSUME p.starred, ~SteppedStar(field) PROVE lo..hi \subseteq p.mask
    <2>1. PICK star \in field : star.kind = "*"
      BY <1>1, <1>8
    <2>2. star.step = 1
      BY <1>4, <1>8, <2>1 DEF SteppedStar
    <2>3. lo..hi \subseteq S(star)
      BY <1>3, <2>1, <2>2
    <2> QED BY <1>1, <2>3
  <1> QED BY <1>6, <1>7, <1>8 DEF p

LEMMA Masks ==
  ASSUME CronTypeOK, Started
  PROVE  /\ cron.hours # {} /\ cron.hours \subseteq 0..(HoursPerDay - 1)
         /\ cron.minutes # {} /\ cron.minutes \subseteq 0..(MinutesPerHour - 1)
         /\ cron.domStarred \in BOOLEAN /\ (cron.domStarred <=> ~Restricted(expr.doms))
         /\ cron.domStarred /\ ~SteppedStar(expr.doms) => 1..MaxDom \subseteq cron.doms
         /\ cron.dowStarred \in BOOLEAN /\ (cron.dowStarred <=> ~Restricted(expr.dows))
         /\ cron.dowStarred /\ ~SteppedStar(expr.dows) => 0..(DaysPerWeek - 1) \subseteq cron.dows
  <1>1. /\ expr.minutes \in Field /\ expr.hours \in Field
        /\ expr.doms \in Field /\ expr.dows \in Field
    BY SearchAssumption DEF CronTypeOK, Expression
  <1>2. /\ 0 \in Nat /\ MinutesPerHour - 1 \in Nat /\ 0 <= MinutesPerHour - 1
        /\ HoursPerDay - 1 \in Nat /\ 0 <= HoursPerDay - 1
        /\ DaysPerWeek - 1 \in Nat /\ 0 <= DaysPerWeek - 1
        /\ 1 \in Nat /\ MaxDom \in Nat /\ 1 <= MaxDom
    BY CalendarAssumption
  <1>3. cron = ParseCron(expr) /\ cron.ok
    BY DEF CronTypeOK
  <1>4. /\ cron.hours = parseHours(expr).mask /\ cron.minutes = parseMinutes(expr).mask
        /\ cron.doms = parseDoms(expr).mask /\ cron.domStarred = parseDoms(expr).starred
        /\ cron.dows = parseDows(expr).mask /\ cron.dowStarred = parseDows(expr).starred
    BY <1>3 DEF ParseCron
  <1>5. /\ parseHours(expr).ok /\ parseMinutes(expr).ok
        /\ parseDoms(expr).ok /\ parseDows(expr).ok
    BY <1>3 DEF ParseCron
  <1>6. /\ cron.hours # {} /\ cron.hours \subseteq 0..(HoursPerDay - 1)
    <2> DEFINE top == HoursPerDay - 1
    <2>1. top \in Nat /\ 0 <= top
      BY <1>2
    <2>2. /\ cron.hours = parseFieldStarred(expr.hours, 0, top, FALSE).mask
          /\ parseFieldStarred(expr.hours, 0, top, FALSE).ok
          /\ expr.hours \in Field /\ 0 \in Nat /\ FALSE \in BOOLEAN /\ (FALSE => 0 = 0)
      BY <1>1, <1>4, <1>5 DEF parseHours
    <2> HIDE DEF top
    <2>3. cron.hours # {} /\ cron.hours \subseteq 0..top
      BY <2>1, <2>2, FieldInRange
    <2> QED BY <2>3 DEF top
  <1>7. /\ cron.minutes # {} /\ cron.minutes \subseteq 0..(MinutesPerHour - 1)
    <2> DEFINE top == MinutesPerHour - 1
    <2>1. top \in Nat /\ 0 <= top
      BY <1>2
    <2>2. /\ cron.minutes = parseFieldStarred(expr.minutes, 0, top, FALSE).mask
          /\ parseFieldStarred(expr.minutes, 0, top, FALSE).ok
          /\ expr.minutes \in Field /\ 0 \in Nat /\ FALSE \in BOOLEAN /\ (FALSE => 0 = 0)
      BY <1>1, <1>4, <1>5 DEF parseMinutes
    <2> HIDE DEF top
    <2>3. cron.minutes # {} /\ cron.minutes \subseteq 0..top
      BY <2>1, <2>2, FieldInRange
    <2> QED BY <2>3 DEF top
  <1>8. /\ cron.domStarred \in BOOLEAN /\ (cron.domStarred <=> ~Restricted(expr.doms))
        /\ cron.domStarred /\ ~SteppedStar(expr.doms) => 1..MaxDom \subseteq cron.doms
    BY <1>1, <1>2, <1>4, <1>5, FieldInRange DEF parseDoms
  <1>9. /\ cron.dowStarred \in BOOLEAN /\ (cron.dowStarred <=> ~Restricted(expr.dows))
        /\ cron.dowStarred /\ ~SteppedStar(expr.dows) => 0..(DaysPerWeek - 1) \subseteq cron.dows
    <2> DEFINE top == DaysPerWeek - 1
               p == parseFieldStarred(expr.dows, 0, top, TRUE)
    <2>1. top \in Nat /\ 0 <= top
      BY <1>2
    <2>2. cron.dows = p.mask /\ cron.dowStarred = p.starred /\ p.ok
      BY <1>4, <1>5 DEF parseDows
    <2> HIDE DEF top
    <2>3. /\ p.starred \in BOOLEAN /\ (p.starred <=> ~Restricted(expr.dows))
          /\ p.starred /\ ~SteppedStar(expr.dows) => 0..top \subseteq p.mask
      BY <1>1, <1>2, <2>1, <2>2, FieldInRange
    <2> HIDE DEF p
    <2> QED BY <2>2, <2>3 DEF top
  <1> QED BY <1>6, <1>7, <1>8, <1>9


\* What a promise is about: the day of the start begins at a midnight.
LEMMA Dawn ==
  ASSUME CronTypeOK, NEW n \in Instants, Promise(n)
  PROVE  /\ zone \in Zone /\ after \in Int /\ n \in Int /\ after + 1 <= n
         /\ \E lo : Regular(lo, n) /\ lo <= after
  <1>1. zone \in Zone /\ after \in Int /\ n \in Int /\ n > after /\ KeepsTime(after, n)
    <2>1. zone \in Zones /\ after \in Afters
      BY DEF CronTypeOK
    <2>2. n > after /\ KeepsTime(after, n)
      BY DEF Promise, Named
    <2> QED BY <2>1, <2>2, SearchAssumption
  <1> DEFINE midnight == Moment(ClockAt(after).day, 0, 0)
             dawn == TimeDate(midnight)
  <1>2. ClockAt(after).day \in Int
    BY <1>1, ClockShowsTimes, Parts
  <1>3. dawn \in Int
    <2>1. \A k \in Int : OffsetAt(k) \in Int
      BY <1>1 DEF OffsetAt, Zone
    <2>2. Minutes(midnight) \in Int
      <3> DEFINE d == ClockAt(after).day
      <3> HIDE DEF d
      <3>1. d \in Int
        BY <1>2 DEF d
      <3>2. Minutes(Moment(d, 0, 0)) \in Int
        BY <3>1, Units DEF Minutes, Moment
      <3> QED BY <3>2 DEF d
    <2> HIDE DEF midnight
    <2> QED BY <2>1, <2>2 DEF TimeDate
  <1>4. /\ dawn <= after /\ ClockAt(dawn) = midnight
        /\ \A m \in dawn .. n - 1 : Ticks(ClockAt(m), ClockAt(m + 1))
        /\ \A m \in dawn .. n :
             ClockAt(m).minute = 0 /\ (ClockAt(m).hour = 0 \/ ClockAt(m + MinutesPerHour) # ClockAt(m))
               => TimeDate(ClockAt(m)) = m
    BY <1>1 DEF KeepsTime
  <1>5. ClockAt(dawn).hour = 0 /\ ClockAt(dawn).minute = 0
    BY <1>4 DEF Moment
  <1> HIDE DEF dawn
  <1>6. Regular(dawn, n)
    BY <1>1, <1>3, <1>4, <1>5 DEF Regular
  <1> QED BY <1>1, <1>4, <1>6

\* The rounds a day is allowed: one for each hour but one.
LEMMA ADayOn ==
  ASSUME NEW b \in Nat, NEW x \in Int, NEW y \in Int, NEW z \in Int, x < y
  PROVE  b * (x - z) \in Int /\ b * (y - z) >= b * (x - z) + b
  <1> DEFINE e == y - x - 1
  <1>1. e \in Nat /\ y - z = (x - z) + 1 + e /\ x - z \in Int
    OBVIOUS
  <1> HIDE DEF e
  <1> DEFINE w == x - z
  <1>2. w \in Int
    BY <1>1
  <1> HIDE DEF w
  <1>3. b * (w + 1 + e) = b * w + b + b * e /\ b * e \in Nat /\ b * w \in Int
    BY <1>1, <1>2
  <1>4. b * (w + 1 + e) >= b * w + b
    BY <1>3
  <1> QED BY <1>1, <1>3, <1>4 DEF w

LEMMA HoursOfADay ==
  ASSUME NEW k \in 0..(HoursPerDay - 1), NEW h \in 0..(HoursPerDay - 1)
  PROVE  /\ Others(k, h) \in Nat /\ Others(k, 0) = 0 /\ Others(k, h) <= HoursPerDay - 1
         /\ h # k => /\ Others(k, h) + 1 <= HoursPerDay - 1
                     /\ \A j \in 0..(HoursPerDay - 1) : h < j => Others(k, h) + 1 <= Others(k, j)
  BY Units DEF Others

\* One more round takes a search to the start of a later day,
LEMMA ToMidnight ==
  ASSUME CronTypeOK, Started, zone \in Zone, after \in Int, NEW n, NEW lo, Regular(lo, n), lo <= after,
         NEW v \in (after + 1)..n, NEW i \in Nat, RoundsTo(ClockAt(v), i),
         ~FitsDay(ClockAt(v).day), NEW d \in Int, ClockAt(v).day < d, d <= ClockAt(n).day
  PROVE  Goes(n, TimeDate(Moment(d, 0, 0)), i + 1)
  <1> DEFINE e == TimeDate(Moment(d, 0, 0))
             D == ClockAt(after + 1).day
             u == ClockAt(v)
             b == HoursPerDay - 1
  <1>1. lo \in Int /\ n \in Int /\ v \in Int /\ v \in lo..n /\ after + 1 \in lo..n /\ v \in (after + 1)..n
    BY DEF Regular
  <1>2. e \in (v + 1)..n /\ ClockAt(e) = Moment(d, 0, 0)
    BY <1>1, MidnightIsFound
  <1>3. D <= u.day
    BY <1>1, InOrder
  <1>4. /\ u.day \in Int /\ u.minute \in Int /\ u.hour \in Int /\ u.minute <= MinutesPerHour - 1
        /\ D \in Int /\ b \in Nat /\ b >= 1 /\ MinutesPerHour \in Nat
    BY <1>1, ClockShowsTimes, Parts, Units
  <1>5. e \in (after + 1)..n
    BY <1>1, <1>2
  <1> HIDE DEF e, D, u, b
  <1>6. /\ ClockAt(e).day = d /\ ClockAt(e).hour = 0 /\ ClockAt(e).minute = 0
    BY <1>2 DEF Moment
  <1>7. Settled(ClockAt(e))
    <2>1. \A m \in cron.minutes : m \in Nat
      BY Masks, Units
    <2>2. \A m \in cron.minutes : 0 <= m
      BY <2>1
    <2> QED BY <1>6, <2>2 DEF Settled
  <1>8. ASSUME NEW k \in cron.hours
        PROVE  i + 1 <= MinutesPerHour + b * (d - D) + Others(k, 0) + 0
    <2>1. k \in 0..b /\ 0 \in 0..b
      BY <1>4, Masks DEF b
    <2>2. Others(k, 0) = 0
      BY <2>1, HoursOfADay DEF b
    <2>3. b * (u.day - D) \in Int /\ b * (d - D) >= b * (u.day - D) + b /\ d \in Int
      BY <1>4, ADayOn DEF u
    <2>4. b * (u.day - D) >= 0
      <3>1. u.day - D \in Nat
        BY <1>3, <1>4
      <3> QED BY <1>4, <3>1
    <2>5. CASE i <= u.minute
      <3> DEFINE x == b * (u.day - D)
                 y == b * (d - D)
      <3> HIDE DEF x, y
      <3>1. x \in Int /\ x >= 0 /\ y >= x + b /\ y \in Int
        <4>1. b * (d - D) \in Int
          BY <1>4
        <4> QED BY <2>3, <2>4, <4>1 DEF x, y
      <3>2. i + 1 <= MinutesPerHour + y + 0 + 0
        BY <1>4, <2>5, <3>1
      <3> QED BY <2>2, <3>2 DEF y
    <2>6. CASE ~(i <= u.minute)
      <3>1. /\ Settled(u)
            /\ i <= MinutesPerHour + b * (u.day - D) + Others(k, u.hour) + u.minute
        BY <2>6 DEF RoundsTo, u, D, b
      <3>2. u.hour = 0 /\ u.minute = 0
        BY <3>1 DEF Settled, u
      <3>3. i <= MinutesPerHour + b * (u.day - D) + 0 + 0
        BY <2>2, <3>1, <3>2
      <3> DEFINE x == b * (u.day - D)
                 y == b * (d - D)
      <3> HIDE DEF x, y
      <3>4. x \in Int /\ y >= x + b /\ y \in Int /\ i <= MinutesPerHour + x + 0 + 0
        <4>1. b * (d - D) \in Int
          BY <1>4
        <4> QED BY <2>3, <3>3, <4>1 DEF x, y
      <3>5. i + 1 <= MinutesPerHour + y + 0 + 0
        BY <1>4, <3>4
      <3> QED BY <2>2, <3>5 DEF y
    <2> QED BY <2>5, <2>6
  <1>9. D <= d
    BY <1>3, <1>4 DEF u
  <1>10. RoundsTo(ClockAt(e), i + 1)
    BY <1>6, <1>7, <1>8, <1>9 DEF RoundsTo, D, b
  <1> QED BY <1>5, <1>10 DEF Goes, e

\* ... to a later hour,
LEMMA ToHour ==
  ASSUME CronTypeOK, Started, zone \in Zone, after \in Int, NEW n, NEW lo, Regular(lo, n), lo <= after,
         NEW v \in (after + 1)..n, NEW i \in Nat, RoundsTo(ClockAt(v), i),
         FitsDay(ClockAt(v).day), ClockAt(v).hour \notin cron.hours, ClockAt(n).hour \in cron.hours
  PROVE  Goes(n, startOfNextHour(v), i + 1)
  <1> DEFINE e == startOfNextHour(v)
             D == ClockAt(after + 1).day
             u == ClockAt(v)
             w == ClockAt(e)
             b == HoursPerDay - 1
  <1>1. /\ lo \in Int /\ n \in Int /\ v \in Int /\ v \in lo..n /\ after + 1 \in lo..n
        /\ v \in (after + 1)..n
    BY DEF Regular
  <1>2. /\ e \in (v + 1)..n /\ w.minute = 0
        /\ \/ w.day = u.day + 1 /\ w.hour = 0
           \/ w.day = u.day /\ u.hour < w.hour
    <2>1. ~(ClockAt(v).day = ClockAt(n).day /\ ClockAt(v).hour = ClockAt(n).hour)
      OBVIOUS
    <2> QED BY <1>1, <2>1, HourEnds
  <1>3. D <= u.day
    BY <1>1, InOrder
  <1>4. e \in Int /\ e \in (after + 1)..n
    BY <1>1, <1>2
  <1>5. /\ u.day \in Int /\ u.minute \in Int /\ u.hour \in 0..b /\ u.minute <= MinutesPerHour - 1
        /\ w.day \in Int /\ w.hour \in 0..b
        /\ D \in Int /\ b \in Nat /\ b >= 1 /\ 0 \in 0..b /\ MinutesPerHour \in Nat
    <2>1. /\ u \in Times /\ w \in Times /\ ClockAt(after + 1) \in Times
      BY <1>1, <1>4, ClockShowsTimes
    <2> HIDE DEF u, w
    <2> QED BY <2>1, Parts, Units
  <1> HIDE DEF e, D, u, w, b
  <1>6. Settled(w)
    <2>1. \A m \in cron.minutes : m \in Nat
      BY Masks, Units
    <2>2. \A m \in cron.minutes : 0 <= m
      BY <2>1
    <2> QED BY <1>2, <2>2 DEF Settled, u
  <1>7. D <= w.day
    BY <1>2, <1>3, <1>5
  <1>8. ASSUME NEW k \in cron.hours
        PROVE  i + 1 <= MinutesPerHour + b * (w.day - D) + Others(k, w.hour) + 0
    <2> DEFINE x == b * (u.day - D)
               y == b * (w.day - D)
               p == Others(k, u.hour)
               q == Others(k, w.hour)
    <2>1. k \in 0..b /\ u.hour # k
      BY <1>5, Masks DEF b, u
    <2>2. p \in Nat /\ q \in Nat /\ p + 1 <= b /\ (u.hour < w.hour => p + 1 <= q)
      BY <1>5, <2>1, HoursOfADay DEF b
    <2>3. x \in Int /\ y \in Int /\ x >= 0
      <3>1. u.day - D \in Nat /\ w.day - D \in Int
        BY <1>3, <1>5
      <3> QED BY <1>5, <3>1
    <2>4. u.day < w.day => y >= x + b
      BY <1>5, ADayOn
    <2>5. u.day = w.day => y = x
      OBVIOUS
    <2>6. x + p + 1 <= y + q
      <3>1. \/ u.day < w.day
            \/ u.day = w.day /\ u.hour < w.hour
        BY <1>2, <1>5
      <3> HIDE DEF x, y, p, q
      <3> QED BY <1>5, <2>2, <2>3, <2>4, <2>5, <3>1
    <2>7. i <= MinutesPerHour + x + p
      <3>1. CASE i <= u.minute
        <4> HIDE DEF x, p
        <4> QED BY <1>5, <2>2, <2>3, <3>1
      <3>2. CASE ~(i <= u.minute)
        <4>1. /\ Settled(u)
              /\ i <= MinutesPerHour + x + p + u.minute
          BY <3>2 DEF RoundsTo, u, D, b
        <4>2. u.minute = 0
          BY <4>1 DEF Settled, u
        <4> HIDE DEF x, p
        <4> QED BY <1>5, <2>2, <2>3, <4>1, <4>2
      <3> QED BY <3>1, <3>2
    <2>8. i + 1 <= MinutesPerHour + y + q + 0
      <3> HIDE DEF x, y, p, q
      <3> QED BY <1>5, <2>2, <2>3, <2>6, <2>7
    <2> QED BY <2>8
  <1>9. RoundsTo(w, i + 1)
    BY <1>2, <1>6, <1>7, <1>8 DEF RoundsTo, D, b
  <1> QED BY <1>4, <1>9 DEF Goes, e, w

\* ... and to the next minute.
LEMMA ToMinute ==
  ASSUME CronTypeOK, Started, zone \in Zone, after \in Int, NEW n, NEW lo, Regular(lo, n), lo <= after,
         NEW v \in (after + 1)..n, v # n, NEW i \in Nat, RoundsTo(ClockAt(v), i),
         FitsDay(ClockAt(v).day), ClockAt(v).hour \in cron.hours, ClockAt(v).minute \notin cron.minutes
  PROVE  Goes(n, v + 1, i + 1)
  <1> DEFINE D == ClockAt(after + 1).day
             u == ClockAt(v)
             w == ClockAt(v + 1)
             b == HoursPerDay - 1
             M == MinutesPerHour
  <1>1. /\ lo \in Int /\ n \in Int /\ v \in Int /\ v \in lo..n /\ after + 1 \in lo..n
        /\ v \in (after + 1)..n /\ v \in lo..(n - 1) /\ v + 1 \in (after + 1)..n
    BY DEF Regular
  <1>2. u \in Times /\ w \in Times /\ ClockAt(after + 1) \in Times
    BY <1>1, ClockShowsTimes
  <1>3. Ticks(u, w)
    BY <1>1 DEF Regular
  <1>4. D <= u.day
    BY <1>1, InOrder
  <1> HIDE DEF D, u, w, b, M
  <1>5. /\ u.day \in Int /\ u.minute \in Int /\ u.hour \in Int /\ 0 <= u.minute /\ u.minute <= M - 1
        /\ w.day \in Int /\ w.minute \in Int /\ w.hour \in 0..b
        /\ D \in Int /\ b \in Nat /\ M \in Nat
    BY <1>2, Parts, Units DEF D, b, M
  <1>6. \A m \in cron.minutes : m \in Int /\ 0 <= m /\ m <= M - 1
    BY <1>5, Masks DEF M
  <1>7. /\ FitsDay(u.day) /\ u.hour \in cron.hours /\ u.minute \notin cron.minutes /\ RoundsTo(u, i)
    BY DEF u
  <1>8. CASE w.day = u.day /\ w.hour = u.hour /\ w.minute = u.minute + 1
    <2>1. CASE i <= u.minute
      <3>1. i + 1 <= w.minute
        BY <1>5, <1>8, <2>1
      <3> QED BY <1>1, <3>1 DEF Goes, RoundsTo, w
    <2>2. CASE ~(i <= u.minute)
      <3>1. /\ Settled(u)
            /\ \A k \in cron.hours : i <= M + b * (u.day - D) + Others(k, u.hour) + u.minute
        BY <1>7, <2>2 DEF RoundsTo, D, b, M
      <3>2. Settled(w)
        <4>1. ASSUME NEW m \in cron.minutes PROVE w.minute <= m
          <5>1. u.minute <= m /\ m # u.minute
            BY <1>7, <3>1 DEF Settled
          <5> QED BY <1>5, <1>6, <1>8, <5>1
        <4> QED BY <1>7, <1>8, <4>1 DEF Settled
      <3>3. ASSUME NEW k \in cron.hours
            PROVE  i + 1 <= M + b * (w.day - D) + Others(k, w.hour) + w.minute
        <4> DEFINE x == b * (u.day - D)
                   p == Others(k, u.hour)
        <4>1. k \in 0..b
          BY <1>5, Masks DEF b
        <4>2. x \in Int /\ p \in Nat
          <5>1. u.day - D \in Int /\ u.hour \in 0..b
            BY <1>5, <1>8
          <5>2. Others(k, u.hour) \in Nat
            BY <4>1, <5>1, HoursOfADay DEF b
          <5>3. b * (u.day - D) \in Int
            BY <1>5, <5>1
          <5> QED BY <5>2, <5>3
        <4>3. i <= M + x + p + u.minute
          BY <3>1
        <4>4. i + 1 <= M + x + p + w.minute
          <5> HIDE DEF x, p
          <5> QED BY <1>5, <1>8, <4>2, <4>3
        <4> QED BY <1>8, <4>4
      <3>4. D <= w.day
        BY <1>4, <1>8
      <3> QED BY <1>1, <3>2, <3>3, <3>4 DEF Goes, RoundsTo, w, D, b, M
    <2> QED BY <2>1, <2>2
  <1>9. CASE /\ u.minute = M - 1 /\ w.minute = 0
             /\ (w.day = u.day + 1 /\ w.hour = 0) \/ w.day = u.day
    <2>1. i <= u.minute
      <3>1. SUFFICES ASSUME ~(i <= u.minute) PROVE FALSE
        OBVIOUS
      <3>2. Settled(u)
        BY <1>7, <3>1 DEF RoundsTo
      <3>3. PICK m \in cron.minutes : TRUE
        BY Masks
      <3>4. m # u.minute /\ u.minute <= m
        BY <1>7, <3>2, <3>3 DEF Settled
      <3> QED BY <1>5, <1>6, <1>9, <3>3, <3>4
    <2>2. Settled(w)
      BY <1>5, <1>6, <1>7, <1>9 DEF Settled
    <2>3. D <= w.day
      BY <1>4, <1>5, <1>9
    <2>4. ASSUME NEW k \in cron.hours
          PROVE  i + 1 <= M + b * (w.day - D) + Others(k, w.hour) + w.minute
      <3> DEFINE x == b * (w.day - D)
                 p == Others(k, w.hour)
      <3>1. x \in Int /\ x >= 0
        <4>1. w.day - D \in Nat
          BY <1>5, <2>3
        <4> QED BY <1>5, <4>1
      <3>2. p \in Nat
        <4>1. k \in 0..b
          BY <1>5, Masks DEF b
        <4> QED BY <1>5, <4>1, HoursOfADay DEF b
      <3> HIDE DEF x, p
      <3>3. i + 1 <= M + x + p + w.minute
        BY <1>5, <1>9, <2>1, <3>1, <3>2
      <3> QED BY <3>3 DEF x, p
    <2> QED BY <1>1, <2>2, <2>3, <2>4 DEF Goes, RoundsTo, w, D, b, M
  <1>10. \/ w.day = u.day /\ w.hour = u.hour /\ w.minute = u.minute + 1
         \/ u.minute = M - 1 /\ w.minute = 0 /\ w.day = u.day + 1 /\ w.hour = 0
         \/ u.minute = M - 1 /\ w.minute = 0 /\ w.day = u.day
    BY <1>2, <1>3, AMinuteOn DEF M
  <1> QED BY <1>8, <1>9, <1>10

\* The rounds are used up only by a search that has seen four years.
LEMMA RoundsAreEnough ==
  ASSUME CronTypeOK, Started, iter = MaxIter, NEW n \in Instants, Promise(n), Goes(n, t, iter)
  PROVE  ~WithinFourYears(n)
  <1> DEFINE D == ClockAt(after + 1).day
             u == Shown
             b == HoursPerDay - 1
             M == MinutesPerHour
             F == 4 * DaysPerYear
  <1>1. PICK lo : Regular(lo, n) /\ lo <= after
    BY Dawn
  <1>2. /\ zone \in Zone /\ after \in Int /\ n \in Int /\ lo \in Int /\ t \in Int
        /\ t \in (after + 1)..n /\ RoundsTo(u, iter)
    BY <1>1, Dawn DEF Goes, Regular, Shown
  <1>3. /\ after \in lo..n /\ after + 1 \in after..n /\ t \in lo..n /\ n \in t..n
        /\ after + 1 \in lo..n
    BY <1>1, <1>2
  <1>4. /\ ClockAt(after).day <= D /\ D <= u.day /\ u.day <= ClockAt(n).day
    BY <1>1, <1>2, <1>3, InOrder DEF Shown
  <1>5. u \in Times /\ ClockAt(after + 1) \in Times /\ ClockAt(after) \in Times /\ ClockAt(n) \in Times
    BY <1>2, ClockShowsTimes DEF Shown
  <1>6. /\ u.day \in Int /\ u.minute \in Int /\ u.hour \in 0..b /\ u.minute <= M - 1
        /\ D \in Int /\ b \in Nat /\ b >= 1 /\ M \in Nat
        /\ F \in Nat /\ F > 0 /\ M <= 2 * DaysPerYear /\ DaysPerYear \in Nat
    <2> HIDE DEF u
    <2> QED BY <1>5, Parts, Units, SearchAssumption
  <1>7. iter = F * b + F
    <2>1. HoursPerDay = b + 1
      BY Units
    <2>2. iter = F * HoursPerDay
      BY DEF MaxIter
    <2> HIDE DEF F, b
    <2> QED BY <1>6, <2>1, <2>2
  <1>8. F * b >= F
    <2> HIDE DEF F, b
    <2>1. PICK c \in Nat : b = c + 1
      <3>1. b - 1 \in Nat /\ b = (b - 1) + 1
        BY <1>6
      <3> QED BY <3>1
    <2>2. F * b = F * c + F /\ F * c \in Nat
      BY <1>6, <2>1
    <2> QED BY <1>6, <2>2
  <1>9. ~(iter <= u.minute)
    <2> DEFINE x == F * b
    <2>1. x \in Int
      BY <1>6
    <2> HIDE DEF u, b, x
    <2>2. ~(x + F <= u.minute)
      BY <1>6, <1>8, <2>1 DEF x
    <2> QED BY <1>7, <2>2 DEF x
  <1>10. PICK k \in cron.hours : TRUE
    BY Masks
  <1>11. iter <= M + b * (u.day - D) + Others(k, u.hour) + u.minute
    BY <1>2, <1>9, <1>10 DEF RoundsTo
  <1>12. Others(k, u.hour) \in Nat /\ Others(k, u.hour) <= b
    <2>1. k \in 0..b
      BY <1>10, Masks
    <2> HIDE DEF u
    <2> QED BY <1>6, <2>1, HoursOfADay
  <1>13. u.day - D >= F
    <2>1. SUFFICES ASSUME u.day - D <= F - 1 PROVE FALSE
      <3> HIDE DEF u, D, F
      <3> QED BY <1>6
    <2> HIDE DEF u, D, b
    <2>2. b * (u.day - D) \in Int /\ b * (u.day - D) <= b * (F - 1)
      <3>1. PICK c \in Nat : F - 1 = (u.day - D) + c
        <4>1. (F - 1) - (u.day - D) \in Nat /\ F - 1 = (u.day - D) + ((F - 1) - (u.day - D))
          BY <1>6, <2>1
        <4> QED BY <4>1
      <3> DEFINE w == u.day - D
      <3>2. w \in Int
        BY <1>6
      <3> HIDE DEF w
      <3>3. b * (w + c) = b * w + b * c /\ b * c \in Nat /\ b * w \in Int
        BY <1>6, <3>2
      <3>4. b * w <= b * (w + c)
        BY <3>3
      <3> QED BY <3>1, <3>3, <3>4 DEF w
    <2>3. b * (F - 1) = F * b - b
      <3> HIDE DEF F
      <3> QED BY <1>6
    <2> DEFINE x == F * b
               y == b * (u.day - D)
               p == Others(k, u.hour)
    <2>4. x \in Int /\ y \in Int /\ p \in Nat /\ p <= b /\ y <= x - b
      BY <1>6, <1>12, <2>2, <2>3
    <2>5. x + F <= M + y + p + u.minute
      BY <1>7, <1>11
    <2> HIDE DEF x, y, p
    <2> QED BY <1>6, <2>4, <2>5
  <1>14. ClockAt(after).day + 4 * DaysPerYear <= ClockAt(n).day
    <2>1. ClockAt(after).day \in Int /\ ClockAt(n).day \in Int
      BY <1>5, Parts
    <2> HIDE DEF u, D
    <2> QED BY <1>4, <1>6, <1>13, <2>1
  <1>15. Calendar[ClockAt(n).day].year >= Calendar[ClockAt(after).day].year + 4
    <2>1. ClockAt(n).day \in 0..MaxDay /\ ClockAt(after).day \in 0..MaxDay
      BY DEF Promise, Named, InCalendar
    <2> QED BY <1>14, <2>1, FourYears
  <1>16. /\ Calendar[ClockAt(n).day].year \in Int /\ Calendar[ClockAt(after).day].year \in Int
    <2>1. ClockAt(n).day \in 0..MaxDay /\ ClockAt(after).day \in 0..MaxDay
      BY DEF Promise, Named, InCalendar
    <2>2. Calendar[ClockAt(n).day] \in Date /\ Calendar[ClockAt(after).day] \in Date
      BY <2>1, CalendarAssumption
    <2> QED BY <2>2 DEF Date
  <1> QED BY <1>15, <1>16 DEF WithinFourYears

\* The zone of a schedule does not change under its search.
LEMMA SameClock ==
  ASSUME zone' = zone
  PROVE  (\A n : ClockAt(n)' = ClockAt(n)) /\ ClockAt(t)' = ClockAt(t')
  BY DEF ClockAt, OffsetAt

LEMMA SamePromise ==
  ASSUME UNCHANGED <<zone, cron, after>>, NEW n
  PROVE  Promise(n)' <=> Promise(n)
  <1>1. Named(n)' <=> Named(n)
    BY DEF Named, Matches, matchesDay, InCalendar, ClockAt, OffsetAt
  <1>2. KeepsTime(after, n)' <=> KeepsTime(after, n)
    BY DEF KeepsTime, TimeDate, Minutes, Ticks, ClockAt, OffsetAt
  <1> QED BY <1>1, <1>2 DEF Promise

LEMMA SameProgress ==
  ASSUME UNCHANGED <<zone, cron, after>>, NEW n
  PROVE  Goes(n, t, iter)' <=> Goes(n, t', iter')
  BY DEF Goes, RoundsTo, Settled, FitsDay, matchesDay, ClockAt, OffsetAt

\* A search goes on if it keeps what it promises.
LEMMA GoesOn ==
  ASSUME CronInv, Searching, NEW v, GoOn(v),
         \A n \in Instants : Promise(n) => Goes(n, v, iter + 1)
  PROVE  CronInv'
  <1>1. /\ t' = v /\ iter' = iter + 1 /\ expr' = expr /\ zone' = zone /\ cron' = cron
        /\ after' = after /\ cronPc' = cronPc /\ cronPc = "search" /\ iter < MaxIter
    BY DEF GoOn, Searching
  <1>2. iter \in Nat /\ MaxIter \in Nat
    BY CalendarAssumption DEF CronInv, CronTypeOK, MaxIter
  <1>3. CronTypeOK'
    <2>1. iter + 1 \in 0..MaxIter
      BY <1>1, <1>2
    <2> QED BY <1>1, <2>1 DEF CronInv, CronTypeOK, Started, MaxIter
  <1>4. ASSUME NEW n \in Instants, Promise(n)' PROVE Goes(n, t, iter)'
    BY <1>1, <1>4, SamePromise, SameProgress
  <1> QED BY <1>1, <1>3, <1>4 DEF CronInv

LEMMA CronStarts == CronInit => CronInv
  <1> SUFFICES ASSUME CronInit PROVE CronInv
    OBVIOUS
  <1>1. MaxIter \in Nat
    <2>1. DaysPerYear \in Nat /\ HoursPerDay \in Nat
      BY CalendarAssumption
    <2> QED BY <2>1 DEF MaxIter
  <1> QED BY <1>1 DEF CronInit, CronInv, CronTypeOK, Started

LEMMA SearchBegins ==
  ASSUME CronInv, Parse
  PROVE  CronInv'
  <1>1. /\ expr' = expr /\ zone' = zone /\ after' = after /\ iter' = iter
        /\ cronPc = "parse" /\ iter = 0
        /\ \/ /\ ParseCron(expr).ok /\ cron' = ParseCron(expr) /\ cronPc' = "search"
              /\ t' = after + 1
           \/ cronPc' = "invalid"
    BY DEF Parse, CronInv, CronTypeOK
  <1>2. CronTypeOK'
    BY <1>1 DEF CronInv, CronTypeOK, Started, MaxIter
  <1>3. ASSUME NEW n \in Instants, Promise(n)', Started' PROVE Goes(n, t, iter)'
    <2>1. /\ zone \in Zone /\ after \in Int /\ n \in Int
      <3>1. zone \in Zones /\ after \in Afters
        BY DEF CronInv, CronTypeOK
      <3> QED BY <3>1, SearchAssumption
    <2>2. n > after
      BY <1>1, <1>3 DEF Promise, Named
    <2>3. t' = after + 1 /\ iter' = 0
      BY <1>1, <1>3 DEF Started
    <2>4. ClockAt(t)' = ClockAt(after + 1)
      BY <1>1, <2>3, SameClock
    <2>5. 0 <= ClockAt(after + 1).minute
      BY <2>1, ClockShowsTimes, Parts
    <2>6. iter' <= (ClockAt(t)').minute
      BY <2>3, <2>4, <2>5
    <2>7. t' \in (after' + 1)..n
      BY <1>1, <2>1, <2>2, <2>3
    <2> QED BY <2>6, <2>7 DEF Goes, RoundsTo
  <1>4. cronPc' # "found" /\ cronPc' # "failed"
    BY <1>1
  <1> QED BY <1>2, <1>3, <1>4 DEF CronInv

\* Of a promise that the search has not kept yet.
LEMMA StillAhead ==
  ASSUME CronInv, Searching, ~Matches(Shown), NEW n \in Instants, Promise(n)
  PROVE  /\ CronTypeOK /\ Started /\ zone \in Zone /\ after \in Int /\ iter \in Nat
         /\ t \in (after + 1)..n /\ t # n /\ RoundsTo(Shown, iter) /\ Matches(ClockAt(n))
         /\ \E lo : Regular(lo, n) /\ lo <= after /\ t \in lo..n /\ n \in t..n
         /\ Shown \in Times /\ ClockAt(n) \in Times
         /\ ClockAt(n).day \in 0..MaxDay /\ Shown.day <= ClockAt(n).day
         /\ Shown.day \in 0..MaxDay
  <1>1. CronTypeOK /\ Started /\ iter \in Nat
    <2>1. iter \in 0..MaxIter
      BY DEF CronInv, CronTypeOK
    <2> QED BY <2>1 DEF CronInv, Searching, Started
  <1>2. PICK lo : Regular(lo, n) /\ lo <= after
    BY <1>1, Dawn
  <1>3. zone \in Zone /\ after \in Int /\ n \in Int /\ lo \in Int
    BY <1>1, <1>2, Dawn DEF Regular
  <1>4. Goes(n, t, iter)
    BY <1>1 DEF CronInv
  <1>5. t \in (after + 1)..n /\ RoundsTo(Shown, iter)
    BY <1>4 DEF Goes, Shown
  <1>6. t \in Int /\ t \in lo..n /\ n \in t..n /\ after \in lo..n /\ t \in after..n
    BY <1>2, <1>3, <1>5
  <1>7. /\ Matches(ClockAt(n)) /\ ClockAt(n).day \in 0..MaxDay /\ ClockAt(after).day \in 0..MaxDay
    BY DEF Promise, Named, InCalendar
  <1>8. t # n
    BY <1>7 DEF Shown
  <1>9. Shown \in Times /\ ClockAt(n) \in Times
    BY <1>3, <1>6, ClockShowsTimes DEF Shown
  <1>10. ClockAt(after).day <= Shown.day /\ Shown.day <= ClockAt(n).day
    BY <1>2, <1>3, <1>6, InOrder DEF Shown
  <1>11. Shown.day \in 0..MaxDay
    <2>1. Shown.day \in Int
      BY <1>9, Parts
    <2> QED BY <1>7, <1>10, <2>1, Units
  <1> QED BY <1>1, <1>2, <1>3, <1>5, <1>6, <1>7, <1>8, <1>9, <1>10, <1>11

LEMMA MonthKeeps ==
  ASSUME CronInv, SkipMonth, NEW n \in Instants, Promise(n)
  PROVE  Goes(n, startOfNextMonth(t), iter + 1)
  <1>1. Searching /\ Calendar[Shown.day].month \notin cron.months /\ ~Matches(Shown)
    BY DEF SkipMonth, Matches
  <1>2. /\ CronTypeOK /\ Started /\ zone \in Zone /\ after \in Int /\ iter \in Nat
        /\ t \in (after + 1)..n /\ RoundsTo(ClockAt(t), iter) /\ Matches(ClockAt(n))
        /\ ClockAt(n).day \in 0..MaxDay /\ Shown.day <= ClockAt(n).day
        /\ Shown.day \in 0..MaxDay
    BY <1>1, StillAhead DEF Shown
  <1>3. PICK lo : Regular(lo, n) /\ lo <= after
    BY <1>1, StillAhead
  <1> DEFINE d == FirstOfNextMonth(Shown.day)
  <1>4. Calendar[ClockAt(n).day].month # Calendar[Shown.day].month
    BY <1>1, <1>2 DEF Matches
  <1>5. d \in (Shown.day + 1)..ClockAt(n).day
    BY <1>2, <1>4, NextMonth
  <1>6. startOfNextMonth(t) = TimeDate(Moment(d, 0, 0))
    BY DEF startOfNextMonth, FirstOfNextMonth, Shown
  <1>7. ~FitsDay(ClockAt(t).day)
    BY <1>1 DEF FitsDay, Shown
  <1> HIDE DEF d
  <1>8. d \in Int /\ ClockAt(t).day < d /\ d <= ClockAt(n).day
    BY <1>2, <1>5 DEF Shown
  <1> QED BY <1>2, <1>3, <1>6, <1>7, <1>8, ToMidnight

LEMMA DayKeeps ==
  ASSUME CronInv, SkipDay, NEW n \in Instants, Promise(n)
  PROVE  Goes(n, startOfNextDay(t), iter + 1)
  <1>1. Searching /\ ~matchesDay(Shown.day) /\ ~Matches(Shown)
    BY DEF SkipDay, Matches
  <1>2. /\ CronTypeOK /\ Started /\ zone \in Zone /\ after \in Int /\ iter \in Nat
        /\ t \in (after + 1)..n /\ RoundsTo(ClockAt(t), iter) /\ Matches(ClockAt(n))
        /\ ClockAt(n).day \in 0..MaxDay /\ Shown.day <= ClockAt(n).day
        /\ Shown.day \in 0..MaxDay
    BY <1>1, StillAhead DEF Shown
  <1>3. PICK lo : Regular(lo, n) /\ lo <= after /\ t \in lo..n
    BY <1>1, StillAhead
  <1> DEFINE d == Shown.day
  <1>4. matchesDay(ClockAt(n).day)
    BY <1>2 DEF Matches
  <1>5. d + 1 \in Int /\ ClockAt(t).day < d + 1 /\ d + 1 <= ClockAt(n).day
    <2>1. ClockAt(n).day # d
      BY <1>1, <1>4
    <2> QED BY <1>2, <2>1 DEF Shown
  <1>6. ClockAt(TimeDate(Moment(d, 0, 0))) = Moment(d, 0, 0)
    BY <1>2, <1>3, MidnightBefore DEF Shown
  <1>7. startOfNextDay(t) = TimeDate(Moment(d + 1, 0, 0))
    <2>1. startOfNextDay(t) =
             TimeDate([ClockAt(TimeDate(Moment(d, 0, 0))) EXCEPT !.day = @ + 1])
      BY DEF startOfNextDay, Shown
    <2> HIDE DEF d
    <2>2. [Moment(d, 0, 0) EXCEPT !.day = @ + 1] = Moment(d + 1, 0, 0)
      BY DEF Moment
    <2> QED BY <1>6, <2>1, <2>2
  <1>8. ~FitsDay(ClockAt(t).day)
    BY <1>1 DEF FitsDay, Shown
  <1> HIDE DEF d
  <1> QED BY <1>2, <1>3, <1>5, <1>7, <1>8, ToMidnight

LEMMA HourKeeps ==
  ASSUME CronInv, SkipHour, NEW n \in Instants, Promise(n)
  PROVE  Goes(n, startOfNextHour(t), iter + 1)
  <1>1. Searching /\ FitsDay(ClockAt(t).day) /\ ClockAt(t).hour \notin cron.hours /\ ~Matches(Shown)
    BY DEF SkipHour, Matches, FitsDay, Shown
  <1>2. /\ CronTypeOK /\ Started /\ zone \in Zone /\ after \in Int /\ iter \in Nat
        /\ t \in (after + 1)..n /\ RoundsTo(ClockAt(t), iter) /\ ClockAt(n).hour \in cron.hours
    BY <1>1, StillAhead DEF Shown, Matches
  <1>3. PICK lo : Regular(lo, n) /\ lo <= after
    BY <1>1, StillAhead
  <1> QED BY <1>1, <1>2, <1>3, ToHour

LEMMA MinuteKeeps ==
  ASSUME CronInv, SkipMinute, NEW n \in Instants, Promise(n)
  PROVE  Goes(n, t + 1, iter + 1)
  <1>1. /\ Searching /\ FitsDay(ClockAt(t).day) /\ ClockAt(t).hour \in cron.hours
        /\ ClockAt(t).minute \notin cron.minutes /\ ~Matches(Shown)
    BY DEF SkipMinute, Matches, FitsDay, Shown
  <1>2. /\ CronTypeOK /\ Started /\ zone \in Zone /\ after \in Int /\ iter \in Nat
        /\ t \in (after + 1)..n /\ t # n /\ RoundsTo(ClockAt(t), iter)
    BY <1>1, StillAhead DEF Shown
  <1>3. PICK lo : Regular(lo, n) /\ lo <= after
    BY <1>1, StillAhead
  <1> QED BY <1>1, <1>2, <1>3, ToMinute

LEMMA CronStep == CronInv /\ [CronNext]_cronVars => CronInv'
  <1> SUFFICES ASSUME CronInv, [CronNext]_cronVars PROVE CronInv'
    OBVIOUS
  <1>1. CASE Parse
    BY <1>1, SearchBegins
  <1>2. CASE SkipMonth
    <2>1. Searching /\ GoOn(startOfNextMonth(t))
      BY <1>2 DEF SkipMonth
    <2> QED BY <1>2, <2>1, MonthKeeps, GoesOn
  <1>3. CASE SkipDay
    <2>1. Searching /\ GoOn(startOfNextDay(t))
      BY <1>3 DEF SkipDay
    <2> QED BY <1>3, <2>1, DayKeeps, GoesOn
  <1>4. CASE SkipHour
    <2>1. Searching /\ GoOn(startOfNextHour(t))
      BY <1>4 DEF SkipHour
    <2> QED BY <1>4, <2>1, HourKeeps, GoesOn
  <1>5. CASE SkipMinute
    <2>1. Searching /\ GoOn(t + 1)
      BY <1>5 DEF SkipMinute
    <2> QED BY <1>5, <2>1, MinuteKeeps, GoesOn
  <1>6. CASE Found \/ GiveUp \/ UNCHANGED cronVars
    <2>1. /\ UNCHANGED <<expr, zone, cron, after, t, iter>>
          /\ \/ cronPc = "search" /\ Matches(Shown) /\ cronPc' = "found"
             \/ cronPc = "search" /\ iter = MaxIter /\ cronPc' = "failed"
             \/ cronPc' = cronPc
      BY <1>6 DEF Found, GiveUp, Searching, cronVars
    <2>2. CronTypeOK'
      BY <2>1 DEF CronInv, CronTypeOK, Started, MaxIter
    <2>3. Started' => Started
      BY <2>1 DEF Started
    <2>4. ASSUME NEW n \in Instants, Promise(n)', Started PROVE Goes(n, t, iter)'
      <3>1. Promise(n) /\ Goes(n, t, iter)
        BY <2>1, <2>4, SamePromise DEF CronInv
      <3> QED BY <2>1, <3>1, SameProgress
    <2>5. Matches(Shown)' <=> Matches(Shown)
      BY <2>1 DEF Matches, matchesDay, Shown, ClockAt, OffsetAt
    <2>6. cronPc' = "found" => Matches(Shown)'
      BY <2>1, <2>5 DEF CronInv
    <2>7. cronPc' = "failed" => iter' = MaxIter
      BY <2>1 DEF CronInv
    <2> QED BY <2>2, <2>3, <2>4, <2>6, <2>7 DEF CronInv, MaxIter
  <1> QED BY <1>1, <1>2, <1>3, <1>4, <1>5, <1>6 DEF CronNext

LEMMA NothingIsPassed ==
  ASSUME CronInv
  PROVE  NextIsTheFirstMatch
  <1> SUFFICES ASSUME cronPc \in {"found", "failed"}, NEW n \in Instants, Named(n),
                      KeepsTime(after, n)
               PROVE  \/ cronPc = "found" /\ after < t /\ t <= n
                      \/ cronPc = "failed" /\ ~WithinFourYears(n)
    BY DEF NextIsTheFirstMatch, CronInv
  <1>1. Started /\ CronTypeOK /\ Promise(n) /\ Goes(n, t, iter)
    BY DEF CronInv, Started, Promise
  <1>2. after < t /\ t <= n
    <2>1. after \in Int /\ n \in Int /\ t \in (after + 1)..n
      BY <1>1, Dawn DEF Goes
    <2> QED BY <2>1
  <1>3. cronPc = "failed" => ~WithinFourYears(n)
    BY <1>1, RoundsAreEnough DEF CronInv
  <1> QED BY <1>2, <1>3

LEMMA FiresOnItsDays ==
  ASSUME CronInv
  PROVE  FiresOnPosixDays
  <1> SUFFICES ASSUME cronPc = "found", InCalendar(t),
                      ~SteppedStar(expr.doms), ~SteppedStar(expr.dows)
               PROVE  PosixDay(Shown.day)
    BY DEF FiresOnPosixDays
  <1>1. Started /\ matchesDay(Shown.day)
    BY DEF Started, CronInv, Matches
  <1>2. Calendar[Shown.day].dom \in 1..MaxDom /\ Weekday(Shown.day) \in 0..(DaysPerWeek - 1)
    <2>1. Shown.day \in 0..MaxDay
      BY DEF InCalendar, Shown
    <2>2. Calendar[Shown.day] \in Date /\ DaysPerWeek \in Nat \ {0} /\ Shown.day \in Nat
      BY <2>1, CalendarAssumption
    <2> QED BY <2>2 DEF Date, Weekday
  <1>3. /\ cron.domStarred \in BOOLEAN /\ (cron.domStarred <=> ~Restricted(expr.doms))
        /\ cron.domStarred => 1..MaxDom \subseteq cron.doms
        /\ cron.dowStarred \in BOOLEAN /\ (cron.dowStarred <=> ~Restricted(expr.dows))
        /\ cron.dowStarred => 0..(DaysPerWeek - 1) \subseteq cron.dows
    BY <1>1, Masks DEF CronInv
  <1> QED BY <1>1, <1>2, <1>3 DEF matchesDay, PosixDay

(* Whatever the calendar, the expressions, the zones and the times the     *)
(* searches start from: as long as the schedule's clock keeps time from    *)
(* the midnight before the start to a time that the expression names,      *)
(* CronSchedule.Next answers that time or an earlier one it names, or      *)
(* fails when that time is not of the next four years.  And whatever the   *)
(* clock does, it takes the days POSIX cron takes when no star is stepped. *)
THEOREM FiresWhenWrittenAlways == CronSpec => []FiresWhenWritten
  <1>1. CronInv => FiresWhenWritten
    BY NothingIsPassed, FiresOnItsDays DEF FiresWhenWritten
  <1> QED BY <1>1, CronStarts, CronStep, PTL DEF CronSpec

-----------------------------------------------------------------------------
(* Joins is what its equation says: the equation has a solution, by the    *)
(* least length for which it would not, and any solution is of texts.      *)
Comma == <<"tokComma">>
Joined(f, texts, n) ==
  f = [k \in 1..n |-> IF k = 1 THEN texts[1] ELSE f[k - 1] \o Comma \o texts[k]]

LEMMA JoinsSolve ==
  ASSUME NEW T, "tokComma" \in T, NEW texts \in Seq(Seq(T))
  PROVE  Joined(Joins(texts), texts, Len(texts))
  <1> DEFINE N == Len(texts)
             Wrong == {n \in 0..N : ~\E f : Joined(f, texts, n)}
  <1>1. N \in Nat
    OBVIOUS
  <1>2. ASSUME Wrong # {} PROVE FALSE
    <2>1. Wrong \in SUBSET Nat
      BY <1>1
    <2>2. PICK n \in Wrong : \A m \in Wrong : n <= m
      <3> HIDE DEF Wrong
      <3> QED BY <1>2, <2>1, LeastNatural
    <2>3. CASE n = 0
      <3>1. Joined([k \in 1..0 |-> texts[1]], texts, 0)
        BY DEF Joined
      <3> QED BY <2>2, <2>3, <3>1
    <2>4. CASE n # 0
      <3>1. n - 1 \in 0..N /\ n \in Nat
        BY <1>1, <2>2, <2>4
      <3>2. n - 1 \notin Wrong
        BY <2>2, <3>1
      <3>3. PICK g : Joined(g, texts, n - 1)
        BY <3>1, <3>2
      <3> DEFINE NextJoin(h, k) == IF k = 1 THEN texts[1] ELSE h[k - 1] \o Comma \o texts[k]
                 f == [k \in 1..n |-> IF k < n THEN g[k] ELSE NextJoin(g, k)]
      <3>4. \A k \in 1..(n - 1) : g[k] = NextJoin(g, k)
        BY <3>3 DEF Joined
      <3>5. ASSUME NEW k \in 1..n PROVE f[k] = NextJoin(f, k)
        <4>1. k # 1 => k - 1 \in 1..n /\ k - 1 < n
          BY <3>1
        <4>2. k # 1 => f[k - 1] = g[k - 1]
          BY <4>1
        <4>3. NextJoin(f, k) = NextJoin(g, k)
          BY <4>2
        <4>4. k < n => k \in 1..(n - 1)
          BY <3>1
        <4> QED BY <3>4, <4>3, <4>4
      <3>6. f = [k \in 1..n |-> NextJoin(f, k)]
        <4> DEFINE F == [k \in 1..n |-> NextJoin(f, k)]
        <4>1. f = [k \in 1..n |-> f[k]]
          OBVIOUS
        <4> HIDE DEF f
        <4> QED BY <3>5, <4>1
      <3>7. Joined(f, texts, n)
        BY <3>6 DEF Joined
      <3> QED BY <2>2, <3>7
    <2> QED BY <2>3, <2>4
  <1>3. \E f : Joined(f, texts, N)
    <2>1. N \in 0..N
      BY <1>1
    <2> QED BY <1>2, <2>1
  <1>4. Joins(texts) = CHOOSE f : Joined(f, texts, N)
    BY DEF Joins, Joined, Comma
  <1> QED BY <1>3, <1>4

LEMMA JoinsAreTexts ==
  ASSUME NEW T, "tokComma" \in T, NEW texts \in Seq(Seq(T))
  PROVE  /\ \A n \in 1..Len(texts) : Joins(texts)[n] \in Seq(T)
         /\ Len(texts) > 0 => Joins(texts)[1] = texts[1]
         /\ \A n \in 2..Len(texts) :
               Joins(texts)[n] = Joins(texts)[n - 1] \o Comma \o texts[n]
  <1> DEFINE N == Len(texts)
             J == Joins(texts)
             Wrong == {n \in 1..N : J[n] \notin Seq(T)}
  <1>1. N \in Nat /\ \A n \in 1..N : texts[n] \in Seq(T)
    OBVIOUS
  <1>2. \A n \in 1..N : J[n] = IF n = 1 THEN texts[1] ELSE J[n - 1] \o Comma \o texts[n]
    <2>1. Joined(J, texts, N)
      BY JoinsSolve
    <2> HIDE DEF J
    <2> QED BY <2>1 DEF Joined
  <1> HIDE DEF J
  <1>3. Comma \in Seq(T)
    BY DEF Comma
  <1>4. ASSUME Wrong # {} PROVE FALSE
    <2>1. Wrong \in SUBSET Nat
      BY <1>1
    <2>2. PICK n \in Wrong : \A m \in Wrong : n <= m
      <3> HIDE DEF Wrong
      <3> QED BY <1>4, <2>1, LeastNatural
    <2>3. n # 1
      BY <1>1, <1>2, <2>2
    <2>4. n - 1 \in 1..N /\ n \in 1..N /\ n - 1 < n
      BY <1>1, <2>2, <2>3
    <2>5. J[n - 1] \in Seq(T)
      BY <2>2, <2>4
    <2>6. J[n] = J[n - 1] \o Comma \o texts[n]
      BY <1>2, <2>3, <2>4
    <2>7. J[n] \in Seq(T)
      BY <1>1, <1>3, <2>4, <2>5, <2>6
    <2> QED BY <2>2, <2>7
  <1>5. \A n \in 2..N : n \in 1..N /\ n # 1
    BY <1>1
  <1>6. N > 0 => J[1] = texts[1]
    <2>1. N > 0 => 1 \in 1..N
      BY <1>1
    <2> QED BY <1>2, <2>1
  <1>7. \A n \in 2..N : J[n] = J[n - 1] \o Comma \o texts[n]
    BY <1>2, <1>5
  <1>8. \A n \in 1..N : J[n] \in Seq(T)
    BY <1>4
  <1> QED BY <1>6, <1>7, <1>8 DEF J

\* The joins of texts that begin alike begin alike.
LEMMA JoinsAgree ==
  ASSUME NEW T, "tokComma" \in T, NEW texts \in Seq(Seq(T)), NEW more \in Seq(Seq(T)),
         Len(texts) <= Len(more), \A n \in 1..Len(texts) : texts[n] = more[n]
  PROVE  \A n \in 1..Len(texts) : Joins(texts)[n] = Joins(more)[n]
  <1> DEFINE N == Len(texts)
             J == Joins(texts)
             K == Joins(more)
             Wrong == {n \in 1..N : J[n] # K[n]}
  <1>1. N \in Nat /\ Len(more) \in Nat /\ N <= Len(more)
    OBVIOUS
  <1>2. /\ N > 0 => J[1] = texts[1]
        /\ \A n \in 2..N : J[n] = J[n - 1] \o Comma \o texts[n]
    BY JoinsAreTexts
  <1>3. /\ N > 0 => K[1] = more[1]
        /\ \A n \in 2..N : K[n] = K[n - 1] \o Comma \o more[n]
    <2>1. N > 0 => Len(more) > 0
      BY <1>1
    <2>2. \A n \in 2..N : n \in 2..Len(more)
      BY <1>1
    <2> QED BY <2>1, <2>2, JoinsAreTexts
  <1> HIDE DEF J, K
  <1>4. ASSUME Wrong # {} PROVE FALSE
    <2>1. Wrong \in SUBSET Nat
      BY <1>1
    <2>2. PICK n \in Wrong : \A m \in Wrong : n <= m
      <3> HIDE DEF Wrong
      <3> QED BY <1>4, <2>1, LeastNatural
    <2>3. n # 1
      <3>1. ASSUME n = 1 PROVE FALSE
        <4>1. n \in 1..Len(texts) /\ N > 0
          BY <1>1, <2>2
        <4>2. texts[1] = more[1]
          BY <3>1, <4>1
        <4> QED BY <1>2, <1>3, <2>2, <3>1, <4>1, <4>2
      <3> QED BY <3>1
    <2>4. n - 1 \in 1..N /\ n \in 2..N /\ n \in 1..N /\ n - 1 < n
      BY <1>1, <2>2, <2>3
    <2>5. J[n - 1] = K[n - 1]
      BY <2>2, <2>4
    <2>6. texts[n] = more[n]
      BY <2>4
    <2> QED BY <1>2, <1>3, <2>2, <2>4, <2>5, <2>6
  <1> QED BY <1>4 DEF J, K

LEMMA JoinOne ==
  ASSUME NEW T, "tokComma" \in T, NEW texts \in Seq(Seq(T)), Len(texts) > 0
  PROVE  Joins(texts)[Len(texts)] \in Seq(T)
  <1>1. Len(texts) \in 1..Len(texts)
    OBVIOUS
  <1> QED BY <1>1, JoinsAreTexts

LEMMA JoinMore ==
  ASSUME NEW T, "tokComma" \in T, NEW texts \in Seq(Seq(T)), NEW more \in Seq(Seq(T)),
         Len(texts) > 0, Len(more) = Len(texts) + 1,
         \A n \in 1..Len(texts) : texts[n] = more[n]
  PROVE  Joins(more)[Len(more)] = Joins(texts)[Len(texts)] \o Comma \o more[Len(more)]
  <1>1. /\ Len(more) \in 2..Len(more) /\ Len(more) - 1 = Len(texts)
        /\ Len(texts) \in 1..Len(texts) /\ Len(texts) <= Len(more)
    OBVIOUS
  <1>2. Joins(more)[Len(more)] = Joins(more)[Len(more) - 1] \o Comma \o more[Len(more)]
    BY <1>1, JoinsAreTexts
  <1>3. Joins(texts)[Len(texts)] = Joins(more)[Len(texts)]
    BY <1>1, JoinsAgree
  <1> QED BY <1>1, <1>2, <1>3

-----------------------------------------------------------------------------
\* Lists of values, as they are written.
AnyValue == Values \cup {EmptyValue}
Words(vs) == [i \in 1..Len(vs) |-> Word(vs[i])]
Items(vs) == IF vs = <<>> THEN <<>> ELSE ListOf(vs) \o Comma

LEMMA LegalKeysAreIdents == LegalKeys \subseteq Idents
  BY SelectorAssumption

LEMMA CommaIsText == Comma \in Seq(Tokens) /\ "tokComma" \in Tokens
  BY DEF Comma, Tokens, Signs

LEMMA WordIsText ==
  ASSUME NEW v \in AnyValue
  PROVE  /\ Word(v) \in Seq(Tokens)
         /\ v # EmptyValue => v \in Tokens /\ v \in Values /\ Word(v) = <<v>>
         /\ v = EmptyValue => Word(v) = <<>>
  <1>1. CASE v = EmptyValue
    BY <1>1 DEF Word
  <1>2. CASE v # EmptyValue
    <2>1. v \in Values /\ v \in Tokens
      BY <1>2 DEF AnyValue, Values, Tokens
    <2> QED BY <1>2, <2>1 DEF Word
  <1> QED BY <1>1, <1>2

LEMMA WordsAreTexts ==
  ASSUME NEW vs \in Seq(AnyValue)
  PROVE  /\ Words(vs) \in Seq(Seq(Tokens)) /\ Len(Words(vs)) = Len(vs)
         /\ \A i \in 1..Len(vs) : Words(vs)[i] = Word(vs[i])
  <1>1. \A i \in 1..Len(vs) : Word(vs[i]) \in Seq(Tokens)
    BY WordIsText
  <1> QED BY <1>1 DEF Words

LEMMA ListIsText ==
  ASSUME NEW vs \in Seq(AnyValue), vs # <<>>
  PROVE  ListOf(vs) \in Seq(Tokens)
  <1>1. Len(vs) > 0 /\ Len(Words(vs)) = Len(vs) /\ Words(vs) \in Seq(Seq(Tokens))
    BY WordsAreTexts
  <1>2. Joins(Words(vs))[Len(Words(vs))] \in Seq(Tokens)
    BY <1>1, CommaIsText, JoinOne
  <1> QED BY <1>1, <1>2 DEF ListOf, Words

LEMMA ItemsAreText ==
  ASSUME NEW vs \in Seq(AnyValue)
  PROVE  Items(vs) \in Seq(Tokens)
  BY ListIsText, CommaIsText DEF Items

LEMMA ListGrows ==
  ASSUME NEW vs \in Seq(AnyValue), NEW v \in AnyValue
  PROVE  ListOf(Append(vs, v)) = Items(vs) \o Word(v)
  <1> DEFINE ws == Append(vs, v)
  <1>1. /\ ws \in Seq(AnyValue) /\ Len(ws) = Len(vs) + 1 /\ Len(vs) \in Nat /\ ws[Len(ws)] = v
        /\ \A i \in 1..Len(vs) : ws[i] = vs[i]
    OBVIOUS
  <1> HIDE DEF ws
  <1>2. /\ Words(ws) \in Seq(Seq(Tokens)) /\ Len(Words(ws)) = Len(ws)
        /\ \A i \in 1..Len(ws) : Words(ws)[i] = Word(ws[i])
    BY <1>1, WordsAreTexts
  <1>3. /\ Words(vs) \in Seq(Seq(Tokens)) /\ Len(Words(vs)) = Len(vs)
        /\ \A i \in 1..Len(vs) : Words(vs)[i] = Word(vs[i])
    BY WordsAreTexts
  <1>4. ListOf(ws) = Joins(Words(ws))[Len(ws)] /\ ListOf(vs) = Joins(Words(vs))[Len(vs)]
    BY DEF ListOf, Words
  <1>5. Words(ws)[Len(ws)] = Word(v)
    BY <1>1, <1>2
  <1>6. CASE vs = <<>>
    <2>1. Len(ws) = 1 /\ Len(Words(ws)) > 0
      BY <1>1, <1>2, <1>6
    <2>3. Joins(Words(ws))[1] = Words(ws)[1]
      BY <1>2, <2>1, CommaIsText, JoinsAreTexts
    <2>2. <<>> \o Word(v) = Word(v)
      BY WordIsText
    <2> QED BY <1>4, <1>5, <1>6, <2>1, <2>2, <2>3 DEF Items, ws
  <1>7. CASE vs # <<>>
    <2>1. Len(vs) > 0
      BY <1>7
    <2>2. \A i \in 1..Len(vs) : Words(vs)[i] = Words(ws)[i]
      BY <1>1, <1>2, <1>3
    <2>3. Joins(Words(ws))[Len(ws)] = Joins(Words(vs))[Len(vs)] \o Comma \o Word(v)
      <3> DEFINE texts == Words(vs)
                 more == Words(ws)
      <3>1. /\ texts \in Seq(Seq(Tokens)) /\ more \in Seq(Seq(Tokens)) /\ Len(texts) > 0
            /\ Len(more) = Len(texts) + 1 /\ \A i \in 1..Len(texts) : texts[i] = more[i]
        BY <1>1, <1>2, <1>3, <2>1, <2>2
      <3>2. Len(more) = Len(ws) /\ Len(texts) = Len(vs) /\ more[Len(ws)] = Word(v)
        BY <1>2, <1>3, <1>5
      <3> HIDE DEF texts, more
      <3>3. Joins(more)[Len(more)] = Joins(texts)[Len(texts)] \o Comma \o more[Len(more)]
        BY <3>1, CommaIsText, JoinMore
      <3> QED BY <3>2, <3>3 DEF texts, more
    <2> QED BY <1>4, <1>7, <2>3 DEF Items, ws
  <1> QED BY <1>6, <1>7

-----------------------------------------------------------------------------
\* Requirements, as they are written.
Shape(r) ==
  CASE r.op \in {"has", "nothas"} -> r.values = <<>>
    [] r.op \in {"eq", "noteq"} -> Len(r.values) = 1
    [] OTHER -> r.values # <<>> /\ r.values[Len(r.values)] # EmptyValue
Ops == {"has", "nothas", "eq", "noteq", "in", "notin"}
Shapes == {r \in [op : Ops, key : LegalKeys, values : Seq(AnyValue)] : Shape(r)}
Start(s) == IF s = <<>> THEN <<>> ELSE Written(s) \o Comma

LEMMA SentenceIsText ==
  ASSUME NEW r \in Shapes
  PROVE  Sentence(r) \in Seq(Tokens)
  <1>1. r.key \in Tokens /\ r.op \in Ops /\ r.values \in Seq(AnyValue) /\ Shape(r)
    BY LegalKeysAreIdents DEF Shapes, Tokens
  <1>2. CASE r.op \in {"has", "nothas"}
    <2>1. <<r.key>> \in Seq(Tokens) /\ <<"tokBang", r.key>> \in Seq(Tokens)
      BY <1>1 DEF Tokens, Signs
    <2>2. Sentence(r) = <<r.key>> \/ Sentence(r) = <<"tokBang", r.key>>
      BY <1>2 DEF Sentence
    <2> QED BY <2>1, <2>2
  <1>3. CASE r.op \in {"eq", "noteq"}
    <2>1. r.values[1] \in AnyValue
      BY <1>1, <1>3 DEF Shape
    <2>2. Word(r.values[1]) \in Seq(Tokens)
      BY <2>1, WordIsText
    <2>3. <<r.key, "tokEq">> \in Seq(Tokens) /\ <<r.key, "tokNotEq">> \in Seq(Tokens)
      BY <1>1 DEF Tokens, Signs
    <2> QED BY <1>3, <2>2, <2>3 DEF Sentence
  <1>4. CASE r.op \in {"in", "notin"}
    <2>1. ListOf(r.values) \in Seq(Tokens)
      BY <1>1, <1>4, ListIsText DEF Shape
    <2>2. <<r.key, r.op, "tokLParen">> \in Seq(Tokens) /\ <<"tokRParen">> \in Seq(Tokens)
      BY <1>1, <1>4, SelectorAssumption DEF Tokens, Signs
    <2> QED BY <1>4, <2>1, <2>2 DEF Sentence
  <1> QED BY <1>1, <1>2, <1>3, <1>4 DEF Ops

LEMMA WrittenIsText ==
  ASSUME NEW s \in Seq(Shapes)
  PROVE  Written(s) \in Seq(Tokens) /\ Start(s) \in Seq(Tokens)
  <1> DEFINE texts == [i \in 1..Len(s) |-> Sentence(s[i])]
  <1>1. texts \in Seq(Seq(Tokens)) /\ Len(texts) = Len(s)
    <2>1. \A i \in 1..Len(s) : Sentence(s[i]) \in Seq(Tokens)
      BY SentenceIsText
    <2> QED BY <2>1
  <1>2. s # <<>> => Joins(texts)[Len(texts)] \in Seq(Tokens)
    <2>1. s # <<>> => Len(texts) > 0
      BY <1>1
    <2> HIDE DEF texts
    <2> QED BY <1>1, <2>1, CommaIsText, JoinOne
  <1>3. Written(s) \in Seq(Tokens)
    BY <1>1, <1>2 DEF Written
  <1> QED BY <1>3, CommaIsText DEF Start

LEMMA WrittenGrows ==
  ASSUME NEW s \in Seq(Shapes), NEW r \in Shapes
  PROVE  Written(Append(s, r)) = Start(s) \o Sentence(r)
  <1> DEFINE u == Append(s, r)
             texts == [i \in 1..Len(s) |-> Sentence(s[i])]
             more == [i \in 1..Len(u) |-> Sentence(u[i])]
  <1>1. /\ u \in Seq(Shapes) /\ Len(u) = Len(s) + 1 /\ Len(s) \in Nat /\ u[Len(u)] = r
        /\ \A i \in 1..Len(s) : u[i] = s[i]
        /\ u # <<>>
    OBVIOUS
  <1> HIDE DEF u
  <1>2. /\ texts \in Seq(Seq(Tokens)) /\ Len(texts) = Len(s)
        /\ more \in Seq(Seq(Tokens)) /\ Len(more) = Len(u)
    <2>1. \A i \in 1..Len(s) : Sentence(s[i]) \in Seq(Tokens)
      BY SentenceIsText
    <2>2. \A i \in 1..Len(u) : Sentence(u[i]) \in Seq(Tokens)
      BY <1>1, SentenceIsText
    <2> QED BY <1>1, <2>1, <2>2
  <1>3. more[Len(more)] = Sentence(r) /\ \A i \in 1..Len(texts) : texts[i] = more[i]
    BY <1>1, <1>2
  <1>4. Written(u) = Joins(more)[Len(more)]
    BY <1>1, <1>2 DEF Written
  <1>5. s # <<>> => Written(s) = Joins(texts)[Len(texts)]
    BY <1>2 DEF Written
  <1> HIDE DEF texts, more
  <1>6. CASE s = <<>>
    <2>1. Len(more) = 1 /\ Len(more) > 0 /\ more \in Seq(Seq(Tokens))
      BY <1>1, <1>2, <1>6
    <2>3. Joins(more)[1] = more[1]
      BY <2>1, CommaIsText, JoinsAreTexts
    <2>2. <<>> \o Sentence(r) = Sentence(r)
      BY SentenceIsText
    <2> QED BY <1>3, <1>4, <1>6, <2>1, <2>2, <2>3 DEF Start, u
  <1>7. CASE s # <<>>
    <2>1. Len(texts) > 0 /\ Len(more) = Len(texts) + 1
      BY <1>1, <1>2, <1>7
    <2>2. Joins(more)[Len(more)] = Joins(texts)[Len(texts)] \o Comma \o Sentence(r)
      BY <1>2, <1>3, <2>1, CommaIsText, JoinMore
    <2> QED BY <1>4, <1>5, <1>7, <2>2 DEF Start, u
  <1> QED BY <1>6, <1>7

-----------------------------------------------------------------------------
(* The inductive invariant of the parser: what it has consumed is what it  *)
(* has understood, written out: the requirements it has, and the piece of  *)
(* the next that its place in the grammar (selPc) says it has.             *)
Reading == {"requirement", "operator", "value", "open", "list", "next"}

Piece(pc, r) ==
  CASE pc = "requirement" -> <<>>
    [] pc = "operator" -> <<r.key>>
    [] pc = "value" -> <<r.key, IF r.op = "eq" THEN "tokEq" ELSE "tokNotEq">>
    [] pc = "open" -> <<r.key, r.op>>
    [] pc = "list" -> <<r.key, r.op, "tokLParen">> \o Items(r.values)
    [] pc = "next" -> <<r.key, r.op, "tokLParen">> \o ListOf(r.values)

PieceFits(pc, r) ==
  /\ pc = "operator" => r \in Shapes /\ r.op = "has"
  /\ pc = "value" => r \in [op : {"eq", "noteq"}, key : LegalKeys, values : {<<>>}]
  /\ pc = "open" => r \in [op : {"in", "notin"}, key : LegalKeys, values : {<<>>}]
  /\ pc \in {"list", "next"} =>
        r \in [op : {"in", "notin"}, key : LegalKeys, values : Seq(AnyValue)]
  /\ pc = "next" => r.values # <<>>

InList(n) ==
  \E i \in 1..n : toks[i] = "tokLParen" /\ \A j \in i..n : toks[j] # "tokRParen"

SelTypeOK ==
  /\ toks \in Inputs /\ pos \in 0..Len(toks) /\ sel \in Seq(Shapes)
  /\ selPc \in Reading \cup {"separator", "done", "error", "panic"}

SelInv ==
  /\ SelTypeOK
  /\ selPc \in Reading =>
        PieceFits(selPc, req) /\ SubSeq(toks, 1, pos) = Start(sel) \o Piece(selPc, req)
  /\ selPc \in {"separator", "done"} => SubSeq(toks, 1, pos) = Written(sel)
  /\ selPc = "done" => pos = Len(toks)
  /\ selPc = "separator" => sel # <<>>
  /\ selPc \in {"list", "next", "panic"} => InList(pos)
  /\ selPc = "list" /\ pos = Len(toks) => toks[pos] = "tokComma"
  /\ selPc = "next" /\ req.values[Len(req.values)] = EmptyValue => Peeks({"tokComma"})
  /\ selPc = "panic" => pos = Len(toks) /\ toks[pos] = "tokComma"

LEMMA ToksAreText ==
  SelTypeOK => toks \in Seq(Tokens) /\ Len(toks) \in Nat /\ pos \in Nat /\ pos <= Len(toks)
  BY SelectorAssumption DEF SelTypeOK

LEMMA PieceIsText ==
  ASSUME NEW pc \in Reading, NEW r, PieceFits(pc, r)
  PROVE  Piece(pc, r) \in Seq(Tokens)
  <1>1. pc = "requirement" => Piece(pc, r) \in Seq(Tokens)
    BY DEF Piece
  <1>2. pc = "operator" => Piece(pc, r) \in Seq(Tokens)
    BY LegalKeysAreIdents DEF Piece, PieceFits, Shapes, Tokens
  <1>3. pc = "value" => Piece(pc, r) \in Seq(Tokens)
    BY LegalKeysAreIdents DEF Piece, PieceFits, Tokens, Signs
  <1>4. pc = "open" => Piece(pc, r) \in Seq(Tokens)
    BY SelectorAssumption DEF Piece, PieceFits, Tokens
  <1>5. ASSUME pc \in {"list", "next"} PROVE Piece(pc, r) \in Seq(Tokens)
    <2>1. r \in [op : {"in", "notin"}, key : LegalKeys, values : Seq(AnyValue)]
      BY <1>5 DEF PieceFits
    <2>2. <<r.key, r.op, "tokLParen">> \in Seq(Tokens)
      BY <2>1, SelectorAssumption DEF Tokens, Signs
    <2>3. Items(r.values) \in Seq(Tokens)
      BY <2>1, ItemsAreText
    <2>4. pc = "next" => ListOf(r.values) \in Seq(Tokens)
      BY <2>1, ListIsText DEF PieceFits
    <2> QED BY <1>5, <2>2, <2>3, <2>4 DEF Piece
  <1> QED BY <1>1, <1>2, <1>3, <1>4, <1>5 DEF Reading

LEMMA TwoTokens ==
  ASSUME NEW a, NEW b
  PROVE  <<a>> \o <<b>> = <<a, b>>
  <1> DEFINE T == {a, b}
             s == <<a>> \o <<b>>
  <1>1. /\ <<a>> \in Seq(T) /\ <<b>> \in Seq(T) /\ <<a, b>> \in Seq(T)
        /\ Len(<<a>>) = 1 /\ Len(<<b>>) = 1 /\ Len(<<a, b>>) = 2
        /\ <<a>>[1] = a /\ <<b>>[1] = b /\ <<a, b>>[1] = a /\ <<a, b>>[2] = b
    OBVIOUS
  <1> HIDE DEF T
  <1>2. s \in Seq(T) /\ Len(s) = 2 /\ s[1] = a /\ s[2] = b
    BY <1>1
  <1> HIDE DEF s
  <1>3. \A i \in 1..2 : s[i] = <<a, b>>[i]
    BY <1>1, <1>2
  <1>4. s = <<a, b>>
    BY <1>1, <1>2, <1>3, SeqEqual
  <1> QED BY <1>4 DEF s

LEMMA ThreeTokens ==
  ASSUME NEW a, NEW b, NEW c
  PROVE  <<a, b>> \o <<c>> = <<a, b, c>>
  <1> DEFINE T == {a, b, c}
             s == <<a, b>> \o <<c>>
  <1>1. /\ <<a, b>> \in Seq(T) /\ <<c>> \in Seq(T) /\ <<a, b, c>> \in Seq(T)
        /\ Len(<<a, b>>) = 2 /\ Len(<<c>>) = 1 /\ Len(<<a, b, c>>) = 3
        /\ <<a, b>>[1] = a /\ <<a, b>>[2] = b /\ <<c>>[1] = c
        /\ <<a, b, c>>[1] = a /\ <<a, b, c>>[2] = b /\ <<a, b, c>>[3] = c
    OBVIOUS
  <1> HIDE DEF T
  <1>2. s \in Seq(T) /\ Len(s) = 3 /\ s[1] = a /\ s[2] = b /\ s[3] = c
    BY <1>1
  <1> HIDE DEF s
  <1>3. \A i \in 1..3 : s[i] = <<a, b, c>>[i]
    BY <1>1, <1>2
  <1>4. s = <<a, b, c>>
    BY <1>1, <1>2, <1>3, SeqEqual
  <1> QED BY <1>4 DEF s

LEMMA Regroup ==
  ASSUME NEW a \in Seq(Tokens), NEW b \in Seq(Tokens), NEW c \in Seq(Tokens)
  PROVE  (a \o b) \o c = a \o (b \o c)
  BY ConcatAssociative

\* A token read is one more of the piece.
LEMMA ReadOn ==
  ASSUME SelInv, selPc \in Reading, ~eof
  PROVE  /\ pos + 1 \in 1..Len(toks) /\ peek \in Tokens /\ peek = toks[pos + 1]
         /\ SubSeq(toks, 1, pos + 1) = Start(sel) \o (Piece(selPc, req) \o <<peek>>)
  <1>1. toks \in Seq(Tokens) /\ Len(toks) \in Nat /\ pos \in Nat /\ pos <= Len(toks)
    BY ToksAreText DEF SelInv
  <1>2. pos + 1 \in 1..Len(toks) /\ peek = toks[pos + 1] /\ peek \in Tokens
    BY <1>1 DEF eof, peek
  <1>3. SubSeq(toks, 1, pos + 1) = SubSeq(toks, 1, pos) \o <<peek>>
    <2>1. 1 \in 1..Len(toks) /\ pos + 1 \in 1..Len(toks) /\ (pos + 1) - 1 = pos
      BY <1>1, <1>2
    <2>2. SubSeq(toks, 1, pos + 1) = SubSeq(toks, 1, (pos + 1) - 1) \o <<toks[pos + 1]>>
      BY <1>1, <2>1, SubSeqRecursiveSecond
    <2> QED BY <1>2, <2>1, <2>2
  <1>4. Start(sel) \in Seq(Tokens) /\ Piece(selPc, req) \in Seq(Tokens) /\ <<peek>> \in Seq(Tokens)
    BY <1>2, WrittenIsText, PieceIsText DEF SelInv, SelTypeOK
  <1>5. (Start(sel) \o Piece(selPc, req)) \o <<peek>> = Start(sel) \o (Piece(selPc, req) \o <<peek>>)
    BY <1>4, ConcatAssociative
  <1> QED BY <1>2, <1>3, <1>5 DEF SelInv

\* What keeps the invariant: to go on, to fail, to complete a requirement.
LEMMA GoesOnReading ==
  ASSUME SelInv, NEW n \in Nat, NEW pc \in Reading, NEW r, Go(n, pc, r), pos + n <= Len(toks),
         PieceFits(pc, r), SubSeq(toks, 1, pos + n) = Start(sel) \o Piece(pc, r),
         pc \in {"list", "next"} => InList(pos + n),
         pc = "list" /\ pos + n = Len(toks) => toks[pos + n] = "tokComma",
         pc = "next" /\ r.values[Len(r.values)] = EmptyValue =>
            pos + n < Len(toks) /\ toks[pos + n + 1] = "tokComma"
  PROVE  SelInv'
  <1>1. /\ pos' = pos + n /\ selPc' = pc /\ req' = r /\ toks' = toks /\ sel' = sel
    BY DEF Go
  <1>2. toks \in Seq(Tokens) /\ Len(toks) \in Nat /\ pos \in Nat /\ pos + n \in 0..Len(toks)
    BY ToksAreText DEF SelInv
  <1>3. SelTypeOK'
    BY <1>1, <1>2 DEF SelInv, SelTypeOK
  <1>4. pc \notin {"separator", "done", "panic"}
    BY DEF Reading
  <1>5. (selPc \in Reading =>
           PieceFits(selPc, req) /\ SubSeq(toks, 1, pos) = Start(sel) \o Piece(selPc, req))'
    BY <1>1
  <1>6. (selPc \in {"list", "next", "panic"} => InList(pos))'
    BY <1>1, <1>4 DEF InList
  <1>7. (selPc = "next" /\ req.values[Len(req.values)] = EmptyValue => Peeks({"tokComma"}))'
    <2>1. ASSUME pos + n < Len(toks), toks[pos + n + 1] = "tokComma" PROVE Peeks({"tokComma"})'
      BY <1>1, <1>2, <2>1 DEF Peeks, eof, peek
    <2> QED BY <1>1, <2>1
  <1> QED BY <1>1, <1>3, <1>4, <1>5, <1>6, <1>7 DEF SelInv

LEMMA Fails ==
  ASSUME SelInv, Fail
  PROVE  SelInv'
  <1>1. selPc' = "error" /\ toks' = toks /\ pos' = pos /\ sel' = sel
    BY DEF Fail
  <1>2. SelTypeOK'
    BY <1>1 DEF SelInv, SelTypeOK
  <1> QED BY <1>1, <1>2 DEF SelInv, Reading

LEMMA Completes ==
  ASSUME SelInv, NEW n \in Nat, NEW r \in Shapes, Emit(n, r), pos + n <= Len(toks),
         SubSeq(toks, 1, pos + n) = Start(sel) \o Sentence(r)
  PROVE  SelInv'
  <1>1. pos' = pos + n /\ selPc' = "separator" /\ toks' = toks /\ sel' = Append(sel, r)
    BY DEF Emit
  <1>2. toks \in Seq(Tokens) /\ Len(toks) \in Nat /\ pos \in Nat /\ pos + n \in 0..Len(toks)
        /\ sel \in Seq(Shapes)
    BY ToksAreText DEF SelInv, SelTypeOK
  <1>3. SelTypeOK'
    BY <1>1, <1>2 DEF SelInv, SelTypeOK
  <1>4. SubSeq(toks, 1, pos + n) = Written(Append(sel, r)) /\ Append(sel, r) # <<>>
    <2>1. Append(sel, r) # <<>>
      BY <1>2
    <2> QED BY <1>2, <2>1, WrittenGrows
  <1> QED BY <1>1, <1>3, <1>4 DEF SelInv, Reading

-----------------------------------------------------------------------------
LEMMA KeyStep == ASSUME SelInv, ParseKey PROVE SelInv'
  <1>1. selPc = "requirement" /\ selPc \in Reading /\ Piece(selPc, req) = <<>>
    BY DEF ParseKey, Reading, Piece
  <1>2. /\ toks \in Seq(Tokens) /\ Len(toks) \in Nat /\ pos \in Nat /\ pos <= Len(toks)
        /\ Start(sel) \in Seq(Tokens)
    BY ToksAreText, WrittenIsText DEF SelInv, SelTypeOK
  <1>3. ASSUME NEW S, Peeks(S)
        PROVE  /\ peek \in S /\ peek \in Tokens /\ pos + 1 <= Len(toks)
               /\ SubSeq(toks, 1, pos + 1) = Start(sel) \o <<peek>>
    <2>1. ~eof /\ peek \in S
      BY <1>3 DEF Peeks
    <2>2. <<>> \o <<peek>> = <<peek>>
      OBVIOUS
    <2> QED BY <1>1, <1>2, <2>1, <2>2, ReadOn
  <1>4. CASE Fail
    BY <1>4, Fails
  <1>5. CASE /\ Peeks({"tokBang"}) /\ pos + 1 < Len(toks) /\ toks[pos + 2] \in LegalKeys
             /\ Emit(2, Req("nothas", toks[pos + 2], <<>>))
    <2> DEFINE k == toks[pos + 2]
               r == Req("nothas", k, <<>>)
    <2>1. SubSeq(toks, 1, pos + 1) = Start(sel) \o <<"tokBang">>
      <3>1. peek = "tokBang"
        BY <1>5 DEF Peeks
      <3>2. SubSeq(toks, 1, pos + 1) = Start(sel) \o <<peek>>
        BY <1>3, <1>5
      <3> QED BY <3>1, <3>2
    <2>2. SubSeq(toks, 1, pos + 2) = SubSeq(toks, 1, pos + 1) \o <<k>>
      <3>1. 1 \in 1..Len(toks) /\ pos + 2 \in 1..Len(toks) /\ (pos + 2) - 1 = pos + 1
        BY <1>2, <1>5
      <3>2. SubSeq(toks, 1, pos + 2) = SubSeq(toks, 1, (pos + 2) - 1) \o <<toks[pos + 2]>>
        BY <1>2, <3>1, SubSeqRecursiveSecond
      <3> QED BY <3>1, <3>2
    <2>3. (Start(sel) \o <<"tokBang">>) \o <<k>> = Start(sel) \o <<"tokBang", k>>
      <3>1. <<"tokBang">> \in Seq(Tokens) /\ <<k>> \in Seq(Tokens)
        BY <1>5, LegalKeysAreIdents DEF Tokens, Signs
      <3>2. (Start(sel) \o <<"tokBang">>) \o <<k>> = Start(sel) \o (<<"tokBang">> \o <<k>>)
        BY <1>2, <3>1, ConcatAssociative
      <3>3. <<"tokBang">> \o <<k>> = <<"tokBang", k>>
        BY TwoTokens
      <3> QED BY <3>2, <3>3
    <2>4. r \in Shapes /\ Sentence(r) = <<"tokBang", k>>
      BY <1>5 DEF Req, Shapes, Shape, Ops, Sentence
    <2>5. pos + 2 <= Len(toks) /\ 2 \in Nat
      BY <1>2, <1>5
    <2>6. SubSeq(toks, 1, pos + 2) = Start(sel) \o Sentence(r)
      BY <2>1, <2>2, <2>3, <2>4
    <2> HIDE DEF r, k
    <2> QED BY <1>5, <2>4, <2>5, <2>6, Completes DEF r, k
  <1>6. CASE Peeks(LegalKeys) /\ Go(1, "operator", Req("has", peek, <<>>))
    <2> DEFINE r == Req("has", peek, <<>>)
    <2>1. peek \in LegalKeys /\ pos + 1 <= Len(toks) /\ SubSeq(toks, 1, pos + 1) = Start(sel) \o <<peek>>
      BY <1>3, <1>6
    <2>2. PieceFits("operator", r) /\ Piece("operator", r) = <<peek>>
      BY <2>1 DEF Req, PieceFits, Piece, Shapes, Shape, Ops
    <2> HIDE DEF r
    <2>3. Go(1, "operator", r) /\ "operator" \in Reading /\ 1 \in Nat
      BY <1>6 DEF r, Reading
    <2> QED BY <2>1, <2>2, <2>3, GoesOnReading
  <1> QED BY <1>4, <1>5, <1>6 DEF ParseKey

LEMMA OperatorStep == ASSUME SelInv, ParseOperator PROVE SelInv'
  <1>1. /\ selPc = "operator" /\ selPc \in Reading /\ Piece(selPc, req) = <<req.key>>
        /\ req \in Shapes /\ req.op = "has"
        /\ req \in [op : Ops, key : LegalKeys, values : Seq(AnyValue)] /\ req.values = <<>>
    BY DEF ParseOperator, Reading, Piece, SelInv, PieceFits, Shapes, Shape
  <1>2. CASE Fail
    BY <1>2, Fails
  <1>3. CASE Emit(0, req)
    <2>1. Sentence(req) = <<req.key>>
      BY <1>1 DEF Sentence
    <2>2. pos \in Nat /\ pos + 0 = pos /\ pos + 0 <= Len(toks) /\ 0 \in Nat
      BY ToksAreText DEF SelInv
    <2>3. SubSeq(toks, 1, pos + 0) = Start(sel) \o Sentence(req)
      BY <1>1, <2>1, <2>2 DEF SelInv
    <2> QED BY <1>1, <1>3, <2>2, <2>3, Completes
  <1>4. ASSUME NEW pc \in {"value", "open"}, NEW op \in {"eq", "noteq", "in", "notin"},
               NEW sign, Peeks({sign}), Go(1, pc, [req EXCEPT !.op = op]),
               PieceFits(pc, [req EXCEPT !.op = op]),
               Piece(pc, [req EXCEPT !.op = op]) = <<req.key, sign>>
        PROVE  SelInv'
    <2>1. ~eof /\ peek = sign
      BY <1>4 DEF Peeks
    <2>2. <<req.key>> \o <<sign>> = <<req.key, sign>>
      BY TwoTokens
    <2>3. /\ pos + 1 \in 1..Len(toks)
          /\ SubSeq(toks, 1, pos + 1) = Start(sel) \o Piece(pc, [req EXCEPT !.op = op])
      BY <1>1, <1>4, <2>1, <2>2, ReadOn
    <2>4. pos + 1 <= Len(toks) /\ pc \in Reading /\ pc \notin {"list", "next"} /\ 1 \in Nat
      BY <2>3, ToksAreText DEF Reading, SelInv
    <2> QED BY <1>4, <2>3, <2>4, GoesOnReading
  <1>5. CASE Peeks({"tokEq"}) /\ Go(1, "value", [req EXCEPT !.op = "eq"])
    <2>1. /\ PieceFits("value", [req EXCEPT !.op = "eq"])
          /\ Piece("value", [req EXCEPT !.op = "eq"]) = <<req.key, "tokEq">>
      BY <1>1 DEF PieceFits, Piece
    <2> QED BY <1>4, <1>5, <2>1
  <1>6. CASE Peeks({"tokNotEq"}) /\ Go(1, "value", [req EXCEPT !.op = "noteq"])
    <2>1. /\ PieceFits("value", [req EXCEPT !.op = "noteq"])
          /\ Piece("value", [req EXCEPT !.op = "noteq"]) = <<req.key, "tokNotEq">>
      BY <1>1 DEF PieceFits, Piece
    <2> QED BY <1>4, <1>6, <2>1
  <1>7. CASE Peeks({"in"}) /\ Go(1, "open", [req EXCEPT !.op = "in"])
    <2>1. /\ PieceFits("open", [req EXCEPT !.op = "in"])
          /\ Piece("open", [req EXCEPT !.op = "in"]) = <<req.key, "in">>
      BY <1>1 DEF PieceFits, Piece
    <2> QED BY <1>4, <1>7, <2>1
  <1>8. CASE Peeks({"notin"}) /\ Go(1, "open", [req EXCEPT !.op = "notin"])
    <2>1. /\ PieceFits("open", [req EXCEPT !.op = "notin"])
          /\ Piece("open", [req EXCEPT !.op = "notin"]) = <<req.key, "notin">>
      BY <1>1 DEF PieceFits, Piece
    <2> QED BY <1>4, <1>8, <2>1
  <1> QED BY <1>2, <1>3, <1>5, <1>6, <1>7, <1>8 DEF ParseOperator

LEMMA ValueStep == ASSUME SelInv, ParseValue PROVE SelInv'
  <1> DEFINE sign == IF req.op = "eq" THEN "tokEq" ELSE "tokNotEq"
             With(v) == [req EXCEPT !.values = <<v>>]
  <1>1. /\ selPc = "value" /\ selPc \in Reading /\ Piece(selPc, req) = <<req.key, sign>>
        /\ req \in [op : {"eq", "noteq"}, key : LegalKeys, values : {<<>>}]
    BY DEF ParseValue, Reading, Piece, SelInv, PieceFits
  <1>2. CASE Fail
    BY <1>2, Fails
  <1>3. ASSUME NEW v \in AnyValue
        PROVE  With(v) \in Shapes /\ Sentence(With(v)) = <<req.key, sign>> \o Word(v)
    <2>1. /\ With(v) = [op |-> req.op, key |-> req.key, values |-> <<v>>]
          /\ <<v>> \in Seq(AnyValue) /\ Len(<<v>>) = 1 /\ <<v>>[1] = v
          /\ req.op \in {"eq", "noteq"} /\ req.key \in LegalKeys
      BY <1>1, <1>3
    <2>2. With(v) \in Shapes
      BY <2>1 DEF Shapes, Shape, Ops
    <2>3. Sentence(With(v)) = <<req.key, sign>> \o Word(v)
      BY <2>1 DEF Sentence
    <2> QED BY <2>2, <2>3
  <1> HIDE DEF With
  <1>4. CASE Emit(0, With(EmptyValue))
    <2>1. EmptyValue \in AnyValue
      BY DEF AnyValue
    <2>2. <<req.key, sign>> \o <<>> = <<req.key, sign>>
      OBVIOUS
    <2>3. pos \in Nat /\ pos + 0 = pos /\ pos + 0 <= Len(toks) /\ 0 \in Nat
      BY ToksAreText DEF SelInv
    <2> HIDE DEF sign
    <2>4. SubSeq(toks, 1, pos + 0) = Start(sel) \o Sentence(With(EmptyValue))
      BY <1>1, <1>3, <2>1, <2>2, <2>3, WordIsText DEF SelInv
    <2> QED BY <1>3, <1>4, <2>1, <2>3, <2>4, Completes
  <1>5. CASE Peeks(Idents \ KeyOnly) /\ Emit(1, With(peek))
    <2>1. ~eof /\ peek \in AnyValue /\ peek # EmptyValue
      BY <1>5, SelectorAssumption DEF Peeks, AnyValue, Values
    <2> HIDE DEF sign
    <2>2. Sentence(With(peek)) = <<req.key, sign>> \o <<peek>>
      BY <1>3, <2>1, WordIsText
    <2>3. /\ pos + 1 \in 1..Len(toks)
          /\ SubSeq(toks, 1, pos + 1) = Start(sel) \o Sentence(With(peek))
      BY <1>1, <2>1, <2>2, ReadOn
    <2>4. pos + 1 <= Len(toks) /\ 1 \in Nat
      BY <2>3, ToksAreText DEF SelInv
    <2> QED BY <1>3, <1>5, <2>1, <2>3, <2>4, Completes
  <1> QED BY <1>2, <1>4, <1>5 DEF ParseValue, With

LEMMA OpenStep == ASSUME SelInv, OpenList PROVE SelInv'
  <1>1. /\ selPc = "open" /\ selPc \in Reading /\ Piece(selPc, req) = <<req.key, req.op>>
        /\ req \in [op : {"in", "notin"}, key : LegalKeys, values : {<<>>}]
    BY DEF OpenList, Reading, Piece, SelInv, PieceFits
  <1>2. CASE Fail
    BY <1>2, Fails
  <1>3. CASE Peeks({"tokLParen"}) /\ pos + 1 < Len(toks) /\ Go(1, "list", req)
    <2>1. ~eof /\ peek = "tokLParen"
      BY <1>3 DEF Peeks
    <2>2. Piece("list", req) = <<req.key, req.op>> \o <<"tokLParen">>
      <3>1. <<req.key, req.op, "tokLParen">> \o <<>> = <<req.key, req.op, "tokLParen">>
        OBVIOUS
      <3>2. <<req.key, req.op>> \o <<"tokLParen">> = <<req.key, req.op, "tokLParen">>
        BY ThreeTokens
      <3> QED BY <1>1, <3>1, <3>2 DEF Piece, Items
    <2>3. /\ pos + 1 \in 1..Len(toks) /\ toks[pos + 1] = "tokLParen"
          /\ SubSeq(toks, 1, pos + 1) = Start(sel) \o Piece("list", req)
      BY <1>1, <2>1, <2>2, ReadOn
    <2>4. PieceFits("list", req)
      <3>1. <<>> \in Seq(AnyValue)
        OBVIOUS
      <3>2. req \in [op : {"in", "notin"}, key : LegalKeys, values : Seq(AnyValue)]
        BY <1>1, <3>1
      <3> QED BY <3>2 DEF PieceFits
    <2>5. /\ pos + 1 <= Len(toks) /\ 1 \in Nat /\ "list" \in Reading
          /\ pos + 1 # Len(toks)
      BY <1>3, <2>3, ToksAreText DEF SelInv, Reading
    <2>6. InList(pos + 1)
      <3>1. pos \in Nat /\ pos + 1 \in 1..(pos + 1) /\ \A j \in (pos + 1)..(pos + 1) : j = pos + 1
        BY ToksAreText DEF SelInv
      <3> QED BY <2>3, <3>1 DEF InList
    <2> QED BY <1>3, <2>3, <2>4, <2>5, <2>6, GoesOnReading
  <1> QED BY <1>2, <1>3 DEF OpenList

\* What is read in a list does not close it.
LEMMA StaysInList ==
  ASSUME SelInv, InList(pos), pos < Len(toks), toks[pos + 1] # "tokRParen"
  PROVE  InList(pos + 1)
  <1>1. PICK i \in 1..pos : toks[i] = "tokLParen" /\ \A j \in i..pos : toks[j] # "tokRParen"
    BY DEF InList
  <1>2. pos \in Nat /\ i \in 1..(pos + 1) /\ \A j \in i..(pos + 1) : j \in i..pos \/ j = pos + 1
    BY ToksAreText DEF SelInv
  <1> QED BY <1>1, <1>2 DEF InList

LEMMA ListStep == ASSUME SelInv, ListValue PROVE SelInv'
  <1> DEFINE lead == <<req.key, req.op, "tokLParen">>
             With(v) == [req EXCEPT !.values = Append(@, v)]
  <1>1. /\ selPc = "list" /\ selPc \in Reading /\ Piece(selPc, req) = lead \o Items(req.values)
        /\ req \in [op : {"in", "notin"}, key : LegalKeys, values : Seq(AnyValue)]
        /\ InList(pos)
    BY DEF ListValue, Reading, Piece, SelInv, PieceFits
  <1>2. /\ toks \in Seq(Tokens) /\ Len(toks) \in Nat /\ pos \in Nat /\ pos <= Len(toks)
        /\ lead \in Seq(Tokens) /\ Items(req.values) \in Seq(Tokens)
        /\ Start(sel) \in Seq(Tokens)
    <2>1. lead \in Seq(Tokens)
      BY <1>1, SelectorAssumption DEF Tokens, Signs
    <2>2. Items(req.values) \in Seq(Tokens)
      BY <1>1, ItemsAreText
    <2>3. Start(sel) \in Seq(Tokens)
      BY WrittenIsText DEF SelInv, SelTypeOK
    <2> QED BY <2>1, <2>2, <2>3, ToksAreText DEF SelInv
  <1>3. ASSUME NEW v \in AnyValue
        PROVE  /\ PieceFits("next", With(v))
               /\ Piece("next", With(v)) = lead \o (Items(req.values) \o Word(v))
               /\ With(v).values[Len(With(v).values)] = v
    <2>1. /\ With(v) = [op |-> req.op, key |-> req.key, values |-> Append(req.values, v)]
          /\ req.values \in Seq(AnyValue) /\ Append(req.values, v) \in Seq(AnyValue)
          /\ Append(req.values, v) # <<>>
          /\ Append(req.values, v)[Len(Append(req.values, v))] = v
      <3>1. ASSUME NEW vs \in Seq(AnyValue)
            PROVE  /\ Append(vs, v) \in Seq(AnyValue) /\ Append(vs, v) # <<>>
                   /\ Append(vs, v)[Len(Append(vs, v))] = v
        OBVIOUS
      <3>2. With(v) = [op |-> req.op, key |-> req.key, values |-> Append(req.values, v)]
        <4>1. ASSUME NEW w
              PROVE  [req EXCEPT !.values = w] = [op |-> req.op, key |-> req.key, values |-> w]
          BY <1>1
        <4> QED BY <4>1
      <3>3. req.values \in Seq(AnyValue)
        BY <1>1
      <3> QED BY <3>1, <3>2, <3>3
    <2>2. PieceFits("next", With(v))
      BY <1>1, <2>1 DEF PieceFits
    <2>3. Piece("next", With(v)) = lead \o ListOf(Append(req.values, v))
      BY <2>1 DEF Piece
    <2> QED BY <2>1, <2>2, <2>3, ListGrows
  <1>4. CASE Fail
    BY <1>4, Fails
  <1>5. CASE eof /\ selPc' = "panic" /\ UNCHANGED <<toks, pos, req, sel>>
    <2>1. pos = Len(toks)
      BY <1>2, <1>5 DEF eof
    <2>2. SelTypeOK'
      BY <1>5 DEF SelInv, SelTypeOK
    <2> QED BY <1>1, <1>5, <2>1, <2>2 DEF SelInv, Reading, InList
  <1>6. CASE Peeks({"tokComma"}) /\ Go(0, "next", With(EmptyValue))
    <2>1. /\ pos < Len(toks) /\ toks[pos + 1] = "tokComma" /\ EmptyValue \in AnyValue
          /\ pos + 0 = pos
      BY <1>2, <1>6 DEF Peeks, eof, peek, AnyValue
    <2>2. Items(req.values) \o Word(EmptyValue) = Items(req.values)
      BY <1>2, <2>1, WordIsText
    <2> HIDE DEF With, lead
    <2>3. SubSeq(toks, 1, pos + 0) = Start(sel) \o Piece("next", With(EmptyValue))
      BY <1>1, <1>3, <2>1, <2>2 DEF SelInv
    <2>4. /\ pos + 0 <= Len(toks) /\ InList(pos + 0) /\ "next" \in Reading /\ 0 \in Nat
          /\ pos + 0 < Len(toks) /\ toks[pos + 0 + 1] = "tokComma"
      <3>1. pos + 0 = pos /\ pos + 0 + 1 = pos + 1
        BY <1>2
      <3> QED BY <1>1, <1>2, <2>1, <3>1 DEF Reading
    <2> QED BY <1>3, <1>6, <2>1, <2>3, <2>4, GoesOnReading
  <1>7. CASE Peeks(Idents \ KeyOnly) /\ Go(1, "next", With(peek))
    <2>1. /\ pos < Len(toks) /\ peek = toks[pos + 1] /\ peek \in AnyValue /\ peek # EmptyValue
          /\ peek # "tokRParen" /\ ~eof /\ peek \in Tokens
      <3>1. ~eof /\ peek \in Idents /\ peek \in AnyValue
        BY <1>7 DEF Peeks, AnyValue, Values
      <3>2. peek # EmptyValue /\ peek # "tokRParen" /\ peek \in Tokens
        BY <3>1, SelectorAssumption DEF Tokens, Signs
      <3>3. pos < Len(toks) /\ peek = toks[pos + 1]
        BY <1>2, <3>1 DEF eof, peek
      <3> QED BY <3>1, <3>2, <3>3
    <2>2. Word(peek) = <<peek>> /\ <<peek>> \in Seq(Tokens)
      BY <2>1, WordIsText
    <2>3. (lead \o Items(req.values)) \o <<peek>> = lead \o (Items(req.values) \o <<peek>>)
      <3> HIDE DEF lead
      <3> QED BY <1>2, <2>2, Regroup
    <2> HIDE DEF With, lead
    <2>4. SubSeq(toks, 1, pos + 1) = Start(sel) \o Piece("next", With(peek))
      BY <1>1, <1>3, <2>1, <2>2, <2>3, ReadOn
    <2>5. InList(pos + 1)
      BY <1>1, <2>1, StaysInList
    <2>6. pos + 1 <= Len(toks) /\ "next" \in Reading /\ 1 \in Nat
      BY <1>2, <2>1 DEF Reading
    <2> QED BY <1>3, <1>7, <2>1, <2>4, <2>5, <2>6, GoesOnReading
  <1> QED BY <1>4, <1>5, <1>6, <1>7 DEF ListValue, With

LEMMA ListSeparatorStep == ASSUME SelInv, ListSeparator PROVE SelInv'
  <1> DEFINE lead == <<req.key, req.op, "tokLParen">>
  <1>1. /\ selPc = "next" /\ selPc \in Reading /\ Piece(selPc, req) = lead \o ListOf(req.values)
        /\ req \in [op : {"in", "notin"}, key : LegalKeys, values : Seq(AnyValue)]
        /\ req.values # <<>> /\ InList(pos)
    BY DEF ListSeparator, Reading, Piece, SelInv, PieceFits
  <1>2. /\ toks \in Seq(Tokens) /\ Len(toks) \in Nat /\ pos \in Nat /\ pos <= Len(toks)
        /\ lead \in Seq(Tokens) /\ ListOf(req.values) \in Seq(Tokens)
    <2>1. lead \in Seq(Tokens)
      BY <1>1, SelectorAssumption DEF Tokens, Signs
    <2>2. ListOf(req.values) \in Seq(Tokens)
      BY <1>1, ListIsText
    <2> QED BY <2>1, <2>2, ToksAreText DEF SelInv
  <1>3. CASE Fail
    BY <1>3, Fails
  <1>4. CASE Peeks({"tokRParen"}) /\ Emit(1, req)
    <2>1. ~eof /\ peek = "tokRParen"
      BY <1>4 DEF Peeks
    <2>2. ~Peeks({"tokComma"})
      BY <2>1 DEF Peeks
    <2>3. req \in Shapes
      BY <1>1, <2>2 DEF SelInv, Shapes, Shape, Ops
    <2>4. Sentence(req) = (lead \o ListOf(req.values)) \o <<"tokRParen">>
      BY <1>1 DEF Sentence
    <2> HIDE DEF lead
    <2>5. pos + 1 \in 1..Len(toks) /\ SubSeq(toks, 1, pos + 1) = Start(sel) \o Sentence(req)
      BY <1>1, <2>1, <2>4, ReadOn
    <2>6. pos + 1 <= Len(toks) /\ 1 \in Nat
      BY <1>2, <2>5
    <2> QED BY <1>4, <2>3, <2>5, <2>6, Completes
  <1>5. CASE Peeks({"tokComma"}) /\ Go(1, "list", req)
    <2>1. ~eof /\ peek = "tokComma" /\ toks[pos + 1] = "tokComma" /\ pos < Len(toks)
      BY <1>2, <1>5 DEF Peeks, peek, eof
    <2>2. Piece("list", req) = lead \o (ListOf(req.values) \o Comma)
      BY <1>1 DEF Piece, Items
    <2>3. (lead \o ListOf(req.values)) \o <<peek>> = lead \o (ListOf(req.values) \o Comma)
      <3>1. <<peek>> = Comma
        BY <2>1 DEF Comma
      <3> HIDE DEF lead
      <3> QED BY <1>2, <3>1, CommaIsText, Regroup
    <2> HIDE DEF lead
    <2>4. SubSeq(toks, 1, pos + 1) = Start(sel) \o Piece("list", req)
      BY <1>1, <2>1, <2>2, <2>3, ReadOn
    <2>5. InList(pos + 1)
      BY <1>1, <2>1, StaysInList
    <2>6. pos + 1 <= Len(toks) /\ "list" \in Reading /\ 1 \in Nat /\ PieceFits("list", req)
      BY <1>1, <1>2, <2>1 DEF Reading, PieceFits
    <2> QED BY <1>5, <2>1, <2>4, <2>5, <2>6, GoesOnReading
  <1> QED BY <1>3, <1>4, <1>5 DEF ListSeparator

LEMMA SeparatorStep == ASSUME SelInv, Separator PROVE SelInv'
  <1>1. selPc = "separator" /\ SubSeq(toks, 1, pos) = Written(sel) /\ sel # <<>>
    BY DEF Separator, SelInv
  <1>2. /\ toks \in Seq(Tokens) /\ Len(toks) \in Nat /\ pos \in Nat /\ pos <= Len(toks)
        /\ sel \in Seq(Shapes)
    BY ToksAreText DEF SelInv, SelTypeOK
  <1>3. CASE Fail
    BY <1>3, Fails
  <1>4. CASE eof /\ Go(0, "done", NoReq)
    <2>1. pos = Len(toks) /\ pos' = pos /\ selPc' = "done" /\ toks' = toks /\ sel' = sel
      BY <1>2, <1>4 DEF eof, Go
    <2>2. SelTypeOK'
      BY <2>1 DEF SelInv, SelTypeOK
    <2> QED BY <1>1, <2>1, <2>2 DEF SelInv, Reading
  <1>5. CASE Peeks({"tokComma"}) /\ Go(1, "requirement", NoReq)
    <2>1. pos + 1 \in 1..Len(toks) /\ toks[pos + 1] = "tokComma"
      BY <1>2, <1>5 DEF Peeks, eof, peek
    <2>2. SubSeq(toks, 1, pos + 1) = Start(sel)
      <3>1. 1 \in 1..Len(toks) /\ (pos + 1) - 1 = pos
        BY <1>2, <2>1
      <3>2. SubSeq(toks, 1, pos + 1) = SubSeq(toks, 1, (pos + 1) - 1) \o <<toks[pos + 1]>>
        BY <1>2, <2>1, <3>1, SubSeqRecursiveSecond
      <3> QED BY <1>1, <2>1, <3>1, <3>2 DEF Start, Comma
    <2>3. Start(sel) \o Piece("requirement", NoReq) = Start(sel)
      BY <1>2, WrittenIsText, ConcatEmptySeq DEF Piece
    <2>4. pos + 1 <= Len(toks) /\ "requirement" \in Reading /\ 1 \in Nat
          /\ PieceFits("requirement", NoReq)
      BY <1>2, <2>1 DEF Reading, PieceFits
    <2> QED BY <1>5, <2>2, <2>3, <2>4, GoesOnReading
  <1> QED BY <1>3, <1>4, <1>5 DEF Separator

LEMMA SelectorStep == SelInv /\ [SelectorNext]_selVars => SelInv'
  <1>1. ASSUME SelInv, UNCHANGED selVars PROVE SelInv'
    BY <1>1 DEF selVars, SelInv, SelTypeOK, InList, Peeks, eof, peek
  <1> QED BY <1>1, KeyStep, OperatorStep, ValueStep, OpenStep, ListStep, ListSeparatorStep,
             SeparatorStep DEF SelectorNext

LEMMA SelectorStarts == SelectorInit => SelInv
  <1> SUFFICES ASSUME SelectorInit PROVE SelInv
    OBVIOUS
  <1>1. /\ toks \in Seq(Tokens) /\ Len(toks) \in Nat /\ pos = 0 /\ sel = <<>>
        /\ selPc = IF toks = <<>> THEN "done" ELSE "requirement"
    BY SelectorAssumption DEF SelectorInit
  <1>2. SubSeq(toks, 1, 0) = <<>>
    BY SubSeqEmpty
  <1>3. Written(sel) = <<>> /\ Start(sel) = <<>> /\ Start(sel) \o Piece("requirement", req) = <<>>
    BY <1>1 DEF Written, Start, Piece
  <1>4. SelTypeOK /\ (toks = <<>> => Len(toks) = 0)
    BY <1>1 DEF SelectorInit, SelTypeOK, Reading
  <1>5. CASE toks = <<>>
    BY <1>1, <1>2, <1>3, <1>4, <1>5 DEF SelInv, Reading
  <1>6. CASE toks # <<>>
    <2>1. selPc = "requirement" /\ SubSeq(toks, 1, pos) = <<>>
      BY <1>1, <1>2, <1>6
    <2>2. PieceFits("requirement", req)
      BY DEF PieceFits
    <2> QED BY <1>3, <1>4, <2>1, <2>2 DEF SelInv
  <1> QED BY <1>5, <1>6

-----------------------------------------------------------------------------
\* What the invariant says of a selector that is done, or of a panic.
LEMMA DoneIsWhole == SelInv => ParsesWhatIsWritten
  <1> SUFFICES ASSUME SelInv, selPc = "done" PROVE ParsesWhatIsWritten
    BY DEF ParsesWhatIsWritten
  <1>1. toks \in Seq(Tokens) /\ sel \in Seq(Shapes)
    BY ToksAreText DEF SelInv, SelTypeOK
  <1>2. Written(sel) = toks
    <2>1. SubSeq(toks, 1, Len(toks)) = toks
      BY <1>1, SubSeqFull
    <2> QED BY <2>1 DEF SelInv
  <1>3. ASSUME NEW i \in 1..Len(sel) PROVE Shape(sel[i])
    BY <1>1 DEF Shapes
  <1> QED BY <1>2, <1>3 DEF ParsesWhatIsWritten, Shape

LEMMA PanicsInAList == SelInv => PanicsOnlyAfterListComma
  BY DEF SelInv, PanicsOnlyAfterListComma, InList

\* A requirement means in SQL what it means in memory.
LEMMA RequirementsAgree ==
  ASSUME NEW r \in Shapes, NEW byKey
  PROVE  matches(r, byKey) = sql(r, byKey)
  <1>1. r.op \in Ops /\ r.values \in Seq(AnyValue) /\ Shape(r) /\ Absent # NULL
    BY DEF Shapes, Absent, NULL
  <1>2. CASE r.op \in {"has", "nothas"}
    BY <1>2 DEF matches, sql, sqlRow
  <1>3. CASE r.op \in {"eq", "noteq"}
    <2>1. Len(r.values) = 1
      BY <1>1, <1>3 DEF Shape
    <2>2. InValues(byKey[r.key], r) <=> byKey[r.key] = r.values[1]
      BY <2>1 DEF InValues
    <2> QED BY <1>1, <1>3, <2>2 DEF matches, sql, sqlRow
  <1>4. CASE r.op \in {"in", "notin"}
    BY <1>1, <1>4 DEF matches, sql, sqlRow
  <1> QED BY <1>1, <1>2, <1>3, <1>4 DEF Ops

LEMMA SelectorsAgree == SelInv => SQLAgreesWithMatches
  <1> SUFFICES ASSUME SelInv, NEW byKey \in Labellings PROVE MatchesAll(sel, byKey) = SQL(sel, byKey)
    BY DEF SQLAgreesWithMatches
  <1>1. \A i \in 1..Len(sel) : matches(sel[i], byKey) = sql(sel[i], byKey)
    BY RequirementsAgree DEF SelInv, SelTypeOK
  <1> QED BY <1>1 DEF MatchesAll, SQL

-----------------------------------------------------------------------------
\* Where the texts that are joined are in what they are joined to.
LEMMA JoinsKeep ==
  ASSUME NEW T, "tokComma" \in T, NEW texts \in Seq(Seq(T)), NEW n \in 1..Len(texts)
  PROVE  \A m \in n..Len(texts) :
            /\ Len(Joins(texts)[n]) <= Len(Joins(texts)[m])
            /\ \A i \in 1..Len(Joins(texts)[n]) : Joins(texts)[m][i] = Joins(texts)[n][i]
  <1> DEFINE N == Len(texts)
             J == Joins(texts)
             Kept(m) == /\ Len(J[n]) <= Len(J[m])
                        /\ \A i \in 1..Len(J[n]) : J[m][i] = J[n][i]
             Wrong == {m \in n..N : ~Kept(m)}
  <1>1. N \in Nat /\ n \in Nat /\ n >= 1 /\ \A m \in 1..N : texts[m] \in Seq(T)
    OBVIOUS
  <1>2. /\ \A m \in 1..N : J[m] \in Seq(T)
        /\ \A m \in 2..N : J[m] = J[m - 1] \o Comma \o texts[m]
    BY JoinsAreTexts
  <1>3. Comma \in Seq(T)
    BY DEF Comma
  <1> HIDE DEF J
  <1>4. ASSUME Wrong # {} PROVE FALSE
    <2>1. Wrong \in SUBSET Nat
      BY <1>1
    <2>2. PICK m \in Wrong : \A k \in Wrong : m <= k
      <3> HIDE DEF Wrong
      <3> QED BY <1>4, <2>1, LeastNatural
    <2>3. m \in n..N /\ ~Kept(m)
      BY <2>2
    <2>4. m # n
      <3>1. Len(J[n]) \in Nat
        BY <1>2
      <3> QED BY <2>3, <3>1
    <2>5. m - 1 \in n..N /\ m - 1 < m /\ m \in 2..N /\ m \in 1..N /\ m - 1 \in 1..N
      BY <1>1, <2>3, <2>4
    <2>6. Kept(m - 1)
      BY <2>2, <2>5
    <2>7. J[m] = J[m - 1] \o Comma \o texts[m]
      BY <1>2, <2>5
    <2>8. ASSUME NEW a \in Seq(T), NEW b \in Seq(T), NEW c \in Seq(T)
          PROVE  /\ Len(a) <= Len(a \o b \o c)
                 /\ \A i \in 1..Len(a) : (a \o b \o c)[i] = a[i]
      OBVIOUS
    <2>9. /\ Len(J[m - 1]) <= Len(J[m])
          /\ \A i \in 1..Len(J[m - 1]) : J[m][i] = J[m - 1][i]
      <3>1. J[m - 1] \in Seq(T) /\ texts[m] \in Seq(T)
        BY <1>1, <1>2, <2>5
      <3> DEFINE a == J[m - 1]
                 c == texts[m]
      <3>2. a \in Seq(T) /\ c \in Seq(T) /\ J[m] = a \o Comma \o c
        BY <2>7, <3>1
      <3> HIDE DEF a, c
      <3>3. Len(a) <= Len(J[m]) /\ \A i \in 1..Len(a) : J[m][i] = a[i]
        BY <1>3, <2>8, <3>2
      <3> QED BY <3>3 DEF a
    <2>10. Len(J[n]) \in Nat /\ Len(J[m]) \in Nat /\ Len(J[m - 1]) \in Nat
      BY <1>1, <1>2, <2>5
    <2>11. Len(J[n]) <= Len(J[m])
      BY <2>6, <2>9, <2>10
    <2>12. ASSUME NEW i \in 1..Len(J[n]) PROVE J[m][i] = J[n][i]
      <3>1. i \in 1..Len(J[m - 1])
        BY <2>6, <2>10
      <3> QED BY <2>6, <2>9, <3>1
    <2> QED BY <2>3, <2>11, <2>12
  <1> QED BY <1>4 DEF J

(* The places of a list: after n of its values, and, after the comma that  *)
(* follows them, before the next.                                          *)
AfterItem(vs, n) == Len(Joins(Words(vs))[n])
BeforeItem(vs, n) == IF n = 0 THEN 0 ELSE AfterItem(vs, n) + 1

LEMMA PlacesOfAList ==
  ASSUME NEW vs \in Seq(AnyValue)
  PROVE  /\ \A n \in 1..Len(vs) : AfterItem(vs, n) \in 0..Len(ListOf(vs))
         /\ \A n \in 1..Len(vs) :
               n < Len(vs) => /\ AfterItem(vs, n) < Len(ListOf(vs))
                              /\ ListOf(vs)[AfterItem(vs, n) + 1] = "tokComma"
         /\ \A n \in 0..(Len(vs) - 1) :
               IF vs[n + 1] = EmptyValue THEN AfterItem(vs, n + 1) = BeforeItem(vs, n)
               ELSE /\ AfterItem(vs, n + 1) = BeforeItem(vs, n) + 1
                    /\ BeforeItem(vs, n) < Len(ListOf(vs))
                    /\ ListOf(vs)[BeforeItem(vs, n) + 1] = vs[n + 1]
  <1> DEFINE N == Len(vs)
             J == Joins(Words(vs))
  <1>1. /\ Words(vs) \in Seq(Seq(Tokens)) /\ Len(Words(vs)) = N /\ N \in Nat
        /\ \A i \in 1..N : Words(vs)[i] = Word(vs[i]) /\ vs[i] \in AnyValue
    BY WordsAreTexts
  <1>2. /\ \A n \in 1..N : J[n] \in Seq(Tokens)
        /\ N > 0 => J[1] = Word(vs[1])
        /\ \A n \in 2..N : J[n] = J[n - 1] \o Comma \o Word(vs[n])
    <2> DEFINE texts == Words(vs)
    <2>1. N > 0 => 1 \in 1..N
      BY <1>1
    <2>2. \A n \in 2..N : n \in 1..N
      BY <1>1
    <2>3. texts \in Seq(Seq(Tokens)) /\ Len(texts) = N /\ \A i \in 1..N : texts[i] = Word(vs[i])
      BY <1>1
    <2> HIDE DEF texts
    <2>4. /\ \A n \in 1..Len(texts) : Joins(texts)[n] \in Seq(Tokens)
          /\ Len(texts) > 0 => Joins(texts)[1] = texts[1]
          /\ \A n \in 2..Len(texts) :
                Joins(texts)[n] = Joins(texts)[n - 1] \o Comma \o texts[n]
      BY <2>3, CommaIsText, JoinsAreTexts
    <2>5. J = Joins(texts)
      BY DEF texts
    <2> HIDE DEF J
    <2> QED BY <2>1, <2>2, <2>3, <2>4, <2>5
  <1>3. \A n \in 1..N : \A m \in n..N :
           Len(J[n]) <= Len(J[m]) /\ \A i \in 1..Len(J[n]) : J[m][i] = J[n][i]
    <2> DEFINE texts == Words(vs)
    <2>1. texts \in Seq(Seq(Tokens)) /\ Len(texts) = N /\ J = Joins(texts)
      BY <1>1
    <2> HIDE DEF texts, J
    <2>2. ASSUME NEW n \in 1..Len(texts)
          PROVE  \A m \in n..Len(texts) :
                    /\ Len(Joins(texts)[n]) <= Len(Joins(texts)[m])
                    /\ \A i \in 1..Len(Joins(texts)[n]) :
                          Joins(texts)[m][i] = Joins(texts)[n][i]
      BY <2>1, CommaIsText, JoinsKeep
    <2> QED BY <2>1, <2>2
  <1>4. ListOf(vs) = J[N]
    BY DEF ListOf, Words
  <1> HIDE DEF J
  <1>5. \A n \in 1..N : AfterItem(vs, n) = Len(J[n]) /\ Len(J[n]) \in Nat /\ N \in n..N
    BY <1>1, <1>2 DEF AfterItem, J
  <1>6. ASSUME NEW n \in 1..N PROVE AfterItem(vs, n) \in 0..Len(J[N])
    <2>1. Len(J[N]) \in Nat
      BY <1>5, <1>6
    <2> QED BY <1>3, <1>5, <2>1
  <1>7. ASSUME NEW n \in 1..N, n < N
        PROVE  AfterItem(vs, n) < Len(J[N]) /\ J[N][AfterItem(vs, n) + 1] = "tokComma"
    <2>1. n + 1 \in 2..N /\ n + 1 \in 1..N /\ (n + 1) - 1 = n
      BY <1>1, <1>7
    <2>2. J[n + 1] = J[n] \o Comma \o Word(vs[n + 1]) /\ Word(vs[n + 1]) \in Seq(Tokens)
      BY <1>1, <1>2, <2>1, WordIsText
    <2>3. ASSUME NEW a \in Seq(Tokens), NEW b \in Seq(Tokens)
          PROVE  /\ Len(a) + 1 <= Len(a \o Comma \o b) /\ Len(a \o Comma \o b) \in Nat
                 /\ (a \o Comma \o b)[Len(a) + 1] = "tokComma"
      BY CommaIsText DEF Comma
    <2>4. /\ Len(J[n]) + 1 <= Len(J[n + 1]) /\ J[n + 1][Len(J[n]) + 1] = "tokComma"
      <3>1. J[n] \in Seq(Tokens)
        BY <1>2
      <3> QED BY <2>2, <2>3, <3>1
    <2>5. Len(J[n]) \in Nat /\ Len(J[n + 1]) \in Nat /\ Len(J[N]) \in Nat
      BY <1>2, <1>5, <2>1
    <2>6. Len(J[n]) + 1 \in 1..Len(J[n + 1])
      BY <2>4, <2>5
    <2>7. Len(J[n + 1]) <= Len(J[N]) /\ J[N][Len(J[n]) + 1] = J[n + 1][Len(J[n]) + 1]
      BY <1>3, <1>5, <2>1, <2>6
    <2>8. AfterItem(vs, n) = Len(J[n])
      BY <1>5
    <2> QED BY <2>4, <2>5, <2>7, <2>8
  <1>8. ASSUME NEW n \in 0..(N - 1)
        PROVE  IF vs[n + 1] = EmptyValue THEN AfterItem(vs, n + 1) = BeforeItem(vs, n)
               ELSE /\ AfterItem(vs, n + 1) = BeforeItem(vs, n) + 1
                    /\ BeforeItem(vs, n) < Len(J[N])
                    /\ J[N][BeforeItem(vs, n) + 1] = vs[n + 1]
    <2> DEFINE w == Word(vs[n + 1])
               b == BeforeItem(vs, n)
    <2>1. n + 1 \in 1..N /\ n \in Nat /\ vs[n + 1] \in AnyValue
      BY <1>1
    <2>2. /\ w \in Seq(Tokens)
          /\ vs[n + 1] = EmptyValue => w = <<>>
          /\ vs[n + 1] # EmptyValue => w = <<vs[n + 1]>>
      BY <2>1, WordIsText
    <2> HIDE DEF w
    <2>3. b \in Nat /\ Len(J[n + 1]) = b + Len(w) /\ (Len(w) = 1 => J[n + 1][b + 1] = w[1])
      <3>1. CASE n = 0
        <4>1. N > 0 /\ J[n + 1] = w /\ b = 0
          BY <1>1, <1>2, <3>1 DEF w, BeforeItem
        <4> HIDE DEF b
        <4> QED BY <2>2, <4>1
      <3>2. CASE n # 0
        <4>1. n \in 1..N /\ n + 1 \in 2..N /\ (n + 1) - 1 = n
          BY <1>1, <3>2
        <4>2. J[n + 1] = J[n] \o Comma \o w /\ b = Len(J[n]) + 1 /\ J[n] \in Seq(Tokens)
          BY <1>2, <1>5, <3>2, <4>1 DEF w, BeforeItem
        <4> HIDE DEF b
        <4>3. ASSUME NEW a \in Seq(Tokens), NEW c \in Seq(Tokens)
              PROVE  /\ Len(a) \in Nat /\ Len(a \o Comma \o c) = Len(a) + 1 + Len(c)
                     /\ Len(c) = 1 => (a \o Comma \o c)[Len(a) + 2] = c[1]
          BY CommaIsText DEF Comma
        <4>4. /\ Len(J[n]) \in Nat /\ Len(J[n + 1]) = Len(J[n]) + 1 + Len(w)
              /\ Len(w) = 1 => J[n + 1][Len(J[n]) + 2] = w[1]
          <5>1. Comma \in Seq(Tokens) /\ J[n + 1] = J[n] \o Comma \o w
            BY <4>2, CommaIsText
          <5>2. w \in Seq(Tokens) /\ J[n] \in Seq(Tokens)
            BY <2>2, <4>2
          <5>3. /\ Len(J[n] \o Comma \o w) = Len(J[n]) + 1 + Len(w) /\ Len(J[n]) \in Nat
                /\ Len(w) = 1 => (J[n] \o Comma \o w)[Len(J[n]) + 2] = w[1]
            BY <4>3, <5>2
          <5> QED BY <5>1, <5>3
        <4>5. b + 1 = Len(J[n]) + 2
          BY <4>2, <4>4
        <4> QED BY <4>2, <4>4, <4>5
      <3> QED BY <3>1, <3>2
    <2>4. /\ AfterItem(vs, n + 1) = Len(J[n + 1]) /\ Len(J[n + 1]) \in Nat
          /\ N \in (n + 1)..N /\ Len(J[N]) \in Nat
      BY <1>1, <1>5, <2>1
    <2>5. /\ Len(J[n + 1]) <= Len(J[N])
          /\ \A i \in 1..Len(J[n + 1]) : J[N][i] = J[n + 1][i]
      BY <1>3, <2>1, <2>4
    <2> HIDE DEF b
    <2>6. CASE vs[n + 1] = EmptyValue
      <3>1. Len(w) = 0
        BY <2>2, <2>6
      <3>2. Len(J[n + 1]) = b
        BY <2>3, <2>4, <3>1
      <3> QED BY <2>4, <2>6, <3>2 DEF b
    <2>7. CASE vs[n + 1] # EmptyValue
      <3>1. w = <<vs[n + 1]>> /\ Len(w) = 1 /\ w[1] = vs[n + 1]
        BY <2>2, <2>7
      <3>2. Len(J[n + 1]) = b + 1 /\ b + 1 \in 1..Len(J[n + 1])
        BY <2>3, <2>4, <3>1
      <3>3. J[N][b + 1] = vs[n + 1] /\ b < Len(J[N])
        BY <2>3, <2>4, <2>5, <3>1, <3>2
      <3> QED BY <2>4, <2>7, <3>2, <3>3 DEF b
    <2> QED BY <2>6, <2>7
  <1> QED BY <1>4, <1>6, <1>7, <1>8

-----------------------------------------------------------------------------
(* A sentence of the grammar, token by token, and where in it the parser   *)
(* is.                                                                     *)
LEMMA SentenceOfAList ==
  ASSUME NEW r \in Shapes, r.op \in {"in", "notin"}
  PROVE  LET vs == r.values
             text == ListOf(vs) IN
         /\ vs \in Seq(AnyValue) /\ Len(vs) \in Nat /\ Len(vs) > 0 /\ vs[Len(vs)] # EmptyValue
         /\ Len(text) \in Nat /\ Len(Sentence(r)) = Len(text) + 4
         /\ Sentence(r)[1] = r.key /\ Sentence(r)[2] = r.op /\ Sentence(r)[3] = "tokLParen"
         /\ \A i \in 1..Len(text) : Sentence(r)[i + 3] = text[i]
         /\ Sentence(r)[Len(text) + 4] = "tokRParen"
         /\ AfterItem(vs, Len(vs)) = Len(text)
  <1> DEFINE vs == r.values
             text == ListOf(vs)
             lead == <<r.key, r.op, "tokLParen">>
             close == <<"tokRParen">>
  <1>1. vs \in Seq(AnyValue) /\ vs # <<>> /\ vs[Len(vs)] # EmptyValue /\ r.key \in LegalKeys
    BY DEF Shapes, Shape
  <1>2. text \in Seq(Tokens)
    BY <1>1, ListIsText
  <1>3. lead \in Seq(Tokens) /\ close \in Seq(Tokens)
    BY <1>1, SelectorAssumption DEF Tokens, Signs
  <1>4. /\ Len(lead) = 3 /\ lead[1] = r.key /\ lead[2] = r.op /\ lead[3] = "tokLParen"
        /\ Len(close) = 1 /\ close[1] = "tokRParen"
    OBVIOUS
  <1>5. Sentence(r) = lead \o text \o close
    BY DEF Sentence
  <1>6. AfterItem(vs, Len(vs)) = Len(text)
    BY DEF AfterItem, ListOf, Words
  <1>7. Len(vs) \in Nat /\ Len(vs) > 0
    BY <1>1
  <1> HIDE DEF vs, text, lead, close
  <1>8. ASSUME NEW a \in Seq(Tokens), NEW b \in Seq(Tokens), NEW c \in Seq(Tokens),
               Len(a) = 3, Len(c) = 1
        PROVE  /\ Len(b) \in Nat /\ Len(a \o b \o c) = Len(b) + 4
               /\ (a \o b \o c)[1] = a[1] /\ (a \o b \o c)[2] = a[2] /\ (a \o b \o c)[3] = a[3]
               /\ \A i \in 1..Len(b) : (a \o b \o c)[i + 3] = b[i]
               /\ (a \o b \o c)[Len(b) + 4] = c[1]
    <2> DEFINE ab == a \o b
    <2>1. /\ ab \in Seq(Tokens) /\ Len(ab) = Len(b) + 3 /\ Len(b) \in Nat
          /\ ab[1] = a[1] /\ ab[2] = a[2] /\ ab[3] = a[3]
          /\ \A i \in 1..Len(b) : ab[i + 3] = b[i]
      <3>1. /\ Len(a) \in Nat /\ Len(b) \in Nat /\ ab \in Seq(Tokens)
            /\ Len(ab) = Len(a) + Len(b)
            /\ \A i \in 1..(Len(a) + Len(b)) : ab[i] = IF i <= Len(a) THEN a[i] ELSE b[i - Len(a)]
        BY ConcatProperties
      <3> HIDE DEF ab
      <3>2. ASSUME NEW i \in 1..Len(b) PROVE ab[i + 3] = b[i]
        <4>1. i + 3 \in 1..(Len(a) + Len(b)) /\ ~(i + 3 <= Len(a)) /\ (i + 3) - Len(a) = i
          BY <1>8, <3>1
        <4> QED BY <3>1, <4>1
      <3>3. \A i \in 1..3 : i \in 1..(Len(a) + Len(b)) /\ i <= Len(a)
        BY <1>8, <3>1
      <3> QED BY <1>8, <3>1, <3>2, <3>3
    <2> HIDE DEF ab
    <2>2. /\ Len(ab \o c) = Len(ab) + 1 /\ (ab \o c)[Len(ab) + 1] = c[1]
          /\ \A i \in 1..Len(ab) : (ab \o c)[i] = ab[i]
      <3>1. /\ Len(ab) \in Nat /\ Len(ab \o c) = Len(ab) + Len(c)
            /\ \A i \in 1..(Len(ab) + Len(c)) :
                  (ab \o c)[i] = IF i <= Len(ab) THEN ab[i] ELSE c[i - Len(ab)]
        <4>1. ab \in Seq(Tokens) /\ c \in Seq(Tokens) /\ Len(ab) \in Nat
          BY <2>1
        <4> QED BY <4>1, ConcatProperties
      <3>2. /\ Len(ab) + 1 \in 1..(Len(ab) + Len(c)) /\ ~(Len(ab) + 1 <= Len(ab))
            /\ (Len(ab) + 1) - Len(ab) = 1
        BY <1>8, <3>1
      <3>3. \A i \in 1..Len(ab) : i \in 1..(Len(ab) + Len(c)) /\ i <= Len(ab)
        BY <1>8, <3>1
      <3> QED BY <1>8, <3>1, <3>2, <3>3
    <2>3. /\ 1 \in 1..Len(ab) /\ 2 \in 1..Len(ab) /\ 3 \in 1..Len(ab)
          /\ \A i \in 1..Len(b) : i + 3 \in 1..Len(ab)
          /\ Len(ab) + 1 = Len(b) + 4
      <3>1. Len(ab) = Len(b) + 3 /\ Len(b) \in Nat
        BY <2>1
      <3> HIDE DEF ab
      <3> QED BY <3>1
    <2> QED BY <2>1, <2>2, <2>3 DEF ab
  <1>9. /\ Len(text) \in Nat /\ Len(Sentence(r)) = Len(text) + 4
        /\ Sentence(r)[1] = lead[1] /\ Sentence(r)[2] = lead[2] /\ Sentence(r)[3] = lead[3]
        /\ \A i \in 1..Len(text) : Sentence(r)[i + 3] = text[i]
        /\ Sentence(r)[Len(text) + 4] = close[1]
    BY <1>2, <1>3, <1>4, <1>5, <1>8
  <1> QED BY <1>1, <1>4, <1>6, <1>7, <1>9 DEF vs, text

LEMMA ShortSentences ==
  ASSUME NEW r \in Shapes
  PROVE  /\ r.op \in Ops /\ r.key \in LegalKeys
         /\ r.op = "has" => Len(Sentence(r)) = 1 /\ Sentence(r)[1] = r.key
         /\ r.op = "nothas" =>
               Len(Sentence(r)) = 2 /\ Sentence(r)[1] = "tokBang" /\ Sentence(r)[2] = r.key
         /\ r.op \in {"eq", "noteq"} =>
               /\ Sentence(r)[1] = r.key
               /\ Sentence(r)[2] = IF r.op = "eq" THEN "tokEq" ELSE "tokNotEq"
               /\ \/ Len(Sentence(r)) = 2
                  \/ Len(Sentence(r)) = 3 /\ Sentence(r)[3] \in Values
  <1>1. r.op \in Ops /\ r.key \in LegalKeys /\ r.values \in Seq(AnyValue) /\ Shape(r)
    BY DEF Shapes
  <1>2. CASE r.op \in {"has", "nothas"}
    BY <1>1, <1>2 DEF Sentence
  <1>3. CASE r.op \in {"eq", "noteq"}
    <2> DEFINE v == r.values[1]
               lead == <<r.key, IF r.op = "eq" THEN "tokEq" ELSE "tokNotEq">>
    <2>1. v \in AnyValue
      BY <1>1, <1>3 DEF Shape
    <2>2. Sentence(r) = lead \o Word(v)
      BY <1>3 DEF Sentence
    <2>3. lead \in Seq(Tokens) /\ Len(lead) = 2 /\ lead[1] = r.key
          /\ lead[2] = IF r.op = "eq" THEN "tokEq" ELSE "tokNotEq"
      BY <1>1, LegalKeysAreIdents DEF Tokens, Signs
    <2>4. Word(v) \in Seq(Tokens) /\ (Word(v) = <<>> \/ (v \in Values /\ Word(v) = <<v>>))
      BY <2>1, WordIsText
    <2> HIDE DEF v, lead
    <2>5. CASE Word(v) = <<>>
      BY <1>1, <1>3, <2>2, <2>3, <2>5
    <2>6. CASE v \in Values /\ Word(v) = <<v>>
      <3>1. /\ Len(lead \o <<v>>) = 3 /\ (lead \o <<v>>)[1] = lead[1]
            /\ (lead \o <<v>>)[2] = lead[2] /\ (lead \o <<v>>)[3] = v
        <4>1. ASSUME NEW a \in Seq(Tokens), Len(a) = 2, NEW w \in Tokens
              PROVE  /\ Len(a \o <<w>>) = 3 /\ (a \o <<w>>)[1] = a[1]
                     /\ (a \o <<w>>)[2] = a[2] /\ (a \o <<w>>)[3] = w
          <5> DEFINE c == <<w>>
          <5>1. c \in Seq(Tokens) /\ Len(c) = 1 /\ c[1] = w
            OBVIOUS
          <5> HIDE DEF c
          <5>2. /\ Len(a \o c) = Len(a) + Len(c)
                /\ \A i \in 1..(Len(a) + Len(c)) :
                      (a \o c)[i] = IF i <= Len(a) THEN a[i] ELSE c[i - Len(a)]
            BY <5>1, ConcatProperties
          <5>3. /\ 1 \in 1..(Len(a) + Len(c)) /\ 2 \in 1..(Len(a) + Len(c))
                /\ 3 \in 1..(Len(a) + Len(c)) /\ ~(3 <= Len(a)) /\ 3 - Len(a) = 1
                /\ 1 <= Len(a) /\ 2 <= Len(a)
            BY <4>1, <5>1
          <5>4. Len(a \o c) = 3
            BY <4>1, <5>1, <5>2
          <5> QED BY <5>1, <5>2, <5>3, <5>4 DEF c
        <4>2. v \in Tokens
          BY <2>6 DEF Values, Tokens
        <4> QED BY <2>3, <4>1, <4>2
      <3> QED BY <1>1, <1>3, <2>2, <2>3, <2>6, <3>1
    <2> QED BY <2>4, <2>5, <2>6
  <1>4. CASE r.op \in {"in", "notin"}
    BY <1>1, <1>4
  <1> QED BY <1>1, <1>2, <1>3, <1>4 DEF Ops

OnTrack(r) ==
  /\ selPc \notin {"error", "panic"}
  /\ selPc = "requirement" => pos = 0
  /\ selPc = "operator" => pos = 1 /\ r.op # "nothas"
  /\ selPc = "value" => pos = 2 /\ r.op \in {"eq", "noteq"}
  /\ selPc = "open" => pos = 2 /\ r.op \in {"in", "notin"}
  /\ selPc = "list" => /\ r.op \in {"in", "notin"}
                       /\ \E n \in 0..(Len(r.values) - 1) : pos = BeforeItem(r.values, n) + 3
  /\ selPc = "next" => /\ r.op \in {"in", "notin"}
                       /\ \E n \in 1..Len(r.values) : pos = AfterItem(r.values, n) + 3
  /\ selPc = "separator" => pos = Len(toks)

LEMMA SignsAreNoIdents ==
  /\ \A s \in Signs : s \notin Idents
  /\ \A k \in Idents : k \notin Signs
  /\ {"in", "notin"} \cap Signs = {}
  BY SelectorAssumption DEF Signs

LEMMA KeyOnTrack ==
  ASSUME NEW r \in Shapes, toks = Sentence(r), OnTrack(r), ParseKey
  PROVE  OnTrack(r)'
  <1>1. selPc = "requirement" /\ pos = 0
    BY DEF ParseKey, OnTrack
  <1>2. CASE r.op = "nothas"
    <2>1. Len(toks) = 2 /\ toks[1] = "tokBang" /\ toks[2] \in LegalKeys
      BY <1>2, ShortSentences
    <2>2. ~eof /\ peek = "tokBang" /\ peek \notin LegalKeys
      BY <1>1, <2>1, SignsAreNoIdents, LegalKeysAreIdents DEF eof, peek, Signs
    <2>3. Emit(2, Req("nothas", toks[2], <<>>))
      BY <1>1, <2>1, <2>2 DEF ParseKey, Peeks
    <2> QED BY <1>1, <2>1, <2>3 DEF Emit, OnTrack
  <1>3. CASE r.op # "nothas"
    <2>1. toks[1] = r.key /\ r.key \in LegalKeys /\ Len(toks) \in Nat /\ Len(toks) >= 1
      <3>1. CASE r.op \in {"in", "notin"}
        BY <3>1, SentenceOfAList, ShortSentences
      <3>2. CASE r.op \in {"has", "eq", "noteq"}
        BY <3>2, ShortSentences
      <3> QED BY <1>3, <3>1, <3>2, ShortSentences DEF Ops
    <2>2. ~eof /\ peek \in LegalKeys /\ peek # "tokBang"
      BY <1>1, <2>1, SignsAreNoIdents, LegalKeysAreIdents DEF eof, peek, Signs
    <2>3. Go(1, "operator", Req("has", peek, <<>>))
      BY <2>2 DEF ParseKey, Peeks
    <2> QED BY <1>1, <1>3, <2>3 DEF Go, OnTrack
  <1> QED BY <1>2, <1>3

LEMMA OperatorOnTrack ==
  ASSUME NEW r \in Shapes, toks = Sentence(r), OnTrack(r), ParseOperator
  PROVE  OnTrack(r)'
  <1>1. selPc = "operator" /\ pos = 1 /\ r.op # "nothas"
    BY DEF ParseOperator, OnTrack
  <1>2. CASE r.op = "has"
    <2>1. Len(toks) = 1
      BY <1>2, ShortSentences
    <2>2. eof
      BY <1>1, <2>1 DEF eof
    <2>3. Emit(0, req)
      BY <2>2 DEF ParseOperator, Peeks
    <2> QED BY <1>1, <2>1, <2>3 DEF Emit, OnTrack
  <1>3. CASE r.op \in {"eq", "noteq"}
    <2>1. Len(toks) >= 2 /\ toks[2] \in {"tokEq", "tokNotEq"} /\ Len(toks) \in Nat
      BY <1>3, ShortSentences
    <2>2. ~eof /\ peek \in {"tokEq", "tokNotEq"}
      BY <1>1, <2>1 DEF eof, peek
    <2>3. pos' = 2 /\ selPc' = "value" /\ toks' = toks
      BY <1>1, <2>2 DEF ParseOperator, Peeks, Go
    <2> QED BY <1>3, <2>3 DEF OnTrack
  <1>4. CASE r.op \in {"in", "notin"}
    <2>1. Len(toks) >= 2 /\ toks[2] \in {"in", "notin"} /\ Len(toks) \in Nat
      BY <1>4, SentenceOfAList
    <2>2. ~eof /\ peek \in {"in", "notin"}
      BY <1>1, <2>1 DEF eof, peek
    <2>3. pos' = 2 /\ selPc' = "open" /\ toks' = toks
      BY <1>1, <2>2 DEF ParseOperator, Peeks, Go
    <2> QED BY <1>4, <2>3 DEF OnTrack
  <1> QED BY <1>1, <1>2, <1>3, <1>4, ShortSentences DEF Ops

LEMMA ValueOnTrack ==
  ASSUME NEW r \in Shapes, toks = Sentence(r), OnTrack(r), ParseValue
  PROVE  OnTrack(r)'
  <1>1. selPc = "value" /\ pos = 2 /\ r.op \in {"eq", "noteq"}
    BY DEF ParseValue, OnTrack
  <1>2. CASE Len(toks) = 2
    <2>1. eof
      BY <1>1, <1>2 DEF eof
    <2>2. Emit(0, [req EXCEPT !.values = <<EmptyValue>>])
      BY <2>1 DEF ParseValue, Peeks
    <2> QED BY <1>1, <1>2, <2>2 DEF Emit, OnTrack
  <1>3. CASE Len(toks) = 3 /\ toks[3] \in Values
    <2>1. ~eof /\ peek \in Idents \ KeyOnly /\ peek # "tokComma"
      BY <1>1, <1>3, SignsAreNoIdents DEF eof, peek, Values, Signs
    <2>2. Emit(1, [req EXCEPT !.values = <<peek>>])
      BY <2>1 DEF ParseValue, Peeks
    <2> QED BY <1>1, <1>3, <2>2 DEF Emit, OnTrack
  <1> QED BY <1>1, <1>2, <1>3, ShortSentences

LEMMA OpenOnTrack ==
  ASSUME NEW r \in Shapes, toks = Sentence(r), OnTrack(r), OpenList
  PROVE  OnTrack(r)'
  <1>1. selPc = "open" /\ pos = 2 /\ r.op \in {"in", "notin"}
    BY DEF OpenList, OnTrack
  <1>2. /\ Len(toks) \in Nat /\ Len(toks) >= 4 /\ toks[3] = "tokLParen"
        /\ Len(r.values) \in Nat /\ Len(r.values) > 0
    BY <1>1, SentenceOfAList
  <1>3. ~eof /\ peek = "tokLParen" /\ pos + 1 < Len(toks)
    BY <1>1, <1>2 DEF eof, peek
  <1>4. pos' = 3 /\ selPc' = "list" /\ toks' = toks
    BY <1>1, <1>3 DEF OpenList, Peeks, Go
  <1>5. 0 \in 0..(Len(r.values) - 1) /\ pos' = BeforeItem(r.values, 0) + 3
    BY <1>2, <1>4 DEF BeforeItem
  <1> QED BY <1>1, <1>4, <1>5 DEF OnTrack

\* The comma that follows a value that is not the last.
LEMMA CommaFollows ==
  ASSUME NEW r \in Shapes, toks = Sentence(r), r.op \in {"in", "notin"},
         NEW n \in 1..Len(r.values), n < Len(r.values), pos = AfterItem(r.values, n) + 3
  PROVE  ~eof /\ peek = "tokComma"
  <1> DEFINE vs == r.values
             text == ListOf(vs)
  <1>1. /\ vs \in Seq(AnyValue) /\ Len(text) \in Nat /\ Len(toks) = Len(text) + 4
        /\ \A i \in 1..Len(text) : toks[i + 3] = text[i]
    BY SentenceOfAList
  <1>2. /\ AfterItem(vs, n) \in 0..Len(text) /\ AfterItem(vs, n) < Len(text)
        /\ text[AfterItem(vs, n) + 1] = "tokComma"
    BY <1>1, PlacesOfAList
  <1> HIDE DEF vs, text
  <1>3. pos = AfterItem(vs, n) + 3 /\ AfterItem(vs, n) + 1 \in 1..Len(text)
    BY <1>1, <1>2 DEF vs
  <1>4. toks[(AfterItem(vs, n) + 1) + 3] = "tokComma" /\ (AfterItem(vs, n) + 1) + 3 = pos + 1
    BY <1>1, <1>2, <1>3
  <1>5. toks[pos + 1] = "tokComma"
    BY <1>4
  <1> QED BY <1>1, <1>2, <1>3, <1>5 DEF eof, peek

LEMMA ListOnTrack ==
  ASSUME NEW r \in Shapes, toks = Sentence(r), OnTrack(r), ListValue
  PROVE  OnTrack(r)'
  <1> DEFINE vs == r.values
             text == ListOf(vs)
  <1>1. selPc = "list" /\ r.op \in {"in", "notin"}
    BY DEF ListValue, OnTrack
  <1>2. PICK n \in 0..(Len(vs) - 1) : pos = BeforeItem(vs, n) + 3
    BY <1>1 DEF OnTrack
  <1>3. /\ vs \in Seq(AnyValue) /\ Len(vs) \in Nat /\ vs[Len(vs)] # EmptyValue
        /\ Len(text) \in Nat /\ Len(toks) = Len(text) + 4
        /\ \A i \in 1..Len(text) : toks[i + 3] = text[i]
    BY <1>1, SentenceOfAList
  <1>4. /\ n + 1 \in 1..Len(vs) /\ AfterItem(vs, n + 1) \in 0..Len(text)
        /\ IF vs[n + 1] = EmptyValue THEN AfterItem(vs, n + 1) = BeforeItem(vs, n)
           ELSE /\ AfterItem(vs, n + 1) = BeforeItem(vs, n) + 1
                /\ BeforeItem(vs, n) < Len(text) /\ text[BeforeItem(vs, n) + 1] = vs[n + 1]
    <2>1. n + 1 \in 1..Len(vs)
      BY <1>3
    <2> QED BY <1>3, <2>1, PlacesOfAList
  <1> HIDE DEF text
  <1>5. ASSUME selPc' = "next", toks' = toks, pos' = AfterItem(vs, n + 1) + 3 PROVE OnTrack(r)'
    BY <1>1, <1>4, <1>5 DEF OnTrack
  <1>6. CASE vs[n + 1] = EmptyValue
    <2>1. n + 1 < Len(vs)
      <3>1. n + 1 # Len(vs)
        BY <1>3, <1>6
      <3> QED BY <1>3, <1>4, <3>1
    <2>2. pos = AfterItem(vs, n + 1) + 3
      BY <1>2, <1>4, <1>6
    <2>3. ~eof /\ peek = "tokComma"
      BY <1>1, <1>4, <2>1, <2>2, CommaFollows
    <2>4. peek \notin Idents
      BY <2>3, SignsAreNoIdents DEF Signs
    <2>5. Go(0, "next", [req EXCEPT !.values = Append(@, EmptyValue)])
      BY <2>3, <2>4 DEF ListValue, Peeks
    <2>6. selPc' = "next" /\ toks' = toks /\ pos' = pos
      BY <1>4, <2>2, <2>5 DEF Go
    <2> QED BY <1>5, <2>2, <2>6
  <1>7. CASE vs[n + 1] # EmptyValue
    <2>1. /\ AfterItem(vs, n + 1) = BeforeItem(vs, n) + 1 /\ BeforeItem(vs, n) < Len(text)
          /\ text[BeforeItem(vs, n) + 1] = vs[n + 1] /\ BeforeItem(vs, n) \in Nat
      BY <1>4, <1>7 DEF BeforeItem, AfterItem
    <2>2. (BeforeItem(vs, n) + 1) + 3 = pos + 1 /\ BeforeItem(vs, n) + 1 \in 1..Len(text)
      BY <1>2, <1>3, <2>1
    <2>3. toks[pos + 1] = vs[n + 1]
      BY <1>3, <2>1, <2>2
    <2>4. ~eof /\ peek = vs[n + 1]
      BY <1>2, <1>3, <2>1, <2>3 DEF eof, peek
    <2>5. vs[n + 1] \in Idents \ KeyOnly
      BY <1>3, <1>4, <1>7 DEF AnyValue, Values
    <2>6. peek \in Idents \ KeyOnly /\ peek \notin {"tokRParen", "tokComma"}
      BY <2>4, <2>5, SignsAreNoIdents DEF Signs
    <2>7. Go(1, "next", [req EXCEPT !.values = Append(@, peek)])
      BY <2>4, <2>6 DEF ListValue, Peeks
    <2>8. selPc' = "next" /\ toks' = toks /\ pos' = AfterItem(vs, n + 1) + 3
      BY <1>2, <2>1, <2>7 DEF Go
    <2> QED BY <1>5, <2>8
  <1> QED BY <1>6, <1>7

LEMMA ListSeparatorOnTrack ==
  ASSUME NEW r \in Shapes, toks = Sentence(r), OnTrack(r), ListSeparator
  PROVE  OnTrack(r)'
  <1> DEFINE vs == r.values
             text == ListOf(vs)
  <1>1. selPc = "next" /\ r.op \in {"in", "notin"}
    BY DEF ListSeparator, OnTrack
  <1>2. PICK n \in 1..Len(vs) : pos = AfterItem(vs, n) + 3
    BY <1>1 DEF OnTrack
  <1>3. /\ vs \in Seq(AnyValue) /\ Len(vs) \in Nat /\ Len(text) \in Nat
        /\ Len(toks) = Len(text) + 4 /\ toks[Len(text) + 4] = "tokRParen"
        /\ AfterItem(vs, Len(vs)) = Len(text)
    BY <1>1, SentenceOfAList
  <1>4. CASE n = Len(vs)
    <2>1. pos = Len(text) + 3 /\ pos + 1 = Len(text) + 4
      BY <1>2, <1>3, <1>4
    <2>2. toks[pos + 1] = "tokRParen"
      BY <1>3, <2>1
    <2>3. ~eof /\ peek = "tokRParen"
      BY <1>3, <2>1, <2>2 DEF eof, peek
    <2>4. Emit(1, req)
      BY <2>3 DEF ListSeparator, Peeks
    <2>5. selPc' = "separator" /\ toks' = toks /\ pos' = Len(toks)
      BY <1>3, <2>1, <2>4 DEF Emit
    <2> QED BY <2>5 DEF OnTrack
  <1>5. CASE n # Len(vs)
    <2>1. n < Len(vs) /\ n \in 0..(Len(vs) - 1) /\ n # 0
      BY <1>3, <1>5
    <2>2. ~eof /\ peek = "tokComma"
      BY <1>1, <1>2, <2>1, CommaFollows
    <2>3. Go(1, "list", req)
      BY <2>2 DEF ListSeparator, Peeks
    <2>4. AfterItem(vs, n) \in Nat
      BY <1>3, PlacesOfAList
    <2>5. selPc' = "list" /\ toks' = toks /\ pos' = BeforeItem(vs, n) + 3
      BY <1>2, <2>1, <2>3, <2>4 DEF Go, BeforeItem
    <2> QED BY <1>1, <2>1, <2>5 DEF OnTrack
  <1> QED BY <1>4, <1>5

LEMMA SeparatorOnTrack ==
  ASSUME NEW r \in Shapes, toks = Sentence(r), OnTrack(r), Separator, Len(toks) \in Nat
  PROVE  OnTrack(r)'
  <1>1. selPc = "separator" /\ pos = Len(toks)
    BY DEF Separator, OnTrack
  <1>2. eof
    BY <1>1 DEF eof
  <1>3. Go(0, "done", NoReq)
    BY <1>2 DEF Separator, Peeks
  <1> QED BY <1>3 DEF Go, OnTrack

-----------------------------------------------------------------------------
\* No sentence of the grammar, however long its list, is refused.
AcceptInv == toks \in Inputs /\ \A r \in Shapes : toks = Sentence(r) => OnTrack(r)

LEMMA AcceptStep == AcceptInv /\ [SelectorNext]_selVars => AcceptInv'
  <1> SUFFICES ASSUME AcceptInv, [SelectorNext]_selVars PROVE AcceptInv'
    OBVIOUS
  <1>1. toks' = toks /\ Len(toks) \in Nat
    <2>1. Len(toks) \in Nat
      BY SelectorAssumption DEF AcceptInv
    <2> QED BY <2>1 DEF SelectorNext, ParseKey, ParseOperator, ParseValue, OpenList, ListValue,
                        ListSeparator, Separator, Go, Fail, Emit, selVars
  <1>2. ASSUME NEW r \in Shapes, toks = Sentence(r) PROVE OnTrack(r)'
    <2>1. OnTrack(r)
      BY <1>2 DEF AcceptInv
    <2>2. CASE UNCHANGED selVars
      BY <2>1, <2>2 DEF selVars, OnTrack
    <2> QED BY <1>1, <1>2, <2>1, <2>2, KeyOnTrack, OperatorOnTrack, ValueOnTrack, OpenOnTrack,
               ListOnTrack, ListSeparatorOnTrack, SeparatorOnTrack DEF SelectorNext
  <1> QED BY <1>1, <1>2 DEF AcceptInv

LEMMA AcceptStarts == SelectorInit => AcceptInv
  <1> SUFFICES ASSUME SelectorInit, NEW r \in Shapes, toks = Sentence(r) PROVE OnTrack(r)
    BY DEF AcceptInv, SelectorInit
  <1> QED BY DEF SelectorInit, OnTrack

LEMMA RequirementsAreShapes == Requirements \subseteq Shapes
  <1> SUFFICES ASSUME NEW r \in Requirements PROVE r \in Shapes
    OBVIOUS
  <1>1. CASE r \in [op : {"has", "nothas"}, key : LegalKeys, values : {<<>>}]
    <2>1. <<>> \in Seq(AnyValue)
      OBVIOUS
    <2>2. r \in [op : Ops, key : LegalKeys, values : Seq(AnyValue)]
      BY <1>1, <2>1 DEF Ops
    <2> QED BY <1>1, <2>2 DEF Shapes, Shape
  <1>2. CASE r \in [op : {"eq", "noteq"}, key : LegalKeys,
                    values : {<<v>> : v \in Values \cup {EmptyValue}}]
    <2>1. PICK v \in AnyValue : r.values = <<v>>
      BY <1>2 DEF AnyValue
    <2>2. <<v>> \in Seq(AnyValue) /\ Len(<<v>>) = 1
      BY <2>1
    <2>3. r = [op |-> r.op, key |-> r.key, values |-> r.values] /\ r.key \in LegalKeys
          /\ r.op \in {"eq", "noteq"}
      BY <1>2
    <2>4. r \in [op : Ops, key : LegalKeys, values : Seq(AnyValue)]
      BY <2>1, <2>2, <2>3 DEF Ops
    <2> QED BY <2>1, <2>2, <2>3, <2>4 DEF Shapes, Shape
  <1>3. CASE r \in [op : {"in", "notin"}, key : LegalKeys,
                    values : {vs \in UNION {[1..n -> Values \cup {EmptyValue}] : n \in 1..MaxList} :
                                  vs[Len(vs)] # EmptyValue}]
    <2>1. /\ r.op \in {"in", "notin"} /\ r.values[Len(r.values)] # EmptyValue
          /\ r = [op |-> r.op, key |-> r.key, values |-> r.values] /\ r.key \in LegalKeys
      BY <1>3
    <2>2. PICK n \in 1..MaxList : r.values \in [1..n -> AnyValue]
      BY <1>3 DEF AnyValue
    <2>3. r.values \in Seq(AnyValue) /\ Len(r.values) = n /\ n >= 1
      BY <2>2, SelectorAssumption
    <2>4. r.values # <<>>
      BY <2>3
    <2> QED BY <2>1, <2>3, <2>4 DEF Shapes, Shape, Ops
  <1> QED BY <1>1, <1>2, <1>3 DEF Requirements

LEMMA RefusesNoSentence == AcceptInv => AcceptsTheGrammar
  BY RequirementsAreShapes DEF AcceptInv, AcceptsTheGrammar, Sentences, OnTrack

(* A selector means what is written (ParseSelector, Matches, SQL), however *)
(* long its input: accepted, it is the input written out again; a sentence *)
(* of the grammar is never refused; the panic is that of a list which      *)
(* breaks off after a comma; and both evaluations agree.                   *)
THEOREM SelectsWhatIsWrittenAlways == SelectorSpec => []SelectsWhatIsWritten
  <1>1. SelectorInit => SelInv /\ AcceptInv
    BY SelectorStarts, AcceptStarts
  <1>2. SelInv /\ AcceptInv /\ [SelectorNext]_selVars => (SelInv /\ AcceptInv)'
    BY SelectorStep, AcceptStep
  <1>3. SelInv /\ AcceptInv => SelectsWhatIsWritten
    BY DoneIsWhole, PanicsInAList, SelectorsAgree, RefusesNoSentence DEF SelectsWhatIsWritten
  <1> QED BY <1>1, <1>2, <1>3, PTL DEF SelectorSpec
=============================================================================
