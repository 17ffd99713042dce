-------------------------- MODULE MonitoringProofs --------------------------
(***************************************************************************)
(* For any systems, installers, runs and capacity of the event channel:    *)
(* the row of an exporter shows what the latest playbook found, the file   *)
(* of scrape targets is never out of date without a reason to write it     *)
(* again, and what it lists is served.                                     *)
(*                                                                         *)
(* Rows rest on the lock (LocksAreHeld): between a playbook and its upsert *)
(* no other run of the host has one.  The file rests on what a             *)
(* regeneration under way has read so far (ReadingIsFresh): it is what the *)
(* tables say now, or something is on its way that makes the writer read   *)
(* them again.                                                             *)
(***************************************************************************)
EXTENDS Monitoring, SequenceTheorems, TLAPS

Entry == [sys : Systems, exp : Exporters, label : Labels]
Events == Relevant \cup {"exporter.run.started"}
Work == [st : {"begun", "locked", "ran", "stored"}, sys : Systems,
         exp : Exporters, kind : Kind, result : State \cup {"none"}]
Reading == [st : {"reading"}, hosts : [Systems -> Labels \cup {NoRow}],
            todo : SUBSET Systems, out : SUBSET Entry, short : BOOLEAN]

\* What the writer is at; the hosts it has still to query were there when it
\* listed them; and stimuli bound what waits to be announced.
WriterOK ==
    /\ writer \in {Waiting, [st |-> "debounce"], [st |-> "stopped"]} \cup Reading
    /\ writer.st = "reading" => \A s \in writer.todo : writer.hosts[s] # NoRow
    /\ started \in 0 .. MaxStimuli /\ announcing <= started
Types == TypeOK /\ WriterOK

\* No goroutine outlives its process; a run at work on a host that is still
\* there has its lock; what its playbook found is what it is about to store.
AtWork == {"locked", "ran", "stored"}
DownIsIdle == mode = "down" => \A r \in Runs : run[r] = NoWork
LocksAreHeld ==
    \A r \in Runs : (run[r].st \in AtWork /\ run[r].sys \in Live) => lock[run[r].sys] = r
ResultsAreObserved ==
    \A r \in Runs : run[r].st = "ran" =>
        /\ run[r].result \in State
        /\ run[r].sys \in Live => observed[<<run[r].sys, run[r].exp>>] = run[r].result

\* Runs and rows are of installers that exist or once existed.
Known(e) == Definition(e).st # "none"
OnlyKnown ==
    /\ \A r \in Runs : Running(r) => Known(run[r].exp)
    /\ \A s \in Systems, e \in Exporters : table[<<s, e>>] # NoRow => Known(e)

RowsInv == DownIsIdle /\ LocksAreHeld /\ ResultsAreObserved /\ OnlyKnown /\ RowShowsLatestRun

\* An event the writer acts on is in its channel; something is on its way
\* that ends in such an event, or is known to have been missed.
Heard(q) == \E i \in 1 .. Len(q) : q[i] \in Relevant
Signal == \/ missed \/ announcing > 0 \/ pending \/ Heard(queue)
          \/ \E r \in Runs : run[r].st = "stored"

\* A regeneration has read what the tables say now, or another will follow.
ReadingIsFresh ==
    (mode = "serving" /\ writer.st = "reading") =>
        \/ writer.short \/ Signal
        \/ /\ writer.hosts = hosts /\ writer.todo \subseteq Live
           /\ writer.out = UNION {EntriesOf(s, hosts[s]) : s \in Live \ writer.todo}

FileInv == StaleFileWillBeWritten /\ ReadingIsFresh

IInv == Types /\ RowsInv /\ FileInv

-----------------------------------------------------------------------------
\* The channel

\* A send keeps what is in the channel, and is heard or counted as missed.
LEMMA Sent ==
    ASSUME NEW q \in Seq(Events), Len(q) <= Buffer, NEW e \in Events
    PROVE  /\ Send(q, e) \in Seq(Events) /\ Len(Send(q, e)) <= Buffer
           /\ Heard(q) => Heard(Send(q, e))
           /\ e \in Relevant => Heard(Send(q, e)) \/ Lost(q, e)
<1>0. Len(q) \in Nat /\ Buffer \in Nat  BY MonitoringAssumption
<1>1. CASE Len(q) < Buffer
  <2> DEFINE p == Append(q, e)
  <2>1. /\ p \in Seq(Events) /\ Len(p) = Len(q) + 1 /\ p[Len(q) + 1] = e
        /\ \A i \in 1 .. Len(q) : p[i] = q[i]
    OBVIOUS
  <2>2. Send(q, e) = p  BY <1>1 DEF Send
  <2> HIDE DEF p
  <2>3. Len(p) <= Buffer  BY <1>0, <1>1, <2>1
  <2>4. Len(q) + 1 \in 1 .. Len(p) /\ \A i \in 1 .. Len(q) : i \in 1 .. Len(p)
    BY <1>0, <2>1
  <2> QED  BY <2>1, <2>2, <2>3, <2>4 DEF Heard
<1>2. CASE ~(Len(q) < Buffer)
  <2>1. Send(q, e) = q /\ Len(q) = Buffer  BY <1>0, <1>2 DEF Send
  <2> QED  BY <2>1 DEF Heard, Lost
<1> QED  BY <1>1, <1>2

\* One event, or two in a row.
LEMMA Broadcasts ==
    ASSUME TypeOK, NEW e \in Events, NEW f \in Relevant,
           Broadcast(f) \/ Broadcast2(e, f)
    PROVE  /\ queue' \in Seq(Events) /\ Len(queue') <= Buffer /\ missed' \in BOOLEAN
           /\ Heard(queue') \/ missed'
<1>0. queue \in Seq(Events) /\ Len(queue) <= Buffer /\ f \in Events /\ missed \in BOOLEAN
  BY DEF TypeOK, Events
<1>1. CASE Broadcast(f)  BY <1>0, <1>1, Sent DEF Broadcast
<1>2. CASE Broadcast2(e, f)
  <2>1. Send(queue, e) \in Seq(Events) /\ Len(Send(queue, e)) <= Buffer  BY <1>0, Sent
  <2>2. /\ Send(Send(queue, e), f) \in Seq(Events) /\ Len(Send(Send(queue, e), f)) <= Buffer
        /\ Heard(Send(Send(queue, e), f)) \/ Lost(Send(queue, e), f)
    BY <1>0, <2>1, Sent
  <2> QED  BY <1>0, <1>2, <2>2 DEF Broadcast2
<1> QED  BY <1>1, <1>2

-----------------------------------------------------------------------------
\* Runs

Stages == {"begun", "locked", "ran", "stored"}

\* What a run that has begun carries.
LEMMA WorkFields ==
    ASSUME TypeOK, NEW r \in Runs
    PROVE  /\ run[r].st \in Stages <=> run[r] # NoWork
           /\ run[r] # NoWork =>
                /\ run[r] \in Work /\ run[r].sys \in Systems /\ run[r].exp \in Exporters
                /\ run[r].kind \in Kind /\ run[r].result \in State \cup {"none"}
<1>1. run[r] \in {NoWork} \cup Work  BY DEF TypeOK, Work
<1>2. NoWork.st = "idle"  BY DEF NoWork
<1> QED  BY <1>1, <1>2 DEF Work, Stages

\* A run moves on alone.
LEMMA RunChanges ==
    ASSUME TypeOK, NEW r \in Runs, NEW w \in Work \cup {NoWork},
           run' = [run EXCEPT ![r] = w]
    PROVE  /\ run' \in [Runs -> {NoWork} \cup Work]
           /\ run'[r] = w /\ \A p \in Runs \ {r} : run'[p] = run[p]
BY DEF TypeOK, Work

\* To its next place, perhaps with a result.
LEMMA Advances ==
    ASSUME NEW w \in Work, NEW st \in Stages, NEW res \in State
    PROVE  /\ [w EXCEPT !.st = st] \in Work
           /\ [w EXCEPT !.st = st].st = st
           /\ [w EXCEPT !.st = st].sys = w.sys /\ [w EXCEPT !.st = st].exp = w.exp
           /\ [w EXCEPT !.st = st].result = w.result
           /\ [w EXCEPT !.st = st, !.result = res] \in Work
           /\ [w EXCEPT !.st = st, !.result = res].st = st
           /\ [w EXCEPT !.st = st, !.result = res].sys = w.sys
           /\ [w EXCEPT !.st = st, !.result = res].exp = w.exp
           /\ [w EXCEPT !.st = st, !.result = res].result = res
BY DEF Work, Stages

\* What a run at work becomes when it moves on.
LEMMA Moves ==
    ASSUME TypeOK, NEW r \in Runs, run[r] # NoWork, NEW st \in Stages, NEW res \in State,
           \/ run' = [run EXCEPT ![r].st = st]
           \/ run' = [run EXCEPT ![r].st = st, ![r].result = res]
    PROVE  /\ run' \in [Runs -> {NoWork} \cup Work] /\ run'[r] # NoWork
           /\ run'[r].st = st /\ run'[r].sys = run[r].sys /\ run'[r].exp = run[r].exp
           /\ \/ run'[r].result = run[r].result /\ run' = [run EXCEPT ![r].st = st]
              \/ run'[r].result = res /\ run' = [run EXCEPT ![r].st = st, ![r].result = res]
           /\ \A p \in Runs \ {r} : run'[p] = run[p]
<1>0. run \in [Runs -> {NoWork} \cup Work] /\ run[r] \in Work  BY WorkFields DEF TypeOK, Work
<1>1. CASE run' = [run EXCEPT ![r].st = st]
  <2> DEFINE w == [run[r] EXCEPT !.st = st]
  <2>1. w \in Work /\ w.st = st /\ w.sys = run[r].sys /\ w.exp = run[r].exp
        /\ w.result = run[r].result
    BY <1>0, Advances
  <2>2. run' = [run EXCEPT ![r] = w]  BY <1>1
  <2> HIDE DEF w
  <2>3. run' \in [Runs -> {NoWork} \cup Work] /\ run'[r] = w /\ \A p \in Runs \ {r} : run'[p] = run[p]
    BY <2>1, <2>2, RunChanges
  <2>4. w # NoWork  BY <2>1 DEF NoWork, Stages
  <2> QED  BY <1>1, <2>1, <2>3, <2>4
<1>2. CASE run' = [run EXCEPT ![r].st = st, ![r].result = res]
  <2> DEFINE w == [run[r] EXCEPT !.st = st, !.result = res]
  <2>1. w \in Work /\ w.st = st /\ w.sys = run[r].sys /\ w.exp = run[r].exp /\ w.result = res
    BY <1>0 DEF Work, Stages
  <2>2. run' = [run EXCEPT ![r] = w]  BY <1>0, <1>2
  <2> HIDE DEF w
  <2>3. run' \in [Runs -> {NoWork} \cup Work] /\ run'[r] = w /\ \A p \in Runs \ {r} : run'[p] = run[p]
    BY <2>1, <2>2, RunChanges
  <2>4. w # NoWork  BY <2>1 DEF NoWork, Stages
  <2> QED  BY <1>2, <2>1, <2>3, <2>4
<1> QED  BY <1>1, <1>2

-----------------------------------------------------------------------------
\* Steps that leave a part alone

\* Whoever leaves the tables alone leaves the rows in order.
LEMMA RowsFrame ==
    ASSUME RowsInv, UNCHANGED tables, mode' = mode \/ mode' # "down"
    PROVE  RowsInv'
BY DEF RowsInv, tables, DownIsIdle, LocksAreHeld, ResultsAreObserved, OnlyKnown, Known,
       Definition, Running, RowShowsLatestRun, Live

\* What is written of the hosts depends on the hosts and the rows.
LEMMA TargetsStay ==
    ASSUME UNCHANGED <<hosts, table>>
    PROVE  /\ Targets' = Targets /\ Live' = Live
           /\ \A s, label : EntriesOf(s, label)' = EntriesOf(s, label)
BY DEF Targets, EntriesOf, Live, Wants

\* The file keeps its promise when nobody touches writer and file and every
\* change of hosts or rows is signalled.
LEMMA FileKept ==
    ASSUME FileInv, UNCHANGED <<writer, file, failed>>, mode' = mode \/ mode' # "serving",
           Signal => Signal', Signal' \/ UNCHANGED <<hosts, table>>
    PROVE  FileInv'
<1>1. CASE Signal'
  BY <1>1 DEF FileInv, StaleFileWillBeWritten, ReadingIsFresh, Signal, Heard
<1>2. CASE ~Signal' /\ UNCHANGED <<hosts, table>>
  <2>1. ~Signal  BY <1>2
  <2>2. Targets' = Targets /\ Live' = Live
        /\ \A s, label : EntriesOf(s, label)' = EntriesOf(s, label)
    BY <1>2, TargetsStay
  <2>3. StaleFileWillBeWritten'
    <3>1. file = Targets \/ failed \/ writer # Waiting \/ mode # "serving"
      BY <2>1 DEF FileInv, StaleFileWillBeWritten, Signal, Heard
    <3> QED  BY <2>2, <3>1 DEF StaleFileWillBeWritten
  <2>4. ReadingIsFresh'
    <3> SUFFICES ASSUME mode' = "serving", writer'.st = "reading", ~writer'.short
                 PROVE  /\ writer'.hosts = hosts' /\ writer'.todo \subseteq Live'
                        /\ writer'.out = UNION {EntriesOf(s, hosts[s])' : s \in Live' \ writer'.todo}
      BY DEF ReadingIsFresh
    <3>1. /\ writer.hosts = hosts /\ writer.todo \subseteq Live
          /\ writer.out = UNION {EntriesOf(s, hosts[s]) : s \in Live \ writer.todo}
      BY <2>1 DEF FileInv, ReadingIsFresh
    <3>2. \A s : EntriesOf(s, hosts[s])' = EntriesOf(s, hosts[s])
      BY <1>2 DEF EntriesOf
    <3> QED  BY <1>2, <2>2, <3>1, <3>2
  <2> QED  BY <2>3, <2>4 DEF FileInv
<1> QED  BY <1>1, <1>2
-----------------------------------------------------------------------------
\* Events

\* A handler's broadcast keeps the signal it was.
LEMMA AnnounceKeeps == ASSUME IInv, Announce PROVE IInv'
<1> USE DEF IInv
<1>1. /\ queue' \in Seq(Events) /\ Len(queue') <= Buffer /\ missed' \in BOOLEAN
      /\ Heard(queue') \/ missed'
  <2>1. Broadcast("systems.changed") /\ "systems.changed" \in Relevant
        /\ "exporter.run.started" \in Events /\ TypeOK
    BY DEF Announce, Relevant, Events, Types
  <2> QED  BY <2>1, Broadcasts
<1>2. announcing' \in 0 .. MaxStimuli /\ announcing' <= started
  BY MonitoringAssumption DEF Types, TypeOK, WriterOK, Announce
<1>3. Types'  BY <1>1, <1>2 DEF Types, TypeOK, WriterOK, Announce, tables, Events
<1>4. RowsInv'  BY RowsFrame DEF Announce
<1>5. Signal'  BY <1>1 DEF Signal
<1>6. FileInv'  BY <1>5, FileKept DEF Announce
<1> QED  BY <1>3, <1>4, <1>6

\* What leaves the channel is in the pending channel if the writer acts on it.
LEMMA ForwardKeeps == ASSUME IInv, Forward PROVE IInv'
<1> USE DEF IInv
<1>0. queue \in Seq(Events) /\ queue # <<>> /\ Len(queue) <= Buffer /\ Buffer \in Nat
  BY MonitoringAssumption DEF Types, TypeOK, Events, Forward
<1>1. PICK q : q = Tail(queue)  OBVIOUS
<1>2. /\ q \in Seq(Events) /\ Len(q) = Len(queue) - 1 /\ Len(queue) \in Nat
      /\ \A i \in 1 .. Len(q) : q[i] = queue[i + 1]
      /\ Head(queue) = queue[1]
  BY <1>0, <1>1, HeadTailProperties
<1>3. queue' = q /\ Len(q) <= Buffer  BY <1>0, <1>1, <1>2 DEF Forward
<1>4. Types'  BY <1>2, <1>3 DEF Types, TypeOK, WriterOK, Forward, tables, Events
<1>5. RowsInv'  BY RowsFrame DEF Forward
<1>6. Signal => Signal'
  <2>1. CASE Heard(queue)
    <3>1. PICK i \in 1 .. Len(queue) : queue[i] \in Relevant  BY <2>1 DEF Heard
    <3>2. CASE i = 1  BY <1>2, <3>1, <3>2 DEF Forward, Signal
    <3>3. CASE i # 1
      <4>1. i - 1 \in 1 .. Len(q) /\ (i - 1) + 1 = i  BY <1>2, <3>1, <3>3
      <4>2. q[i - 1] = queue[i]  BY <1>2, <4>1
      <4>3. Heard(q)  BY <3>1, <4>1, <4>2 DEF Heard
      <4> QED  BY <1>3, <4>3 DEF Signal, Heard
    <3> QED  BY <3>2, <3>3
  <2>2. CASE ~Heard(queue)  BY <2>2 DEF Forward, Signal, tables
  <2> QED  BY <2>1, <2>2
<1>7. FileInv'  BY <1>6, FileKept DEF Forward, tables
<1> QED  BY <1>4, <1>5, <1>7

-----------------------------------------------------------------------------
\* The writer

\* A writer that is awake, or has stopped with the server, owes nothing.
LEMMA NotAtRest ==
    ASSUME mode' # "serving" \/ (writer'.st \in {"debounce", "reading"} /\ ReadingIsFresh')
    PROVE  FileInv'
<1>1. writer'.st \in {"debounce", "reading"} => writer' # Waiting  BY DEF Waiting
<1> QED  BY <1>1 DEF FileInv, StaleFileWillBeWritten, ReadingIsFresh

\* Waking up, waiting a little longer, listing the hosts.
LEMMA WriterStarts ==
    ASSUME IInv, WriterWake \/ WriterDrain \/ WriterList(TRUE) PROVE IInv'
<1> USE DEF IInv
<1>1. RowsInv'  BY RowsFrame DEF WriterWake, WriterDrain, WriterList
<1>2. CASE WriterWake \/ WriterDrain
  <2>1. Types'
    <3>1. CASE WriterWake  BY <3>1 DEF Types, TypeOK, WriterOK, WriterWake, tables
    <3>2. CASE WriterDrain  BY <3>2 DEF Types, TypeOK, WriterOK, WriterDrain, tables
    <3> QED  BY <1>2, <3>1, <3>2
  <2>2. writer'.st = "debounce"  BY <1>2 DEF WriterWake, WriterDrain
  <2>3. FileInv'  BY <2>2, NotAtRest DEF ReadingIsFresh
  <2> QED  BY <1>1, <2>1, <2>3
<1>3. CASE WriterList(TRUE)
  <2> DEFINE w == [st |-> "reading", hosts |-> hosts, todo |-> Live, out |-> {}, short |-> FALSE]
  <2>1. /\ w \in Reading /\ w.st = "reading" /\ w.hosts = hosts /\ w.todo = Live
        /\ w.out = {} /\ w.short = FALSE
    BY DEF Reading, Live, Types, TypeOK
  <2>2. writer' = w /\ UNCHANGED <<mode, tables, announcing, started, queue, pending, file>>
        /\ failed' \in BOOLEAN /\ missed' \in BOOLEAN
    BY <1>3 DEF WriterList
  <2> HIDE DEF w
  <2>3. Types'
    BY <2>1, <2>2 DEF Types, TypeOK, WriterOK, tables, Live
  <2>4. ReadingIsFresh'
    <3>1. Live' = Live /\ hosts' = hosts  BY <2>2 DEF Live, tables
    <3> QED  BY <2>1, <2>2, <3>1 DEF ReadingIsFresh
  <2>5. FileInv'  BY <2>1, <2>2, <2>4, NotAtRest
  <2> QED  BY <1>1, <2>3, <2>5
<1> QED  BY <1>2, <1>3

\* What is written is an entry.
LEMMA EntriesAreEntries ==
    ASSUME NEW s \in Systems, NEW label \in Labels
    PROVE  EntriesOf(s, label) \in SUBSET Entry
<1> SUFFICES ASSUME NEW t \in EntriesOf(s, label) PROVE t \in Entry
  OBVIOUS
<1>1. PICK e \in Exporters : t = [sys |-> s, exp |-> e, label |-> label]
  BY DEF EntriesOf
<1> QED  BY <1>1 DEF Entry

\* A query answers for a host as the tables are now; one that fails is short.
LEMMA WriterReads ==
    ASSUME IInv, NEW s \in Systems, NEW ok \in BOOLEAN, WriterRead(s, ok) PROVE IInv'
<1> USE DEF IInv
<1>0. /\ writer \in Reading /\ writer.st = "reading" /\ s \in writer.todo
      /\ writer.hosts \in [Systems -> Labels \cup {NoRow}]
      /\ writer.todo \in SUBSET Systems /\ writer.out \in SUBSET Entry /\ writer.short \in BOOLEAN
      /\ \A x \in writer.todo : writer.hosts[x] # NoRow
  BY DEF Types, WriterOK, WriterRead, Waiting, Reading
<1> DEFINE es == EntriesOf(s, writer.hosts[s])
           w == [writer EXCEPT !.todo = @ \ {s}, !.out = IF ok THEN @ \cup es ELSE @,
                               !.short = @ \/ ~ok]
<1>1. es \in SUBSET Entry  BY <1>0, EntriesAreEntries
<1>2. /\ w \in Reading /\ w.st = "reading" /\ w.hosts = writer.hosts /\ w.todo = writer.todo \ {s}
      /\ w.out = IF ok THEN writer.out \cup es ELSE writer.out
      /\ w.short = (writer.short \/ ~ok)
  <2> HIDE DEF es
  <2> QED  BY <1>0, <1>1 DEF Reading
<1>3. writer' = w /\ UNCHANGED <<mode, tables, announcing, queue, pending, file, failed, missed>>
  BY DEF WriterRead
<1>4. started' \in 0 .. MaxStimuli /\ announcing <= started'
  BY MonitoringAssumption DEF Types, TypeOK, WriterOK, WriterRead, Stimulus
<1> HIDE DEF w, es
<1>5. Types'  BY <1>0, <1>2, <1>3, <1>4 DEF Types, TypeOK, WriterOK, tables
<1>6. RowsInv'  BY <1>3, RowsFrame
<1>7. ReadingIsFresh'
  <2> SUFFICES ASSUME mode' = "serving", ~w.short, ~Signal
               PROVE  /\ w.hosts = hosts' /\ w.todo \subseteq Live'
                      /\ w.out = UNION {EntriesOf(x, hosts[x])' : x \in Live' \ w.todo}
    BY <1>3 DEF ReadingIsFresh, Signal, tables
  <2>1. ok /\ ~writer.short  BY <1>0, <1>2
  <2>2. /\ writer.hosts = hosts /\ writer.todo \subseteq Live
        /\ writer.out = UNION {EntriesOf(x, hosts[x]) : x \in Live \ writer.todo}
    BY <1>0, <1>3, <2>1 DEF FileInv, ReadingIsFresh
  <2>3. Live' = Live /\ \A x : EntriesOf(x, hosts[x])' = EntriesOf(x, hosts[x])
    BY <1>3 DEF Live, EntriesOf, Wants, tables
  <2>4. es = EntriesOf(s, hosts[s])  BY <2>2 DEF es
  <2>5. Live \ w.todo = (Live \ writer.todo) \cup {s}  BY <1>0, <1>2, <2>2
  <2>6. w.out = UNION {EntriesOf(x, hosts[x]) : x \in Live \ w.todo}
    BY <1>2, <2>1, <2>2, <2>4, <2>5
  <2> QED  BY <1>2, <1>3, <2>2, <2>3, <2>6 DEF tables
<1>8. FileInv'  BY <1>2, <1>3, <1>7, NotAtRest
<1> QED  BY <1>5, <1>6, <1>8

\* With every host read and nothing on its way, what is written is the file
\* as it should be.
LEMMA WriterRests ==
    ASSUME IInv, NEW ok \in BOOLEAN, WriterWrite(ok) \/ (ok = FALSE /\ WriterList(ok))
    PROVE  IInv'
<1> USE DEF IInv
<1>1. /\ UNCHANGED <<mode, tables, announcing, queue, pending>> /\ writer' = Waiting
      /\ missed' = missed
      /\ started' \in 0 .. MaxStimuli /\ announcing <= started'
  BY MonitoringAssumption DEF Types, TypeOK, WriterOK, WriterWrite, WriterList, Stimulus
<1>2. RowsInv'  BY <1>1, RowsFrame
<1>3. CASE WriterWrite(ok)
  <2>1. /\ writer.st = "reading" /\ writer.todo = {} /\ writer \in Reading
        /\ file' = IF ok THEN writer.out ELSE file
        /\ failed' = (~ok \/ writer.short)
    BY <1>3 DEF WriterWrite, Types, WriterOK, Waiting
  <2>2. writer.out \subseteq Entry /\ writer.short \in BOOLEAN  BY <2>1 DEF Reading
  <2>3. Types'
    BY <1>1, <2>1, <2>2 DEF Types, TypeOK, WriterOK, tables, Waiting, Entry
  <2>4. ReadingIsFresh'  BY <1>1 DEF ReadingIsFresh, Waiting
  <2>5. StaleFileWillBeWritten'
    <3> SUFFICES ASSUME mode' = "serving", ~failed', ~Signal  PROVE file' = Targets'
      BY <1>1 DEF StaleFileWillBeWritten, Signal, Heard, tables
    <3>1. file' = UNION {EntriesOf(x, hosts[x]) : x \in Live}
      BY <1>1, <2>1 DEF FileInv, ReadingIsFresh
    <3> QED  BY <1>1, <3>1, TargetsStay DEF Targets, tables
  <2> QED  BY <1>2, <2>3, <2>4, <2>5 DEF FileInv
<1>4. CASE ok = FALSE /\ WriterList(ok)
  <2>1. failed' = TRUE /\ file' = file  BY <1>4 DEF WriterList
  <2>2. Types'
    BY <1>1, <2>1 DEF Types, TypeOK, WriterOK, tables, Waiting
  <2>3. FileInv'
    BY <1>1, <2>1 DEF FileInv, StaleFileWillBeWritten, ReadingIsFresh, Waiting
  <2> QED  BY <1>2, <2>2, <2>3
<1> QED  BY <1>3, <1>4

-----------------------------------------------------------------------------
\* The process

\* On the way down nothing is promised of the file; a boot writes it.
LEMMA ProcessKeeps == ASSUME IInv, WriterStop \/ Stop \/ Down \/ Boot PROVE IInv'
<1> USE DEF IInv
<1>1. CASE WriterStop
  <2>1. Types'  BY <1>1 DEF Types, TypeOK, WriterOK, WriterStop, tables
  <2>2. RowsInv'  BY <1>1, RowsFrame DEF WriterStop
  <2>3. FileInv'  BY <1>1, NotAtRest DEF WriterStop
  <2> QED  BY <2>1, <2>2, <2>3
<1>2. CASE Stop
  <2>1. Types'
    BY <1>2, MonitoringAssumption
    DEF Types, TypeOK, WriterOK, Stop, Stimulus, tables, pipe
  <2>2. RowsInv'  BY <1>2, RowsFrame DEF Stop
  <2>3. FileInv'  BY <1>2, NotAtRest DEF Stop
  <2> QED  BY <2>1, <2>2, <2>3
<1>3. CASE Down
  <2>1. \A r \in Runs : run'[r] = NoWork /\ run'[r].st = "idle"  BY <1>3 DEF Down, NoWork
  <2>2. \A s \in Systems, e \in Exporters :
          observed'[<<s, e>>] \in {observed[<<s, e>>], "none"}
          /\ ((\E r \in Runs : run[r].st = "ran" /\ run[r].sys = s /\ run[r].exp = e)
                => observed'[<<s, e>>] = "none")
    BY <1>3 DEF Down
  <2>3. Types'
    <3>1. observed' \in [Systems \X Exporters -> State \cup {"none"}]
      BY <1>3 DEF Down, Types, TypeOK
    <3>2. queue' \in Seq(Relevant \cup {"exporter.run.started"}) /\ Len(queue') <= Buffer
      BY <1>3, MonitoringAssumption DEF Down
    <3>3. started' \in 0 .. MaxStimuli /\ 0 <= started' /\ announcing' = 0
      BY <1>3, MonitoringAssumption DEF Down, Types, WriterOK, Stimulus
    <3>4. run' \in [Runs -> {NoWork} \cup Work]  BY <1>3 DEF Down
    <3>5. WriterOK'  BY <1>3, <3>3 DEF Down, WriterOK
    <3>6. /\ UNCHANGED <<hosts, defs, table, lock, file, failed>> /\ mode' = "down"
          /\ pending' = FALSE /\ missed' = FALSE /\ announcing' \in 0 .. MaxStimuli
      BY <1>3, <3>3, MonitoringAssumption DEF Down
    <3> QED  BY <3>1, <3>2, <3>4, <3>5, <3>6 DEF Types, TypeOK, Work
  <2>4. RowsInv'
    <3>1. UNCHANGED <<hosts, defs, table, lock>>  BY <1>3 DEF Down
    <3>2. RowShowsLatestRun'
      BY <2>2, <3>1 DEF RowsInv, RowShowsLatestRun, Live
    <3>3. OnlyKnown'
      BY <2>1, <3>1 DEF RowsInv, OnlyKnown, Known, Definition, Running
    <3> QED
      BY <2>1, <3>2, <3>3 DEF RowsInv, DownIsIdle, LocksAreHeld, ResultsAreObserved, AtWork
  <2>5. FileInv'  BY <1>3, NotAtRest DEF Down
  <2> QED  BY <2>3, <2>4, <2>5
<1>4. CASE Boot
  <2>1. Types'  BY <1>4 DEF Types, TypeOK, WriterOK, Boot
  <2>2. \A r \in Runs : run'[r] = NoWork /\ run'[r].st = "idle"
    BY <1>4 DEF Boot, RowsInv, DownIsIdle, NoWork
  <2>3. RowsInv'
    <3>1. UNCHANGED <<hosts, defs, table, run, observed>>  BY <1>4 DEF Boot
    <3>2. RowShowsLatestRun'  BY <3>1 DEF RowsInv, RowShowsLatestRun, Live
    <3>3. OnlyKnown'  BY <3>1 DEF RowsInv, OnlyKnown, Known, Definition, Running
    <3> QED
      BY <2>2, <3>2, <3>3 DEF RowsInv, DownIsIdle, LocksAreHeld, ResultsAreObserved, AtWork
  <2>4. FileInv'  BY <1>4, NotAtRest DEF Boot, ReadingIsFresh
  <2> QED  BY <2>1, <2>3, <2>4
<1> QED  BY <1>1, <1>2, <1>3, <1>4

-----------------------------------------------------------------------------
\* The steps of a run

LEMMA RunBeginKeeps ==
    ASSUME IInv, NEW r \in Runs, NEW s \in Systems, NEW e \in Exporters, NEW k \in Kind,
           RunBegin(r, s, e, k)
    PROVE  IInv'
<1> USE DEF IInv
<1> DEFINE w == [st |-> "begun", sys |-> s, exp |-> e, kind |-> k, result |-> "none"]
<1>1. w \in Work /\ w # NoWork /\ w.st = "begun" /\ w.exp = e  BY DEF Work, NoWork
<1>2. run' = [run EXCEPT ![r] = w] /\ run[r] = NoWork /\ mode = "serving"
      /\ UNCHANGED <<mode, hosts, defs, table, lock, observed, announcing, pipe>>
  BY DEF RunBegin
<1> HIDE DEF w
<1>3. /\ run' \in [Runs -> {NoWork} \cup Work]
      /\ run'[r] = w /\ \A p \in Runs \ {r} : run'[p] = run[p]
  BY <1>1, <1>2, RunChanges DEF Types
<1>4. started' \in 0 .. MaxStimuli /\ announcing <= started'
  BY MonitoringAssumption DEF Types, TypeOK, WriterOK, RunBegin, Stimulus
<1>5. Types'
  BY <1>2, <1>3, <1>4 DEF Types, TypeOK, WriterOK, Work, pipe
<1>6. run[r].st = "idle"  BY <1>2 DEF NoWork
<1>7. RowsInv'
  <2>1. DownIsIdle'  BY <1>2 DEF DownIsIdle
  <2>2. LocksAreHeld' /\ ResultsAreObserved'
    BY <1>1, <1>2, <1>3 DEF RowsInv, LocksAreHeld, ResultsAreObserved, AtWork, Live
  <2>3. OnlyKnown'
    <3>1. Known(e)  BY DEF RunBegin, Known
    <3> QED  BY <1>1, <1>2, <1>3, <3>1 DEF RowsInv, OnlyKnown, Known, Definition, Running
  <2>4. RowShowsLatestRun'
    BY <1>2, <1>3, <1>6 DEF RowsInv, RowShowsLatestRun, Live
  <2> QED  BY <2>1, <2>2, <2>3, <2>4 DEF RowsInv
<1>8. FileInv'
  <2>1. Signal => Signal'  BY <1>2, <1>3, <1>6 DEF Signal, Heard, pipe
  <2> QED  BY <1>2, <2>1, FileKept DEF pipe
<1> QED  BY <1>5, <1>7, <1>8

LEMMA RunLockKeeps == ASSUME IInv, NEW r \in Runs, RunLock(r) PROVE IInv'
<1> USE DEF IInv
<1>0. run[r].st = "begun" /\ run[r] # NoWork /\ run[r].sys \in Systems
  BY WorkFields DEF RunLock, Types, NoWork
<1>1. UNCHANGED <<mode, hosts, defs, table, observed, announcing, pending, writer, file,
                  failed, started>>
  BY DEF RunLock
<1>2. /\ run' \in [Runs -> {NoWork} \cup Work]
      /\ \A p \in Runs \ {r} : run'[p] = run[p]
      /\ lock' \in [Systems -> Runs \cup {NoRun}]
      /\ \/ /\ run'[r] = NoWork /\ lock' = lock
         \/ /\ run'[r].st = "locked" /\ run'[r] # NoWork
            /\ run'[r].sys = run[r].sys /\ run'[r].exp = run[r].exp
            /\ lock[run[r].sys] = NoRun /\ lock'[run[r].sys] = r
            /\ \A s \in Systems : s # run[r].sys => lock'[s] = lock[s]
  <2>1. CASE lock[run[r].sys] = NoRun
    <3>1. run' = [run EXCEPT ![r].st = "locked"] /\ lock' = [lock EXCEPT ![run[r].sys] = r]
      BY <2>1 DEF RunLock
    <3>2. "locked" \in Stages /\ "failed" \in State  BY DEF Stages, State
    <3>3. /\ run' \in [Runs -> {NoWork} \cup Work] /\ run'[r] # NoWork
          /\ run'[r].st = "locked" /\ run'[r].sys = run[r].sys /\ run'[r].exp = run[r].exp
          /\ \A p \in Runs \ {r} : run'[p] = run[p]
      BY <1>0, <3>1, <3>2, Moves DEF Types
    <3> QED  BY <1>0, <2>1, <3>1, <3>3 DEF Types, TypeOK
  <2>2. CASE lock[run[r].sys] # NoRun
    <3>1. run' = [run EXCEPT ![r] = NoWork] /\ lock' = lock  BY <2>2 DEF RunLock
    <3> QED  BY <3>1, RunChanges DEF Types, TypeOK
  <2> QED  BY <2>1, <2>2
<1>3. /\ queue' \in Seq(Events) /\ Len(queue') <= Buffer /\ missed' \in BOOLEAN
      /\ (queue' = queue /\ missed' = missed) \/ Heard(queue') \/ missed'
  <2>1. CASE lock[run[r].sys] = NoRun
    <3>1. Broadcast2("exporter.run.started", "systems.changed")  BY <2>1 DEF RunLock
    <3>2. "systems.changed" \in Relevant /\ "exporter.run.started" \in Events
      BY DEF Relevant, Events
    <3> QED  BY <3>1, <3>2, Broadcasts DEF Types
  <2>2. CASE lock[run[r].sys] # NoRun
    BY <2>2 DEF RunLock, Types, TypeOK, Events
  <2> QED  BY <2>1, <2>2
<1>4. Types'  BY <1>1, <1>2, <1>3 DEF Types, TypeOK, WriterOK, Work, Events
<1>5. RowsInv'
  <2>1. DownIsIdle'  BY <1>0, <1>1 DEF RowsInv, DownIsIdle
  <2>2. LocksAreHeld'
    BY <1>0, <1>1, <1>2, MonitoringAssumption
    DEF RowsInv, LocksAreHeld, AtWork, Live, NoWork
  <2>3. ResultsAreObserved'
    BY <1>1, <1>2 DEF RowsInv, ResultsAreObserved, Live, NoWork
  <2>4. OnlyKnown'
    BY <1>0, <1>1, <1>2 DEF RowsInv, OnlyKnown, Known, Definition, Running, NoWork
  <2>5. RowShowsLatestRun'
    <3>1. \A p \in Runs : run[p].st = "ran" => run'[p] = run[p]  BY <1>0, <1>2
    <3> QED  BY <1>1, <3>1 DEF RowsInv, RowShowsLatestRun, Live
  <2> QED  BY <2>1, <2>2, <2>3, <2>4, <2>5 DEF RowsInv
<1>6. FileInv'
  <2>1. Signal => Signal'  BY <1>0, <1>1, <1>2, <1>3 DEF Signal, Heard
  <2> QED  BY <1>1, <2>1, FileKept
<1> QED  BY <1>4, <1>5, <1>6

\* Two runs between lock and upsert are on different hosts, or their host is
\* gone.
LEMMA Alone ==
    ASSUME RowsInv, NEW r \in Runs, NEW p \in Runs \ {r}, run[r].st \in AtWork,
           run[p].st \in AtWork, run[p].sys \in Live
    PROVE  run[p].sys # run[r].sys
BY DEF RowsInv, LocksAreHeld

LEMMA RunPlaybookKeeps == ASSUME IInv, NEW r \in Runs, RunPlaybook(r) PROVE IInv'
<1> USE DEF IInv
<1>0. /\ run[r].st = "locked" /\ run[r] # NoWork
      /\ run[r].sys \in Systems /\ run[r].exp \in Exporters /\ run[r].kind \in Kind
  BY WorkFields DEF RunPlaybook, Types, NoWork
<1>1. UNCHANGED <<mode, hosts, defs, table, lock, announcing, pipe, started>>
  BY DEF RunPlaybook
<1>2. PICK seen \in State, st \in {"ran", "stored"} :
        IF st = "stored"
        THEN run' = [run EXCEPT ![r].st = "stored"] /\ observed' = observed
        ELSE /\ run' = [run EXCEPT ![r].st = "ran", ![r].result = seen]
             /\ observed' = [observed EXCEPT ![<<run[r].sys, run[r].exp>>] = seen]
  <2>1. \A ok \in BOOLEAN, m \in Markers : Observe(run[r].kind, ok, m) \in State
    BY DEF Observe, Markers, State
  <2>2. "failed" \in State  BY DEF State
  <2> QED  BY <2>1, <2>2 DEF RunPlaybook
<1>3. st \in Stages  BY DEF Stages
<1>4. /\ run' \in [Runs -> {NoWork} \cup Work] /\ run'[r] # NoWork
      /\ run'[r].st = st /\ run'[r].sys = run[r].sys /\ run'[r].exp = run[r].exp
      /\ \A p \in Runs \ {r} : run'[p] = run[p]
  <2>1. \/ run' = [run EXCEPT ![r].st = st]
        \/ run' = [run EXCEPT ![r].st = st, ![r].result = seen]
    <3>1. CASE st = "stored"  BY <1>2, <3>1
    <3>2. CASE st = "ran"  BY <1>2, <3>2
    <3> QED  BY <3>1, <3>2
  <2> QED  BY <1>0, <1>3, <2>1, Moves DEF Types
<1>5. /\ observed' \in [Systems \X Exporters -> State \cup {"none"}]
      /\ \A s \in Systems, e \in Exporters :
            (s # run[r].sys \/ e # run[r].exp \/ st = "stored") =>
               observed'[<<s, e>>] = observed[<<s, e>>]
      /\ st = "ran" => /\ run'[r].result = seen
                       /\ observed'[<<run[r].sys, run[r].exp>>] = seen
  <2>1. CASE st = "stored"  BY <1>2, <2>1 DEF Types, TypeOK
  <2>2. CASE st = "ran"
    <3>1. /\ run' = [run EXCEPT ![r].st = "ran", ![r].result = seen]
          /\ observed' = [observed EXCEPT ![<<run[r].sys, run[r].exp>>] = seen]
      BY <1>2, <2>2
    <3>2. <<run[r].sys, run[r].exp>> \in Systems \X Exporters  BY <1>0
    <3>3. run \in [Runs -> {NoWork} \cup Work] /\ run[r] \in Work
      BY <1>0 DEF Types, TypeOK, Work
    <3>4. run'[r].result = seen  BY <3>1, <3>3 DEF Work
    <3> QED  BY <2>2, <3>1, <3>2, <3>4 DEF Types, TypeOK
  <2> QED  BY <2>1, <2>2
<1>6. Types'  BY <1>1, <1>4, <1>5 DEF Types, TypeOK, WriterOK, Work, pipe
<1>7. RowsInv'
  <2>1. DownIsIdle' /\ LocksAreHeld' /\ OnlyKnown'
    BY <1>0, <1>1, <1>4
    DEF RowsInv, DownIsIdle, LocksAreHeld, AtWork, Live, OnlyKnown, Known, Definition, Running, NoWork
  <2>2. ResultsAreObserved'
    <3> SUFFICES ASSUME NEW p \in Runs, run'[p].st = "ran"
                 PROVE  /\ run'[p].result \in State
                        /\ run'[p].sys \in Live =>
                             observed'[<<run'[p].sys, run'[p].exp>>] = run'[p].result
      BY <1>1 DEF ResultsAreObserved, Live
    <3>1. CASE p = r  BY <1>4, <1>5, <3>1
    <3>2. CASE p # r
      <4>1. run'[p] = run[p] /\ run[p].sys \in Systems /\ run[p].exp \in Exporters
        BY <1>4, <3>2, WorkFields DEF Types, NoWork
      <4>2. run[p].sys \in Live => run[p].sys # run[r].sys
        BY <1>0, <3>2, <4>1, Alone DEF AtWork
      <4> QED  BY <1>5, <4>1, <4>2 DEF RowsInv, ResultsAreObserved
    <3> QED  BY <3>1, <3>2
  <2>3. RowShowsLatestRun'
    <3> SUFFICES ASSUME NEW s \in Live, NEW e \in Exporters, observed'[<<s, e>>] # "none",
                        ~\E p \in Runs : run'[p].st = "ran" /\ run'[p].sys = s /\ run'[p].exp = e
                 PROVE  \/ table[<<s, e>>] # NoRow /\ table[<<s, e>>].state = observed'[<<s, e>>]
                        \/ table[<<s, e>>] = NoRow /\ observed'[<<s, e>>] = "removed"
      BY <1>1 DEF RowShowsLatestRun, Live
    <3>1. s \in Systems  BY DEF Live
    <3>2. observed'[<<s, e>>] = observed[<<s, e>>]  BY <1>4, <1>5, <3>1
    <3>3. ~\E p \in Runs : run[p].st = "ran" /\ run[p].sys = s /\ run[p].exp = e
      BY <1>0, <1>4
    <3> QED  BY <3>2, <3>3 DEF RowsInv, RowShowsLatestRun
  <2> QED  BY <2>1, <2>2, <2>3 DEF RowsInv
<1>8. FileInv'
  <2>1. Signal => Signal'  BY <1>0, <1>1, <1>4 DEF Signal, Heard, pipe
  <2> QED  BY <1>1, <2>1, FileKept DEF pipe
<1> QED  BY <1>6, <1>7, <1>8

\* Storing a result writes one row, and the state of that row.
Stored(s, e, st, t) ==
    /\ t \in [Systems \X Exporters -> Row \cup {NoRow}]
    /\ \A x \in (Systems \X Exporters) \ {<<s, e>>} : t[x] = table[x]
    /\ \/ t[<<s, e>>] # NoRow /\ t[<<s, e>>].state = st
       \/ t[<<s, e>>] = NoRow /\ st = "removed"
LEMMA StoresOneRow ==
    ASSUME TypeOK, NEW s \in Systems, NEW e \in Exporters, NEW st \in State
    PROVE  /\ Stored(s, e, st, UpsertSystemExporter(s, e, st))
           /\ st = "removed" => Stored(s, e, st, MarkRemoved(s, e))
<1> SUFFICES ASSUME NEW t, \/ t = UpsertSystemExporter(s, e, st)
                           \/ st = "removed" /\ t = MarkRemoved(s, e)
             PROVE  Stored(s, e, st, t)
  OBVIOUS
<1> USE DEF Stored
<1>0. /\ table \in [Systems \X Exporters -> Row \cup {NoRow}] /\ NoRow \notin Row
      /\ <<s, e>> \in Systems \X Exporters
  BY MonitoringAssumption DEF TypeOK
<1> DEFINE old == table[<<s, e>>]
<1>1. CASE t = UpsertSystemExporter(s, e, st)
  <2> DEFINE row == [state |-> st, scrape |-> IF old = NoRow THEN TRUE ELSE old.scrape]
  <2>1. old # NoRow => old.scrape \in BOOLEAN  BY <1>0 DEF Row
  <2>2. row \in Row /\ row.state = st  BY <2>1 DEF Row
  <2>3. t = [table EXCEPT ![<<s, e>>] = row]  BY <1>1 DEF UpsertSystemExporter
  <2> HIDE DEF row
  <2> QED  BY <1>0, <2>2, <2>3
<1>2. CASE st = "removed" /\ t = MarkRemoved(s, e) /\ old # NoRow
  <2> DEFINE row == [old EXCEPT !.state = "removed"]
  <2>1. row \in Row /\ row.state = "removed"  BY <1>0, <1>2 DEF Row, State
  <2>2. t = [table EXCEPT ![<<s, e>>] = row]  BY <1>2 DEF MarkRemoved
  <2> HIDE DEF row
  <2> QED  BY <1>0, <1>2, <2>1, <2>2
<1>3. CASE st = "removed" /\ t = MarkRemoved(s, e) /\ old = NoRow
  BY <1>0, <1>3 DEF MarkRemoved
<1> QED  BY <1>1, <1>2, <1>3

LEMMA RunStoreKeeps == ASSUME IInv, NEW r \in Runs, RunStore(r) PROVE IInv'
<1> USE DEF IInv
<1> DEFINE s == run[r].sys
           e == run[r].exp
           seen == run[r].result
<1>0. /\ run[r].st = "ran" /\ run[r] # NoWork /\ s \in Systems /\ e \in Exporters
      /\ Known(e) /\ seen \in State
      /\ s \in Live => observed[<<s, e>>] = seen
  BY WorkFields DEF RunStore, Types, NoWork, RowsInv, OnlyKnown, Running, ResultsAreObserved
<1>1. UNCHANGED <<mode, hosts, defs, lock, observed, announcing, pipe, started>>
  BY DEF RunStore
<1>2. /\ run' \in [Runs -> {NoWork} \cup Work] /\ run'[r] # NoWork
      /\ run'[r].st = "stored" /\ run'[r].sys = s /\ run'[r].exp = e
      /\ \A p \in Runs \ {r} : run'[p] = run[p]
  <2>1. run' = [run EXCEPT ![r].st = "stored"] /\ "stored" \in Stages
    BY DEF RunStore, Stages
  <2> HIDE DEF s, e, seen
  <2>2. /\ run' \in [Runs -> {NoWork} \cup Work] /\ run'[r] # NoWork
        /\ run'[r].st = "stored" /\ run'[r].sys = run[r].sys /\ run'[r].exp = run[r].exp
        /\ \A p \in Runs \ {r} : run'[p] = run[p]
    BY <1>0, <2>1, Moves DEF Types
  <2> QED  BY <2>2 DEF s, e
<1>3. /\ table' \in [Systems \X Exporters -> Row \cup {NoRow}]
      /\ \A x \in (Systems \X Exporters) \ {<<s, e>>} : table'[x] = table[x]
      /\ \/ table'[<<s, e>>] # NoRow /\ table'[<<s, e>>].state = seen
         \/ table'[<<s, e>>] = NoRow /\ seen = "removed"
  <2>1. \/ table' = UpsertSystemExporter(s, e, seen)
        \/ seen = "removed" /\ table' = MarkRemoved(s, e)
    BY DEF RunStore
  <2> HIDE DEF s, e, seen
  <2>2. Stored(s, e, seen, table')  BY <1>0, <2>1, StoresOneRow DEF Types
  <2> QED  BY <2>2 DEF Stored
<1> HIDE DEF s, e, seen
<1>4. Types'  BY <1>1, <1>2, <1>3 DEF Types, TypeOK, WriterOK, Work, pipe
<1>5. RowsInv'
  <2>1. DownIsIdle'
    BY <1>0, <1>1 DEF RowsInv, DownIsIdle
  <2>2. LocksAreHeld' /\ ResultsAreObserved'
    BY <1>0, <1>1, <1>2 DEF RowsInv, LocksAreHeld, ResultsAreObserved, AtWork, Live, s, e
  <2>3. OnlyKnown'
    <3>1. \A p \in Runs : run'[p].st # "idle" => Known(run'[p].exp)
      BY <1>0, <1>2 DEF RowsInv, OnlyKnown, Running
    <3>2. \A t \in Systems, x \in Exporters : table'[<<t, x>>] # NoRow => Known(x)
      BY <1>0, <1>3 DEF RowsInv, OnlyKnown
    <3> QED  BY <1>1, <3>1, <3>2 DEF OnlyKnown, Running, Known, Definition
  <2>4. RowShowsLatestRun'
    <3> SUFFICES ASSUME NEW t \in Live, NEW x \in Exporters, observed[<<t, x>>] # "none",
                        ~\E p \in Runs : run'[p].st = "ran" /\ run'[p].sys = t /\ run'[p].exp = x
                 PROVE  \/ table'[<<t, x>>] # NoRow /\ table'[<<t, x>>].state = observed[<<t, x>>]
                        \/ table'[<<t, x>>] = NoRow /\ observed[<<t, x>>] = "removed"
      BY <1>1 DEF RowShowsLatestRun, Live
    <3>1. t \in Systems  BY DEF Live
    <3>2. CASE t = s /\ x = e  BY <1>0, <1>3, <3>2
    <3>3. CASE ~(t = s /\ x = e)
      <4>1. table'[<<t, x>>] = table[<<t, x>>]  BY <1>3, <3>1, <3>3
      <4>2. ~\E p \in Runs : run[p].st = "ran" /\ run[p].sys = t /\ run[p].exp = x
        BY <1>2, <3>3 DEF s, e
      <4> QED  BY <4>1, <4>2 DEF RowsInv, RowShowsLatestRun
    <3> QED  BY <3>2, <3>3
  <2> QED  BY <2>1, <2>2, <2>3, <2>4 DEF RowsInv
<1>6. FileInv'
  <2>1. Signal'  BY <1>2 DEF Signal
  <2> QED  BY <1>1, <2>1, FileKept DEF pipe
<1> QED  BY <1>4, <1>5, <1>6

\* What is not stored is nobody else's reading: the lock excludes other runs.
LEMMA RunStoreFailsKeeps == ASSUME IInv, NEW r \in Runs, RunStoreFails(r) PROVE IInv'
<1> USE DEF IInv
<1> DEFINE s == run[r].sys
           e == run[r].exp
<1>0. run[r].st = "ran" /\ run[r] # NoWork /\ s \in Systems /\ e \in Exporters
  BY WorkFields DEF RunStoreFails, Types, NoWork
<1>1. UNCHANGED <<mode, hosts, defs, table, lock, announcing, pipe>>
  BY DEF RunStoreFails
<1>2. /\ run' \in [Runs -> {NoWork} \cup Work] /\ run'[r] # NoWork
      /\ run'[r].st = "stored" /\ run'[r].sys = s /\ run'[r].exp = e
      /\ \A p \in Runs \ {r} : run'[p] = run[p]
  <2>1. run' = [run EXCEPT ![r].st = "stored"] /\ "stored" \in Stages
    BY DEF RunStoreFails, Stages
  <2> HIDE DEF s, e
  <2>2. /\ run' \in [Runs -> {NoWork} \cup Work] /\ run'[r] # NoWork
        /\ run'[r].st = "stored" /\ run'[r].sys = run[r].sys /\ run'[r].exp = run[r].exp
        /\ \A p \in Runs \ {r} : run'[p] = run[p]
    <3>1. run[r].result \in State
      BY <1>0 DEF RowsInv, ResultsAreObserved
    <3> QED  BY <1>0, <2>1, <3>1, Moves DEF Types
  <2> QED  BY <2>2 DEF s, e
<1>3. /\ observed' \in [Systems \X Exporters -> State \cup {"none"}]
      /\ \A x \in (Systems \X Exporters) \ {<<s, e>>} : observed'[x] = observed[x]
      /\ observed'[<<s, e>>] = "none"
  <2>1. observed' = [observed EXCEPT ![<<s, e>>] = "none"]  BY DEF RunStoreFails
  <2>2. observed \in [Systems \X Exporters -> State \cup {"none"}]  BY DEF Types, TypeOK
  <2> HIDE DEF s, e
  <2> QED  BY <1>0, <2>1, <2>2
<1> HIDE DEF s, e
<1>4. started' \in 0 .. MaxStimuli /\ announcing <= started'
  BY MonitoringAssumption DEF Types, TypeOK, WriterOK, RunStoreFails, Stimulus
<1>5. Types'  BY <1>1, <1>2, <1>3, <1>4 DEF Types, TypeOK, WriterOK, Work, pipe
<1>6. RowsInv'
  <2>1. DownIsIdle'
    BY <1>0, <1>1 DEF RowsInv, DownIsIdle
  <2>2. LocksAreHeld'
    BY <1>0, <1>1, <1>2 DEF RowsInv, LocksAreHeld, AtWork, Live, s, e
  <2>3. OnlyKnown'
    <3>1. \A p \in Runs : run'[p].st # "idle" => Known(run'[p].exp)
      BY <1>0, <1>2 DEF RowsInv, OnlyKnown, Running, e
    <3> QED  BY <1>1, <3>1 DEF RowsInv, OnlyKnown, Running, Known, Definition
  <2>4. ResultsAreObserved'
    <3> SUFFICES ASSUME NEW p \in Runs, run'[p].st = "ran"
                 PROVE  /\ run'[p].result \in State
                        /\ run'[p].sys \in Live =>
                              observed'[<<run'[p].sys, run'[p].exp>>] = run'[p].result
      BY <1>1 DEF ResultsAreObserved, Live
    <3>1. p # r /\ run'[p] = run[p]  BY <1>2
    <3>2. run[p].result \in State
          /\ (run[p].sys \in Live => observed[<<run[p].sys, run[p].exp>>] = run[p].result)
      BY <3>1 DEF RowsInv, ResultsAreObserved
    <3>3. run[p].sys \in Live => run[p].sys # s
      BY <1>0, <3>1 DEF RowsInv, LocksAreHeld, AtWork, s
    <3>4. run[p].sys \in Systems /\ run[p].exp \in Exporters
      BY <3>1, WorkFields DEF Types, NoWork
    <3> QED  BY <1>3, <3>1, <3>2, <3>3, <3>4
  <2>5. RowShowsLatestRun'
    <3> SUFFICES ASSUME NEW t \in Live, NEW x \in Exporters, observed'[<<t, x>>] # "none",
                        ~\E p \in Runs : run'[p].st = "ran" /\ run'[p].sys = t /\ run'[p].exp = x
                 PROVE  \/ table[<<t, x>>] # NoRow /\ table[<<t, x>>].state = observed'[<<t, x>>]
                        \/ table[<<t, x>>] = NoRow /\ observed'[<<t, x>>] = "removed"
      BY <1>1 DEF RowShowsLatestRun, Live
    <3>1. t \in Systems /\ ~(t = s /\ x = e)  BY <1>3 DEF Live
    <3>2. observed'[<<t, x>>] = observed[<<t, x>>]  BY <1>3, <3>1
    <3>3. ~\E p \in Runs : run[p].st = "ran" /\ run[p].sys = t /\ run[p].exp = x
      BY <1>2, <3>1 DEF s, e
    <3> QED  BY <3>2, <3>3 DEF RowsInv, RowShowsLatestRun
  <2> QED  BY <2>1, <2>2, <2>3, <2>4, <2>5 DEF RowsInv
<1>7. FileInv'
  <2>1. Signal'  BY <1>2 DEF Signal
  <2> QED  BY <1>1, <2>1, FileKept DEF pipe
<1> QED  BY <1>5, <1>6, <1>7

LEMMA RunEndKeeps == ASSUME IInv, NEW r \in Runs, RunEnd(r) PROVE IInv'
<1> USE DEF IInv
<1>0. run[r].st = "stored" /\ run[r] # NoWork /\ run[r].sys \in Systems
  BY WorkFields DEF RunEnd, Types, NoWork
<1>1. UNCHANGED <<mode, hosts, defs, table, observed, announcing, pending, writer, file,
                  failed, started>>
  BY DEF RunEnd
<1>2. /\ run' \in [Runs -> {NoWork} \cup Work] /\ run'[r] = NoWork /\ run'[r].st = "idle"
      /\ \A p \in Runs \ {r} : run'[p] = run[p]
  <2>1. run' = [run EXCEPT ![r] = NoWork]  BY DEF RunEnd
  <2> QED  BY <2>1, RunChanges DEF Types, NoWork
<1>3. /\ lock' \in [Systems -> Runs \cup {NoRun}]
      /\ \A t \in Systems : lock[t] # r => lock'[t] = lock[t]
  BY DEF RunEnd, Types, TypeOK
<1>4. /\ queue' \in Seq(Events) /\ Len(queue') <= Buffer /\ missed' \in BOOLEAN
      /\ Heard(queue') \/ missed'
  <2>1. Broadcast2("exporter.run.completed", "systems.changed")  BY DEF RunEnd
  <2>2. "systems.changed" \in Relevant /\ "exporter.run.completed" \in Events
    BY DEF Relevant, Events
  <2> QED  BY <2>1, <2>2, Broadcasts DEF Types
<1>5. Types'  BY <1>1, <1>2, <1>3, <1>4 DEF Types, TypeOK, WriterOK, Work, Events
<1>6. RowsInv'
  <2>1. DownIsIdle'  BY <1>1, <1>2 DEF RowsInv, DownIsIdle
  <2>2. LocksAreHeld'
    <3> SUFFICES ASSUME NEW p \in Runs, run'[p].st \in AtWork, run'[p].sys \in Live
                 PROVE  lock'[run'[p].sys] = p
      BY <1>1 DEF LocksAreHeld, Live
    <3>1. p # r  BY <1>2 DEF AtWork
    <3>2. run'[p] = run[p] /\ lock[run[p].sys] = p
      BY <1>2, <3>1 DEF RowsInv, LocksAreHeld
    <3> QED  BY <1>3, <3>1, <3>2 DEF Live
  <2>3. ResultsAreObserved' /\ OnlyKnown'
    BY <1>1, <1>2
    DEF RowsInv, ResultsAreObserved, Live, OnlyKnown, Running, Known, Definition
  <2>4. RowShowsLatestRun'
    <3>1. \A p \in Runs : run[p].st = "ran" => run'[p] = run[p]  BY <1>0, <1>2
    <3> QED  BY <1>1, <3>1 DEF RowsInv, RowShowsLatestRun, Live
  <2> QED  BY <2>1, <2>2, <2>3, <2>4 DEF RowsInv
<1>7. FileInv'
  <2>1. Signal'  BY <1>4 DEF Signal
  <2> QED  BY <1>1, <2>1, FileKept
<1> QED  BY <1>5, <1>6, <1>7

-----------------------------------------------------------------------------
\* Requests

\* An installer, once known, stays so.
LEMMA CatalogueKeeps == ASSUME IInv, Catalogue PROVE IInv'
<1> USE DEF IInv
<1>1. /\ UNCHANGED <<mode, hosts, table, lock, run, observed, announcing, pipe>>
      /\ started' \in 0 .. MaxStimuli /\ announcing <= started'
  BY MonitoringAssumption DEF Types, TypeOK, WriterOK, Catalogue, Stimulus
<1>2. PICK e \in Custom, rem \in BOOLEAN :
        DeleteCustom(e) \/ CreateCustom(e, rem) \/ UpdateCustom(e, rem)
  BY DEF Catalogue
<1> DEFINE D == [st : {"none", "live", "deleted"}, remove : BOOLEAN]
<1>3. PICK d \in D : defs' = [defs EXCEPT ![e] = d] /\ d.st # "none"
  <2>0. defs \in [Custom -> D] /\ defs[e] \in D  BY DEF Types, TypeOK
  <2>1. CASE DeleteCustom(e)
    <3>1. [defs[e] EXCEPT !.st = "deleted"] \in D /\ [defs[e] EXCEPT !.st = "deleted"].st = "deleted"
      BY <2>0
    <3> QED  BY <2>1, <3>1 DEF DeleteCustom
  <2>2. CASE CreateCustom(e, rem)
    <3>1. [st |-> "live", remove |-> rem] \in D  OBVIOUS
    <3> QED  BY <2>2, <3>1 DEF CreateCustom
  <2>3. CASE UpdateCustom(e, rem)
    <3>1. [defs[e] EXCEPT !.remove = rem] \in D /\ [defs[e] EXCEPT !.remove = rem].st = "live"
      BY <2>0, <2>3 DEF UpdateCustom
    <3> QED  BY <2>3, <3>1 DEF UpdateCustom
  <2> QED  BY <1>2, <2>1, <2>2, <2>3
<1>4. /\ defs' \in [Custom -> D] /\ \A x \in Custom \ {e} : defs'[x] = defs[x]
      /\ defs'[e].st # "none"
  BY <1>3 DEF Types, TypeOK
<1>5. Types'  BY <1>1, <1>4 DEF Types, TypeOK, WriterOK, pipe
<1>6. RowsInv'
  <2>1. \A x \in Exporters : Known(x) => Known(x)'
    BY <1>4 DEF Known, Definition, Exporters
  <2>2. \A r \in Runs : Running(r) => run[r].exp \in Exporters
    BY WorkFields DEF Types, Running, NoWork
  <2>3. OnlyKnown'  BY <1>1, <2>1, <2>2 DEF RowsInv, OnlyKnown, Running
  <2> QED
    BY <1>1, <2>3
    DEF RowsInv, DownIsIdle, LocksAreHeld, ResultsAreObserved, RowShowsLatestRun, Live
<1>7. FileInv'
  <2>1. Signal => Signal'  BY <1>1 DEF Signal, pipe
  <2> QED  BY <1>1, <2>1, FileKept DEF pipe
<1> QED  BY <1>5, <1>6, <1>7

\* Whoever changes what is scraped has an event to send.
LEMMA SetScrapeKeeps ==
    ASSUME IInv, NEW s \in Systems, NEW e \in Exporters, NEW on \in BOOLEAN, SetScrape(s, e, on)
    PROVE  IInv'
<1> USE DEF IInv
<1> DEFINE old == table[<<s, e>>]
           row == [old EXCEPT !.scrape = on]
<1>1. /\ UNCHANGED <<mode, hosts, defs, lock, run, observed, pipe>>
      /\ started' \in 0 .. MaxStimuli /\ announcing' <= started'
      /\ announcing' \in 0 .. MaxStimuli
      /\ announcing > 0 => announcing' > 0
      /\ announcing' > 0 \/ old.scrape = on
  BY MonitoringAssumption DEF Types, TypeOK, WriterOK, SetScrape, Stimulus
<1>2. old \in Row /\ old # NoRow /\ <<s, e>> \in Systems \X Exporters
  BY DEF SetScrape, Types, TypeOK
<1>3. row \in Row /\ row.state = old.state /\ (old.scrape = on => row = old)
  BY <1>2 DEF Row
<1>4. table' = [table EXCEPT ![<<s, e>>] = row]  BY DEF SetScrape
<1> HIDE DEF row
<1>5. /\ table' \in [Systems \X Exporters -> Row \cup {NoRow}]
      /\ table'[<<s, e>>] = row
      /\ \A x \in (Systems \X Exporters) \ {<<s, e>>} : table'[x] = table[x]
      /\ old.scrape = on => table' = table
  BY <1>2, <1>3, <1>4 DEF Types, TypeOK
<1>6. \A t \in Systems, x \in Exporters :
        \/ table'[<<t, x>>] = table[<<t, x>>]
        \/ /\ table[<<t, x>>] # NoRow /\ table'[<<t, x>>] # NoRow
           /\ table'[<<t, x>>].state = table[<<t, x>>].state
  <2> TAKE t \in Systems, x \in Exporters
  <2>1. CASE t = s /\ x = e  BY <1>2, <1>3, <1>5, <2>1, MonitoringAssumption
  <2>2. CASE ~(t = s /\ x = e)  BY <1>5, <2>2
  <2> QED  BY <2>1, <2>2
<1> HIDE DEF old
<1>7. Types'  BY <1>1, <1>5 DEF Types, TypeOK, WriterOK, pipe
<1>8. RowsInv'
  <2>1. OnlyKnown'  BY <1>1, <1>6 DEF RowsInv, OnlyKnown, Running, Known, Definition
  <2>2. RowShowsLatestRun'
    <3>1. Live' = Live /\ Live \subseteq Systems  BY <1>1 DEF Live
    <3>2. UNCHANGED <<run, observed>>  BY <1>1
    <3>3. \A t \in Live, x \in Exporters :
            \/ table'[<<t, x>>] = table[<<t, x>>]
            \/ /\ table[<<t, x>>] # NoRow /\ table'[<<t, x>>] # NoRow
               /\ table'[<<t, x>>].state = table[<<t, x>>].state
      BY <1>6, <3>1
    <3> SUFFICES ASSUME NEW t \in Live, NEW x \in Exporters
                 PROVE  \/ observed[<<t, x>>] = "none"
                        \/ \E r \in Runs : run[r].st = "ran" /\ run[r].sys = t /\ run[r].exp = x
                        \/ table'[<<t, x>>] # NoRow /\ table'[<<t, x>>].state = observed[<<t, x>>]
                        \/ table'[<<t, x>>] = NoRow /\ observed[<<t, x>>] = "removed"
      BY <3>1, <3>2 DEF RowShowsLatestRun
    <3>4. \/ observed[<<t, x>>] = "none"
          \/ \E r \in Runs : run[r].st = "ran" /\ run[r].sys = t /\ run[r].exp = x
          \/ table[<<t, x>>] # NoRow /\ table[<<t, x>>].state = observed[<<t, x>>]
          \/ table[<<t, x>>] = NoRow /\ observed[<<t, x>>] = "removed"
      BY DEF RowsInv, RowShowsLatestRun
    <3> QED  BY <3>3, <3>4
  <2> QED
    BY <1>1, <2>1, <2>2 DEF RowsInv, DownIsIdle, LocksAreHeld, ResultsAreObserved, Live
<1>9. FileInv'
  <2>1. Signal => Signal'  BY <1>1 DEF Signal, pipe
  <2>2. Signal' \/ UNCHANGED <<hosts, table>>  BY <1>1, <1>5 DEF Signal
  <2> QED  BY <1>1, <2>1, <2>2, FileKept DEF pipe
<1> QED  BY <1>7, <1>8, <1>9

LEMMA MoveSystemKeeps ==
    ASSUME IInv, NEW s \in Systems, NEW g \in Labels, MoveSystem(s, g) PROVE IInv'
<1> USE DEF IInv
<1>1. /\ UNCHANGED <<mode, defs, table, lock, run, observed, pipe>>
      /\ started' \in 0 .. MaxStimuli /\ announcing' <= started'
      /\ announcing' \in 0 .. MaxStimuli /\ announcing' > 0
  BY MonitoringAssumption DEF Types, TypeOK, WriterOK, MoveSystem, Stimulus
<1>2. hosts' \in [Systems -> Labels \cup {NoRow}] /\ Live' = Live
  BY MonitoringAssumption DEF Types, TypeOK, MoveSystem, Live
<1>3. Types'  BY <1>1, <1>2 DEF Types, TypeOK, WriterOK, pipe
<1>4. RowsInv'
  BY <1>1, <1>2
  DEF RowsInv, DownIsIdle, LocksAreHeld, ResultsAreObserved, OnlyKnown, Known, Definition,
      Running, RowShowsLatestRun
<1>5. FileInv'
  <2>1. Signal'  BY <1>1 DEF Signal
  <2> QED  BY <1>1, <2>1, FileKept DEF pipe
<1> QED  BY <1>3, <1>4, <1>5

\* A host takes its rows and its lock with it, and comes back to no one.
LEMMA DeleteSystemKeeps == ASSUME IInv, NEW s \in Systems, DeleteSystem(s) PROVE IInv'
<1> USE DEF IInv
<1>1. /\ UNCHANGED <<mode, defs, run, observed, pipe>>
      /\ started' \in 0 .. MaxStimuli /\ announcing' <= started'
      /\ announcing' \in 0 .. MaxStimuli /\ announcing' > 0
  BY MonitoringAssumption DEF Types, TypeOK, WriterOK, DeleteSystem, Stimulus
<1>2. /\ hosts' \in [Systems -> Labels \cup {NoRow}] /\ Live' = Live \ {s}
      /\ Live \subseteq Systems
      /\ lock' \in [Systems -> Runs \cup {NoRun}]
      /\ \A t \in Systems \ {s} : lock'[t] = lock[t]
  BY DEF Types, TypeOK, DeleteSystem, Live
<1>3. /\ table' \in [Systems \X Exporters -> Row \cup {NoRow}]
      /\ \A t \in Systems, x \in Exporters :
            table'[<<t, x>>] = IF t = s THEN NoRow ELSE table[<<t, x>>]
  BY DEF Types, TypeOK, DeleteSystem
<1>4. Types'  BY <1>1, <1>2, <1>3 DEF Types, TypeOK, WriterOK, pipe
<1>5. RowsInv'
  <2>1. DownIsIdle' /\ LocksAreHeld' /\ ResultsAreObserved'
    BY <1>1, <1>2 DEF RowsInv, DownIsIdle, LocksAreHeld, ResultsAreObserved
  <2>2. OnlyKnown'  BY <1>1, <1>3 DEF RowsInv, OnlyKnown, Known, Definition, Running
  <2>3. RowShowsLatestRun'
    <3>1. \A t \in Live', x \in Exporters : t \in Live /\ table'[<<t, x>>] = table[<<t, x>>]
      BY <1>2, <1>3
    <3> QED  BY <1>1, <3>1 DEF RowsInv, RowShowsLatestRun
  <2> QED  BY <2>1, <2>2, <2>3 DEF RowsInv
<1>6. FileInv'
  <2>1. Signal'  BY <1>1 DEF Signal
  <2> QED  BY <1>1, <2>1, FileKept DEF pipe
<1> QED  BY <1>4, <1>5, <1>6

-----------------------------------------------------------------------------
\* The pipeline

LEMMA InitHolds == ASSUME Init PROVE IInv
<1>0. \A r \in Runs : run[r] = NoWork /\ run[r].st = "idle"  BY DEF Init, NoWork
<1>1. PICK g \in Labels : hosts = [s \in Systems |-> g]
  BY MonitoringAssumption DEF Init
<1>2. file = Targets /\ file \in SUBSET Entry
  <2>1. \A s \in Live : s \in Systems /\ hosts[s] = g  BY <1>1 DEF Live
  <2>2. \A s \in Live : EntriesOf(s, hosts[s]) \in SUBSET Entry
    BY <2>1, EntriesAreEntries
  <2> QED  BY <2>2 DEF Init, Targets
<1>3. Types
  <2>1. table \in [Systems \X Exporters -> Row \cup {NoRow}]
    BY DEF Init, Row, State
  <2>2. defs \in [Custom -> [st : {"none", "live", "deleted"}, remove : BOOLEAN]]
    <3>1. NoDef \in [st : {"none", "live", "deleted"}, remove : BOOLEAN]
          /\ [st |-> "live", remove |-> TRUE] \in [st : {"none", "live", "deleted"}, remove : BOOLEAN]
      BY DEF NoDef
    <3>2. defs \in [Custom -> {NoDef, [st |-> "live", remove |-> TRUE]}]  BY DEF Init
    <3> QED  BY <3>1, <3>2
  <2>3. /\ queue \in Seq(Relevant \cup {"exporter.run.started"}) /\ Len(queue) <= Buffer
        /\ announcing \in 0 .. MaxStimuli
    BY MonitoringAssumption DEF Init
  <2>4. WriterOK  BY MonitoringAssumption DEF Init, WriterOK, Waiting
  <2> QED  BY <1>0, <1>1, <1>2, <2>1, <2>2, <2>3, <2>4 DEF Types, TypeOK, Init, Entry
<1>4. RowsInv
  <2>1. \A s \in Systems, e \in Exporters :
          (table[<<s, e>>] # NoRow => e \in Builtin) /\ observed[<<s, e>>] = "none"
    BY DEF Init
  <2>2. OnlyKnown  BY <1>0, <2>1 DEF OnlyKnown, Running, Known, Definition
  <2> QED
    BY <1>0, <2>1, <2>2
    DEF RowsInv, DownIsIdle, LocksAreHeld, ResultsAreObserved, AtWork, RowShowsLatestRun, Live
<1>5. FileInv
  BY <1>2 DEF Init, FileInv, StaleFileWillBeWritten, ReadingIsFresh, Waiting
<1> QED  BY <1>3, <1>4, <1>5 DEF IInv

LEMMA StepHolds == ASSUME IInv, [Next]_vars PROVE IInv'
<1>1. CASE UNCHANGED vars
  <2>1. Types'  BY <1>1 DEF IInv, Types, TypeOK, WriterOK, vars, tables, pipe
  <2>2. RowsInv'  BY <1>1, RowsFrame DEF IInv, vars
  <2>3. Signal => Signal'  BY <1>1 DEF Signal, vars, tables, pipe
  <2>4. FileInv'  BY <1>1, <2>3, FileKept DEF IInv, vars, tables, pipe
  <2> QED  BY <2>1, <2>2, <2>4 DEF IInv
<1>2. CASE Catalogue  BY <1>2, CatalogueKeeps
<1>3. ASSUME NEW r \in Runs,
             \/ RunStep(r) \/ RunStoreFails(r)
             \/ \E s \in Systems, e \in Exporters, k \in Kind : RunBegin(r, s, e, k)
      PROVE  IInv'
  BY <1>3, RunBeginKeeps, RunLockKeeps, RunPlaybookKeeps, RunStoreKeeps,
     RunStoreFailsKeeps, RunEndKeeps DEF RunStep
<1>4. ASSUME NEW s \in Systems,
             \/ DeleteSystem(s)
             \/ \E e \in Exporters, on \in BOOLEAN : SetScrape(s, e, on)
             \/ \E g \in Labels : MoveSystem(s, g)
      PROVE  IInv'
  BY <1>4, DeleteSystemKeeps, SetScrapeKeeps, MoveSystemKeeps
<1>5. CASE Announce  BY <1>5, AnnounceKeeps
<1>6. CASE WriterStep
  BY <1>6, ForwardKeeps, WriterStarts, WriterReads, WriterRests DEF WriterStep
<1>7. CASE WriterTurn
  BY <1>7, WriterStarts, WriterReads, WriterRests, ProcessKeeps DEF WriterTurn
<1>8. CASE Stop \/ Down \/ Boot  BY <1>8, ProcessKeeps
<1> QED  BY <1>1, <1>2, <1>3, <1>4, <1>5, <1>6, <1>7, <1>8 DEF Next

\* The inductive invariant: what holds of rows, locks and the file at every
\* moment, through deletions, failed queries, crashes and boots.
THEOREM Soundness == Spec => []IInv
BY InitHolds, StepHolds, PTL DEF Spec

\* A file that is as it should be lists what the endpoint serves and what the
\* page of the system shows: a row that wants an entry is installed or
\* running, of an installer that is known.
LEMMA ServedTargets == ASSUME IInv PROVE TargetsAreServed
<1> SUFFICES ASSUME file = Targets, NEW t \in file
             PROVE  /\ Scrape(t.sys, t.exp) = "tunnel"
                    /\ t.exp \in Installed(t.sys) \/ Definition(t.exp).st = "deleted"
  BY DEF TargetsAreServed
<1>1. PICK s \in Live, e \in Exporters :
        t = [sys |-> s, exp |-> e, label |-> hosts[s]] /\ Wants(table[<<s, e>>])
  BY DEF Targets, EntriesOf
<1>2. /\ s \in Systems /\ table[<<s, e>>] # NoRow
      /\ table[<<s, e>>].state \in {"installed", "running"}
  BY <1>1 DEF Live, Wants
<1>3. Definition(e).st # "none"  BY <1>2 DEF IInv, RowsInv, OnlyKnown, Known
<1>4. Definition(e).st \in {"live", "deleted"}
  BY <1>3 DEF IInv, Types, TypeOK, Definition, Exporters
<1> QED  BY <1>1, <1>2, <1>4 DEF Scrape, Installed, All

\* Rows, runs, hub and file agree with each other at every moment.
THEOREM PipelineAgrees == Spec => []MonitoringInv
<1>1. IInv => MonitoringInv
  BY ServedTargets DEF IInv, Types, RowsInv, FileInv, MonitoringInv
<1> QED  BY <1>1, Soundness, PTL
=============================================================================
