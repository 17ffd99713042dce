----------------------------- MODULE Monitoring -----------------------------
(***************************************************************************)
(* The metrics pipeline: the catalogue of exporter installers              *)
(* (internal/exporters/registry.go, admin_handler.go), their runs on hosts *)
(* (runner.go, handler.go), the system_exporters table (sqlite_store.go),  *)
(* the file of scrape targets that follows it (internal/promtargets) and   *)
(* the endpoint Prometheus scrapes (internal/scrape).                      *)
(*                                                                         *)
(* The file is regenerated when an event arrives, by a goroutine that      *)
(* reads the hosts and then the rows of one host after the other, while    *)
(* runs, toggles, moves and deletions go on.  The rows of exporter_runs    *)
(* and the lock's own life are the subject of ActionRuns; here a lock is   *)
(* only what keeps two runs of one host apart.                             *)
(***************************************************************************)
EXTENDS Naturals, Sequences, FiniteSets

CONSTANTS
    Systems,      \* ids of managed systems
    Builtin,      \* ids of installers compiled into the server
    Custom,       \* ids of installers an administrator may create
    Labels,       \* group ids a target may be labelled with
    Runs,         \* run ids
    NoRow,        \* an absent row
    NoRun,        \* a lock nobody holds
    Buffer,       \* capacity of the writer's hub channel (16 in the code)
    MaxStimuli    \* bound: requests, crashes, shutdowns and failed writes

State == {"installed", "running", "failed", "removed"}

\* A row as the operator sees it.  The port is always set by a run: from the
\* marker, or else the definition's bind_port, which is at least 1.
Row == [state : State, scrape : BOOLEAN]

ASSUME MonitoringAssumption ==
    /\ Builtin \cap Custom = {}
    /\ Labels # {}
    /\ NoRow \notin Labels \cup Row
    /\ NoRun \notin Runs
    /\ Buffer \in Nat \ {0} /\ MaxStimuli \in Nat

VARIABLES
    mode,       \* of the process: serving, stopping, down
    hosts,      \* hosts[s]: the group label of system s, or NoRow
    defs,       \* defs[e]: the row of custom installer e
    table,      \* table[<<s, e>>]: the system_exporters row, or NoRow
    lock,       \* lock[s]: the run that holds the advisory lock of s
    run,        \* run[r]: what run r is doing
    announcing, \* handlers that have committed and not broadcast yet
    queue,      \* events in the writer's hub channel
    pending,    \* is the writer's pending channel full?
    writer,     \* the writer's goroutine
    file,       \* the entries of targets.json
    failed,     \* observer: did the last regeneration fail, in whole or in part?
    missed,     \* observer: was an event dropped at a channel that held
                \* only events the writer ignores?
    observed,   \* observer: observed[<<s, e>>]: what the last playbook found,
                \* "none" before and when it could not be stored
    started     \* stimuli so far

tables == <<hosts, defs, table, lock, run, observed>>
pipe == <<queue, pending, writer, file, failed, missed>>
vars == <<mode, tables, announcing, pipe, started>>

Exporters == Builtin \cup Custom
Live == {s \in Systems : hosts[s] # NoRow}

Kind == {"install", "status", "remove"}

Stimulus == started < MaxStimuli /\ started' = started + 1

\* The events the writer's subscriber acts on; the others of the hub, such
\* as exporter.run.started, take room in its channel too.
Relevant == {"systems.changed", "exporter.run.completed"}

\* A non-blocking send: what does not fit is dropped.
Send(q, e) == IF Len(q) < Buffer THEN Append(q, e) ELSE q

Lost(q, e) == /\ e \in Relevant /\ Len(q) = Buffer
              /\ \A i \in 1 .. Len(q) : q[i] \notin Relevant

\* Hub.Broadcast of one event or of two in a row, as that channel sees it.
Broadcast(e) ==
    /\ queue' = Send(queue, e)
    /\ missed' = (missed \/ Lost(queue, e))
Broadcast2(e, f) ==
    /\ queue' = Send(Send(queue, e), f)
    /\ missed' = (missed \/ Lost(queue, e) \/ Lost(Send(queue, e), f))

-----------------------------------------------------------------------------
\* The catalogue: custom installers are created once, edited, and deleted
\* softly; an id is never free again.

NoDef == [st |-> "none", remove |-> FALSE]

CreateCustom(e, rem) ==
    /\ defs[e] = NoDef
    /\ defs' = [defs EXCEPT ![e] = [st |-> "live", remove |-> rem]]

\* The UPDATE repeats the look at deleted_at that precedes it, so both are
\* one step.
UpdateCustom(e, rem) ==
    /\ defs[e].st = "live"
    /\ defs' = [defs EXCEPT ![e].remove = rem]

DeleteCustom(e) ==
    /\ defs[e].st = "live"
    /\ defs' = [defs EXCEPT ![e].st = "deleted"]

Catalogue ==
    /\ mode # "down"
    /\ Stimulus
    /\ \E e \in Custom : \/ DeleteCustom(e)
                         \/ \E rem \in BOOLEAN : \/ CreateCustom(e, rem)
                                                 \/ UpdateCustom(e, rem)
    /\ UNCHANGED <<mode, hosts, table, lock, run, observed, announcing, pipe>>

\* Registry.Get for a run; builtins come with a remove playbook.
Definition(e) == IF e \in Builtin THEN [st |-> "live", remove |-> TRUE]
                 ELSE defs[e]

\* Registry.All: what the lists offer.
All == {e \in Exporters : Definition(e).st = "live"}

-----------------------------------------------------------------------------
\* Runs: install, status and remove

NoWork == [st |-> "idle"]

Running(r) == run[r].st # "idle"

\* runEndpoint and the start of runOne: refused while draining, for a system
\* that is gone, for a deleted installer and for a remove it does not have.
RunBegin(r, s, e, k) ==
    /\ mode = "serving"
    /\ run[r] = NoWork
    /\ s \in Live
    /\ Definition(e).st = "live"
    /\ k = "remove" => Definition(e).remove
    /\ Stimulus
    /\ run' = [run EXCEPT ![r] = [st |-> "begun", sys |-> s, exp |-> e,
                                  kind |-> k, result |-> "none"]]
    /\ UNCHANGED <<mode, hosts, defs, table, lock, observed, announcing, pipe>>

\* AcquireLock: a conflict ends the run; otherwise two events go out.
RunLock(r) ==
    /\ run[r].st = "begun"
    /\ IF lock[run[r].sys] = NoRun
       THEN /\ lock' = [lock EXCEPT ![run[r].sys] = r]
            /\ run' = [run EXCEPT ![r].st = "locked"]
            /\ Broadcast2("exporter.run.started", "systems.changed")
       ELSE /\ run' = [run EXCEPT ![r] = NoWork]
            /\ UNCHANGED <<lock, queue, missed>>
    /\ UNCHANGED <<mode, hosts, defs, table, observed, announcing, pending,
                   writer, file, failed, started>>

\* MarkerResult.State: the last state marker of the playbook's output; an
\* absent or unknown one reads as failed.
Markers == State

\* What runOne makes of a finished playbook: a failed one reads as failed
\* whatever it printed, a remove that succeeds as removed.
Observe(kind, ok, marker) ==
    IF ~ok THEN "failed" ELSE IF kind = "remove" THEN "removed" ELSE marker

\* Mutant: the lock is released before the row is written.
RunPlaybook_unlocks(r) ==
    /\ run[r].st = "locked"
    /\ \E ok \in BOOLEAN, m \in Markers :
         LET seen == Observe(run[r].kind, ok, m) IN
         /\ run' = [run EXCEPT ![r].st = "ran", ![r].result = seen]
         /\ observed' = [observed EXCEPT ![<<run[r].sys, run[r].exp>>] = seen]
    /\ lock' = [lock EXCEPT ![run[r].sys] = NoRun]
    /\ UNCHANGED <<mode, hosts, defs, table, announcing, pipe, started>>

\* The playbook ends, or could not be written and leaves no reading.
RunPlaybook(r) ==
    /\ run[r].st = "locked"
    /\ \/ \E ok \in BOOLEAN, m \in Markers :
            LET seen == Observe(run[r].kind, ok, m) IN
            /\ run' = [run EXCEPT ![r].st = "ran", ![r].result = seen]
            /\ observed' = [observed EXCEPT ![<<run[r].sys, run[r].exp>>] = seen]
       \/ /\ run' = [run EXCEPT ![r].st = "stored"]
          /\ UNCHANGED observed
    /\ UNCHANGED <<mode, hosts, defs, table, lock, announcing, pipe, started>>

\* A new row starts with the scrape toggle on; an old one keeps it.
UpsertSystemExporter(s, e, st) ==
    [table EXCEPT ![<<s, e>>] =
        [state |-> st, scrape |-> IF @ = NoRow THEN TRUE ELSE @.scrape]]

\* A row that is not there stays away: ErrNotFound, which runOne ignores.
MarkRemoved(s, e) ==
    IF table[<<s, e>>] = NoRow THEN table
    ELSE [table EXCEPT ![<<s, e>>].state = "removed"]

\* The result is stored.  Nothing ties the row to a live host: a host
\* deleted during the run gets its row back.
RunStore(r) ==
    /\ run[r].st = "ran"
    /\ LET s == run[r].sys
           e == run[r].exp
           seen == run[r].result
       IN  table' = IF run[r].kind = "remove" /\ seen = "removed"
                    THEN MarkRemoved(s, e)
                    ELSE UpsertSystemExporter(s, e, seen)
    /\ run' = [run EXCEPT ![r].st = "stored"]
    /\ UNCHANGED <<mode, hosts, defs, lock, observed, announcing, pipe,
                   started>>

\* The statement fails, which is logged: the row stays what it was.
RunStoreFails(r) ==
    /\ run[r].st = "ran"
    /\ Stimulus
    /\ run' = [run EXCEPT ![r].st = "stored"]
    /\ observed' = [observed EXCEPT ![<<run[r].sys, run[r].exp>>] = "none"]
    /\ UNCHANGED <<mode, hosts, defs, table, lock, announcing, pipe>>

\* The deferred end: the lock is released and two events go out.
RunEnd(r) ==
    /\ run[r].st = "stored"
    /\ lock' = [lock EXCEPT ![run[r].sys] = IF @ = r THEN NoRun ELSE @]
    /\ run' = [run EXCEPT ![r] = NoWork]
    /\ Broadcast2("exporter.run.completed", "systems.changed")
    /\ UNCHANGED <<mode, hosts, defs, table, observed, announcing, pending,
                   writer, file, failed, started>>

-----------------------------------------------------------------------------
\* Requests that change what is scraped

\* setScrape: only a flip is announced.
SetScrape(s, e, on) ==
    /\ mode # "down"
    /\ s \in Live
    /\ table[<<s, e>>] # NoRow
    /\ Stimulus
    /\ table' = [table EXCEPT ![<<s, e>>].scrape = on]
    /\ announcing' = IF table[<<s, e>>].scrape = on THEN announcing
                     ELSE announcing + 1
    /\ UNCHANGED <<mode, hosts, defs, lock, run, observed, pipe>>

\* The group of a system changes (internal/groups, see Inventory).
MoveSystem(s, g) ==
    /\ mode # "down"
    /\ s \in Live
    /\ Stimulus
    /\ hosts' = [hosts EXCEPT ![s] = g]
    /\ announcing' = announcing + 1
    /\ UNCHANGED <<mode, defs, table, lock, run, observed, pipe>>

\* A system is deleted with the rows the triggers know of.
DeleteSystem(s) ==
    /\ mode # "down"
    /\ s \in Live
    /\ Stimulus
    /\ hosts' = [hosts EXCEPT ![s] = NoRow]
    /\ table' = [x \in Systems \X Exporters |->
                   IF x[1] = s THEN NoRow ELSE table[x]]
    /\ lock' = [lock EXCEPT ![s] = NoRun]
    /\ announcing' = announcing + 1
    /\ UNCHANGED <<mode, defs, run, observed, pipe>>

Announce ==
    /\ announcing > 0
    /\ announcing' = announcing - 1
    /\ Broadcast("systems.changed")
    /\ UNCHANGED <<mode, tables, pending, writer, file, failed, started>>

-----------------------------------------------------------------------------
\* The targets writer

\* Is the row one that Regenerate writes an entry for?
Wants(row) == /\ row # NoRow
              /\ row.state \in {"installed", "running"}
              /\ row.scrape

EntriesOf(s, label) ==
    {[sys |-> s, exp |-> e, label |-> label] :
        e \in {x \in Exporters : Wants(table[<<s, x>>])}}

\* The file as it should be now.
Targets == UNION {EntriesOf(s, hosts[s]) : s \in Live}

Waiting == [st |-> "waiting"]

\* The subscriber's goroutine forwards an event: a non-blocking send.
Forward ==
    /\ queue # <<>>
    /\ queue' = Tail(queue)
    /\ pending' = (pending \/ Head(queue) \in Relevant)
    /\ UNCHANGED <<mode, tables, announcing, writer, file, failed, missed,
                   started>>

WriterWake ==
    /\ mode = "serving"
    /\ writer = Waiting
    /\ pending
    /\ pending' = FALSE
    /\ writer' = [st |-> "debounce"]
    /\ UNCHANGED <<mode, tables, announcing, queue, file, failed, missed,
                   started>>

\* Another event inside the 200 ms window.
WriterDrain ==
    /\ mode = "serving"
    /\ writer.st = "debounce"
    /\ pending
    /\ pending' = FALSE
    /\ UNCHANGED <<mode, tables, announcing, queue, writer, file, failed,
                   missed, started>>

\* The window ends: Regenerate lists the hosts with their labels, or fails
\* to and gives up...
WriterList(ok) ==
    /\ mode = "serving"
    /\ writer.st = "debounce"
    /\ writer' = IF ok THEN [st |-> "reading", hosts |-> hosts, todo |-> Live,
                             out |-> {}, short |-> FALSE]
                 ELSE Waiting
    /\ failed' = (failed \/ ~ok)
    /\ missed' = (missed /\ ~ok)
    /\ IF ok THEN UNCHANGED started ELSE Stimulus
    /\ UNCHANGED <<mode, tables, announcing, queue, pending, file>>

\* Mutant: a host deleted since the listing is tried again and again.
WriterRead_retries(s, ok) ==
    /\ writer.st = "reading"
    /\ s \in writer.todo \cap Live
    /\ writer' = [writer EXCEPT !.todo = @ \ {s},
                    !.out = IF ok THEN @ \cup EntriesOf(s, writer.hosts[s]) ELSE @,
                    !.short = @ \/ ~ok]
    /\ IF ok THEN UNCHANGED started ELSE Stimulus
    /\ UNCHANGED <<mode, tables, announcing, queue, pending, file, failed,
                   missed>>

\* ... then the rows of each host, one query per host; one that fails is
\* logged, and the host's entries are left out...
WriterRead(s, ok) ==
    /\ writer.st = "reading"
    /\ s \in writer.todo
    /\ writer' = [writer EXCEPT !.todo = @ \ {s},
                    !.out = IF ok THEN @ \cup EntriesOf(s, writer.hosts[s]) ELSE @,
                    !.short = @ \/ ~ok]
    /\ IF ok THEN UNCHANGED started ELSE Stimulus
    /\ UNCHANGED <<mode, tables, announcing, queue, pending, file, failed,
                   missed>>

\* ... and replaces the file by a rename.  A write that fails is logged and
\* not repeated.
WriterWrite(ok) ==
    /\ writer.st = "reading"
    /\ writer.todo = {}
    /\ file' = IF ok THEN writer.out ELSE file
    /\ failed' = (~ok \/ writer.short)
    /\ writer' = Waiting
    /\ IF ok THEN UNCHANGED started ELSE Stimulus
    /\ UNCHANGED <<mode, tables, announcing, queue, pending, missed>>

\* ctx.Done: the goroutine returns from its select.
WriterStop ==
    /\ mode = "stopping"
    /\ writer.st \in {"waiting", "debounce"}
    /\ writer' = [st |-> "stopped"]
    /\ UNCHANGED <<mode, tables, announcing, queue, pending, file, failed,
                   missed, started>>

-----------------------------------------------------------------------------
\* The process

Stop ==
    /\ mode = "serving"
    /\ Stimulus
    /\ mode' = "stopping"
    /\ UNCHANGED <<tables, announcing, pipe>>

\* The process ends, after a shutdown or by a crash.  The file and the
\* tables stay; a reading whose run died with it is forgotten.
Down ==
    /\ mode # "down"
    /\ Stimulus
    /\ mode' = "down"
    /\ run' = [r \in Runs |-> NoWork]
    /\ observed' = [x \in Systems \X Exporters |->
                      IF \E r \in Runs : /\ run[r].st = "ran"
                                         /\ <<run[r].sys, run[r].exp>> = x
                      THEN "none" ELSE observed[x]]
    /\ announcing' = 0 /\ queue' = <<>> /\ pending' = FALSE /\ missed' = FALSE
    /\ writer' = [st |-> "stopped"]
    /\ UNCHANGED <<hosts, defs, table, lock, file, failed>>

\* Boot: locks are dropped (ReconcileOrphanedRuns, see ActionRuns); the
\* writer subscribes, and begins with a regeneration of its own.
Boot ==
    /\ mode = "down"
    /\ mode' = "serving"
    /\ lock' = [s \in Systems |-> NoRun]
    /\ writer' = [st |-> "debounce"]
    /\ UNCHANGED <<hosts, defs, table, run, observed, announcing, queue,
                   pending, file, failed, missed, started>>

-----------------------------------------------------------------------------

RunStep(r) == RunLock(r) \/ RunPlaybook(r) \/ RunStore(r) \/ RunEnd(r)

WriterStep ==
    \/ Forward \/ WriterWake \/ WriterList(TRUE)
    \/ \E s \in Systems : WriterRead(s, TRUE)
    \/ WriterWrite(TRUE)

\* A query or the write fails, or another event comes in time.
WriterTurn ==
    \/ WriterDrain \/ WriterList(FALSE) \/ WriterWrite(FALSE) \/ WriterStop
    \/ \E s \in Systems : WriterRead(s, FALSE)

Next ==
    \/ Catalogue
    \/ \E r \in Runs :
         \/ RunStep(r) \/ RunStoreFails(r)
         \/ \E s \in Systems, e \in Exporters, k \in Kind :
              RunBegin(r, s, e, k)
    \/ \E s \in Systems :
         \/ DeleteSystem(s)
         \/ \E e \in Exporters, on \in BOOLEAN : SetScrape(s, e, on)
         \/ \E g \in Labels : MoveSystem(s, g)
    \/ Announce
    \/ WriterStep \/ WriterTurn
    \/ Stop \/ Down \/ Boot

\* A server whose builtin exporter runs on every system, with the file
\* written; a custom installer may exist and is not in use yet.
Init ==
    /\ mode = "serving"
    /\ hosts = [s \in Systems |-> CHOOSE g \in Labels : TRUE]
    /\ defs \in [Custom -> {NoDef, [st |-> "live", remove |-> TRUE]}]
    /\ table = [x \in Systems \X Exporters |->
                  IF x[2] \in Builtin
                  THEN [state |-> "running", scrape |-> TRUE] ELSE NoRow]
    /\ lock = [s \in Systems |-> NoRun]
    /\ run = [r \in Runs |-> NoWork]
    /\ announcing = 0 /\ queue = <<>> /\ pending = FALSE
    /\ writer = Waiting
    /\ file = Targets
    /\ failed = FALSE /\ missed = FALSE
    /\ observed = [x \in Systems \X Exporters |-> "none"]
    /\ started = 0

\* Goroutines run: those of the runs, of the handlers and of the writer, and
\* a process that is down is started again.  Events inside the debounce
\* window are optional: the timer ends it.
Fairness ==
    /\ \A r \in Runs : WF_vars(RunStep(r))
    /\ WF_vars(Announce)
    /\ WF_vars(WriterStep)
    /\ WF_vars(Boot)

Spec == Init /\ [][Next]_vars /\ Fairness

-----------------------------------------------------------------------------
\* Properties

\* Type invariant.
TypeOK ==
    /\ mode \in {"serving", "stopping", "down"}
    /\ hosts \in [Systems -> Labels \cup {NoRow}]
    /\ defs \in [Custom -> [st : {"none", "live", "deleted"},
                            remove : BOOLEAN]]
    /\ table \in [Systems \X Exporters -> Row \cup {NoRow}]
    /\ lock \in [Systems -> Runs \cup {NoRun}]
    /\ run \in [Runs -> {NoWork} \cup
                  [st : {"begun", "locked", "ran", "stored"}, sys : Systems,
                   exp : Exporters, kind : Kind, result : State \cup {"none"}]]
    /\ announcing \in 0 .. MaxStimuli
    /\ queue \in Seq(Relevant \cup {"exporter.run.started"}) /\ Len(queue) <= Buffer
    /\ missed \in BOOLEAN
    /\ pending \in BOOLEAN /\ failed \in BOOLEAN
    /\ file \subseteq [sys : Systems, exp : Exporters, label : Labels]
    /\ observed \in [Systems \X Exporters -> State \cup {"none"}]

\* The row of an exporter shows what the latest playbook on that host found,
\* once that run has stored it, unless the statement failed: no earlier run
\* writes over a later one.  The
\* lock, which is released after the row is written, is what this rests on.
RowShowsLatestRun ==
    \A s \in Live, e \in Exporters :
       \/ observed[<<s, e>>] = "none"
       \/ \E r \in Runs : run[r].st = "ran" /\ run[r].sys = s /\ run[r].exp = e
       \/ table[<<s, e>>] # NoRow /\ table[<<s, e>>].state = observed[<<s, e>>]
       \/ table[<<s, e>>] = NoRow /\ observed[<<s, e>>] = "removed"

\* While the server serves, targets.json lags behind the table only when a
\* regeneration is under way or is bound to come, or the last one failed,
\* or an event came to a channel full of events the writer ignores: no other
\* event is lost for good in the hub's buffer, in the pending channel or in
\* the debounce window, and none is needed after a restart.
StaleFileWillBeWritten ==
    mode = "serving" /\ file # Targets =>
       \/ failed \/ missed
       \/ announcing > 0 \/ pending
       \/ \E i \in 1 .. Len(queue) : queue[i] \in Relevant
       \/ writer # Waiting
       \/ \E r \in Runs : run[r].st = "stored"

\* The scrape endpoint's answer before it opens a tunnel.
Scrape(s, e) ==
    IF table[<<s, e>>] = NoRow THEN "not found"
    ELSE IF table[<<s, e>>].state = "removed" THEN "removed" ELSE "tunnel"

\* The page of a system: the exporters it shows as installed.
Installed(s) ==
    {e \in All : table[<<s, e>>] # NoRow /\ table[<<s, e>>].state # "removed"}

\* With the writer at rest, every target Prometheus is given is one the
\* scrape endpoint serves and the system's page shows; a deleted installer
\* is the exception, it stays scraped and is not shown.
TargetsAreServed ==
    file = Targets =>
       \A t \in file : /\ Scrape(t.sys, t.exp) = "tunnel"
                       /\ \/ t.exp \in Installed(t.sys)
                          \/ Definition(t.exp).st = "deleted"

\* The file follows the table in the end, through crashes, unless a write
\* or a query has failed, an event has been missed, or the server is on its way down.
FileCatchesUp ==
    (mode = "serving" /\ ~failed /\ ~missed)
       ~> (file = Targets \/ failed \/ missed \/ mode = "stopping")

\* Rows, runs, hub and file agree with each other at every moment: a row
\* shows the latest run, a file that is out of date will be written, and
\* what is written is served.
MonitoringInv == TypeOK /\ RowShowsLatestRun /\ StaleFileWillBeWritten /\ TargetsAreServed
=============================================================================
