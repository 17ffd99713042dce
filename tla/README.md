# System Wrangler: a TLA+ development of its core

System Wrangler is a single Go server over one SQLite database. It keeps an
inventory of hosts, runs Ansible playbooks on them (inspect, check, apply
updates; install and remove metrics exporters), runs such work on schedules, and
turns metrics into alerts and notifications. This directory models the parts
that keep state across goroutines, requests and restarts, checks them with TLC,
and proves the central ones with TLAPS for every value of their constants.

## Inventory

| Component | State | Operations | What is hard | What makes it correct |
|---|---|---|---|---|
| Concurrency gate (`updaters/gate.go`) | `active`, FIFO of channels, limit from settings | Acquire, Release | hand-off racing cancellation; limit moved while callers queue | no slot lost or invented, queue served in order, every Acquire returns |
| Update runs (`updaters/runner.go`, `sqlite_store.go`) | `updater_runs`, `system_action_locks` | Inspect, Check, Apply, retention, boot reconciliation | lock races, cancelled waits, crash between statements, statements that fail | one run per host; no orphaned lock or open row |
| Exporter runs (`exporters/`) | `exporter_runs`, the same locks | Install, Status, Remove | as above, across two stores | as above |
| Server process (`cmd/server/main.go`) | contexts, drain | boot, SIGTERM, drain, exit | runs the drain does not see | nothing is left behind after the next boot |
| Host records (`updaters`, `holds`, `exclusions`, `systems`) | availability, pending packages, reboot hint, managed holds | what runs record; what operators and administrators change meanwhile | records drift from the host; refused or unreachable runs | exclusions honoured, foreign holds kept, records not overwritten by nothing |
| Schedules (`schedules/`) | `schedules`, `schedule_runs`, a mutex per schedule, the ticker | tick, Fire, run-now, edit, delete | edits during a fire, missed fires, crash during a fire | fires do not overlap, no catch-up burst, due work is settled |
| Alerts (`alerts/`) | rules, instances | evaluate, edit | edits during an evaluation, half-failed evaluations | fire only after For; announcements agree with the table |
| Notifications (`notifications/`) | policy, deferred rows, detached sends | Emit, FlushPending | rows deferred during a flush, crash after sending | deferred rows are dealt with, once; nothing true is dropped |
| Accounts and sessions (`auth/`, `rbac/store.go`) | `users`, `user_roles`, `sessions`, the backfill's marker | setup, login, SSO, the middleware, user administration, revocation | checks and writes in separate statements, administrators acting on each other, a refresh racing a revocation | a global Admin remains, what is revoked stays revoked |
| Second factor (`auth/totp*.go`, `device.go`, `recovery.go`) | TOTP columns, `recovery_codes`, `trusted_devices` | enrol, verify, disable, reset, remember a device | logins that act on a copy of the state while it is reset | enrolled as a whole, codes work once, trust ends with a reset |
| Managed inventory (`systems/`, `groups/`, `labels/`, `hostkeys/`, `exclusions/`) | `hosts`, `system_groups`, `labels`, `host_keys`, `package_exclusions` | create, move and delete systems and groups, scan and accept keys, set labels and exclusions | requests that look, ask a gate and write in separate statements while somebody deletes | nothing outlives its system; a trusted key is one that was reviewed |
| Probe and event hub (`systems/probe.go`, `events/`) | thresholds and counters per host, the trigger, subscribers' buffers | probe cycles, Subscribe, Broadcast, the event stream | dropped events and triggers, thresholds that change, shutdown | a status is what the probes say; an open tab learns of every change |
| Monitoring (`exporters/`, `promtargets/`, `scrape/`) | `system_exporters`, custom installers, the targets file | install, status, remove, toggles, Regenerate | the file is derived from rows that change while it is written | a row shows the last run; the file catches up, and what it lists is served |
| Vault (`secrets/`, `auth/rotate.go`, `legacy_migration.go`, `secretscan/`) | key files, the legacy key, sealed columns | boot, migration, `-rotate-keys`, the scan | a process that dies between two rows | no secret becomes unreadable; a repeated rotation finishes |
| Sealed rows (`credentials/`, channels of `notifications/`) | credential slots by scope, channels with their secrets | PUT, DELETE, Resolve | a PUT merges into a copy; a resolution reads three scopes | key pairs and secrets stay whole; the most specific scope wins |
| Cron and selectors (`schedules/cron.go`, `labels/selector.go`) | none | ParseCron, Next; the parser, Matches, SQL | boundaries, skipping, clocks that are changed, input that breaks off | agreement with what was written |
| Recipients and quiet hours (`notifications/`, the resolver of `main.go`) | policies, routing, subscriptions, roles | Emit over shared and personal channels, InQuietHours | one loop serves all owners, with early exits; windows over midnight | owners are independent; nobody is told of what they may not see |
| Audit log (`audit/`) | `audit_log` | insert, paged list, single read, clear | rows of one time, rows inserted with earlier times, clears that meet | a page walk skips nothing; a clear leaves its marker |
| Access scopes (`rbac/rbac.go`) | none; assignments come from the database | NewScope and the gates | a group looked at, and another written to | the gates are the guards of the models above |
| Settings, backup, SSH and scrape proxies, catalogues, ... | see "Not modelled" | | | |

Interaction: handlers and the schedule orchestrator call the updaters' Runner;
both Runners share the lock table; only check and apply pass the gate; the
evaluator hands batches of transitions to the dispatcher; dispatcher and flusher
share `notification_pending`; boot and drain see runs only through the database.
Handlers, the probe and exporter runs ring the event hub, which wakes browser tabs
and the writer of the targets file; runs resolve credentials, trusted host keys and
exclusions of the host they are on; every handler asks an access scope first.
The database has one connection, so that a statement (or a transaction) is
atomic and everything else interleaves.

## Modules

| Module | Models | State and actions against the code |
|---|---|---|
| `Semaphore` | nothing: the abstract promise of a gate | a set of holders and a ceiling that may move |
| `Gate` | `updaters/gate.go` | one action per critical section; `Acquire` is cut at its `select` and at the second `Lock` of the cancellation branch. `Signaled` are the callers whose channel is closed. Refines `Semaphore` |
| `ActionRuns` (extends `Gate`) | a run's life in `runner.go`, `handler.go`, both stores, `main.go` | `pc` is where a run's goroutine is; one action per SQL statement; for each statement whose failure the code survives, one that fails, which puts the run into `faulted`; boot, drain, crash, and the deletion of a system with its triggers |
| `HostRecords` | what a run reads and records about its host | the playbook is one action, and so is every statement after it, in the order of the code (`Statements`). The host and its administrator are environment. Two updaters, as on a Windows host with scoop and windowsupdate |
| `Schedules` | `schedules/ticker.go`, `orchestrator.go`, `sqlite_store.go` | the ticker's two statements, `Fire` cut at `TryLock`, each transaction and `Unlock`; operators at any moment |
| `Alerts` | `alerts/evaluator.go` and its store | a copy is read, then one statement per system; `ev` is one of `Loads`, `Reconciles` or, in `Notifications`, `Emits` |
| `Notifications` (extends `Alerts`) | `dispatcher.go`, `flusher.go`, `policy.go` | `Emit` per transition, `FlushPending` cut at the listing, the policy, each group and the delete. `pending` is a set of rows; their numbers are their order |
| `Accounts` | `auth/handler.go`, `admin_handler.go`, `middleware.go`, `session_store.go`, `oidc_handler.go`, `rbac/store.go` | `reqs` are requests at work, cut at each statement or transaction; `Boot` is the backfill |
| `SecondFactor` | `auth/totp_handler.go`, `totp.go`, the TOTP part of `store.go`, `honorTrustedDevice` | one account; a request carries what it read of the TOTP state |
| `Rbac` | `rbac/rbac.go` | scopes and gates as operators, shared by the modules below |
| `Inventory` (extends `Rbac`) | handlers and stores of `systems`, `groups`, `labels`, `hostkeys`, `exclusions` | `req[c]` is the request of a client between its read and its write, then between its write and its announcement |
| `FleetView` (extends `Inventory`) | `systems/probe.go`, `events/` | the probe cycle cut at its listing and at each host; one subscriber, a browser tab, which is external |
| `Monitoring` | exporter rows, catalogue deletions, `promtargets`, `scrape` | runs cut at lock, playbook and upsert, which may fail; the writer cut at each query and at the rename |
| `Vault` | `secrets`, `auth/sealed.go`, `rotate.go`, `legacy_migration.go`, `undecryptable.go` | one action per re-sealed row; a boot may die between any two; the operator moves the key files |
| `SealedStores` (extends `Vault`) | `credentials`, `secretscan`, channels' stores and handlers | PUTs cut at read, merge and write, the resolution at each scope |
| `Cron`, `Selector` | `cron.go` with `computeNext` of `sqlite_store.go`, `selector.go` | one action per iteration of `Next`, in the zone of the schedule, and per step of the parser |
| `QuietHours` | `policy.go` | the arithmetic of windows, minute by minute of a week |
| `Recipients` (extends `Rbac`) | `dispatcher.go`, `routing.go`, `subscription.go`, the subscriber resolver of `main.go` | `Emit` statement by statement, with its early exits and caches: `emit` is its local variables, `tables` what it reads |
| `AuditLog` (extends `Rbac`) | `audit/` | one page per action; `Clear` cut at its delete and its marker |
| `ActionRunsProofs` (with the gate's), `AccountsProofs` (with the audit log's), `SecondFactorProofs`, `SchedulesProofs` (with those of cron and selectors), `NotificationsProofs` (with those of quiet hours and recipients), `StoresProofs`, `FleetProofs` (with those of a host's records), `MonitoringProofs` | | the theorems |
| `MC*` | | bounds, fairness and history variables. `MCAccountAndHost` has `MCSecondFactor` and `MCHostRecords` side by side, which share nothing, and `MCAlgorithms` has five machines so |

Definitions named `X_y` before a definition `X` are plausible bugs of `X`, used
to show that the properties notice them.

Abstractions worth knowing:

* A run id, a package, a system is a model value. Log texts, audit events and
  platform facts are left out.
* In `Schedules` a cron expression is its set of fire times, in `Notifications`
  quiet hours are a flag that may flip at any time; `Cron` and `QuietHours` have
  the arithmetic. There always is a next fire time in `Schedules`; that the search
  for it may fail is `Cron`'s subject. `QuietHours` asks what the clock shows and
  reckons no instants, so that changed clocks show it nothing new. A threshold is
  the set of systems in breach.
* `releaseLocked` reads the limit once per iteration in the code and once per
  call in `Gate`. A save of the setting between two iterations of one call is
  therefore seen as coming before or after the call.
* `InsertRun` and `trimHistory` are one action: nothing reads run rows between
  the two but other runs' retention.
* `ActionRuns` lets the drain return at any time: the grace may pass.
* In `Schedules` the whole fan-out over hosts is one action with any outcome per
  host; what happens on the hosts is `ActionRuns` and `HostRecords`.
* `Accounts` takes passwords to match and leaves out the failed-login counters,
  the trust header and CSRF tokens; a user is an id, and ids are not reused. The
  look at the target of an administrator's request and the count of enabled users
  are one action: only the count decides, and it is read last.
* In `SecondFactor` a code is the pair of a secret and a 30-second step, so that
  codes of different secrets never coincide.
* `Notifications` has one owner with one channel. Shared and personal delivery
  run the same steps over their own policy and rows. `Recipients` has the owners,
  and only sends what was deferred, in one action.
* In `Cron` the calendar of package time is a constant, of which is assumed that
  each day is the next of its month or the first of one and that no year is longer
  than `DaysPerYear`. A zone is its standard offset, its summer offset and its
  summers. `TimeDate` is what package time does to find the instant of a clock
  reading: it looks an offset up twice, and of an hour shown twice answers the first
  showing west of Greenwich and the second one east of it. Expressions are sets of
  terms, not characters. `Selector` reads tokens; the empty value has a name, and
  so has what a system has at a key (`LabelValues`).
* In `Vault` a key is its version and a sealed column the version it is tagged
  with: the cipher is perfect. A key pair is the number of its generation.
* Audit times are the days that `Clear` counts; ids are arbitrary and unique.
* `Monitoring` keeps of the advisory lock only that it separates runs of a host.

## Runs

| Run | Instance | Shows |
|---|---|---|
| `gate` | 4 callers, settings 0 (default 3), 1, 2, two moves of the limit | `NoSlotLeak`, `QueueServed`, `HandOffInOrder`, refinement of `Semaphore`, `EveryAcquireReturns` |
| `action_runs` | 3 runs (2 HTTP, 1 scheduled), 2 hosts, retention 1; one crash and one failed statement, or one deleted host | `OneRunPerHost`, `TablesAgree`, `HostUsableAgain` |
| `account_and_host` | two machines, of which a behaviour runs one. Account: two requests, one device, one recovery code per enrolment, two secrets, two enrolments, two steps of the clock, one reset. Host: one package, two updaters; no bound on steps | `SecondFactorInv`, `CodeWorksOnce`, `TrustEndsWithReset`; `RecordsInv`, `ExclusionsHonoured`, `ForeignHoldsSurvive` |
| `schedules` | one schedule, fire times 2, 5, 9, clock to 5, grace 1, two goroutines, two hosts, one crash or failed statement | `SchedulesInv`, `NoCatchUpSpike`, `RunningRowsAreLive`, `DueIsSettled` |
| `alerting` | one system, For 1, clock to 2, two transitions, one fault or edit | `AlertingInv`, `FiresOnlyAfterFor`, `DeferredRowsHandledOnce`, `PendingIsReleased` |
| `accounts` | two users, two sessions of which one may expire, two requests, provisioning on; any subset of the users at the first boot; any number of crashes and failing statements | `AdminRemains`, `RevokedStaysRevoked` |
| `inventory` | two systems, two groups, a global and a group administrator, one tab with a buffer of 1, thresholds 1 and 2, two stimuli | `FleetInv`, `TrustedKeysWereReviewed`, `NewSystemsAreProbed`, `TabCatchesUp` |
| `monitoring` | two systems, a built-in and a custom exporter, two runs, a buffer of 2, two stimuli | `MonitoringInv`, `FileCatchesUp` |
| `vault` | two users' TOTP columns, two keys, one death of a boot; two administrators' requests on three scopes and a channel, and one resolution | `TOTPSecretsAreKept`, `StoresInv`, `RotationConverges` |
| `algorithms` | five machines, of which a behaviour runs one; see below | `FiresWhenWritten`, `SelectsWhatIsWritten`, `QuietHoursAreTheWindows`, `OwnersAreIndependent`, `ToldOfTheirOwn`, `ReadersSeeTheirRows`, `ClearIsOnRecord` |
| `rotation` | as `vault` | violated: a rotation that reports success re-seals TOTP secrets only |
| `autumn` | as the cron part of `algorithms`, in a zone west of Greenwich | violated: `OnlyPathologicalFail`, that Next fails only if four years hold no time that is named |

Some of these are conjunctions of named parts, each stated with its reason where
it is defined: `QueueServed` (the queue is never stranded, and slots idle beside
it only after a raise), `TablesAgree` (types, lock ownership, no orphaned lock or
row, slots for locked hosts), `RecordsInv`, `SchedulesInv` (no overlapping fires;
a next time exactly when enabled), `AlertingInv`, `DeferredRowsHandledOnce`,
`SecondFactorInv`, `FleetInv` (no orphaned rows, status against probe history,
stale tabs will be told), `MonitoringInv` (rows show the latest run, a stale file
will be written, targets are served), `TOTPSecretsAreKept`, `StoresInv` (key pairs
whole, most specific scope, secrets of the right transport, explained refusals),
`FiresWhenWritten`, `SelectsWhatIsWritten`, `ReadersSeeTheirRows`. The type
invariants `GateTypeOK` and `Accounts!TypeOK` are proved and not run.

The inputs of `algorithms`: for cron (`MCCron`), hours of two minutes, days of three hours,
weeks of three days, a calendar (`MCCalendar`) with years of nine days in three months
and a leap day every other year, so that every carry happens and a day that never comes is soon known;
fields with stars, steps, lists, ranges, the alias of the last weekday and values
out of range; UTC, a zone west and one east of Greenwich that skip an hour in
spring and repeat one in autumn, and one that skips a midnight, as Havana does;
starts before and between the changes. For selectors, all inputs of at most four tokens and all that go on
with up to four from an open list, over identifiers of which one is no legal key
(`LegalKeys`, `ValidateKey`); sentences of one requirement with lists of two. For quiet hours, one or two windows over weeks
of three days of four minutes: a week has a day that is neither yesterday nor
tomorrow's. For recipients, two users in one group's world, two shared and two
personal channels, a batch of two and one edit or failing statement, so that the
second transition meets what the first one cached. For the audit log, three rows
of one time, two inserts, two clears, pages of one or two rows and one change of
scope; whoever clears may be another than the reader.

Why the bounds are enough. The gate's interesting races need a holder, a waiter
that cancels, a waiter behind it and a newcomer. Two runs meeting on a host, with
a third competing for the slot, give every combination of lock, gate and retention;
the second host is there so that the slot, and not the lock, is what they wait
for. Crashes and faults are bounded because each only repeats the others'
effect on the tables; the theorems have no such bound. One package suffices for
the hold records because every set in `HostRecords` is built pointwise, except
for the order of the two loops in `ApplyFails`. The schedule's occurrences are
farther apart than the grace so that a fire can be missed, and one lies beyond
the clock so that a next one always exists. Two requests suffice for the races of
check and write in `Accounts` and `SecondFactor`, since each concerns two
administrators, or one login and one reset; a second session is the one a
password change keeps. Two stimuli in `inventory` and `monitoring` are a change and
whatever it may race (another request, a probe cycle, a reconnect, a failing
query); a tab's buffer of one and the writer's of two are the least at which an
event is dropped while another is queued. One death of a boot leaves every prefix
of rows done; a second only shortens the rest. Deadlock is not checked where the
instance runs out of runs, time or transitions.

Fairness. A goroutine that can move moves, since mutexes are never held across a
wait; a playbook ends; the ticker and the flusher loop; a service manager
restarts a dead server (`deploy/` ships it as a restarting container). Requests,
cancellations, edits, signals, crashes and failures are never obliged to happen.
In `FleetView` and `Monitoring` the probe loop, a handler past its write, the
stream handler, the tab's fetch and the writer move on; nobody is obliged to
connect. In `Vault` a boot that is running moves on, an operator who has installed
a new key beside the old one stops the server and runs `-rotate-keys` until it
exits with 0 (strong fairness: boots of the other kind may come in between), as
`docs/installation.md` tells them to.

## Proofs

`ActionRunsProofs` begins with the gate on its own and proves, for any finite set of
callers, any settings and any default limit, that it is type correct, leaks no slot, strands no queue, hands over
in order and implements `Semaphore`. The inductive invariant is

    Inv == GateTypeOK /\ QueueWellFormed /\ NoSlotLeak /\ Served

`NoSlotLeak` alone is not inductive: that a caller leaving the queue owned no slot
needs the queue to be free of duplicates and of callers outside `Acquire`
(`QueueWellFormed`), and `Served` (a non-empty queue has an owner ahead) rests on
`releaseLocked` admitting somebody whenever the last owner goes, which is where
the fallback for a limit below 1 matters. `QueueServed` adds, with the history of
`MCGate`, that a slot idles beside a waiter only after a raise: a `Release`, or a
cancellation that forwards its slot, leaves either no free slot or no waiter
(`GiveUpFillsSlots`), and no other step frees one. The assumption is `GateAssumption`.

Of the runs it then proves, for any number of runs, hosts, retained rows, crashes,
deletions and failing statements, the type invariant, `OneRunPerHost`,
`LockedRunsOwnTheirLock`, `NoOrphanLock`, `NoOrphanRow`, `SlotsAreForLockedHosts`,
together `TablesAgree`, and, again, `NoSlotLeak` in the runner's company. The invariant is

    Sound == Inv /\ RunTypeOK /\ LockedRunsOwnTheirLock /\ NoOrphanLock /\ NoOrphanRow
             /\ LiveNeedsServer /\ HalfReconciled /\ LocksNameRuns /\ GatePlaces

Exclusion follows from lock ownership. Ownership survives the wipe of the lock
table at boot only because no goroutine outlives its process (`LiveNeedsServer`);
that no lock or row is orphaned after boot needs what the first of the two
reconciliations has done when the second begins (`HalfReconciled`); and
`GatePlaces` ties a run's place in the gate to its place in its own course. The
assumption is `ActionRunsAssumption`.

`AccountsProofs` proves for any users, sessions and requests the type invariant
(which says that roles and flags speak of existing users), `AdminRemains` and
`RevokedStaysRevoked`. The last admin survives `Delete` and `Revoke` because they
count inside their transactions; it survives `Boot` only because of `Backfilled`
(the marker is there before the first request, and there are no roles before the
marker). The assumption is `ConstantsAssumption`.

`SecondFactorProofs` proves for any requests, devices, codes and bounds
`SecondFactorInv`, `CodeWorksOnce` and `TrustEndsWithReset`. `EnrolmentIsWhole` is
not inductive alone: `Activate` writes the copy it took when the code was
confirmed, so the invariant adds that such a copy is a secret (`ConfirmedSecrets`).
The two action properties speak of history, and so does their invariant

    HistoryInv == TypeOK /\ StampsAgree /\ UsedAreBehind

Every request that carries an epoch, and every device's row, is stamped with the
epoch it read and the number of resets then; `StampsAgree` says that one epoch has
one number of resets, because both are counted up in one transaction. A device is
honoured when its epoch is the account's, hence when its stamp is. `UsedAreBehind`
(a consumed code is not ahead of `totp_last_step`) is what makes the conditional
UPDATE of `ConsumeStep` enough. Assumptions: `BoundsAssumption`, and
`TableAssumption` (requests and devices are different things).

`SchedulesProofs` proves for any schedules, fire times, grace, systems and number of
goroutines `SchedulesInv`, and with the history of `MCSchedules` `NoCatchUpSpike` and
`RunningRowsAreLive`. What the run checks, that a mutex is held exactly when one
fire is past dispatch, is not inductive: the invariant names the holder from both
sides (`FiresHoldTheirMutex`, `MutexesHaveHolders`). `rows` counts, and a count is a
`Cardinality`; `RowsFollowFires` says the same by the mutex, one row or none.
`NothingOlderThanGrace` extends `NoCatchUpSpike` to every enabled schedule between the
ticker's two statements, since operators and fires write rows in that gap: what
they write is later than the tick, because `computeNext` is
(`LeastNatural`: its CHOOSE has a least element to find). `SchedulesAssumption` has
a fire time beyond the clock's bound, so that a next one exists.

There too, for any calendar, zones, expressions and starts, `FiresWhenWritten`: the
search of `CronSchedule.Next`, which jumps over months, days and hours of what the
zone's clocks show, answers a time that the expression names, passes none, and gives up
only when four years hold none. It does so up to a time n as long as the clock keeps
time from the midnight before the start to n (`KeepsTime`): it goes minute by minute,
may skip hours but not a midnight, and may show an hour again, if `time.Date` answers
the second showing. That is so of all of UTC, of a spring in any zone that keeps its
midnights and of an autumn east of Greenwich. Where it is not so the property says
nothing, and the run `autumn` shows what may happen. The invariant is

    CronInv == /\ CronTypeOK
               /\ Started => \A n \in Instants : Promise(n) => Goes(n, t, iter)
               /\ cronPc = "found" => Matches(Shown)
               /\ cronPc = "failed" => iter = MaxIter

`Promise(n)` says that n is named and the clock keeps time until then, and `Goes` that
the search has not passed it and has gone round no more often than what the clock shows
accounts for (`RoundsTo`), which is why the limit of `4*366*24` rounds, counting
iterations and not years, is enough. In the first hour a round is a minute. After it, the
search looks into a day only if the day fits, and into an hour only if the expression names it
(`Settled`); a legal field names something (`FieldInRange`), so that on the way to n it
cannot leave such an hour without having found a time. Hence a day costs a round, or as
many as it has hours but one. Under `Regular`, which is `KeepsTime` from the midnight
before on, days and hours are passed in order, every day is found by its midnight, and
`startOfNextHour` gets past its hour (`InOrder`, `MidnightIsFound`, `HourEnds`).
`FiresOnPosixDays`, and that what is found is named, need no such condition.
`CalendarAssumption` is what is used of package time; `SearchAssumption` has the types
of the inputs and the arithmetic that makes the limit enough (60 minutes against the
`2*366` hours that four years have more than the days need).

And, for any identifiers and any set of inputs, `SelectsWhatIsWritten`. Two invariants:

* `SelInv`: what the parser has consumed is what it has understood, written out:
  `SubSeq(toks, 1, pos)` is the text of the requirements it has (`Start`), then of the
  piece of the next that its place in the grammar says it has (`Piece`). At the end of
  the input nothing else is left. `InList` carries an open parenthesis to a panic.
* `AcceptInv`, for what is not refused, goes the other way: in a sentence of the grammar
  the place in the grammar determines the place in the text (`OnTrack`). In a list that
  is behind some number of its values, or behind the comma after them (`AfterItem`,
  `BeforeItem`). It holds for lists of every length, of which `Sentences` bounds the run's.

Both need `Joins`, texts joined by commas, defined by recursion on how many. That its
equation has a solution is proved by the least length that would have none
(`JoinsSolve`), what the solution is like by the least place where it would be
otherwise (`JoinsAreTexts`, `JoinsAgree`, `JoinsKeep`). `SelectorAssumption` has
identifiers and signs be different tokens.

Of the audit log `AccountsProofs` proves, for any rows, readers, scopes, filters and
page sizes, `ReadersSeeTheirRows` and `ClearIsOnRecord`. The invariant is

    AuditIInv == LogOK /\ ClearIsMarked /\ WalkKeepsUp

A page is what SQL's `ORDER BY ... LIMIT` gives, which the model says by counting:
the row at place i has i - 1 rows before it. That such a sequence exists, has no
duplicates and misses no row (`EveryPlaceIsTaken`) follows from the order's being
total, on which the second key of the ORDER BY bears. `WalkKeepsUp` is why nothing is
lost between two pages: a row listable all the time has been listed or still
satisfies the WHERE of the next page, because the cursor is the last row of the page
and everything before it was on it. `ClearIsMarked` says of a clear between its two
statements that the marker is its own to write. The assumption, `AuditLogAssumption`,
is of limits, roles and rows as the schema has them.

`NotificationsProofs` proves for any finite set of systems, any For and any bounds
`AlertingInv`, `FiresOnlyAfterFor` and `DeferredRowsHandledOnce`. The invariant is

    IInv == TypeOK /\ HistoryOK /\ SinceFollowsClear /\ TableIsAnnounced
            /\ RowsAreNumbered /\ HandedIsDone

* `AnnouncedMatchesInstances` speaks of the moments between evaluations only.
  `TableIsAnnounced` says of an evaluation under way what will have been announced
  once its batch is out (`LastKind` looks past the transitions still to dispatch),
  and that the rows it has not reached are as it has read them.
* `FiresOnlyAfterFor` needs the age of pending instances: none is older than the last
  time its system was found healthy, in the table and in the evaluation's copy
  (`SinceFollowsClear`). The copy may be stale, since an edit of the rule deletes
  instances under it, but it is never older than that.
* `HandedIsDone`: what was sent is out of the table, or marked by the flush that is
  about to delete it; a row deferred in the meantime has a number of its own
  (`RowsAreNumbered`). `Newest` is a CHOOSE over a set of numbered rows; `NewestIsThere` finds the
  row by the well-foundedness of their ages.

The assumptions are `AlertsAssumption`, `NotificationsAssumption` and `NoneAssumption`
(the absent value is none of the records).

It proves `QuietHoursAreTheWindows` for weeks and days of any length and any windows
the validation admits: the code looks at today's and yesterday's mask, the property
at every day a window may have started on. The work is arithmetic modulo the week
(`Remainder`, `DaysAgo`, `OfTheDay`): only a window of yesterday or today can reach a
minute, because none is longer than a day. The assumption is `QuietAssumption`.

And of the recipients, for any users, groups, channels, roles, subscriptions, length
of the batch, number of edits and failing statements:

* `ToldOfTheirOwn`, by `ToldIInv == RecipientsTypeOK /\ EmitOK /\ KnownOK /\ ToldOK`. That a
  user could read a group of the system at some moment of the batch is known once
  the resolver has let them through (`KnownOK`), and stays known, since `could` and
  `was` grow; the rest is that whoever has been sent something was let through.
* `OwnersAreIndependent`, by `OwnersIInv == RecipientsTypeOK /\ EmitOK /\ SharedOK /\ \A u :
  UserOK(u)`. For an owner not disturbed so far, `SharedOK` and `UserOK` say that each
  cached policy, channel list and routing is what the tables say, that where `Emit`
  stands agrees with the mode it computed, and that every transition has been
  delivered as the settings say (`Delivered`) or not at all yet (`Untouched`),
  depending on whether `Emit` has passed the owner. Every edit leaves alone what the
  owners it does not disturb have set (`EditsSpare`), every failing statement
  disturbs the owners it may harm, and every step serves one owner. It is stated
  without a word on the flusher, which only takes from `deferred` after the clock
  has turned or the windows were edited.

The assumption, `RecipientsAssumption`, is that owners and groups are distinct and that
a batch is not empty.

`StoresProofs` proves `TOTPSecretsAreKept` for any users, keys, crashes and writes, and
`StoresInv` for any clients and channels. For the vault the invariant says what
a boot that is under way has still to do: what the old key seals is on the work list
of the column it is at, or in the column that comes next (`MigrationProceeds`,
`RotationProceeds`); that is why it is safe to delete the key after the last one,
wherever an earlier boot died. For the stores, a request between its read and its
write carries a row as whole as the ones stored (`RequestsAreWhole`). For the
resolution, `WalkFollows` says what it has gathered from the scopes it has passed, as
long as no write stirred them. The assumption is `VaultAssumption`.

`FleetProofs` proves `FleetInv` and `TrustedKeysWereReviewed` for any fleet, groups,
labels, roles, thresholds, number of clients and capacity of the event channel:

    IInv == TypeOK /\ NoOrphanedRows /\ Keys /\ Streaks /\ StatusFollowsProbes
            /\ UnusedIsFresh /\ SyncedIsSubscribed /\ StaleTabWillBeTold

* `StatusFollowsProbes` compares a column kept by two counters with a definition
  over the whole history of results. It follows from `Streaks`: the counters are
  the lengths of the latest run of successes and of failures. A result that is
  appended decides exactly when the counter reaches its own threshold
  (`CounterDecides`), and leaves every earlier decision as it was
  (`StatusAfterResult`), so thresholds may change between cycles.
* `UnusedIsFresh`: a row that is created starts with no results, since ids are not
  reused.
* `Keys` gives host keys their identity: ids are unique and below the counter, and
  the row a scan is about to rewrite by id, if an operator accepted it in the
  meantime, is one of `raced`. Without it nothing is known of the row `RecordPending`
  updates.
* `StaleTabWillBeTold` is kept because whoever changes what a list shows goes to
  "announce" in the same step (`FleetWritten`), a status change marks the cycle,
  and a send that is dropped is dropped at a channel that is not empty. For
  `Subscribe` it needs `SyncedIsSubscribed`: a tab fetches again once its stream is
  live before it counts as synced.

The proof is by who writes what: handlers that write the fleet, handlers that write
keys, and steps that leave the tables alone, each once (`WritesKeepTables`,
`KeyStepsKeepTables`, `TablesStay`), and the conjuncts they may disturb under them.
`InventoryAssumption` says that ids are not the absent row and that there is at
least one system, group, name and fingerprint to begin with; `FleetViewAssumption` that
thresholds and the capacity are positive.

Of one host's records `FleetProofs` proves for any set of packages `RecordsInv`,
`ExclusionsHonoured` and `ForeignHoldsSurvive`. While an apply is under way
`managed_holds` is behind the host, so the invariant says place by place what stands
in for it (`RunIsTold`): the list the apply was given before the playbook, the
exclusions it is about to record after one that succeeded. It needs to know which
statements are left (`HoldsAreLast`). `Excluded` is the other half of the history:
nothing is held for, recorded or about to be lifted that was never excluded. The
assumption, `RecordsAssumption`, is that the absent run is not a run.

`MonitoringProofs` proves `MonitoringInv` for any systems, installers, labels, runs and
capacity of the event channel. The invariant is

    IInv == Types /\ RowsInv /\ FileInv

* Rows: between a playbook and its upsert no other run of the host has one, because
  a run at work on a host that still exists has its lock (`LocksAreHeld`, `Alone`);
  hence what it is about to store is what was last observed there
  (`ResultsAreObserved`). A host that is deleted takes its lock with it, and two runs
  may then overlap: the clauses speak of live hosts only, and a host never comes back.
* File: `StaleFileWillBeWritten` is not inductive, since it says nothing of what a
  regeneration under way will write. `ReadingIsFresh` does: what it has read is what
  the tables say now, or a query failed, or there is a `Signal` (an event sent or
  about to be, a full pending channel, a run about to end, an event counted as missed)
  that makes the writer read again. `FileKept` covers every step of the others in one
  argument: a signal stays one, and who changes hosts or rows raises one.
* Targets are served because runs and rows are of installers that are known
  (`OnlyKnown`), and a deleted one stays known.

`MonitoringAssumption` says that the two kinds of installers are disjoint, that there
is a label, that the absent row and run are none, and that the channel has room.

History variables are no obstacle: `MCGate`, `MCSchedules`, `MCHostRecords`,
`MCNotifications` and `MCSecondFactor` add them to the specification they extend, their
step implies a step of that specification, and the bounds in their guards are constants like any other.

What stays with TLC:

* All liveness (`EveryAcquireReturns`, `HostUsableAgain`, `DueIsSettled`,
  `PendingIsReleased`, `NewSystemsAreProbed`, `TabCatchesUp`, `FileCatchesUp`,
  `RotationConverges`): the prover does not reach fairness.
* `RotationResealsEverySecret` and `OnlyPathologicalFail`, which are violated.

Every safety property of the passing runs is proved. Where a proof is an induction over
data, it is put as a least or a last element of a set, for which the well-foundedness
of inclusion on finite sets or of the naturals serves (`LeastNatural`, `LastPosition`,
`NewestIsThere`, `SameMonth`, `JoinsSolve`).

## Findings

The violated run `rotation` is a disagreement between the code and three of its
documents; the quotations are in `PROJECT.json`. `runRotate`
(`auth/rotate.go:106`) knows the two TOTP columns and reports success while SSH
keys and channel secrets are still sealed under the outgoing key.

The violated run `autumn` is a bug. `startOfNextHour` (`cron.go:239`) rebuilds the full
hour with `time.Date` in the operator's zone and adds an hour. Of an hour shown twice
`time.Date` answers the first showing where the zone is west of Greenwich, so that in the
second showing the step comes back to where it was, and `Next` spins until its limit. In
America/New_York `0 3 * * *` fails from 03:00 of the day before the autumn change until
the second hour of 01:00 is over. The comment at `cron.go:173-176` has real schedules resolve within a year. What
follows: `RecordRunFinish` rolls back (`sqlite_store.go:287-289`), so the run's row stays
running and the schedule due, which the ticker fires again; and `ReconcileMissed` returns an
error for every schedule (`sqlite_store.go:412-414`). `Schedules` takes `computeNext` to succeed and does not
show these; a failing statement of the same transaction, which it has, has the same effect.
By the same arithmetic a zone that skips a midnight holds up `startOfNextDay` and
`startOfNextMonth`, and one whose change is not of an hour, or is not at a full hour, can make the search
pass a time: `KeepsTime` leaves such changes out, as it does every autumn in the west.

The rest was found with these models and has no run of its own. Against a comment
or a document:

* A scheduled reboot takes no advisory lock (`schedules/reboot.go:80`) and can hit
  a host where a playbook runs; `orchestrator.go:75-77` counts on the lock.
* `aErr == nil` (`updaters/runner.go:469`) does not mean that the host was reached:
  a transport failure clears the pending packages and the reboot hint, which
  `runner.go:466-468` and `481-482` mean to avoid.
* The collapse of deferred notifications (`flusher.go:114`) ignores their order:
  fired, resolved, fired is dropped in silence, against `flusher.go:20-21`.
* The backfill of roles (`rbac/store.go:97`) runs before the setup user of a fresh
  install exists and never again, so that nobody is a global Admin, against
  `rbac/store.go:82-84`.
* `RecordHolds` (`updaters/runner.go:531`) stores the whole exclusion list, also
  packages the administrator had on hold before; when the exclusion goes, so does
  that hold, though `holds/holds.go:9-11` means to leave such holds alone.
  `ForeignHoldsSurvive` is what does hold: packages nobody ever excluded are safe.
* A pinned system that was deleted counts as success, where
  `schedules/targets.go:57-58` speaks of a failure tally.
* Users who disable each other at the same time leave nobody enabled: the count of
  `auth/admin_handler.go:221` and the update are two statements, and
  `auth/store.go:283-285` means to refuse that.
* Personal rows that were deferred go out without another look at what their owner
  may see (`main.go:1150-1153` and `1252-1255` put the look at the time of sending).
  `ToldOfTheirOwn` therefore speaks of what could be read during the batch.
* `*/2` in a day field sets the starred flag (`cron.go:210-223`, `114-116`), so that
  `0 3 */2 * *` fires every day; and the "4-year limit" of `cron.go:171-177` counts
  iterations. `FiresOnPosixDays` excludes stepped stars.
* `parseValueList` peeks past the end of an input that breaks off after a comma
  (`selector.go:403-404`), and the comment at `401-402` has a `)` there be an empty
  value. `selector.go:45-48` says that the store uses `SQL`; only tests do.
* `credentials/sqlite_store.go:50` ("no orphan window exists"): a PUT that looked its
  scope up before the deletion can still insert for it.

Behaviour no document speaks about:

* `RecordPending` updates by id (`hostkeys/sqlite_store.go:200`) and rewrites a row
  that an Accept has just promoted; `TrustedKeysWereReviewed` names that exception.
  The deletion of a trusted key is audited as a rejection.
* A move writes the group it looked up before, so that a system can end in a group
  that is gone; moves and deletions are authorised on the group read first.
* A PUT of credentials merges into the row it read: a concurrent PUT is lost, a key
  deleted meanwhile comes back, and an UPDATE of a row that is gone answers 200. A
  channel's update can bring a replaced secret back. The scan of unreadable secrets
  does not look at channels.
* `GetRouting` reads mode and ids in two statements; a save of "all" in between
  yields "selected" with no ids, and the message goes nowhere. `SetRouting` takes
  unknown ids. A failing `ListEnabled` of the shared channels drops personal
  deliveries as well.
* The hub's channel of the targets writer fills up with events it ignores, and
  `systems.changed` is then dropped (`hub.go:90`, `promtargets.go:215`). A host whose
  query fails is left out of the file, and neither that nor a failed write is
  retried before the next event. A soft-deleted custom installer stays in the file.
* `setPlatform` rings no event; the stream's headers are out before it subscribes
  (`events/handler.go:37-39`). `StaleTabWillBeTold` allows for both.
* An exporter run's late upsert recreates a row after the host's deletion.
* A clear of the audit log whose process dies before its marker leaves none.
* A hint cleared by a reboot that raced an apply, or by an updater that knows nothing
  about reboots; a disabled updater that comes back enabled; one occurrence fired
  twice; exit code 0 of refused runs; detached sends that arrive in another order;
  retention that counts rows of every kind.

## Plan

1. Composition: `Schedules` driving `ActionRuns` for the fan-out; an abstract
   specification of a host's lock as a mutex that `ActionRuns` implements.
2. Authentication, what is left: lockout and throttle counters.
3. Properties still missing: `lastFailed` against the status of the last run, the
   meaning of the reboot hint.

## Not modelled

* Input and output without a protocol of their own: backup, the scrape and SSH
  proxies, the senders of notifications, the Prometheus client, the embedded web
  application, the OpenAPI document, logging. What they can do to the modelled
  parts is a step that fails.
* Static data and CRUD of single rows: the updater and alert catalogues, settings,
  dashboard layouts, the enforcement of metrics settings. Settings the models
  depend on are constants or environment actions (`SetLimit`, thresholds).
* Pieces of modelled packages: parsing of playbook output, wire formats of keys,
  validation of addresses and names, message texts, the delivery log, CSRF tokens,
  the trust header, the throttle of failed logins. They decide a branch the models
  take either way.
* Wiring: `main.go` beyond boot, drain, shutdown, the resolver of subscribers and
  the hooks; the router; the in-memory stores the tests use.
