------------------------------ MODULE FleetView ------------------------------
(***************************************************************************)
(* What keeps an open dashboard true: the reachability prober              *)
(* (internal/systems/probe.go), the event hub and its SSE handler          *)
(* (internal/events), and one browser tab, composed with the handlers of   *)
(* Inventory.  Events are doorbells without data: the tab refetches        *)
(* GET /api/systems when one arrives.  The tab itself is external: it      *)
(* fetches once its stream is open and after every event.                  *)
(***************************************************************************)
EXTENDS Inventory, Sequences

CONSTANTS
    Watcher,       \* the user of the open tab
    Buffer,        \* capacity of a subscriber's channel (16 in the code)
    FailThresholds,\* values probe_failure_threshold is set to
    SuccThresholds \* values probe_success_threshold is set to

ASSUME FleetViewAssumption ==
    /\ Watcher \in Clients
    /\ Buffer \in Nat \ {0}
    /\ FailThresholds \cup SuccThresholds \subseteq Nat \ {0}

VARIABLES
    mode,       \* of the process: serving, stopping (runCtx done), closed
    trigger,    \* is the prober's trigger channel full?
    tick,       \* the probe cycle under way
    history,    \* observer: history[s], the probe results stored for s
    stream,     \* the tab's SSE request: none, open (headers sent), live
    queue,      \* events in its subscriber channel
    fetching,   \* has the tab a fetch to make?
    view,       \* what the tab shows
    synced      \* observer: fetched since the subscription

probeVars == <<trigger, tick, history>>
tabVars == <<stream, queue, fetching, view, synced>>
vars == <<inventoryVars, mode, probeVars, tabVars>>

\* Cycles of the ticker, connections and the shutdown count against the
\* bound as requests do.
Stimulus == started < MaxStimuli /\ started' = started + 1

-----------------------------------------------------------------------------
\* The event hub

\* A non-blocking send: a full channel drops the event.
Broadcast ==
    queue' = IF stream = "live" /\ queue < Buffer THEN queue + 1 ELSE queue

\* The last calls of a handler that changed the fleet.  The send to the
\* prober does not block either: a trigger already waiting is enough.
Announce(c) ==
    /\ req[c].op = "announce"
    /\ trigger' = (trigger \/ req[c].trigger)
    /\ Broadcast
    /\ req' = [req EXCEPT ![c] = Idle]
    /\ UNCHANGED <<fleet, keyTable, exclusions, started, mode, tick,
                   history, stream, fetching, view, synced>>

-----------------------------------------------------------------------------
\* The prober

NoTick == [on |-> FALSE]

Cycle(failT, succT) == [on |-> TRUE, todo |-> Live, failT |-> failT,
                        succT |-> succT, changed |-> FALSE]

\* One cycle starts: from the ticker, or from the trigger, which it empties.
\* The systems and the thresholds are read once for the whole cycle.
TickStart(byTrigger) ==
    /\ mode = "serving"
    /\ ~tick.on
    /\ IF byTrigger THEN trigger /\ UNCHANGED started ELSE Stimulus
    /\ trigger' = (trigger /\ ~byTrigger)
    /\ \E failT \in FailThresholds, succT \in SuccThresholds :
         tick' = Cycle(failT, succT)
    /\ UNCHANGED <<fleet, keyTable, exclusions, req, mode, history, tabVars>>

\* Mutant: a success does not end the streak of failures.
UpdateProbe_keepsStreak(h, ok, failT, succT) ==
    LET failures  == IF ok THEN h.failures ELSE h.failures + 1
        successes == IF ok THEN h.successes + 1 ELSE 0
    IN  [h EXCEPT !.failures = failures, !.successes = successes,
                  !.status = IF ok /\ successes >= succT THEN "reachable"
                             ELSE IF ~ok /\ failures >= failT
                                  THEN "unreachable" ELSE h.status]

\* The store's transaction on one result.
UpdateProbe(h, ok, failT, succT) ==
    LET failures  == IF ok THEN 0 ELSE h.failures + 1
        successes == IF ok THEN h.successes + 1 ELSE 0
    IN  [h EXCEPT !.failures = failures, !.successes = successes,
                  !.status = IF ok /\ successes >= succT THEN "reachable"
                             ELSE IF ~ok /\ failures >= failT
                                  THEN "unreachable" ELSE h.status]

\* Mutant: a worker whose row is gone returns without wg.Done.
ProbeHost_noDone(s, ok) ==
    /\ tick.on
    /\ s \in tick.todo \cap Live
    /\ LET new == UpdateProbe(hosts[s], ok, tick.failT, tick.succT) IN
       /\ hosts' = [hosts EXCEPT ![s] = new]
       /\ history' = [history EXCEPT ![s] = Append(@,
                        [ok |-> ok, need |-> IF ok THEN tick.succT
                                             ELSE tick.failT])]
       /\ tick' = [tick EXCEPT !.todo = @ \ {s},
                               !.changed = @ \/ new.status # hosts[s].status]
    /\ UNCHANGED <<groups, used, labels, keyTable, exclusions, req, started,
                   mode, trigger, tabVars>>

\* A worker has dialled s and stores the result; a row deleted since the
\* cycle began answers ErrNotFound.
ProbeHost(s, ok) ==
    /\ tick.on
    /\ s \in tick.todo
    /\ LET new == UpdateProbe(hosts[s], ok, tick.failT, tick.succT)
           gone == s \notin Live
       IN
       /\ hosts' = IF gone THEN hosts ELSE [hosts EXCEPT ![s] = new]
       /\ history' = IF gone THEN history
                     ELSE [history EXCEPT ![s] = Append(@,
                             [ok |-> ok, need |-> IF ok THEN tick.succT
                                                  ELSE tick.failT])]
       /\ tick' = [tick EXCEPT !.todo = @ \ {s},
                               !.changed = @ \/ (~gone /\ new.status #
                                                         hosts[s].status)]
    /\ UNCHANGED <<groups, used, labels, keyTable, exclusions, req, started,
                   mode, trigger, tabVars>>

\* Mutant: triggers that came in during the cycle are drained at its end.
TickEnd_drains ==
    /\ tick.on
    /\ tick.todo = {}
    /\ IF tick.changed THEN Broadcast ELSE UNCHANGED queue
    /\ tick' = NoTick
    /\ trigger' = FALSE
    /\ UNCHANGED <<inventoryVars, mode, history, stream, fetching, view,
                   synced>>

\* The last worker is done: one event if any status changed.
TickEnd ==
    /\ tick.on
    /\ tick.todo = {}
    /\ IF tick.changed THEN Broadcast ELSE UNCHANGED queue
    /\ tick' = NoTick
    /\ UNCHANGED <<inventoryVars, mode, trigger, history, stream,
                   fetching, view, synced>>

\* ctx.Done while systems wait for a worker: the cycle returns without its
\* event.
TickAbort ==
    /\ tick.on
    /\ mode # "serving"
    /\ tick.todo # {}
    /\ tick' = NoTick
    /\ UNCHANGED <<inventoryVars, mode, trigger, history, tabVars>>

-----------------------------------------------------------------------------
\* The tab

\* GET /api/systems with GET /api/groups: the rows the caller may read.
List(c) ==
    LET rows == {s \in Live : CanReadSystem(scope(c), hosts[s].group)}
    IN  [systems |-> {<<s, hosts[s].group, hosts[s].status>> : s \in rows},
         labels  |-> {l \in labels : l[1] \in rows}]

\* The handler sends its headers and flushes them, and subscribes next.
Connect ==
    /\ stream = "none"
    /\ Stimulus
    /\ stream' = "open"
    /\ fetching' = TRUE
    /\ UNCHANGED <<fleet, keyTable, exclusions, req, mode, probeVars, queue,
                   view, synced>>

\* A closed hub hands out a closed channel, which ends the request.
Subscribe ==
    /\ stream = "open"
    /\ stream' = IF mode = "closed" THEN "none" ELSE "live"
    /\ UNCHANGED <<inventoryVars, mode, probeVars, queue, fetching, view,
                   synced>>

Receive ==
    /\ queue > 0
    /\ queue' = queue - 1
    /\ fetching' = TRUE
    /\ UNCHANGED <<inventoryVars, mode, probeVars, stream, view,
                   synced>>

Fetch ==
    /\ fetching
    /\ fetching' = FALSE
    /\ view' = List(Watcher)
    /\ synced' = (stream = "live")
    /\ UNCHANGED <<inventoryVars, mode, probeVars, stream, queue>>

\* The connection breaks: Unsubscribe, and what was queued is lost.
Unsubscribe ==
    /\ stream # "none"
    /\ stream' = "none"
    /\ queue' = 0
    /\ synced' = FALSE
    /\ UNCHANGED <<inventoryVars, mode, probeVars, fetching, view>>

-----------------------------------------------------------------------------
\* Shutdown: the signal cancels runCtx, and after the drain the hub closes.

Stop ==
    /\ mode = "serving"
    /\ Stimulus
    /\ mode' = "stopping"
    /\ UNCHANGED <<fleet, keyTable, exclusions, req, probeVars, tabVars>>

HubClose ==
    /\ mode = "stopping"
    /\ mode' = "closed"
    /\ stream' = IF stream = "live" THEN "none" ELSE stream
    /\ queue' = 0
    /\ synced' = FALSE
    /\ UNCHANGED <<inventoryVars, probeVars, fetching, view>>

-----------------------------------------------------------------------------

Handler(c) ==
    \/ \E s \in Systems :
         \/ CreateSystem(c, s) \/ DeleteSystemRead(c, s)
         \/ SetPlatformRead(c, s)
         \/ \E g \in Groups \cup {NoGroup} : MoveRead(c, s, g)
         \/ \E k \in LabelKeys, op \in {"setLabel", "deleteLabel"} :
              LabelRead(c, op, s, k)
         \/ \E fp \in Fingerprints : ScanFind(c, s, fp) \/ AcceptKey(c, s, fp)
    \/ \E g \in Groups :
         \/ DeleteGroup(c, g)
         \/ \E n \in Names : CreateGroup(c, g, n) \/ RenameGroup(c, g, n)
    \/ \E e \in Rules : ExcludeRead(c, e) \/ DeleteExclusion(c, e)
    \/ \E k \in hostKeys : DeleteKeyRead(c, k)

\* The later statements of requests that have started.
HandlerRest(c) ==
    \/ DeleteSystemWrite(c) \/ SetPlatformWrite(c)
    \/ MoveCheck(c) \/ MoveWrite(c)
    \/ SetLabel(c) \/ DeleteLabel(c)
    \/ ExcludeWrite(c) \/ RecordPending(c) \/ DeleteKeyWrite(c)

Probing ==
    \/ \E byTrigger \in BOOLEAN : TickStart(byTrigger)
    \/ \E s \in Systems, ok \in BOOLEAN : ProbeHost(s, ok)
    \/ TickEnd \/ TickAbort

Tab == Connect \/ Subscribe \/ Receive \/ Fetch \/ Unsubscribe

Next ==
    \/ /\ \E c \in Clients : Handler(c) \/ HandlerRest(c)
       /\ UNCHANGED <<mode, probeVars, tabVars>>
    \/ \E c \in Clients : Announce(c)
    \/ Probing \/ Tab \/ Stop \/ HubClose

\* Run has begun its first cycle; the tab may be connected already, and show
\* the current list.
Init ==
    /\ InventoryInit
    /\ mode = "serving"
    /\ trigger = FALSE
    /\ \E failT \in FailThresholds, succT \in SuccThresholds :
         tick = Cycle(failT, succT)
    /\ history = [s \in Systems |-> <<>>]
    /\ stream \in {"none", "live"}
    /\ queue = 0 /\ fetching = FALSE
    /\ view = List(Watcher)
    /\ synced = (stream = "live")

\* A handler that has started returns; the prober's goroutines and the tab
\* keep running.  Requests, connections and the shutdown may never come.
Fairness ==
    /\ \A c \in Clients :
         /\ WF_vars(HandlerRest(c) /\ UNCHANGED <<mode, probeVars, tabVars>>)
         /\ WF_vars(Announce(c))
    /\ WF_vars(Probing)
    /\ WF_vars(Subscribe) /\ WF_vars(Receive) /\ WF_vars(Fetch)

Spec == Init /\ [][Next]_vars /\ Fairness

-----------------------------------------------------------------------------
\* Properties

\* Type invariant of the composed state.
TypeOK ==
    /\ InventoryTypeOK
    /\ mode \in {"serving", "stopping", "closed"}
    /\ trigger \in BOOLEAN
    /\ tick \in {NoTick} \cup
         [on : {TRUE}, todo : SUBSET Systems, failT : FailThresholds,
          succT : SuccThresholds, changed : BOOLEAN]
    /\ history \in [Systems -> Seq([ok : BOOLEAN, need : Nat])]
    /\ stream \in {"none", "open", "live"}
    /\ queue \in 0 .. Buffer
    /\ fetching \in BOOLEAN /\ synced \in BOOLEAN
    /\ view.labels \subseteq Systems \X LabelKeys

\* No label and no host key outlives its system, whatever request was under
\* way when the system was deleted (ON DELETE CASCADE against the foreign
\* keys of a late insert).
NoOrphanedRows ==
    /\ \A l \in labels : l[1] \in Live
    /\ \A k \in hostKeys : k.sys \in Live

\* A key that runs trust shows a fingerprint an operator accepted for that
\* system, unless a scan was about to rewrite the very row when it was
\* accepted: RecordPending updates by id and does not look at the state.
TrustedKeysWereReviewed ==
    \A k \in hostKeys :
       k.state = "accepted" => <<k.sys, k.fp>> \in reviewed \/ k.id \in raced

\* The list a tab shows is out of date only while something is on its way
\* to tell it: an event in its channel, a fetch, a handler that has
\* committed and not announced, or a probe cycle that will end with an
\* event.  Dropping events at a full channel must not break this.
StaleTabWillBeTold ==
    mode = "serving" /\ synced /\ view # List(Watcher) =>
       \/ queue > 0 \/ fetching
       \/ \E c \in Clients : req[c].op = "announce"
       \/ tick.on /\ tick.changed

\* What the status column must say, from all results stored so far: the
\* last run of equal results that was as long as its threshold decides.
StatusFromHistory(h) ==
    LET run(i) == \A j \in 1 .. Len(h) :
                     i - h[i].need < j /\ j <= i => h[j].ok = h[i].ok
        decides == {i \in 1 .. Len(h) : i >= h[i].need /\ run(i)}
    IN  IF decides = {} THEN "unprobed"
        ELSE LET last == CHOOSE i \in decides : \A j \in decides : j <= i
             IN  IF h[last].ok THEN "reachable" ELSE "unreachable"

\* The incremental counters of UpdateProbe agree with that, across cycles
\* with different thresholds.
StatusFollowsProbes ==
    \A s \in Live : hosts[s].status = StatusFromHistory(history[s])

\* A system that is added is probed, also when it is added during a cycle
\* whose list it missed: the trigger waits for the next one.
NewSystemsAreProbed ==
    \A s \in Systems :
       s \in Live /\ history[s] = <<>>
          ~> history[s] # <<>> \/ s \notin Live \/ mode # "serving"

\* A tab that stays connected shows the current list in the end.
TabCatchesUp ==
    synced /\ view # List(Watcher)
       ~> ~synced \/ view = List(Watcher) \/ mode # "serving"

\* Tables, probe, hub and tab agree with each other at every moment: nothing
\* outlives its system, the status is what the probes say, and a tab that
\* shows old rows will be told.
FleetInv == TypeOK /\ NoOrphanedRows /\ StatusFollowsProbes /\ StaleTabWillBeTold
=============================================================================
