# Formal model of gi-conMon

TLA+ specifications of conMon, a monitoring server that probes targets, derives a
status for each, raises alerts on status changes and pushes them to a dashboard.
TLC checks the specifications on small instances; TLAPS proves every safety property that
TLC checks, of every part that is modelled, for every value of the constants. Liveness is
model-checked only.

Paths below are relative to `src/`.

## 1. The system and its parts

A probe result takes this way:

    timer -> runOnce -> Prober.Probe -> result handler -> FSM.Process
                                             |                 |
                                       GetTarget          event, if any
                                                               |
                            SaveEvent <- AlertEngine.Process <-+-> Hub.BroadcastEvent

All of it runs in the goroutine of the target's timer; there is one such goroutine
per target, and the HTTP handlers of the API run beside them. No lock spans two
parts. The store and the scheduler hold the list of targets, the FSM their status.

| part | source | state | operations |
|---|---|---|---|
| status machine | `internal/fsm` | `states` (status, counters, last probe), flap `history` per target, under one mutex | `Process`, `SetSilent`, `Remove`, reads |
| scheduler | `internal/probe/probe.go` | `targets`, `timers`, under one mutex | `Add`, `Remove`, `Stop`, timer callback, `reschedule` |
| probers | `internal/probe/{tcp,http,dns}.go` | a connection and a deadline, for one probe | `Probe` |
| result handler, start-up | `cmd/conmon/server.go` | none of its own | the closure given to `NewScheduler`; `runServer` |
| alert engine | `internal/alerter/engine.go` | `throttle`, `alerts`, under one mutex; a goroutine per notification | `Process`, `AckAlert` |
| notifiers | `internal/alerter/notifier` | none | `Send` |
| push hub | `internal/api/ws.go` | `clients`, under a read-write lock; a bounded channel per client | `Broadcast`, `Subscribe`, `Unsubscribe`, `handleWS` |
| REST API | `internal/api/server.go` | none of its own | create, update, delete, silence, un-silence, acknowledge; reads |
| store | `internal/storage/sqlite` | tables `targets`, `events`, `alerts`, `probe_nodes` | upsert, delete, insert, queries |
| configuration | `internal/config`, conversions in `cmd/conmon/server.go` | none after start | `Load`, `validate`, `specToTarget`, `buildRules`, `buildChannels` |
| probe agent, CLI | `cmd/conmon/{probe,main}.go` | none | run a scheduler and print; query the server |
| web UI | `web`, `internal/ui` | a browser's copy of the targets | rendering |

What is hard, and what must hold:

* **Status machine** - one status is derived from counters, thresholds that may change
  between two results, a sliding window, a maintenance window and an operator's
  silence; every order of these must leave the event stream in step with the status.
  Correct means: events tell the status; an outage is announced on evidence; flapping
  is shown with a full window; nothing is announced for a silenced target; the flap
  history is bounded, and so is the rate of events.
* **Scheduler** - a timer in the map, a probe in flight and a reschedule about to run
  are three different things, and `Add`, `Remove` and `Stop` see only the first.
  Correct means: a target is never lost, has one chain of probes, and the chain ends
  when the target does.
* **Probers** - a peer may refuse, stall, stop in mid-body or redirect for ever. Correct
  means: every probe returns, closes what it opened, and reports what happened.
* **Result handler, API, store** - steps of a handler interleave with the steps of
  requests, writes may fail, and the process may stop between any two steps. Correct
  means: the event log and what was announced agree, in order, and no state survives
  its target without a cause.
* **Catalog of targets** (configuration, store, API and start-up together) - the list of
  targets has three copies: the file, the table and the scheduler's map. The file is
  written over the table at every start, the API writes the table only, a PUT is a read
  and a write with nothing between them, and a list is read in pages. Correct means: what
  is probed is what is stored, but for what the API changed since; an acknowledged change
  or deletion lasts; a page-wise reader misses nothing.
* **Alert engine** - check and update of the throttle race, as do notifications; names of
  rules and channels need not be unique. Correct means: spacing of alerts, no alert held
  back but for another of its key, every channel tried.
* **Push hub** - broadcasts race with clients that come, go and stall. Correct means: no
  send on a closed channel, no broadcast that waits, and clients that know the last status
  that was announced, or a later one.

## 2. Modules

| module | models | remarks |
|---|---|---|
| `StatusRules` | the pure part of `fsm.go` and `flap.go` | no variables; used by `TargetFSM` and `ConMon`, so both run the same rules |
| `TargetFSM` | the FSM as a shared object | one action per method, since each holds `f.mu` throughout |
| `StatusLifecycle` | abstract specification | what a reader of statuses and events may rely on |
| `Scheduler` | `probe.go` | timer goroutines as chains |
| `Probers` | `tcp.go`, `http.go`, `dns.go`, the deadline of `runOnce` | one probe after the other |
| `Hub` | `ws.go` | locks, channels, clients |
| `AlertEngine` | `engine.go`, `Send` as a step | workers and send goroutines |
| `ConMon` | `runServer`'s handler, the API's writes, the two tables | composes `StatusRules` with the store, crash and restart |
| `Catalog` | `validate`, `specToTarget`, the start-up of `runServer`, `targets` table, the API's writes and list | the settings of a target, which `ConMon` leaves out |
| `StatusRules_proofs` | lemmas about the operators of `StatusRules` | used by the proofs about `TargetFSM` and `ConMon` |
| `..._proofs`, of `TargetFSM`, `Scheduler`, `Probers`, `Hub`, `AlertEngine`, `ConMon`, `Catalog` | theorems about the module | section 6 |
| `MC...` | constants for TLC | one for each module that is run |

Correspondence:

* **StatusRules / TargetFSM.** `Processed` is the body of `FSM.Process`: `Counted` the
  counters, `Derive` the switch, `Changed` the flap detection and the commit, `EventFor`
  the returned event as a set with at most one element. `Trim` is `FlapTracker.trim`,
  called by `Record` and again by `Count`. Clock values are integers. The latency
  average, certificate days, texts and ids are left out: nothing decides on them. The
  configuration is an argument of `Process`, chosen anew for every result, because the
  caller reads it from the store. `TargetFSM` gives a target at most one result per tick:
  one timer chain delivers the results of a target and Go's clock is monotonic. When
  `Scheduler` has two chains for a target (see below), this assumption fails.
* **Scheduler.** `chain[c]` is a timer with its descendants; `armed`, `probing` and
  `finishing` are the timer set, the prober or handler running, and the moment before
  `reschedule`. `timers` maps to the last chain set, as `s.timers` does. A timer may fire at any
  time: delays, and the outcome of a probe they depend on, are left out.
* **Probers.** Every step of the network is a free choice. `seen` remembers what the
  network did, so that the verdict can be compared with it. `conn` is the connection in use
  and `pooled` an idle one in the pool of the transport that every HTTP probe makes: a body
  read to its end, a redirect whose short body the client drains, and a dial the client no
  longer waits for leave one there.
* **Hub.** The n-th status of a target is the number n. `Change` is a status that comes with an
  event, `Quiet` one that comes without: a silence, its end, a removal (requests, at any moment)
  or a maintenance (`fsm.go:83-87`). `event` is the status the last event tells, `quiet` the
  statuses that came without one. A sender holds the read lock from
  `BeginBroadcast` to `EndBroadcast` and visits the clients one at a time; `Subscribe` and
  `Leave` need the write lock. `view` is what a client has been told. A target has one sender:
  two overlapped chains of one target (see `Scheduler`), whose broadcasts could pass each
  other, are not in this module.
* **AlertEngine.** A configuration is chosen at the start and becomes `rules` and `channels`
  as `buildRules` and `buildChannels` make them; a channel is found by its name, the last of
  that name (`NotifierOf`). A worker is a goroutine in `Engine.Process`. The throttle check
  with its update is one step (`Pass`, `Suppress`), storing and dispatching are others. The
  throttle is kept by the text of `engine.go:100`, `ThrottleKey`: ID, colon and name of the rule,
  which targets and rules may share or make collide. `Return` stands for
  `Send` of any notifier, with any outcome, since the outcome is only logged.
* **ConMon.** A handler is `idle`, has `read` the target, has a `changed` status, or has
  `saved` it. `rows` is the events table, oldest row first and told apart by target, since
  no property compares rows of two targets; a row has the `life` it belongs to. DELETE is
  `Delete` (row, and events when the database cascades) and `Forget` (FSM state); PUT is
  `ReadForUpdate` and `Update`. `Restart` may happen in every state and loses everything but
  the database. DELETE in `Catalog` has the row only. `cascades` is chosen at the start: the
  DSN asks for foreign keys with a parameter the driver in use does not read
  (`sqlite.go:25`), and the model takes both cases.
* **Catalog.** A target has six fields: `name`, by which lists are ordered; `interval` and
  `timeout`, which are converted; `host` and `protocol`, which are copied; `down`, which has
  a default that POST does not give. A text is a number, its place in the order, 0 being the
  empty one. `Start`, `SaveMonitor` (one monitor, whose save may fail) and `ListStored` are
  `runServer` up to `apiSrv.Start`. A statement is one action since the pool has one
  connection; the two statements of a PUT and of a list are two actions. `owed` and `gone`
  remember what clients were told. A walk through the pages is followed until a row leaves
  the list or moves in it, a write comes between the two statements of a page, or two rows
  have the same name, whose order the store leaves open: after any of these a row can be
  missed in the program (`sqlite.go:180`, `:187`). `SpecToTarget` and `AgentTarget` are the two
  conversions of a monitor, of the server and of the agent, each written from its own code;
  an assumption of `MCCatalog` and a lemma compare them.

## 3. Runs

Passing runs, with distinct states:

| run | instance | states | what it shows |
|---|---|---|---|
| `status_machine` | 1 target, 7 ticks, window 3, thresholds 2/2/3, three configurations | 88,223 | all safety of the FSM, and that it implements `StatusLifecycle` |
| `scheduler` | 2 targets (one of an unknown protocol, one re-added with other settings), 3 chains | 12,597 | nothing lost, one chain unless overlapped, what Stop leaves, liveness |
| `hub` | 2 senders, 2 clients, channels of 2, 3 and 1 changes | 673,293 | no send on a closed channel, readers that know the last announcement, views that go back only from a quiet change, liveness |
| `alert_engine` | 2 targets, 2 workers, 2 events, 3 ticks, three configurations: a throttled and an unthrottled rule whose keys collide; two rules of one name whose channels are unknown or configured twice; none | 160,055 | the throttle under the race, complete matching, every channel tried |
| `server` | 1 target, 4 results, 3 API changes, 1 restart, both database modes | 624,245 | log, announcements and status agree; ghosts have causes |
| `catalog` | 3 IDs, 2 starts with any of 3 files, 3 writes of the API, 2 PUT requests (symmetric), 2 lists, 2 rows read back at a start | 667,699 | what is probed is what is stored; changes and deletions last; page-wise readers miss nothing |
| `probers` | every configuration of tcp, http and dns, deadline 3 | 516 | verdicts, connections, return |

Why the bounds are enough. Every FSM method and every handler touches one target, so one
target shows what there is to see; seven ticks with a window of three let the window slide
over a whole flapping episode, and a maintenance window open and close within the run.
Three chains are enough for one target to be probed twice while another runs; a `Live`
chain more would need a third overlapping `Add` (an `Add` that finds no free name for its
chain is not taken: `Chains` is a bound). Two senders and two clients give a
channel two writers and a broadcast two readers; capacity 2 is the smallest that can be
neither empty nor full. Three changes of one target fill a channel and drop a message, while
the other's meets them in the channel and under the lock. In `server`, four results with a flap threshold of four reach every
status, and three changes allow delete, create and a silence around one result. In
`alert_engine`, two events are what a race needs, and three ticks are enough for a throttle of
two to hold and to run out. In `catalog`, three writes are two PUTs that overlap and a POST
or a DELETE between them; two starts with files of which the second drops a monitor show a
row that outlives its monitor; two rows read back of three stand for 10000 of more.

Deadlock is checked where the system never rests. `MCAlertEngine.cfg` does not check it
because the engine rests when no event comes, and `MCConMon.cfg`, `MCCatalog.cfg` and `Catalog_CreatedIsProbed.cfg` because the
bounds on probes, changes, writes and starts end every run.

Runs that end in a violation, each a place where the code differs from what it is said
to do:

| run | the code | what is said |
|---|---|---|
| `failing_is_down` | UNKNOWN is left on a success only (`fsm.go:213`) | DOWN means probes failed in a row (`README.md:144`); the pseudo-code of `docs/detailed-design.md:589-593` agrees with the code |
| `maintenance_ends` | MAINTENANCE is never left by probing (`fsm.go:230`) | the window suppresses alerts during a scheduled window (`model.go:121`) |
| `flapping_ends` | each result of a FLAPPING target counts as a change, which keeps the window full (`fsm.go:99`) | it ends after ten minutes with fewer changes (`docs/troubleshooting.md:602`) |
| `created_is_probed` | a POST saves the target and adds it to no scheduler (`api/server.go:239`) | a target added through the API is effective at once, without a restart (`docs/maintenance-guide.md:124-127`) |
| `every_change_is_pushed` | a silence, its end, a deletion and a maintenance are broadcast to nobody (`api/server.go:312`, `fsm.go:83`) | a change of status is pushed when it happens (`docs/architecture.md:615`) |

Every property of a passing run is accompanied in `PROJECT.json` by a mutant: a definition
of the model changed the way a plausible mistake in the code would change it (`Mutant...`
in the modules; no specification uses them). With the change, TLC finds the property
violated.

## 4. Properties

The comment above each property says what it means; the ones to know:

* `ReportedIsCurrent`, `PushedIsCurrent`, `ReadersAreCurrent` follow a status from the FSM
  over the handler to a client. `ReadersAreCurrent` excludes a client that missed the last
  event: it was broadcast between the client's snapshot and its subscription (`ws.go:90`), or
  dropped for a full channel (`ws.go:59`). And it speaks of what was announced: a status that
  came without an event reaches a client in its snapshot only (`every_change_is_pushed`).
* `ViewGoesBackOnlyFromQuiet`: a result makes a target DOWN, a request silences it, a client's
  snapshot shows SILENT, and then the broadcast of DOWN arrives. A client is taken back in this
  way only, from a status that had no event.
* `OutageHasEvidence` asks for evidence between UP or DEGRADED and DOWN. It does not for
  DEGRADED to UP, which the first failed probe of a degraded target announces
  (`fsm.go:222`), though `README.md:143` says UP is a target that answers normally.
* `ScheduledIsStored`, `AcknowledgedChangeSurvives`, `DeletedStaysDeleted` say what the three
  copies of a target's settings have in common. Their exceptions are what the code allows: a
  PUT that read the row before another write of it reverts or revives it (`api/server.go:257`):
  the lost update is in the model, and ends the promise; a file read at a start replaces what
  the API wrote; the API does not reach the scheduler.
* `SavedEventsChain`, `LogAgreesWithPush` relate the event table to what was announced,
  across failed writes, deletions and restarts. `life` marks the points from which events
  start anew for a reason that is known; rows of one life chain, and no row comes after one
  of a later life.
* `GhostsHaveCause` lists why the FSM may hold a state for a target that is not stored.
  Each of the causes can happen.
* `OneChainUnlessOverlapped`: a second `Add` while a probe is in flight makes two chains,
  one of them with the old configuration (`probe.go:95`). In this program `Add` is called at
  start only, but twice for every configured monitor, the second time perhaps after
  the first timer has fired (with an interval of zero, or a slow start).
* `VerdictIsJustified` says that a probe succeeds exactly when what its prober checks came true
  on the network. That is less than a configuration can ask for: an HTTP body that is cut off
  counts as read, and of TCP no answer is read, whatever `expect_data` says (section 7).
* `NothingStaysOpen` is about the connection in use. Idle connections stay in the pool of an HTTP
  probe's transport (`http.go:108`) until the server closes them; no bound on their number is
  claimed.
* `SuppressedHasReason` speaks of the key of the code, not of a target and a rule, which can
  share a key with another target and another rule (section 7).

## 5. Fairness

* `Scheduler`: every chain takes its steps. Timers fire, goroutines run, and a probe returns
  since its context has a deadline (`probe.go:138`); `Probers!ProbeReturns` shows the last of
  these from the deadline alone.
* `Probers`: time passes and the deadline fires. Nothing is assumed of the network.
* `Hub`: a broadcast that has begun, or is about to, goes on; a client that asks for the
  write lock gets it (strong fairness of `Subscribe`: `sync.RWMutex` blocks new readers once
  a writer waits); a leaving client closes its channel. No client is assumed to read.
* `AlertEngine`: goroutines run, and a `Send` ends (15 second context).
* `ConMon`: a handler and a request that have begun go on. Nothing is assumed of probes,
  operators or restarts.
* `Catalog`: none; all its properties are safety properties.
* `TargetFSM`: none; it is a passive object and its properties are safety properties.

## 6. What is proved

Eight modules hold theorems; `StatusRules_proofs` has lemmas only. Every invariant and
action property of a passing run is stated by a theorem, and so is the refinement.

`TargetFSM_proofs` proves, for all thresholds (`ThresholdAssumption`: positive counts, any
window), all targets, configurations and outcomes (`InputAssumption`), and any bound on the
clock:

| theorem | property |
|---|---|
| `TypeCorrect` | `TypeOK` |
| `InductiveInvariant` | `IInv` |
| `ReportedStatusIsCurrent` | `ReportedIsCurrent` |
| `FlappingIsJustified` | `FlappingHasEvidence` |
| `HistorySpansOneWindow` | `HistoryIsOneWindow` |
| `EventsAreRateLimited` | `EventRateBounded` |
| `MutedTargetsAreQuiet` | `NoEventWhileMuted` |
| `OutagesAreJustified` | `OutageHasEvidence` |
| `LifecycleImplemented` | `ImplementsLifecycle` |

The argument. `IInv` is `TypeOK` and, for every target, five parts, none of which the checked
invariants imply:

* `HistoryInv` - the history is increasing, not younger than the last probe, spans one
  window. Needed because `trim` drops a prefix: it is exact on a sorted history only.
* `FlappingInv` - FLAPPING came with a full history as of the last probe.
* `StatusInv` - a muted target is SILENT or MAINTENANCE (not SILENT alone: a window that
  opens replaces it), and elsewhere the events tell the status.
* `TraceInv` - the counters are runs of equal outcomes at the end of the trace, which is what
  turns a comparison of a counter with a threshold into evidence.
* `RateInv` - recent events are entries of the history or too old to count, and one place is
  free unless FLAPPING was the last thing announced. The bound alone is not inductive: the
  event that announces FLAPPING needs a place of its own.

The lemmas about the operators are in `StatusRules_proofs` (`FirstLiveProperties`,
`TrimProperties`, `KeptProperties`: what the two trims and the append of one change leave;
`ProcessedProperties`: a result does nothing, gives MAINTENANCE, or records a change). Then
comes one lemma per method that it keeps the target's invariant. Since a method
touches one target, `OthersKeepInv` and `Frame` deal with the rest. The refinement proof maps
`Process` to `Announce`, `Maintain`, `Observe` or a quiet step and the other methods to their
namesakes.

`Scheduler_proofs` proves, for any targets, any settings and any number of chains:

| theorem | property |
|---|---|
| `TypeCorrect` | `TypeOK` |
| `TargetsAreKept` | `NoTargetIsLost` |
| `OneChain` | `OneChainUnlessOverlapped` |
| `StopCancelsTimers` | `StopLeavesOnlyProbesInFlight` |

The inductive invariant adds one thing to the checked ones. The only chain of a target no Add
overlapped is the one `timers` holds (`Single`), without which the timer that `Add`, `Remove`
and `Stop` cancel need not be the one that is set.

`Catalog_proofs` proves, for any finite set of IDs, any files, bodies, queries and limits:

| theorem | property |
|---|---|
| `TypeCorrect` | `TypeOK` |
| `SchedulerFollowsStore` | `ScheduledIsStored` |
| `AcknowledgedChangesSurvive` | `AcknowledgedChangeSurvives` |
| `DeletedTargetsStayDeleted` | `DeletedStaysDeleted` |
| `WalksAreComplete` | `WalkSeesAll` |

`AcknowledgedChangesSurvive` covers PUTs that follow each other, restarts, failed saves and
writes of other targets; a PUT that read the row earlier, a POST, the file and a DELETE end the
promise. `WalksAreComplete` covers creations between the pages and updates that move no row of
the list; a deletion, a renaming, a change of what the filter matches and equal names end the
walk that is followed. Both exceptions are what the code does, see section 4.

`AcknowledgedChangeSurvives` is not inductive: an `Update` writes the row it read, so the proof
needs `ReadIsCurrent`, that the row read by a request that no write overtook is the row in the
table. The three assumptions on the constants say that IDs, files and bodies have their types
and that the markers for "none" are not among them.

`WalkSeesAll` speaks of the end of a walk. Its invariant `WalkInv` says of every row that is to
be met and has not been: at least `offset` rows of the list come before it (`Before`, a set, so
that no order of the list has to be named). `PlaceInListing` takes this to an order of the
list: a row with so many before it is not on an earlier page. `WalkWrite` shows that a write
which moves nothing in the list never makes these numbers smaller: it adds a row to the list, or
leaves the list and its names as they are. `WalkSelect` shows that a page which is not the last is full, so the
next offset is the one `WalkInv` asks for, and that nothing is left beyond the last one.

`Hub_proofs` proves, for any senders, clients and positive capacity of the channels:

| theorem | property |
|---|---|
| `TypeCorrect` | `TypeOK` |
| `SendsMeetOpenChannels` | `NoSendOnClosedChannel` |
| `ReadersKnow` | `ReadersAreCurrent` |
| `ViewsAdvance` | `ViewGoesBackOnlyFromQuiet` |

`NoSendOnClosedChannel` follows from `Subscribed`: the hub's clients are the live connections,
and only a sender under the read lock has channels to visit, so that nobody leaves `clients`
while a broadcast may still send to it. The other two need `Numbered`, that a
target's status is that of its last event or a later one without an event, and `Informed`, for
every client and sender: the channel's statuses are in order, none younger than the last event
and none older than what the client was told, unless that had no event (`InOrder`); and once the
last event is broadcast and was not missed, it is the last word in the channel, or the client
knows it or a younger one (`EndsAt`). `ReadersAreCurrent` speaks
of empty channels alone and cannot be kept by a step of reading, which is why the
invariant describes what the channel holds. `AppendOwn`, `AppendOther` and `ReadOne` are its
lemmas about the channel as a sequence.

`Probers_proofs` proves, for any configurations and any deadline:

| theorem | property |
|---|---|
| `TypeCorrect` | `TypeOK` |
| `VerdictsAreJustified` | `VerdictIsJustified` |
| `ConnectionsAreClosed` | `NothingStaysOpen` |

Both properties are about a probe that has returned. `Progress` says for every phase before
what the network has done for the probe so far, whether a connection is open, and that only
HTTP has a pool, which is what makes each early return close the right one and name what really happened.

`AlertEngine_proofs` proves, for any targets, workers, alerting sections (`ConfigAssumption`
gives them their types and no more: names may be shared or empty, lists may be) and events:

| theorem | property |
|---|---|
| `TypeCorrect` | `TypeOK` |
| `InductiveInvariant` | `IInv` |
| `AlertsAreSpaced` | `ThrottleSpacing` |
| `SuppressionsAreJustified` | `SuppressedHasReason` |
| `EveryMatchIsAnswered` | `MatchesAreAnswered` |

`ThrottleSpacing` and `SuppressedHasReason` speak of past decisions, while the code has a map
of times only. `ThrottleInv` is the bridge: a time in the map is that of a decision to fire
under this key, and no such decision is younger. Without the second half two alerts could be
closer than a throttle, without the first one could be held back for no alert at all; since rules
and targets may share a key, the map's entry may be of another rule or target, so both halves
are about keys.
`MatchesAreAnswered` is about rules a worker is past, so `PlaceInv` says what has been decided
and stored for the rule a worker is at, and `OneWorker` that no other worker decides for the
same event. `WorkBegin`, `WorkTurn`, `WorkAnswer` and `WorkFire` are the four ways in which a step
can move a worker.

`ConMon_proofs` proves, for any targets, monitors, bodies, results and thresholds:

| theorem | property |
|---|---|
| `TypeCorrect` | `TypeOK` |
| `InductiveInvariant` | `IInv` |
| `LogsChain` | `SavedEventsChain` |
| `AnnouncedIsCurrent` | `PushedIsCurrent` |
| `LogsAgree` | `LogAgreesWithPush` |
| `GhostsAreExplained` | `GhostsHaveCause` |

The properties speak of targets whose handler is at rest; `IInv` says what holds between its
steps as well, target by target:

* `GhostInv` - a handler that has read a target, and would create its state, has the target or
  a cause. `Forget` ends a deletion and keeps it since a deletion that meets such a handler
  is a cause.
* `PushInv` - the status that probing has reached is in the row the handler holds or, when it
  holds none, in the last announcement.
* `ClockInv` - a row that is to be saved is younger than the log.
* `LifeInv` - no row is of a life that is yet to come, and one that is held is not of an earlier
  life than the log. A row held across a deletion is of an earlier life than its target, which
  is why `SavedEventsChain` compares the lives of adjacent rows.
* `ChainInv` - the log tells the status, but for a maintenance and for a row not yet saved,
  which starts where the log ends.
* `LogInv` - log and listeners agree on the present life, or the log is ahead by the row held.
* `LogChains` - the rows chain.

`Untouched` has the steps that change nothing a target's invariant reads, `Renewed` those
that begin a new life of it; what is left is one lemma per step of the handler, the two steps of
DELETE, and silencing, with `ProcessedEvent` (from `ProcessedProperties`) telling what a result
does to the status.

Only model-checked, because they are liveness properties under fairness and outside the
prover's reach: `RegisteredIsProbed`, `RemovedFallsQuiet`, `BroadcastCompletes`, `PassedIsTried`,
`ResultIsHandled`, `ProbeReturns`. The runs that end in a violation show what does not hold
and have nothing to prove.

## 7. What is not modelled

* viper's merging of defaults, file and environment: a file of the model is its result. Three
  things seen there have no run. `expandEnvInViper` sets scalars only, so a `${VAR}` inside the
  lists of channels or monitors stays as it is (`config.go:215`, `configs/conmon.yaml:97`). There is
  no reload of the file at run time, though `README.md:477` speaks of one. `alert_when.down`,
  `latency_gt` and `packet_loss_gt`, the target's `channels` and `enabled` are read by nobody.
* The printing commands, the web UI and the deployment files: no shared state with the parts
  above, or code that runs elsewhere. The web UI opens a WebSocket where
  the server offers an event stream (`ws.go:77-81`), so its live updates do not come from the
  hub; the hub's clients here are clients of the stream.
* The agent waits half a second after `Stop` for probes in flight (`cmd/conmon/probe.go:82`),
  less than a probe's timeout; what it prints is not modelled.
* A notification that fails is not sent again; `detailed-design.md:831` describes a retry.
* `registerRoutes` registers `GET /` twice (`api/server.go:94` and `:106`), which gin refuses
  at run time; the model begins after a successful start.
* Code without a caller: `Executor.Submit`, `Scheduler.Remove` (modelled all the same, as part of
  the scheduler's interface), `Engine.ResolveByTarget`, `Engine.ListAlerts`, `Store.SaveAlert`,
  `Store.Cleanup`. Hence the alerts of the API are always empty, nothing is ever cleaned up,
  and the concurrency limit is not applied.
* `handleProbeNow` answers and does nothing. Targets made through the API are not scheduled
  until a restart, and deleted ones are probed until then; `ConMon` has exactly that.
* Retries: `Target.Retries` is read by no prober, though `README.md:97` and
  `detailed-design.md:490` speak of retries. ICMP probes are never registered.
* How long a timer waits: it may fire at any time in the model. An interval of zero, which
  neither the file nor a PUT rules out, makes the code probe without pause. After a failure the
  code waits the greater of five seconds and half the interval (`probe.go:167`), where
  `docs/detailed-design.md:449` says `min(5s, interval/2)` and `README.md:90` five seconds.
* What the notifiers send, and whether it arrives: `Return` is any outcome.
* `ListEvents` and `ListAlerts` are built as `ListTargets` is; the latter's table is always empty.

Where the code and what is said of it part, and no run shows it:

* `expect_data`, the expected response of a TCP target (`docs/user-manual.md:266`), is read by no
  code, and nothing is read from the connection, though the comment at `tcp.go:52` says so.
* `Stop` stops the timers of the map; a probe in flight sets a new one (`probe.go:176`), though
  the comment at `probe.go:113` is "Stop cancels all probing." Both programs end soon after, and
  `StopLeavesOnlyProbesInFlight` says what is left.
* The throttle is the least time between alerts of the same target and rule
  (`docs/detailed-design.md:709`), but its key is a concatenation (`engine.go:100`): target `web`
  with rule `x:down` and target `web:x` with rule `down` hold each other's alerts back.
* `docs/detailed-design.md:766-767` has an alert RESOLVED when the status becomes UP; nothing
  calls `ResolveByTarget`.

## 8. Plan

Done: all the modules of section 2, every safety property of their runs proved.

Next, in this order:

1. The hub as an abstract channel of announcements that may lose some, with `Hub` shown to
   implement it.
2. `Scheduler` composed with the result handler and the hub: two chains of one target deliver
   results out of order and broadcast past each other; what of section 6 survives.
3. `AlertEngine` fed by the announcements of `ConMon`, so that a restart, which forgets the
   throttle, is part of what the spacing of alerts means.
4. The browser's copy of the targets under polling and reconnects.
