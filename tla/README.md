# HAWKEYE: TLA+ models, checks and proofs

HAWKEYE is an insider-fraud demonstrator. A replay publishes synthetic bank
events to Kafka; one backend process (FastAPI on one asyncio event loop, one
uvicorn worker) consumes them, scores each account with a model blend, raises
alerts, has a language model write a memo for each, and pushes everything to
dashboards over WebSockets. PostgreSQL holds alerts, narratives, employees,
score history and the audit log; Redis holds features, deltas and the replay's
state; Neo4j holds who accessed which system.

This directory models the stateful core of the backend (`src/backend/app`). Line
references are to the files under `src/`.

## 1. Inventory

| Component | State | Operations | Talks to | Hard behaviour | Right when |
|---|---|---|---|---|---|
| Replay service (`services/replay_service.py`, `api/replay.py`) | `_task`, `_stop_event`; Redis `replay:status`, `replay:stats` | start, stop, inject_burst, the background `_run_loop` | Kafka, Redis, PostgreSQL (reset of alerts) | check at the top of start and create_task at its end, five awaits apart; stop with a timeout; errors in a `finally` | one loop at a time, a truthful status and counter, every stop answered |
| Event consumer (`consumers/event_consumer.py`) | task, stop event, Kafka consumer, two in-memory throttles | start, stop, poll loop, `_handle_event` | Kafka, Redis, Neo4j, PostgreSQL, WebSockets, narratives | offsets committed on a timer, apart from handling; a chain of eight awaits, each of which may fail; cancel on shutdown | no event lost or repeated without a fault; stores agree |
| Feature aggregator (`services/feature_aggregator.py`) | Redis hashes per account | deltas, base features, last score, replay keys | Redis | partial pipelines, reconnect | deltas count each event once |
| Alerts (`services/alert_service.py`, `api/alerts.py`, `models/`) | tables `alerts`, `employees`, `audit_log` | create_or_update_alert, triage, bulk triage, replay reset, seed | consumer, API users, WebSockets | SELECT and UPDATE without a lock; ORM writes only changed columns; several writers | deduplication, audit, no lost updates |
| Narratives (`services/narrative_service.py`, `api/narrative.py`) | table `narratives`, connection pool | generate with failover, background and lazy creation, regenerate | LLM providers, PostgreSQL, attestation | seconds between check and insert; retries; a pool of 20 connections | a memo for every alert, never an error, provenance true |
| Attestation, readiness (`services/attestation_service.py`, `api/health.py`) | cached snapshot | refresh, is_attested, readyz | provider | overlapping refreshes | snapshot is the newest answer |
| Scoring and fusion (`services/scoring.py`, `embedding_service.py`, `risk_levels.py`) | model artifacts, read-only after load | score, lookup, fuse, levels | files | nearest-key search, renormalised weights, band edges | levels and display agree and are monotone |
| Graph (`services/graph_service.py`, `api/graph.py`) | Neo4j driver; nodes and counts | connect, upserts, queries | Neo4j | half-finished connect | counts agree with the deltas |
| Live feed (`ws/manager.py`, `api/ws_routes.py`, `lib/ws.ts`, `useRealtimeAlerts.ts`) | socket set, client socket and timer, query cache | connect, broadcast, reconnect, merge | consumer, browser | send without the lock, refetch racing messages | cache converges to the table |
| Seed (`scripts/seed.py`) | all stores | seed alerts, Redis, Neo4j | all stores | repeated at every boot | a second run changes nothing |
| Lifespan (`main.py`, `models/db.py`, `config.py`) | singletons | startup, shutdown | all | best-effort connects; shutdown stops the consumer but not the replay | restart leaves a usable system |
| Read-only APIs, feature labels, auth, pages, scripts, infrastructure | none of their own | | | | |

Components interact in four ways: awaited calls on the event loop (the consumer
calls aggregator, graph, scoring, alerts), Kafka messages (replay to consumer),
shared rows and keys (triage, reset and consumer on `alerts`; replay and
consumer on `replay:stats`), and WebSocket broadcasts (alerts and ticks to the
browser). Because there is one event loop, code between two awaits is atomic;
because there is no lock across awaits, everything else interleaves. That is the
grain of every module here: **one action per stretch between two awaits**.

`PROJECT.json` lists every component with its status and, under `hazards`, each
place where something can go wrong that a unit test would hardly reach.

## 2. Plan

| # | Module | Subject | State |
|---|---|---|---|
| 1 | `AlertBook`, `AlertLifecycle` (+ `MC`, `Proofs`) | alerts table and all its writers; abstract book and refinement | done, proved |
| 2 | `ReplayService` (+ `MC`, `Proofs`) | start/stop/inject/loop | done, proved for serial use |
| 3 | `EventPipeline` (+ `MC`) | consumer, offsets, crash/restart, partial failure | done |
| 4 | `Narratives` (+ `MC`) | provider chain, lazy/background creation, pool, provenance | done |
| 5 | `RiskLevels`, `Scoring` (+ `MC`) | levels, display, nearest lookup, weights, fusion | done |
| 6 | `LiveFeed` (+ `MC`) | WebSocket manager, reconnecting client, UI cache | done |
| 7 | `Seed` (+ `MC`) | repeated seeding of three stores beside the live consumer | done |
| 8 | `Connections` (+ `MC`) | connect/close of Redis and Neo4j, constraints, attestation cache, readiness, startup and shutdown order | done |
| 9 | `EventPipelineProofs`, `NarrativesProofs`, `ScoringProofs`, `LiveFeedProofs`, `SeedProofs`, `ConnectionsProofs` | type invariants and safety for every value of the constants | done |

Composition: `AlertLifecycle` takes the consumer's calls and the replay's reset
as actions; `EventPipeline` takes its outcome (new or folded) as a choice and
follows it up; `LiveFeed` has the alert path's commits and announcements as
actions, and the sockets and the page they reach; `Seed` composes the seed's
process with the consumer's writes to the same three stores; `Connections` puts
the singletons of the process beside the services they talk to. A module keeps of
another one's handler the steps that touch its own variables, in their order.

## 3. Modules

### AlertBook and AlertLifecycle

`AlertBook` is what the alerts table promises: every alert-level event either
adds a row at least `Delta` above all open recent rows of its employee, or is
recorded in an existing row of that employee less than `Delta` below it; rows
are never deleted and scores never fall.

`AlertLifecycle` is the code. Its variables are the three tables, the clock, and
where the consumer and each analyst's request stand between their awaits.

| Action | Code |
|---|---|
| `ConsumerFind` | the SELECT of `find_existing_open_alert` |
| `ConsumerFold`, `ConsumerInsert` | the branch, `_ensure_employee`, the commit |
| `ConsumerBroadcast`, `ConsumerFail` | the refresh and the broadcasts; an error before the commit |
| `RefreshFails` | the refresh awaited after the commit fails, or the answer to the commit is lost: the row is there and nobody is told |
| `TriageLoad`, `TriageCommit` | `db.get`, then the flush of changed columns and the audit row |
| `BulkTriage`, `ReplayReset` | one UPDATE each |
| `Crash`, `Tick` | process death, or a shutdown that cancels the consumer; the clock |

An ORM update writes a column only if the new value differs from the loaded one
(`Triaged` compares with `r.status`, as SQLAlchemy compares with the snapshot).
Scores are hundredths. The seed's rows are the initial states.

### ReplayService

Variables: each client's request (the await it is suspended at), `_task` as an
index into the list of all loops ever made, `_stop_event`, and the two Redis
keys. `start` is four awaits (`StartCheck`, `StartReset`, `StartSetRunning`,
`StartResetStats`, `StartLaunch`), `stop` a wait with a timeout (`StopSet`,
`StopWaited`, `StopTimeout`, `StopSetIdle`), `inject_burst` a loop without
awaits between events, `_run_loop` a burst pass, a file pass and a `finally`
with two awaits (`LoopClose`, `LoopClear`). `wait_for` follows Python 3.11: on a
timeout it cancels the task and waits for it, it re-raises what the task ended
with, and it turns a cancellation it caused into `TimeoutError`. `RequestFails`,
`LoopFails` and `Crash` are the failures; Redis keeps its keys through all.

### EventPipeline

Variables: the Kafka log with committed, stored and consumed offsets; the
process; the await `_handle_event` is at; the effects in Redis, Neo4j and
PostgreSQL, counted per event. The Kafka client is external and modelled from
its configuration (`event_consumer.py:58-71`): `AutoCommit` may commit the
stored offset at any moment, `close` commits, a group without an offset begins
at the end. `Stop`/`StopEnds`/`StopTimesOut`, `Crash` and `Restart` are the
process. `StepFails` is `_run`'s `except Exception`, whose failed commits and
refreshes may leave the history row or the alert behind; `GraphFails` the two
swallowed graph errors. `Score` stands for scoring, `remember_score` and the
tick: the former is never read, the latter is display.

### Narratives

A job is the background task of an alert or the one request a panel has under
way (the pages ask one at a time: a mutation invalidates its query when it
returns). `Look` reads the alert and its memos, `Attempt` is one call of a
provider, `Template` the fallback, `Save` insert and commit, `Answer` the refresh
and the health marks. `Connect`, `Save` and `Leave` move `inUse`: SQLAlchemy
takes a connection at a session's first statement and returns it at the commit
or at the session's end. `PoolTimeout` is the pool's 30 s wait. The writer of a
row is history; `Stamp` is what the code stores. `LLM_PROVIDER` is in lower case,
as `_primary_provider` makes it. A call's outcome is free: a memo, one that is
too short, a retried error, or (a fault) an answer of another shape, which no
except clause names. Reading features and the graph, between `Look` and the first
call, has only the failure in `Breaks`.

### RiskLevels and Scoring

`RiskLevels` is `risk_levels.py` as operators over integers: the four bands, the
level of a score, and the gauge as pieces of straight lines, rounded down. `Cent`
is the number of units in 0.01, so that band edges fall on integers.

`Scoring` is the embedding service and the fusion. Variables: the two artifact
files (any table, or none that can be read), `_loaded`, the two tables, their
sorted number keys, the weights, and the last result. `Load` is `load`, once;
`Score` is `ScoringService.score`: the blend of two free LightGBM outputs,
`Resolve` (own row, alias, nearest number by binary search), `Fuse`, level,
display and flag. An id is its form (`ACCT_`, `ACC_`, neither) and its number.

### LiveFeed

| Variables | Code |
|---|---|
| `table`, `consumer` | the alerts table; where `create_or_update_alert` is, and the message it broadcasts |
| `connections`, `serving`, `queue` | `WebSocketManager._connections`; sockets whose `ws_alerts` waits in `receive_text`; what is sent and not received |
| `sock`, `socket`, `timers` | `readyState` of each socket, `this.socket`, reconnects scheduled (`lib/ws.ts`) |
| `cache`, `fetch` | rows of the query; the list request under way (`useRealtimeAlerts.ts`) |

`Insert`, `FoldLoad`/`FoldCommit`, `Triage` and `SeedInsert` write the table; the
first two are announced, a new row only after its `Refresh`. `RefreshFails` and
`FoldFails` may leave what they committed unannounced, and the seed's rows are
never announced, nor on top of the list. `Copy`, `Send`/`SendFails`, `Reap` are `broadcast`; `Accept` and `Leave`
are `ws_alerts`. `Mount` and `TimerFires` both call `connect()`; `Break` and `Die`
close sockets and schedule. `Receive` is the hook's listener, `Refetch` and
`FetchDone` the 30 s interval. One browser is modelled to the cache; another
(`Peer`) only shares the broadcast, and may stall until uvicorn's keepalive drops
it. `clean` is history: an answer arrived that raced nothing, and since then no
connection was lost and no row was committed that nobody announces.

### Seed

Variables: the rows (`employees`, latest `history` score, count of `alerts` per
employee), Redis' base `features`, the nodes' scores and systems, where `main()`
and `_handle_event` are, and the consumer's throttle. The seed's stages are
`CountAlerts`/`InsertSample` (one commit), `StoreFeatures` per account, and
`ListEmployees`/`LoadScore`/`WriteScore`/`TouchSystems` per employee; nothing is
caught, so `Die` may end it between any two. The consumer's writes are `Upsert`,
`ScoreEvent`, `RecordScore`, `RaiseAlert`, `ShowScore`, with their failures. Scores
are none (0), below the threshold (1) and two that alert; the synthetic history's
wobble may cross the threshold.

### Connections

Variables: which services are `up`, where the lifespan is, the two kept clients,
the consumer's task, Neo4j's constraints and the nodes of one employee with the
two MERGEs that may create it, the attestation `snapshot` with the `refreshes`
under way, and the readiness request. `Start` to `BootConsumer` is the start-up
with its best-effort steps, `StopConsumer`, `CloseGraph`, `CloseRedis` the
shutdown. `ConsumerEnds` is a message (or a poll) that ends the consumer's task
while the process serves on: nothing starts another, and readyz does not look.
Kafka is `Well` for readyz only with the topic, which kafka-init makes and nothing
deletes. `Ask`, `Reply`, `Store` are `refresh` on either side of its request;
`ReadyBegin` to `ReadyReturns` is `readyz`, one check after another, with what was
up `always` and `ever` during the request as history. MERGE is modelled by its
documented behaviour: without a uniqueness constraint it looks, then creates.

## 4. What is checked

`[v]` marks a violation run: it checks one documented statement that the code
contradicts, and TLC finds the contradiction (see section 7).

| Run | Shows | Bounds, and why they are enough |
|---|---|---|
| alerts_dedup | `OpenLadder`: an employee's open alerts form a ladder; `ImplementsBook`: the interleaved handlers implement `AlertBook` | 1 employee (the rule is per employee), 3 scores straddling `Delta`, 3 rows, 2 instants with a window of 1, so rows age out |
| alerts_triage | `AccountedFor`: the audit log accounts for owner and status, employees exist; `TriageSticks`: only a reopening reopens; `ScoresOnlyRise`: no score goes back; `SilenceNeedsFault`: a silent alert costs a fault after its commit | 2 analysts who investigate and reopen 1 row (the smallest instance with a stale request), 2 scores within `Delta`, so that folds happen, 2 instants, 1 fault (a failed refresh or a crash). Handlers touch one row each, so a second row adds nothing but states |
| replay_serial | `OneLoop`, `StatusTruthful` (a publishing loop shows as running, a stale "running" costs a fault), `NeverOvercounts`, `RequestsReturn`, with a fault and a timeout anywhere | 1 client, 2 loops (a stale one and a new one), passes of 1 and 2 events |
| replay_tabs | `StopDrains`: a stop that stays set ends every loop | 2 clients, 2 starts: the overlap that loses a task |
| replay_hidden [v] | `RunningShown` | 2 clients, no fault |
| event_pipeline | `RepeatsNeedCrash`, `LossNeedsFault`; `GraphFollowsDeltas`, `AlertsFollowedUp`, `AlertsLeaveTraces`: deltas, graph, history, alerts, counter and narratives agree; `Drains`: everything published is passed and committed | 2 messages (junk, below and above the threshold), 2 restarts, 1 failing step, 2 instants with a period of 1: a repeat of a repeat, and a second sample. Partitions are handled alike and do not interact, so one is enough |
| narratives | `OutagesNeverSurface`: no outage of the models reaches a panel; `ProvenanceTrue`: stored and shown provenance is the writer's; `PoolAccounted`; `ShowsNewer`: no panel goes back in time; `MemoFollows`; `JobsEnd` | 1 alert's task and 2 panels on a pool of 2: any two overlap and the third can time out. 2 attempts (one retried, one the last), 2 requests, 1 fault or crash, 3 deployments: both failover orders and no key |
| scoring | `FusionIsMean`: weights sum to one and a missing value leaves the score between what was fused; `ResolvesNearest`; `LevelsAgree`: level, gauge and flag agree at every score; `ScoresConsistent`: aliases agree, scores are ordered as their inputs | tables of up to 4 rows, 10 ids: below, at, between (ties and not) and above the keys, of every form, with and without an alias; 3 outputs around the threshold |
| fusion_miss [v] | `MissNeverDepresses` | the same |
| live_feed | `OneSocket`; `FeedKeepsUp`: from a clean answer on, what is sent is what is shown, until a row is committed unannounced; `Heals`, `Reconnects`, `BroadcastReturns` | 1 row at the start and 2 writes on a page of 2 (one fits, one falls off), 1 fault, a buffer of 1 so that the second message stalls a broadcast, 2 browsers |
| seed | `SampleOnce`; `CompleteMeansUsable`; `AlertedShown`: the graph never forgets an alerted employee; `ShownHaveRows` | 3 sample and 3 synthetic accounts (mules and not, one whose donor lacks a feature), 2 runs, so one repeats a dead or a complete one, 2 live events, 1 failure |
| connections | `ReadyTruthful`; `NodesUnique`; `BootsAnyway`; `OutageShows` | 2 attestation requests (one may start refreshes that end in the other), 2 outages or recoveries, 1 death of the process, 2 writes to one node: the smallest race of two MERGEs |

Deadlock is checked in the replay and scoring runs. The others turn it off: a
bounded table, log, clock or number of requests is the end of the instance, not of the system.
The type invariants are theorems (section 6) and no run repeats them.

Each property of a passing run has a mutant of the code (operators with a suffix,
commented `Fault:`) that violates it, so no property holds by construction.

## 5. Fairness

Weak fairness is assumed of what the event loops and their timers must do
anyway, never of users, stops, failures or crashes.

- `AlertLifecycle`, `Seed`, `Scoring`: none; their properties are safety.
- `ReplayService`: every handler and loop step, as asyncio runs ready tasks and
  the awaited stores answer or fail. Nothing is assumed of `LoopPublish` (the file
  has half a million events) nor of timeouts, so a stop must work without them.
- `EventPipeline`: the task, the client's commits, Docker's restart (`restart:
  unless-stopped`).
- `Narratives`: every job's next step. Calls have client timeouts and the pool's
  wait has its own; nothing is assumed about what a call returns.
- `LiveFeed`: both event loops, the reconnect timer and the refetch interval. A
  peer reads or uvicorn's keepalive drops it: one of the two happens. Nothing is
  assumed about events, analysts, pages being opened or connections.
- `Connections`: Docker restarts the process, start-up and shutdown go on, a
  refresh ends by its 10 s timeout. Nothing is assumed about the services.

## 6. What is proved

All theorems hold for every value of the constants that satisfies the named
assumptions next to them. Bounds are naturals; the sample, the accounts and the
tables are finite (counting needs it); `None` is no value of the kind it stands
for. Those that describe data say what the files of the repository hold: at least
`Enough` mules in the sample, disjoint ids of sample and synthetic accounts, an
even threshold. TLC checked each inductive
invariant on the instance of its run before it was proved.

`AlertLifecycleProofs`
- `TypeCorrect`: `[]TypeOK`.
- `LadderHolds`: `[]OpenLadder` if "reopen" is not among the actions. The pages
  never send it, the API accepts it; after a reopen the rule fails (section 7).
  `OpenLadder` is not inductive: what the consumer read may be stale
  at its commit. `LadderInv` adds `TableOrdered` (ids follow time) and
  `ConsumerKnows` (every open recent alert is the row read, or a rung below it).
- `Implements`: `ImplementsBook` under the same condition: initial tables are
  books, every step is a raise, a fold, a triage, time or a stutter. A fold into
  a row that was triaged meanwhile is still a fold of the book.
- `ScoresRise`: `ScoresOnlyRise`, for any actions: what the consumer read as the
  score stays the row's score until its commit, for no other handler writes it.
- `TriageStays`: `TriageSticks`, from what requests remember.
- `AuditComplete`: `[]AccountedFor`: every owner and every investigating or
  escalated status has its audit row; every alert has its employee.
- `SilenceIsFaults`: `[]SilenceNeedsFault`, from `SilenceInv`: the row about to be
  announced exists and is no other's, so the silent rows grow by one only when the
  refresh fails, the commit's answer is lost or the process ends between commit and
  broadcast. The count is of a set (`Cardinality`),
  so finiteness is part of the argument.

`ReplayServiceProofs`
- `TypeCorrect`: `[]TypeOK` for any number of clients.
- `SerialOneLoop`, `SerialSafe`, `SerialCounts`: with one client, `OneLoop`,
  `StatusTruthful` and `NeverOvercounts` hold through all failures. The invariant is
  `SerialInv`: a live loop is the task, shows as running, and excludes a start
  past its check and a stop past its wait (`LoopKnown`); counters are bounded by
  what was sent (`RequestKnown`); a stale "running" is a request on its way or a
  fault (`StaleKnown`). With two clients `RunningShown` is false (replay_hidden).

`EventPipelineProofs`: every safety property of the run, for any partitions,
accounts, logs and numbers of faults and restarts.
- `TypeCorrect`.
- `RepeatsAreCrashes`: `[]RepeatsNeedCrash`, from `OffsetsInv` (what is stored or
  committed was consumed, what was consumed is in the log, and a message in hand
  belongs to a live task and is stored) and `RepeatInv` (an event counted more
  often than the process has crashed is committed, or stored by a live process).
- `StopsLoseNothing`: `[]LossNeedsFault`, from `LossInv`: while nothing failed, a
  message past its first step is counted.
- `CountsAgree`: `[]GraphFollowsDeltas`, from `GraphInv`: the handling under way
  accounts for the only difference between Redis and Neo4j.
- `AlertsFollowed`: `[]AlertsFollowedUp`, from `FollowInv`; `TracesLeft`:
  `[]AlertsLeaveTraces`, from `ShownInv` and `RecordsInv`.

`NarrativesProofs`: every safety property of the run, for any deployment.
- `TypeCorrect` and `PoolKept` (`[]PoolAccounted`) together: that the pool's count
  stays above zero needs the job that returns a connection to be counted, and
  `TasksInv` says that an alert's task starts from nothing.
- `OutagesHidden`: `[]OutagesNeverSurface`. `AfterType` is the heart: a call ends a
  job only by an answer of another shape.
- `ProvenanceKept`: `[]ProvenanceTrue`, from `JobsInv`: before the memo a job's
  writer is the template, at its save the provider whose turn it is, and after
  it the job points at a row a request stored.
- `NewerShown`: `ShowsNewer`, from `ShownInv`: a panel is not ahead of the row its
  request has stored and not shown.

`ScoringProofs`: every property of the run, for any tables, ids, outputs, threshold.
- `DisplayInBand`, `NeverShownLower`: the gauge shows a score inside the band of its
  level, and never shows a higher score lower, within a band and across its edges.
  Both rest on lemmas about rounded quotients.
- `FusedIsMean`: `[]FusionIsMean`, from `WeightsInv` (the weights are those of the
  tables there are) and `WeightedMean`.
- `ResolvedNearest`: `[]ResolvesNearest`. `BisectSplits` says what `bisect_left`
  returns on a sorted list, `CandidateKeys` that no key is nearer than one of its two
  neighbours. `KeysExist` shows that the list `Load` chooses exists for every table
  (an id more goes where the search finds its place), so nothing is proved of a
  `Load` that cannot happen.
- `LevelsMatch`: `[]LevelsAgree`; `ScoresAgree`: `ScoresConsistent`, an action
  property. `ResultInv`: a result is what scoring would give now, or it was given
  before the tables were loaded and is the blend alone.

`LiveFeedProofs`
- `TypeCorrect`; `OneSocketHolds`: `[]OneSocket`, from `SocketInv`: every socket made
  before the client's current one is closed, and none after it has been made.
- `FeedFollows`: `[]FeedKeepsUp`. The condition `clean` ends with a lost connection
  and with a row nobody announces, so what is proved is the rest: triages, folds,
  stalls, failures of a peer and refetches that race nothing. The property speaks of moments when nothing is under
  way; `KeepsUpInv` says what holds in between. There are views of the table, the
  page shows the first, each message on its way leads from one to the next, and the
  last is the table, or becomes it by the message the consumer holds. A message that
  is queued adds a view, one that is received takes one (`OnItsWay`, `Taken`);
  `NewOnTop` and `MergedIn` say that the page's merge does what the table did.
- `LossAnswered`: the safety half of `Reconnects`. While the newest socket is closed
  a timer is scheduled and a socket is left to make (`AttemptsInv`: one socket per
  fault); an open socket is registered, and a registered one is open or has its
  handler (`RegisteredInv`). That the timer fires stays with TLC.

`SeedProofs`: `TypeCorrect`; `ShownExist`: `[]ShownHaveRows`, from `RowsInv` (what
the graph stage listed or is writing has its employee row, and so has the account
the consumer handles); `AlertedAreShown`: `[]AlertedShown`, from `RecordedInv` and
`AlertingInv` (an employee with an alert has an alerting score in the history or
one on its way, which is what the seed reads before it writes a node);
`SampledOnce`: `[]SampleOnce`, from `SampleInv` (the sample's employees are all in or
all missing, and missing while a run is about to insert them);
`CompleteRunsSuffice`: `[]CompleteMeansUsable`, from `UsableInv`, which says for each
stage what the stages before it have left and what the present one still owes, with
the cardinalities it is a matter of.

`ConnectionsProofs`: `TypeCorrect`; `ClientsStay`: `[]ClientsKept`, a process that
serves holds a Redis client and a driver whatever failed on the way, and started a
consumer, which runs or was ended by a message (more cannot be said of it);
`OneNode`: `[]NodesUnique`, from `NodesInv` (the seed has the constraints before it
merges; a consumer that found no node without them is alone);
`ReadyTells`: `[]ReadyTruthful`, from `ReadyInv` (each answer collected so far lies
between what was up throughout and what was up at some moment).

Model-checked only: liveness and fairness (beyond the prover): `RequestsReturn`,
`StopDrains`, `Drains`, `MemoFollows`, `JobsEnd`, `Heals`, `Reconnects`,
`BroadcastReturns`, `BootsAnyway`, `OutageShows`. Of the replay with several clients
only type correctness is proved: its other invariants need one client (section 7).

## 7. Disagreements found

1. **replay_hidden**: a stop that comes between start's `already_running` check
   (`replay_service.py:83`) and its `_stop_event.clear()` (107) sets the event and
   finds no task; start clears the event, writes "running" and makes its loop; then
   the stop writes "idle" and is answered so. The loop never sees a stop and
   publishes under the status "idle", although the request is `# Stop replay`
   (`QUICKSTART.md:50`), its answer is shown as "Replay stopped"
   (`ReplayStudio.tsx:44`), and Stop is offered only for `status === 'running'`
   (`ReplayStudio.tsx:86`). A stop after the clear is harmless: the loop sees it.
2. **fusion_miss**: an account that is in neither embedding table gets the value of
   its nearest neighbour in them, which can lower its score; the neutral
   substitute that the documentation promises is only for ids without a number.

Seen while modelling, without a run of their own:
- After a reopen two alerts of an employee are open, the consumer compares with the
  newest only (`alert_service.py:88`), and a third is inserted below an open one,
  which `alert_service.py:4-6` excludes.
- A triage between the consumer's SELECT and its commit leaves the event folded
  into a closed alert (`alert_service.py:122` against `101-103`).
- A replay start dismisses alerts without audit rows (`replay_service.py:97`
  against `ROUND1_GAP_ANALYSIS.md:99`).
- `score_history` takes a row per employee whenever the last is a minute old
  (`event_consumer.py:174, 257`); `ARCHITECTURE.md:126` says "sampled hourly during
  replay". `AlertsLeaveTraces` is about the code's period.
- A template memo is stored with the provider "fallback"
  (`narrative_service.py:176, 233`); the comment of `NarrativeResult.provider`
  (`narrative_service.py:53`) says '<provider>-fallback'. `ProvenanceTrue` is about
  what the code stores.
- A refresh that fails after the commit (`alert_service.py:168`), or is cancelled
  there by a stop that timed out, leaves an alert that no client is told of, with no
  graph score and no memo until someone opens it; `event_consumer.py:110` logs it.
- A message without a value, or one that is no UTF-8, ends the consumer's task
  (`event_consumer.py:104` catches only `JSONDecodeError`), and readyz goes on to
  say ok.
- After an error in the loop's `finally` every stop re-raises it and the status
  stays "running" (`replay_service.py:122` against `QUICKSTART.md:50`).
- An alert opened while its background task waits for the model gets two memos
  (`event_consumer.py:272-276`), and the later one may be the template.
- A burst's HINCRBY is overwritten by the running loop's HSET
  (`replay_service.py:151`, `224`), hence `NeverOvercounts` is one-sided.
- A request whose refresh finds no connection is answered 500 with its memo stored.
- readyz reports the model gateway by the attestation, which is fetched at boot
  and not again until someone asks for it (`health.py:90-92`).
- A failed connect leaves Neo4j without constraints: the backend makes them only
  in `connect` at start-up (`main.py:71`), so until a restart or a seed nothing
  but the consumer's being the only writer keeps a node unique (`NodesUnique`).
- A second seed adds systems and accesses, as Python's `hash` of a string is salted
  per process, and may overwrite a newer live score in the graph: `seed.py:3` says
  "Idempotent. Safe to re-run."
- A synthetic account whose donor lacks a feature has an empty base feature, and
  each of its events fails.
- `assert_bootstrap` compares with `n_rows // 10`; `hawkeyeWs.disconnect()` is never
  called; a triage is not announced, and `alert.updated` carries the status its
  handler loaded, which the page shows until its next refetch.

## 8. Abstractions and limits

- One backend process and worker, as the Dockerfile starts it.
- Payloads, SHAP factors, wording and logs are left out. A score is a number of
  hundredths (of `Cent` units in `RiskLevels`); the LightGBM models that compute
  its first half are free outputs, the embeddings are what their lookup tables hold.
- Audit rows form a set: repeats of the same action are one.
- Kafka keeps its log (24 h retention) and answers commits; Redis keys do not
  expire within a behaviour.
- Seeds run one at a time: the boot sequence runs one. The accounts of the sample
  matrix and the synthetic ones have disjoint ids (`ACCT_`, `ACC_`).
- Not modelled: ML numerics and SHAP (numerical code), read-only APIs, feature
  labels, authentication, page rendering, preflight and verification scripts,
  notebooks, infrastructure. `PROJECT.json` gives each reason.
