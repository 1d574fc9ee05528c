# OTSOC in TLA+

OTSOC collects security telemetry on endpoints of an industrial network and
brings it to a central server. An endpoint agent stores each event in a local
SQLite database, runs detection rules on it and forwards it over HTTP; the
server queues it on a Valkey stream, and workers persist it in PostgreSQL and
raise alerts. This directory holds TLA+ models of the parts that carry state,
the TLC configurations that check them, and TLAPS proofs about each of them
and about agent and server together.
Paths below are relative to the repository's root.

## The system and its parts

| Part | State | Operations | Interacts with |
|---|---|---|---|
| event store `agent/internal/storage/sqlite.go` | tables `events`, `dead_letter_queue`, `agent_state` (next sequence number, drop counters, pressure); mutex | `Store` (with `enforceQuota`), `GetPendingEvents`, `MoveToDLQ`, `RemoveEvent`, `MarkFailed`, `Init` | called by engine, detection and forwarder, one at a time under the mutex |
| ingestion engine `agent/internal/ingestion/engine.go` | the event in hand, its context, its uncertain attempts | `Run`, `ProcessEvent` | receives from the channel, calls the store, calls back detection |
| detection `agent/internal/detection/engine.go` | none of its own | `Evaluate` | stores findings as events |
| forwarder `agent/internal/forwarder/forwarder.go` | a batch of copies of stored rows | `processPending`, `sendEvent` | reads and updates the store, posts to the server |
| endpoint process `agent/cmd/endpoint/main.go` | channel, `ctx`, `drainCtx` | start, signal, drain, exit | owns all of the above |
| process collector `agent/internal/collectors/process` | known process instances, baseline flag, one goroutine | `Start`, `Stop`, `captureSnapshot`, `Reconcile`, `emit` | polls the host, sends on the channel |
| network and inventory collectors `collectors/network`, `inventory` | one goroutine each | `Start`, `Stop`, `takeSnapshot` at every tick | poll the host, send on the channel |
| filesystem collector `collectors/filesystem` | watcher, one goroutine | `Start`, `Stop`, `handleEvent` | receives from fsnotify, sends on the channel |
| USB collector `collectors/usb` | inner channel, watcher goroutine; on Windows a message loop, `watcherOut` and its mutex | `Start`, `Stop`, `emitEvent`, the watchers | netlink or window messages, sends on the channel |
| passive network collector `collectors/passivenetwork` | inner channel, capture adapter | `Start`, `Stop`, `processRaw`, the decoder | receives frames, sends on the channel; not started by the endpoint yet |
| database life `agent/internal/storage/sqlite.go` | database file, `.corrupt.*` files, legacy identity file, maintenance task | `Init`, `initIdentity`, `migrateRetryTimestamps`, `degradeStorage`, `Close` | called by `main` at start and exit |
| resource governor `agent/internal/governor` | host state, recovery timer, metrics | `Coordinator.Step`, `Governor.Evaluate`, `RecordTransition` | samples the host, the store's size and the channel |
| ingest API `server/internal/api/ingest.go`, `queue/producer.go` | none | `ServeHTTP`, `Publish` | writes the stream |
| worker `server/internal/queue/consumer.go` | work lists of its two goroutines | `Start`, `recoverPending`, `processMessage` | stream, pending entries, PostgreSQL, dead letter stream |
| repository `server/internal/db/repository.go` | tables `events`, `alerts` | `PersistEvent` | called by the workers |

What makes these parts hard is listed, line by line, under `hazards` in
`PROJECT.json`: commits whose result is unknown, statements of one call that
commit separately, copies of rows that are stale when a reply arrives, two
contexts that are cancelled one after the other, crashes between any two
commands, messages processed by two workers at once, a bounded recovery list,
a recovery timer driven by long sequences of readings, starts that were cut
short, and goroutines that wait for each other over full channels.

What makes each part correct:

- store: an event has one durable home; a sequence number is used once; pruning
  respects importance and age; drops are not over-counted;
- agent: what was reported committed is not lost; nothing is sent or detected
  before it is durable; a row leaves for a reason; critical rows leave in the
  end; an event is numbered again only if the server has it; shutdown ends, or waits
  for nothing but a collector's `Stop`;
- server: nothing is acknowledged before it is settled; effects happen once; a
  failed message is retried until it is persisted;
- agent and server together: what was reported committed is stored, on its way or
  in PostgreSQL, and arrives there once;
- process collector: no exit is reported of a running process; its events add up
  to what it knows; `Stop` ends and nothing is sent after it;
- other collectors: nothing is sent on a closed channel, skipped or overtaken; a
  failed reading does not pass for an empty one (except that of an interface's
  addresses); the decoder stays in the frame
  and claims only what is there; `Stop` returns;
- database life: identity, rows and retry times survive every start, crash and
  corruption until an operator decides otherwise, or a start overlooks a
  quarantined database; `Close` returns;
- governor: pressure is answered at once; recovery is sustained, does not flap
  and, while sampling goes on, ends.

## Modules

### EventStore

The store under arbitrary callers. Every method of the code holds `s.mu` from
entry to return, so at most one call is inside. `Store` runs several statements,
each of which commits by itself, and becomes the steps `StoreBegin` (idempotency
check), `CheckQuota`, `PruneRound`, `Account`, `Verdict` and `StoreTx` of the
record `call`; the other methods are one statement or one transaction and one
step each, possible when `Idle`. Every statement may fail, and must fail when
the caller's context is cancelled. The error of `Commit` is `uncertain`: the
transaction was applied or not. A crash forgets `call`; the tables stay.

A row is `[content, seq, due]`. The payload is the pair of content and sequence
number, because serialization embeds `seq_no`; `due` stands for
`next_attempt_at`. The size of the database files is an input of each reading,
in three classes, because SQLite and not this code decides how it changes.
`allocated` and `pruned` are history variables.

### EdgePipeline

The agent: `INSTANCE EventStore` with the real callers. The engine and the
forwarder are two goroutines with a program counter each (`eng`, `fwd`);
`phase`, `expired` and `starts` are the life of the process. `Cancelled("ctx")`
and `Cancelled("drain")` are the two contexts. The server is external: it
accepts, rejects for good or answers something temporary, and both the request
and the response may be lost. A request that the forwarder has given up, because
the client's timeout of ten seconds passed or its context was cancelled, stays in
`transit`, and the server may still serve it (`ServedLate`), also when the row has
been pruned or the agent is down. The forwarder's `batch` holds copies; the rows may
be pruned, moved or stored again before the reply comes. That the agent uses the
store only as `EventStore` allows is the refinement `StoreIsRespected`.

`CloseChannel` stands for `main`'s wait for the `Stop` of every collector. A `Stop`
may hang (`collector_stop` below), so nothing says that this step is ever taken, and
`ShutdownCompletes` allows for it: after a signal the process ends, or it stays
where only that wait is left, with the channel drained and the engine idle.

### CentralPipeline

The server. Valkey is the stream, the group's cursor and its pending entries
list; PostgreSQL is two tables. Each worker has a main and a recovery goroutine
that work through `todo`. Every command may be applied, fail, or be applied and
seem to fail. Messages another program writes are `Malformed`.

### EndToEnd and EventDelivery

`EndToEnd` joins one agent, `EdgePipeline`, with the server, an instance of
`CentralPipeline` whose events are the agent's and those of other agents. They meet
in the forwarder's request: what `FwdPost` and `ServedLate` leave open, that the
server has the event from now on, is here a step of both, `FwdPost` or `ServedLate`
of the agent and `Ingest` of the handler. `PostServed` is a request that the
handler publishes, answered with 202 only if `XADD` succeeded; `PostUnserved` one
that is lost, refused or delayed; `LateServed` one that arrives after the
forwarder gave up, possibly a further copy of an event that is published already.
All other steps are of the agent or the server alone. One agent is enough: agents
share only the server, and to this one the others are `Others`.

`EventDelivery` is what the two together promise to a reader of the central
tables. An event is `held`, then `delivered` and, if `Urgent`, in the same step
`raised`; only events that are not urgent may be `discarded`; one that is
`promised` was held first. There are no copies, messages, retries or crashes in
it. `DeliversEvents` is the refinement: held is what is in the agent's store or in
the stream unacknowledged, and not yet in PostgreSQL; delivered and raised are the
rows and alerts of this agent; discarded is what the quota pruned, promised what
was reported committed. `EventDelivery` is part of no other module and is not
derived from code.

### ResourceGovernor

One sampling is one step, as it runs under the coordinator's mutex; time passes
between samplings. Each input is a level, unavailable or an error. Ages
saturate at `RecoveryDuration`, which is the only duration the code compares
with. The constants are constrained by what `validateConfig` accepts. The
endpoint itself configures no storage budget, so that it never evaluates; both
cases are initial states. Nor does it sample more than once: `main` makes a single
`Step`, and `RunSampling` is a harness of the tests. `ReliefEndsInNormal` is therefore
conditional on sampling that goes on. Readings that `UpdateCPU` and `UpdateDisk`
refuse are left out: a refusal changes the metrics and the error of `Step`, and
neither is asked about.

### ProcessLifecycle

The process collector with the host it observes. Listing the PIDs and asking for
the start time of each are separate steps, and processes start and exit between
any two of them. A question may fail, and is answered for the process that has
the PID at that moment; on Windows also for one that has just exited, while
somebody keeps a handle on it. `known` and `initialized` are the fields of
`LifecycleEngine`. `Reconcile` is the part under the lock; it leaves the events
in `queue`, and `Emit` is the `select` that sends or gives up each of them. Only
one goroutine calls the engine, so the lock never matters. `Start` and `Stop`
may be called in any order; `cancelled` is the goroutine's context. `baseline`
and `sent` are history variables. `HandleEvent` is left out: no part of the
program calls it.

### Collectors and PassiveDecoder

The five other collectors share nothing but the channel, so `Init` chooses one
of them and the host's operating system, and everyone else's use of the channel
is `Traffic` on its fill level. `worker` is the `run` goroutine, `source` what
feeds it (the USB watcher, fsnotify's reader, the replay adapter), `pump` the
goroutine with the Windows message loop, `inner` the channel between them.
Reports of the system are numbered, so that a lost or overtaken one is seen.
`Emit` and `Stalls` are the two `select` statements with which an event is handed
over. A snapshot is taken in one step; each of its sources is read or fails by
itself, and `event` keeps what was reported beside what was true. In an inventory
the addresses of each interface are a source as well, and the code does not name
their failure: `Addresses` gives an empty list, although a comment wants no failed
collection to look like an empty one (`inventory/collector.go:123` and `:169`; the
test beside the comment is only whether everything failed). `SnapshotsAreHonest`
says what holds and exempts this case. On Windows the message loop may also end by
itself (`LoopEndsEarly`). `main` is the
caller: `Stop` after the signal, then the closing of the channel. `Start` and
`Stop` are called once; their flags make other calls return.

`PassiveDecoder` holds the decoder as operators from a frame to an observation. A
frame is its captured length and the header fields, some of which may lie beyond
that length; `read` is a ghost that says how far the decoder has looked, the start
of a slice of the rest of the frame included. `Intact`
and `HoldsModbus` say what a frame really holds, without the decoder's order of
tests.

### StoreLifecycle

The database from one start to the next. `Init` of the code is the steps `Start`,
`Open`, `IntegrityCheck`, `ChooseId`, `CommitId`, `RemoveIdFile` and
`migrateRetryTimestamps`; every one may fail and the process may die after each.

A database is a file and its write-ahead log, and `wal` says that the log holds
what the file does not have yet. `degradeStorage` renames the file and `RenameLog`
the log; the second may fail, or never happen, and the log is then left behind.
What keeps that harmless is that `Start` is refused while there is a `.corrupt.*`
file, but `filepath.Glob` reports no unreadable directory and its error is
discarded, so that a start may overlook the file (once, as a bound). Then `Open`
creates a database beside the quarantined one, and SQLite deletes a log it finds
there. The ghosts `overlooked` and `lostLog` record the two. `quarantine` is a set,
as a second database may follow the first. Two quarantines within one second would
have the same name; this is not modelled.

A retry time is a clock reading with a zone, or garbled text. `MarkFailed` computes
the real delays in seconds for the attempt counters `Counts`; only the largest `int`
is smaller than in the code. The mutex and the maintenance task are there for
`Close`. The operator is external: a quarantined database is repaired or given up.
`established`, `stored`, `promise` and `retry` are history variables too. What
happens to rows while the agent is up is in `EventStore`.

### Abstractions

Event contents, errors and log lines are reduced to what a property tells apart.
`Serialize` of an event that was decoded from JSON does not fail, so the
forwarder's branch for that is left out. Cross-tenant batches, rule matching and
validation are constants (`Foreign`, `FindingOf`, `Malformed`). In the agent a
collector is an action that blocks on a full channel. The forwarder's wake-up adds nothing to
its ticker.

## Runs

| run | instance | shows |
|---|---|---|
| `store` | 3 events of two severities, 3 numbers, batches of 1 | the five properties of the store |
| `edge` | telemetry that matches a rule and its critical finding, 1 start, 2 numbers, with fairness (96,000 states) | durable first, refinement of `EventStore`, critical rows leave, shutdown completes or waits for a `Stop` only |
| `edge_quota` | prunable telemetry of a foreign tenant and critical telemetry whose row may become unreadable, 2 starts, 2 numbers (4.9 million states) | no loss after commit, a second number only for what the server has, and rows leave for a reason only, when both compete for the store |
| `central` | 1 worker with its 2 goroutines, 2 messages, 1 crash, one of two events never accepted by PostgreSQL, with fairness (15,000 states) | nothing acknowledged unsettled, effects once, the other event is persisted |
| `end_to_end` | the agent of `edge`, 1 worker, 2 messages (1.6 million states) | nothing lost between channel and PostgreSQL, refinement of `EventDelivery` |
| `process` | 2 PIDs, each used twice at most, channel of 1, Linux and Windows | no false exit, stream and state agree, PIDs handed over in order, `Stop` ends, exits reported |
| `governor` | thresholds one unit apart, recovery time 2 | pressure, recovery, flapping, return to NORMAL while sampling goes on |
| `collectors` | each collector on Linux and Windows, channels of 2, 5 reports, tables of up to 2 rows, some 3800 frames cut around every length the decoder tests | no send on a closed channel, nothing skipped, honest snapshots (but for the addresses), decoder in bounds, sound evidence, `Stop` returns |
| `restart` | 2 rows, one migrated per start, 2 generated ids, counters 8, 9 and 11 with `int` up to 11, one start that overlooks a quarantined database | rows are kept; identity and retry times are, and no log is lost, unless a start overlooked a database; waits follow the formula, `Close` returns |

Runs that are expected to end in a violation record where a comment or document
says more than the code does:

| run | the code |
|---|---|
| `retry_prunes` | a retry of an event that was committed and has left the store prunes again |
| `central_starved` | messages PostgreSQL can never take (a NUL character in a string passes `Validate`) fill the recovery list and hide later ones |
| `collector_stop` | on Windows a device notification that meets a full inner channel after the cancellation blocks the message loop, and with it the watcher, the collector and `Stop` |

`StopReturns` in `collectors` shows that this is one of only two ways in which a
collector cannot be stopped; the other one is a message loop that the Go runtime
has moved away from the thread that owns the window, as the code does not lock
it (`Wedged` names both).

### Bounds

Every bound is a constant: `MaxSeq` (numbers allocated), `MaxStarts`,
`MaxMsgs`, `MaxCrashes`, `MaxInstances`, `MaxReports`, `MaxRows`, `MaxIds`. Two events of one severity are enough
to make age matter and one of a second severity to make order matter; a
protected one, to notice when it is touched, is in `edge_quota`. Three numbers in `store`
let an id be stored, removed and stored again next to another one. `PruneBatch`, `BatchLimit`, `ReadCount` and
`RecoveryBatchSize` are smaller than in the code so that their limits are met.
On the server two messages and the two goroutines of a worker let both work on the
same message, or on two messages with the same event. Three uncertain attempts are as in the code. In the
governor each region between thresholds has one level; comparisons are all the
code does with them. In the process collector a process that is there from the
start and one that is started later are enough for a PID to change hands, next
to a second PID; a channel of one is full after each event.

The product of agent and server is large, so `end_to_end` does not pursue what the
runs of its parts explore: `NoShutdown` stops at an orderly shutdown (but not at
the agent's crash), `SureCommits` at a commit of unknown result, and `OwnTraffic` at
a worker's crash and at messages of others. An event still gets into the stream
twice, by a lost answer or a late request. The safety properties are proved without
these bounds and for any number of starts and workers; larger instances of the
agent (2 starts with a finding), of the server (2 workers with 2 messages and a
crash: 1.7 million states) and of both (a critical event, 2 messages and a worker's
crash: 1.5 million states) were checked once and are too slow to keep.

Five reports fill an inner channel of two, the hands of two goroutines and leave
one to be dropped. The frames have every captured length at which the decoder
decides, and one less, for legal and illegal header fields at each layer. In
`restart` the attempt counters 8, 9 and 11 are those just below and at the
saturation of the backoff at 10, and the one that overflows at `IntMax`; two rows with
a migration limit of one need a second start, and two generated ids let a database
that replaced an overlooked one have an identity of its own.

`CHECK_DEADLOCK FALSE` is set for the agent, the collectors and the server: the
agent stops after its last start, a collector after `Stop`, and the server is
idle when the bounded stream is done.

### Fairness

`EdgePipeline`: engine, forwarder and shutdown steps are weakly fair, because
the Go runtime schedules every goroutine and each wait has a ticker, a timer or
a deadline; so is the passing of a retry time. Strongly fair are a final answer
of the server to an event it is asked about again and again, and the success of
a dead-letter move that is attempted again and again. No fairness for
collectors, signals, crashes and corruption, nor for `CloseChannel`, which waits for
the collectors' `Stop`; `CriticalEventuallyLeaves` is
conditional on the agent running from some time on.

`CentralPipeline`: goroutines and idle times are weakly fair; a claim and a
persist that are attempted again and again succeed in the end (a persist only
if PostgreSQL can accept the event).

`ProcessLifecycle`: the goroutine is weakly fair. Strongly fair are the success
of a listing that is repeated, and the end of the loop, because `select` picks
among ready branches at random. Nothing is assumed of the host, of the callers
of `Stop` or of single reads; `ExitReported` supposes that the channel is
emptied and allows that another process, perhaps one that can never be read,
holds the PID.

`Collectors`: goroutines are weakly fair, the end of a loop strongly, again because
`select` picks at random. Nobody has to read the channel, so `StopReturns` does
not rest on the ingestion engine.

`StoreLifecycle`: whoever holds the mutex gives it back; taking it is strongly
fair (a `sync.Mutex` hands itself to a waiter that has starved for a
millisecond), and so is the maintenance task's end.

`ResourceGovernor`: only time is weakly fair. That samplings go on is a condition of
`ReliefEndsInNormal` and not part of the specification, because the endpoint does
not repeat them.

## Proofs

Each model has a module of proofs. Every bound is a constant there, so the
theorems hold for any number of events, rows, workers, processes, starts and
allocations. All invariants the passing runs check are proved, with the safety
properties about steps and the two refinements.

| module | theorem | states |
|---|---|---|
| `EventStoreProofs` | `TypeCorrect` | `[]TypeOK` |
| | `OneDurableHome` | `[]OneHome` |
| | `SeqNeverReused` | `[]SeqAllocatedOnce` |
| | `PruningInOrder` | `PruneRespectsPriority` |
| | `DropsNeverOvercounted` | `[]NeverOvercounted` |
| `EdgePipelineProofs` | `AgentTyped` | `[]TypeOK` |
| | `NothingLostAfterCommit` | `[]NoLossAfterCommit` |
| | `CommitComesFirst` | `[]NothingPrecedesItsCommit` |
| | `NumberedOnceUnlessSent` | `[]RenumberedOnlyIfSent` |
| | `RowsAlwaysLeaveForAReason` | `RowsLeaveForAReason` |
| | `AgentImplementsStore` | `StoreIsRespected`, the refinement |
| | `AgentKeepsTheStore` | the store's `OneHome`, `SeqAllocatedOnce`, `NeverOvercounted` and `PruneRespectsPriority`, for the agent |
| `CentralPipelineProofs` | `CentralTyped` | `[]TypeOK` |
| | `AtLeastOnce` | `[]NothingAckedUnsettled` |
| | `EffectivelyOnce` | `[]EffectsHappenOnce` |
| `EndToEndProofs` | `SystemRunsBoth` | a behaviour of the joined system is one of the agent and one of the server |
| | `NothingIsLostEndToEnd` | `[]NothingLostEndToEnd` |
| | `SystemImplementsDelivery` | `DeliversEvents`, the refinement |
| `ResourceGovernorProofs` | `GovernorTyped` | `[]TypeOK` |
| | `PressureAlwaysAnswered` | `[]PressureAnswered` |
| | `RecoveryAlwaysSustained` | `RecoveryIsSustained` |
| | `NoFlapping` | `SettlesWhereItFell` |
| `ProcessLifecycleProofs` | `ProcessTyped` | `[]TypeOK` |
| | `NeverFalseExit` | `[]NoFalseExit` |
| | `StreamIsTheState` | `[]StreamMatchesState` |
| | `PidsHandedOver` | `[]PidHandover` |
| `CollectorsProofs` | `DecoderIsSound` | for every frame of every length: in bounds, and claims only what is there |
| | `CollectorsTyped` | `[]TypeOK` |
| | `NeverSendsOnClosed` | `[]NoSendOnClosed` |
| | `NothingIsSkipped` | `[]NothingSkipped` |
| | `SnapshotsHonest` | `[]SnapshotsAreHonest` |
| | `DecoderInFrame`, `EvidenceSound` | `[]DecoderStaysInFrame`, `[]EvidenceIsSound` |
| `StoreLifecycleProofs` | `StoreTyped` | `[]TypeOK` |
| | `IdentityAlwaysKept` | `[]IdentityIsKept` |
| | `NothingEverReplaced` | `[]NothingIsReplaced` |
| | `RetryTimesAlwaysKept` | `[]RetryTimesAreKept` |
| | `BackoffAlwaysMatches` | `[]BackoffMatchesFormula` |

### Assumptions

They are named in the modules and evaluated by TLC on every run. Most say that
bounds are positive numbers, sets of events, rows and PIDs finite, and
placeholders (`NoEvent`, `Garbage`, `NoGroup`, `NoDb`, `Malformed`) not real
values. Those with content:

- `ConfigAssumption` of the governor is what `validateConfig` accepts: the saver
  threshold below the emergency one, the margin below both, a positive recovery
  time;
- `PipelineAssumption` lets no two events have the same finding, because a
  finding's id is a hash over tenant, rule, version and event id
  (`agent/internal/detection/engine.go:97`). Without it a finding that has left
  the store could be stored again for another event;
- `SystemAssumption` says that ids of two agents' events differ, as they are
  random UUIDs or hashes, and that the server raises alerts for exactly the
  severities the agent's quota spares, CRITICAL and FATAL
  (`server/internal/db/repository.go:65`, `sqlite.go:378`);
- `StoreAssumption` lets the database of an older release (`OldTables`) hold legacy
  or garbled times only, and an `int` be at least 10, where the backoff saturates.

### Arguments

`EventStore`. `IInv == TypeOK /\ OneHome /\ SeqAllocatedOnce /\ NewId /\
TiersEmptied /\ AtQuota`. `OneHome` alone is not inductive: the INSERT of
`StoreTx` keeps it only because the id found in neither table by `StoreBegin` is
still in neither, which is `NewId` and holds because the mutex keeps `MoveToDLQ`
and the others out. `PruneRespectsPriority` needs that the severities before the
current one have no rows left, `TiersEmptied`; it holds because the loop goes on
only after an empty batch, and a batch is empty only if the severity has no row
(`EmptyBatch`, by the well-ordering of the naturals). `AtQuota` says that the
loop starts with the first severity. `NeverOvercounted` compares counters with a
cardinality; `CountInv` adds that pruned pairs were allocated, are no rows any
more and are finitely many (`PrunedApart`), so that a batch adds its size.

`EdgePipeline`. `EdgeInv == DBP!IInv /\ AgentInv`, where `DBP` instantiates
`EventStoreProofs`: each step of the agent that touches the store is a step of
the store, and its lemmas are reused. `AgentInv` says who holds the mutex and
that an answer `nil` is true (`HeldByEngine`), that an event is on its way in one
place and decided once (`DecidedOnce`), and that the forwarder's copies are of
rows that were allocated and its 202 came from the server (`Copies`). What is in
a request that was given up was committed (`InTransit`), so that serving it late
puts nothing on the server that was not durable first.
`NoLossAfterCommit` rests on two facts: an event that is safe stays safe in
every step of the store and the forwarder (`SafeStays`), and an outcome is never
taken back (`OutcomeStays`). `RenumberedOnlyIfSent` has a second invariant on top,
`NumberInv`: what was committed is stored, with the server or pruned
(`Whereabouts`), and what the engine has in hand or will get is not pruned
(`NotPruned`). The latter holds because the quota works only inside a `Store` of the
engine, on rows that are there, and the event being stored is not. `Numbers` keeps sequence numbers in the range for
which the abstract store has callers; the refinement needs it.

`CentralPipeline`. `CentralInv == TypeOK /\ Workmanship /\ Published /\
Delivered /\ EffectsHappenOnce`. A message leaves the pending list only from
`ack`, and a goroutine that stands there has a settled message in hand
(`Workmanship`). That is not undone by the other goroutines that process the same
message, because rows and dead letters are only added. Thus a message of the
group is pending or settled (`Delivered`).

`EndToEnd`. `SystemInv == EdgeInv /\ SP!CentralInv /\ Coupled`. Every step is a
step of the agent and one of the server, or leaves one of them alone; so the two
invariants and all their lemmas hold, and `SystemRunsBoth` carries over every
theorem about either. What neither has is the connection: the events the agent
counts as accepted are those of its events that are in the stream, and the central
table holds only events from the stream (`Coupled`). With the server's `Delivered`
an accepted event is then in flight or has its row, and `NoLossAfterCommit` becomes
`NothingLostEndToEnd`. For the refinement, `HeldSeen` rewrites `Held` as what is
stored or accepted and not in the table. In this form posting an event, repeating
it, serving it late, removing its row, acknowledging and crashing are invisible;
a commit is `Keep`, an outcome `Promise`, a first `PersistEvent` `Deliver`, a
pruning round `Discard`. That no other step takes an event out of the store unless
the server has it is `StoreSeen`, which sums up what a step does to the store.

`ResourceGovernor`. `GovInv == TypeOK /\ TimerIsHonest /\ PressureAnswered`: the
recovery timer runs only above NORMAL and is never older than the last reading
that held the host where it is. `RecoveryIsSustained` is the comparison of the
timer with `RecoveryDuration`. `SettlesWhereItFell` follows from the hysteresis
of `computeTargetState`: a margin lowers only thresholds the host has passed on its way up.

`ProcessLifecycle`. `ProcessInv` adds to the properties what holds during a scan:
a known process that still runs is still to be read, was seen, or could not be
read (`Covered`); a PID is in one of these places only and with one process
(`Single`); nothing in the scan has been reported gone (`NoneGone`), as start
times do not come again (`Past`). `Handover` is `PidHandover` said of positions,
including the events that are still to be sent. `Ordered` picks a sequence with
`CHOOSE`; that there is one, for every finite set, is proved by giving each
process the number of those before it as its place.

`Collectors`. `CollectorInv == TypeOK /\ ShutInv /\ SnapshotsAreHonest /\
FromFrames /\ Quiet /\ Sorted /\ Accounted`. `ShutInv` places each goroutine: which
may exist in which collector, that none runs before `Start`, and that none is left to
send once `main` has closed the channel. `Sorted` and `Accounted` say that the reports, in the order delivered, in hand,
in the inner channel, held by the sender, are increasing and, until the
cancellation, complete. The decoder has a lemma per layer: each leaves an
observation that is known or rejected, and has read within the captured length.

`StoreLifecycle`. The properties speak of a running agent; `StoreInv` says what
holds at every step of a start. While no start has overlooked a quarantined database
there is one, in place or in quarantine, and a log in place belongs to it
(`OneDatabase`); the identity is the one it holds, or the one the legacy file
would give it (`Identity`); times are in it, also those not migrated yet
(`TimesKept`). Rows are in some database whatever was overlooked (`RowsKept`): a
rename moves them, and only the operator gives one up. `BackoffMatchesFormula` needs that
`5 * 2^n >= 3600` for every `n >= 10`. The power is the recursive function
`Shifted`; that it exists is proved from its approximations on `0..n`, which agree
with each other, and what it computes from the well-ordering of the naturals: the
least number at which a claim fails would be the successor of one at which it
holds. So it is 1024 at 10, and no less from there on.

TLC has checked each inductive invariant on the instances of the runs.

### Only model-checked

- Liveness: `CriticalEventuallyLeaves`, `ShutdownCompletes`, `PendingIsRetried`,
  `ReliefEndsInNormal`, `StopCompletes`, `ExitReported`, `StopReturns`,
  `CloseReturns`. TLAPS does not reason about fairness.
- The runs that end in a violation; their counterexamples are the result.

## Not modelled

Resource providers (the governor's model takes every result they can return as
an input), health manager, read API, dashboard, configuration, rule text
matching, the YARA rule and the command line tools: system calls, parsing or
read-only code without shared state. `identity.LoadOrInitialize` and
`HandleEvent` of the process collector, which nothing calls. Power loss under
`synchronous = NORMAL`, and how deleting rows changes the size of the database
file, which SQLite decides. The optional metadata of process events, which on
Windows may mix two processes when a PID is used again
(`adapter_windows.go:108`). The reasons are in `PROJECT.json`, component by
component.

## Plan

Order of work, most important first; all of it is done.

1. `EventStore` with theorems, because everything durable rests on it.
2. `EdgePipeline`, composing it with engine, detection, forwarder, shutdown.
3. `CentralPipeline`.
4. `ResourceGovernor`.
5. `ProcessLifecycle`.
6. `StoreLifecycle`.
7. `PassiveDecoder` and `Collectors`.
8. Proofs of the invariants, of the safety properties about steps, and of the
   refinement of `EventStore` by `EdgePipeline`.
9. `EndToEnd`: agent and server joined, and `EventDelivery`, an abstract
   specification of delivery with one effect, with a proof that they implement it.
