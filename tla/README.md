# Verification of the energy monitoring pipeline

TLA+ models of the distributed collector of this repository, TLC
configurations that check them on small instances, and TLAPS proofs of the
properties that matter most. Line numbers refer to the sources in this commit.

## 1. The system

Emulated electricity meters are read by *collectors*. A collector asks a
*coordinator* (over etcd) for a shard of the fleet, reads the meters of the
shard, validates each reading, adds it to a *tumbling window* and hands the
aggregate of each window to a *sender*. Senders put aggregates on a Kafka topic
(read by an analyzer and a dashboard), post them to an HTTP service, or stream
them to an Arrow Flight server. A Python collector on asyncio does the work of
the Go collector for comparison.

    etcd <--- coordinator ---+
                             v
    meters --> validator --> window --> sender --> Kafka --> analyzer, dashboard
                                          |------> aggregation service (HTTP)
                                          +------> Flight server --> Flight client

### Inventory

| Part | State | Operations | Hard because |
|---|---|---|---|
| Coordinator, `pkg/coordinator/coordinator.go` | etcd: leases, lock queues, registry; process: session, assignment | NewCoordinator, AcquireShard, Release, RegisterCollector, GetActiveCollectors, Close | processes race for locks, requests fail or lose their reply, leases expire under a running process, restarts |
| Shard ranges, `coordinator.go` 49-66, `pkg/meter/meter.go` 81-89 | none | range of a shard, meters of a range | rounding, short or empty last shards |
| Window (Go), `pkg/aggregator/aggregator.go` | current window, ticker, stop channel, callback goroutines | Add, flush by count or tick, Flush, Stop | goroutines, the select between tick and stop, unordered callbacks, timestamps taken outside the lock |
| Window and collector (Python), `python/async_collector.py` | window, lock, tasks, stop event, counters | run, add, flusher, flush, stop | the callback is awaited under the lock, cancellation, exceptions, the stop is noticed late |
| Meters and validators, `pkg/meter`, `pkg/validator`, `rust/src/lib.rs`, `python/async_collector.py` 13-105 | base load, clock | generate, validate, validate batch, detect anomaly | values rounded one by one must agree, steps of the day near the limits, a foreign-function result with padding |
| Kafka sender, analyzer, `pkg/sender/kafka_sender.go`, `python/kafka_analyzer.py` | topic, offsets, statistics | send, poll, report | retries, lost acknowledgements, stop racing a message, commits apart from reports |
| Dashboard, `python/dashboard.py` | globals of a script, a worker thread, a lock | count a message, copy, draw, rerun | entries shared with the thread while they are drawn, new globals at each rerun, a thread that dies |
| HTTP sender, aggregation service, `pkg/sender/sender.go`, `python/aggregation_service.py` | list of windows | POST, statistics | stored before processed, time-outs, a list read several times without a lock |
| Flight server, its senders and client, `pkg/flightserver`, `pkg/sender/flight_*.go`, `python/flight_client.py` | stored windows, a read-write lock | DoPut, DoGet, ListFlights, AddAggregatedData, poll | the lock is held while a table is written, streams waiting for each other, puts that are dropped |
| Reading storage, `pkg/storage` | etcd keys | store, query | key resolution, ranges of decimal strings |
| Benchmarks, deployment | | | a counter read while callbacks run |

What makes each correct: the coordinator gives a shard to one live process at
a time, never keeps it from all, and cleans up after the dead; ranges are
disjoint and cover the fleet; a window puts every reading into exactly one
batch, in time, with exact aggregates; a collector that stops leaves nothing
behind that it could still hand out; an analyzer counts each message of the topic once over its restarts (a batch
that a producer repeats is two messages, and is counted twice); what a sender
reports as sent is stored, and a reader that asks later is told of it; a page
shows figures that belong together.
`PROJECT.json` lists the parts (`components`), what can go wrong in each at its
line (`hazards`) and where each definition comes from (`map`).

## 2. Modules

| Module | Models | Uses |
|---|---|---|
| `ShardRanges` | the arithmetic of shards and ranges | |
| `ShardOwnership` | abstract: a shard has at most one owner | |
| `Coordinator` | the coordinator over etcd | `ShardRanges`, implements `ShardOwnership` |
| `ReadingBatches` | abstract: readings go into exactly one batch (`Spec`), or may be lost with their batch (`LossySpec`) | |
| `TumblingWindow` | the Go window | implements `ReadingBatches!Spec` |
| `AsyncCollector` | the Python collector and window | implements `ReadingBatches!LossySpec` |
| `Validator` | the Rust, Go and Python validators | |
| `MeterFeed` | a meter read over the day, and what validators say of it | `Validator` |
| `KafkaSender` | the sender, its producer's requests, the topic | |
| `KafkaAnalyzer` | the analyzer behind the topic, over several runs | `KafkaSender` |
| `Dashboard` | the worker thread and the script of one browser session | |
| `WindowStore` | abstract: a store of windows in memory, its senders and readers | |
| `AggregationService` | the HTTP sender and the service | |
| `FlightServer` | the Flight server, its two senders and the Python client | |
| `Outlets` | a collector with either sender | `AggregationService`, `FlightServer`, implements `WindowStore` |
| `MCCoordinator`, `MCTumblingWindow`, `MCMeterFeed`, `MCDashboard`, `MCOutlets` | instances for TLC | |
| `CoordinatorProofs`, `TumblingWindowProofs`, `AsyncCollectorProofs`, `MeterFeedProofs`, `KafkaAnalyzerProofs`, `DashboardProofs`, `OutletsProofs` | theorems about the module of that name and what it uses | |
| `SetProofs` | lemmas about sums, minima and maxima of finite sets | used by the proofs of the coordinator, the Go window and the dashboard |

In the modules, a definition whose comment begins with "A slip:" is a plausible
mistake in the code of the definition after it. Nothing uses it; `mutants` in
`PROJECT.json` pairs it with the property that must catch it.

### Coordinator

A process is `down`, `idle`, or at one of two points of `AcquireShard`: about
to send the transaction of `TryLock` (`try`), or about to delete the key of a
lock it did not get or does not want (`drop`). etcd is modelled by what the
client library does with it: the lock of a shard is a queue of keys
(`queue[s]`), one per session, whose first owns the lock; every key hangs on a
lease; a lease ends when it is revoked (`Close`) or not refreshed in time
(`LeaseExpires`). `TryLock` is one transaction (creates the key unless the
session has one, and reads the owner) and, for a loser, a second request that
deletes its key: other processes act in between. `Mutex.Unlock`, used by
`Release` and for a shard without meters, deletes the key as well.

| Code | Action |
|---|---|
| `NewCoordinator` 26-46 | `NewCoordinator` |
| `AcquireShard` 48-54, 58-60, 62-79, 68-71, 81 | `AcquireShard`, `TryLockFails` / `TryLockReplyLost`, `TryLock`, `DropKey` / `DropFails`, `Continue` |
| `Release` 84-89 | `Release`, `ReleaseFails` |
| `RegisterCollector` 91-114 | `RegisterCollector`, `RegisterFails` |
| `GetActiveCollectors` 116-131 | `ActiveCollectors` |
| `Close` 133-141 | `Close`; a failed revocation is a `Crash` |

A fault is a failing request, a lost reply, a keep-alive that comes too late, or
a crash; `MaxFaults` bounds them. Each process has the flags it was started
with (`flags`), so that a change of the flags under way is a state of the model.
The main program is not in the repository; processes call the operations in any
order that the code permits. `Handle` is the set of assignments a process can
hold at a time; one, in the collector.

### TumblingWindow

What runs under the mutex is one action. `GenerateReading` takes the timestamp
before the mutex, so a reading can wait in `ready[p]` while windows pass.
`Full` and `FlushLocked` are called from `Add`, from the flusher, `Flush` and
`Stop`. The flusher is at its select, at the lock, or gone; a tick waits in a
channel of capacity one and is dropped when one waits already; after the stop
the select may take either. A batch is in flight until its callback goroutine
runs (`Deliver`), in any order. Windows and batches carry the set of their
readings as a history variable. Values are those of `Kwh`; voltage and current
are summed like it and left out, and so are averages.

### AsyncCollector

Three tasks on one event loop: `run`, `flusher`, `stop`. `running` is the task
that has the loop; it keeps it until it awaits something that is not ready, so
steps between two awaits are never interleaved, and an add that finds the lock
free does not yield. `queue` is asyncio's first-come-first-served lock. The callback is awaited
under the lock; it may be suspended, return or raise. `stop` cancels the
flusher: CancelledError is thrown where it is suspended, also inside the
callback, where the batch is lost. `reading_count` and `valid_count` are
one variable, `invalid_count` is the number of readings in `rejected`. Ready
tasks may run in any order, which allows more than asyncio's queue does.

| Code | Action |
|---|---|
| `AsyncCollector.run` 286-310 | `RunStarts`, `RunWakes`, `Reject`, `Accept`, `SweepEnds` |
| `TumblingWindow.add` 175-201 | `Add` |
| `_time_based_flusher` 166-173 | `FlusherStarts`, `FlusherWakes`, `FlusherFlushes`, `FlusherCancelled` |
| `_flush_locked` 203-235 | `FlushLocked`, `FlushNothing`, `CallbackSuspends`, `CallbackReturns`, `CallbackRaises`, `AfterLock` |
| `stop` 312-314, 241-249 and `flush` 237-239 | `StopCalled` (with `LeaveQueue` if the flusher waits for the lock), `StopJoins`, `StopFlushes` |

### Validator and MeterFeed

Quantities are integers in the digits a reading shows: hundredths of kWh and
amperes, tenths of volts. The comparisons of the code are multiplied out; a
change from zero compares as NaN or infinity does. `Readings` draws base load,
noise and voltage in steps of 1/G of their unit and rounds energy, voltage and
current one by one, halves either way (Go and Python differ in that). The Go
and the Python meter are the same formula. The C header of the Go
wrappers declares `is_valid` an int where Rust returns a bool of one byte
(`validator.go:15`, `lib.rs:13`); what the other bytes hold is a parameter of
the wrappers. They never refuse a valid reading or invent an alarm; that they
report every invalid one holds only if the padding is zero, and is not claimed.

| Code | Definition |
|---|---|
| `validate_reading` lib.rs 31-78, `validate_batch` 80-98, `detect_anomaly` 100-135 | the operators of the same names |
| `ValidateReading`, `ValidateBatch`, `DetectAnomaly` validator.go 41-125 | the operators of the same names |
| `validate_reading` async_collector.py 51-62 | `PyFails`, `PyRaises` |
| `GenerateReading` meter.go 32-57, async_collector.py 73-96 | `Readings`, `GenerateReading` |

### KafkaSender and KafkaAnalyzer

The sender blocks in a synchronous producer that repeats a request that fails
or times out. The broker may have served it (`AcknowledgementLost`), may never
see it (`RequestLost`), or may see it later (`RequestLate`, `LateAppend`), also
after `SendMessage` failed. The topic has one partition on one broker, as in
`docker-compose.yml` and `k8s/07-kafka.yaml`.

A run of the analyzer is `starting` (in `consumer.start`), `waiting` (in
`asyncio.wait`), `resuming` (`getone` is done, main is not yet resumed),
`closing` (in `consumer.stop`), `leaving` (about to print what is left) or
`down`. Between `GetOne` and main's next step the stop event may be set: main
then drops the message, or handles it if the wait had seen the message only.
The consumer commits its position in the background, which is ahead of what
main has counted, and once more in `consumer.stop`. Statistics are sets of
offsets. A run begins at the committed position, or at the end of the topic
(`auto_offset_reset="latest"`). Faults are a crash, a failing fetch and a
failing last commit; history variables record what each run and all runs have
reported and dropped. A commit is one step: the request and its effect at the
broker are not told apart.

| Code | Action |
|---|---|
| `SendAggregatedData` kafka_sender.go 38-88 | `SendAggregatedData`, `Acknowledged`, `AcknowledgementLost`, `RequestLost`, `RequestLate`, `LateAppend` |
| `main` kafka_analyzer.py 67-88 | `Start`, `Started`, `Assigned`, `Shutdown` |
| the loop, 90-128 | `GetOne`, `GetOneFails`, `StopWakes`, `DropMessage`, `HandleMessage` |
| `print_report` 31-64 | `PrintReport` |
| `enable_auto_commit` 75, `finally` 132-135 | `AutoCommit`, `ConsumerStop`, `LastCommitFails`, `LastReport` |

### Dashboard

One browser session: the thread that counts messages and the script that draws.
Under its lock the thread raises the totals, appends to the series and changes
the entries of the collector and the meter; these are steps of their own
because the script, which copies the dictionaries under the lock, later reads
the same entries without it. A row reads the windows of a collector and then
its readings, an average the energy of a meter and then its count. Streamlit
runs the script again in a new module after `st.rerun`: session state survives,
globals do not, so that only the first run (`first`) shares its globals with
the thread.

Messages are what the topic may hold: the regular windows of the collectors'
sender (`Regular`), and others. A message that is not JSON is skipped. A metric
may have no meter, and is left out, or no count, which counts as 0. A value of
another type raises where it is used: total_count before anything was changed
(`Die` with a `scalar`), window_end or the metrics' energies after the totals
were (`early`), an `unhashable` collector_id after the series was, and of a
metric its meter_id, its count or its bounds, the last two after the entry of
the meter was created or changed (`Raise`). An exception ends the thread, and the
lock is released. A run of the script fails when a point has an unhashable
collector (`Charts`) or a meter's count is 0 (`AverageFails`); it is then run
again only by its user (`UserReruns`).

| Code | Action |
|---|---|
| `kafka_worker` 49-57 | `ConsumerStarts`, `ConsumerFails`, `SkipMalformed` |
| the update 57-94 | `Count`, `AddWindow`, `AddReadings`; per metric `SkipMetric` or `MeterEntry`, `MeterCount`, `MeterSum`, `MeterBounds`; `EndUpdate`, or `Die`, `Raise` |
| start of the thread 101-104, copies 112-117, charts, rows, averages, rerun 119-197 | `StartScript`, `Copy`, `Charts`, `RowWindows` / `RowReadings`, `AverageSum` / `AverageCount` or `AverageFails`, `Rerun` |

### WindowStore, AggregationService, FlightServer, Outlets

`WindowStore` is what a collector, and a reader, may expect of the two senders
that end at a store in memory. A window is stored at most once; a send without
an error has been stored, one with an error may have been or may still be; an
answer has all that was stored when it was asked for, and nothing that is not
stored; the store may be lost as a whole.

`AggregationService`: `SendAggregatedData` posts a window and waits no longer
than its client's time-out (10 s). The request is on its way, in the list but
not answered, answered, or lost; it can be served after the sender gave up.
`receive_aggregate` appends before it looks at the metrics, so a request that
is answered with an error may have been stored. Flask serves each request in a
thread of its own; `get_stats` goes through the list for the readings, the
windows, the collectors and the last window, and others append in between.

`FlightServer`: `AddAggregatedData` waits for a write lock that `DoGet` holds
for reading until its table is written; a waiting writer keeps new readers out,
as `sync.RWMutex` does. The client calls `DoGet` every 30 seconds, may fail, be
sent away empty, or be killed, and goes on. `DoPut` reads its stream to the end
and keeps nothing. Its sender closes the record writer but not its side of the
stream (no `CloseSend`); whether the Arrow library ends the stream then is a
choice (`closeEnds`).

| Code | Action |
|---|---|
| `HTTPSender.SendAggregatedData` sender.go | `SendAggregatedData`, `SendReturns`, `SendFails`, `RequestLost` |
| `receive_aggregate` aggregation_service.py | `Refuse`, `ReceiveAggregate`, `Process` |
| `get_stats` | `Ask`, `CheckEmpty`, `GetStats`, `GetLatest` |
| `FlightSender`, `AddAggregatedData` server.go | `SendAggregatedData`, `Lock`, `AddAggregatedData` |
| `DoGet` | `DoGet`, `TableWritten`, `WriteFails` |
| `DoPut`, `FlightClientSender` | `SendPut`, `DoPut`, `PutFails` |
| `flight_client.py` | `Connect`, `FetchData`, `FetchFails`, `ServerGone`, `ProcessData`, `Wakes`, `ClientDies` |

`Outlets` has the choice of the two at the start, and shows both to implement
`WindowStore` by one refinement mapping.

## 3. What is checked

| Run | Instance | Shows |
|---|---|---|
| coordinator_safety | 2 processes, 3 shards, 5 leases, 2 faults; 5 meters in 2 shards or 2 meters in 3 | type; a live holder owns its lock; no meter has two live collectors; `ShardOwnership` is implemented |
| coordinator_handles | 2 processes, 2 assignments each, 3 shards, 4 leases, 1 fault | keys are orphaned only by faults; a second `AcquireShard` never climbs |
| coordinator_progress | 2 processes, 2 shards, 3 leases, 1 fault, fairness | a lone contender is served; a registry entry whose lease nobody keeps alive vanishes with that lease |
| coordinator_lost_lease | as above, 3 shards | **violated**: one lost lease and two processes collect one shard |
| tumbling_window | 2 goroutines, 2 readings each, limit 2, a tick between 2 instants, fairness | nothing lost or doubled (`ExactlyOnce`); windows apart, at most one late reading per goroutine, limit kept (`BatchesWellFormed`); accumulators exact; `ReadingBatches` implemented; a due tick or stop delivers the window |
| async_collector | 2 meters, 4 sweeps, limit 3, 2 raises, fairness | order, accounting, bounded loss, counters (`ReadingsAccounted`), what stop leaves (`StopLeavesLittle`); stop returns; the flusher does its work |
| meter_feed | 24 hours, ends and middle of the ranges of load, noise and voltage, grain 1 | generated readings are accepted; wrong currents are refused by Rust and Python, and by Go just when the padding is zero; alarms come at 0, 6 and 18 o'clock only, and always at 6 |
| kafka_analyzer | 1 batch, 3 requests, 3 runs, 2 faults, fairness | what is sent is in the topic; a run accounts for every message; clean restarts count each message once, repeats need faults (`RestartsCountOnce`); a live analyzer reaches every message; a signal ends it |
| dashboard | 2 collectors, 2 meters, 3 of 17 messages (regular, irregular, raising at each place), 2 points, fairness | whoever has the lock finds figures that agree, up to the message the thread died of; a page drawn meanwhile is off by little, and fails only if some message was irregular; each run of the script ends |
| dashboard_realtime | 2 messages | **violated**: what arrives after the first page is shown by no page |
| outlets | 2 windows, one of which may be malformed, a restart; 2 streams, a put, 2 faults; fairness | both senders implement `WindowStore`; `/stats` is in order; sends return; the Flight client catches up |
| outlets_put | as above | **violated**: what was put with success is not there for `DoGet` |

**Bounds.** Two processes are enough for every race of the coordinator: its
steps touch one lock, and a third contender is a second one to each of the two.
Five leases are two sessions, two registry entries and one session of a
restarted process. Two faults allow, for example, a lost reply and a crash. In
the shard flags one instance has a short last shard, the other a shard without
meters. Two goroutines with two readings fill a window, start the next and leave
one reading late; two instants give a window before and after a tick. All
readings show one value there, so that the run says little of minima and maxima,
which are left to the proof.
Four sweeps fill a window and start another before a stop, one is interrupted
by it, and one must not happen any more; two raises end two tasks. A batch with
three requests gives up to three messages, which are as good as those of
different batches to an analyzer that only counts; three runs are one before a
fault, one that meets it and one after. Three messages on the dashboard pass the
limit of its series by one and let two be counted while one page is drawn; with one regular window before it,
an irregular one meets entries that exist and entries that do not. Two windows
are one that a reader sees and one that comes while it reads; two streams let a
call of a client that has gone hold the lock while it asks again. The meter's
random values enter its readings monotonically, so their ends matter most. The
proofs below remove the bounds for the main properties.

**Fairness.** Coordinator: a process takes its steps, is restarted when it is
down (`restart: unless-stopped`, Deployments of Kubernetes) and asks again when
it got nothing; etcd drops leases that nobody refreshes. No request and no
fault is assumed to happen. Go window: weak fairness of the flusher, of a Stop
that was called and of callback goroutines, as the Go scheduler runs every
runnable goroutine; nobody need call Flush or Stop. Python: strong fairness per
task, as the event loop runs ready tasks in order and no task keeps it for
ever; the callback ends. Analyzer: weak fairness of the steps of a run, which the
event loop resumes; nobody need send, stop or start. Dashboard: weak fairness of
both threads; no message need come. Outlets: the HTTP client's time-out ends a
send; goroutines of the Flight server and the loop of its client go on, a client
that is gone makes its write fail; no put need end, nobody need send, and no
request need be served.

**Deadlock** is checked in all passing runs but that of KafkaAnalyzer, where
everything may have been sent and the last run be over. In AsyncCollector the end of all
tasks is a step of its own (`Finished`), so a deadlock is a task that waits.

## 4. Findings

*coordinator_lost_lease.* `AcquireShard` returns an assignment and no way to
learn that its session has ended. When keep-alives fail for the TTL of ten
seconds, the lock is free and another process collects the same meters, while
the first goes on. `PROMPT_LOG.md:4` asks for instances "each collecting its own
portion of the data". `HolderOwnsLock` and `MeterExclusion` say what does hold:
it is so for processes whose sessions are alive.

*dashboard_realtime.* The worker thread is started by the first run of the
script in a session and counts into the globals of that run (`dashboard.py:26-32`,
101-104). `st.rerun` (lines 123 and 197) runs the script again in a new module,
with globals that nobody writes. A run copies its globals once, so what arrives
after the first copy is never shown, and the page goes back to "waiting" (lines
119-123). `PROMPT_LOG.md:74` and `README.md:47` speak of live updates.

*outlets_put.* `DoPut` reads the records of a put, logs how many rows they have,
and answers with success (`server.go:44-53`); `DoGet` serves `fs.data` only, to
which nothing but `AddAggregatedData` adds. `PROMPT_LOG.md:25` describes the
feature as sending data to the server with `DoPut` and delivering it to the
Python client with `DoGet`. Only windows of the sender in the server's process
are delivered, and `WindowStore` is shown for that sender alone. (Whether a put
ends at all is up to the Arrow library, see `closeEnds`; its window is lost either
way.)

Other limits that the models show and no document denies: of two processes that
contend for the last free shard both may go away without it, repeatedly
(`LoneContenderServed` is about one); a lock names the shard number only, its
range comes from the caller's flags, so that processes with different flags may
collect the same meter while the flags are being changed (`MeterExclusion` is
about equal flags); of two assignments of one process to one shard, releasing
either deletes the key of both (`coordinator.go:84`); a Python collector may add
a sweep after its final flush (`StopLeavesLittle`), and its stop raises and skips the
flush if the flusher's callback had raised; an analyzer may throw away one
message per stop, after a crash it may report a message again or never, and it
prints a report only when a message arrives; every healthy meter is anomalous
for `detect_anomaly` at six in the morning; a wrong reading passes the Go
wrappers when the padding of Rust's answer is not zero; a message of unexpected
shape ends the dashboard's thread in the middle of an update, whose first half
stays, and one whose metrics have no count makes the next page divide by zero,
after which the script is not run again by itself; a window that the aggregation service refuses with an error may be
in its statistics all the same.

## 5. What is proved

All theorems hold for every value of the constants that meets the named ASSUMEs.

Every invariant, action property and refinement that a passing run checks is a
theorem; `theorems` in `PROJECT.json` lists them.

**CoordinatorProofs.** `AssignmentInPool`, `ShardsDisjoint`, `ShardsCoverMeters`:
an assignment is a non-empty range of the pool, different shards share no meter,
and the shards cover all meters. They rest on one lemma: the rounded quotient
times the number of shards is at least the number of meters.

`TypeCorrect`; and, when a process holds one assignment at a time
(`SingleHandle`), `HoldersOwnLocks`, `MetersExclusive` and `Implementation` (of
`ShardOwnership`). `HolderOwnsLock` is not inductive: two processes could share
a session, a process that is down could keep an assignment, and one inside
`AcquireShard` could already have one and lose its lock by deleting the key.
`LocalInv` adds `SessionsDistinct`, `DownHoldsNothing` and `RoomToTake`; with
queue lemmas (removing a key other than the first leaves the first, appending
behind it as well) each action preserves it. `MetersExclusive` then follows: two
owners of one lock are one session, and different shards are disjoint by
`ShardsDisjoint`. The assumption is needed: two assignments of one process share
one key, and releasing either frees the shard of the other.

Without that assumption, `NeverClimbs` and `OrphansCostFaults`. The first needs
`KeyInv`: a queue has a key once, keys belong to live leases, and, as long as
nothing has failed, a caller of `AcquireShard` has no key in the queues its loop
is past (`PassedShards`). The second bounds the set of orphaned keys by the
number of faults (`OrphanInv`): each fault orphans at most one key, and no other
step orphans any.

**TumblingWindowProofs.** `TypeCorrect`, `CountsExactlyOnce` and `Implementation`
(of `ReadingBatches!Spec`). The invariant `IInv` adds that readings are numbered
per goroutine, the one about to be added being the latest and the added ones
being exactly the earlier ones (`Numbered`), that a window's count is zero
exactly when it has no reading (`CountsReadings`), and that the window, the
batches in flight and those delivered share no reading (`Apart`). `WellFormed`
rests on a second one, `WInv`: the open window began after every batch ended and
not in the future (`Open`), and a goroutine that holds back a reading from before
the window has added none of its kind (`HeldBack`); so the late readings of a
goroutine in one window are one reading (`OneLate`).

`Aggregates` says that the accumulators of `Add` are exact: count, sum, extremes,
first and last time of each meter are those of the set of readings. `EInv` adds
that each window and batch is exact (`Exact`) and that a goroutine holds back no
reading older than those it has added (`Traced`). That is where the assumption
that a meter is read by one goroutine only is needed: of two goroutines one could
add an older reading last, and `LastTimestamp` would go back.

**AsyncCollectorProofs.** `TypeCorrect`, `KeepsOrder`, `AccountsForReadings`,
`StopLeaves` and `Implementation` (of `ReadingBatches!LossySpec`). `LockInv` is
the lock and its queue: a task waits in it once, the one in a callback is at its
head, and the window is empty until that callback ends. This makes a batch the
readings that were taken before all in the window (`OrderInv`), so that order
survives a callback that is suspended while readings wait for the lock. `RunInv`
ties the place of `run` in its sweep to the readings it has taken (`Accounted`),
from which counters (`CountsAgree`) and lost batches (`DropsExplained`) follow;
`StopInv` says that after a `stop` has returned the window has readings of the
last sweep only. Steps are of three kinds for the readings: one moves batches
(`MovesBatches`), refuses a reading (`Refuses`), or takes one in (`TakesIn`). A cancelled flusher that waits
in the middle of the queue leaves it, and a lemma shows the rest to keep its
order. At the end of the module, `LossyExact` is proved of `ReadingBatches` for any
window: no reading is in two batches, with losses too.

**MeterFeedProofs.** `TypeCorrect`, `NeverRefused`, `WrongRefused` and
`AlarmsAtTheirHours`, for every grain and all loads, noises and voltages in the
ranges of the code. The voltage times the current differs from the energy by the
three rounding errors: with V the voltage before rounding, the difference times
G * G * V is 10 X e2 + v G e1 - 10 V e3 (`ShownBounds`), and each term is bounded
by a multiple of G * G * V. So a reading that shows k hundredths of kWh differs
by at most 3 k + 6127: that is below the tolerance of 15% of at least 1.08 kWh
(`NeverRefused`), and adding or removing a fifth of the current passes it, which
Rust and Python refuse, and Go if and only if the padding is zero
(`WrongRefused`). For alarms, the invariant says that the energy of a reading is
within a tenth, and the rounding, of what the base load takes at its hour
(`FitsLoad`), and that two readings in a row are of one hour or of one and the
next (`HoursFollow`). The factors of those hours then decide.

**KafkaAnalyzerProofs.** `TypeCorrect`, `SentArrives` and `AccountsForAll`. Of
each batch, the copies in the topic, the requests that are still on their way
and the one that is waited for are together no more than the requests made
(`Fits`); from there follow that a first request that succeeded leaves one copy,
and that requests on their way stay within their type. A run's messages are those
from `first` to its position; it holds one only while it is resumed, and has
thrown one away only on its way out (`RunFits`), so that a message that is
fetched, reported or dropped is none of those accounted for before.

`RestartsCount` is about all runs. Its invariant counts, for each offset, how
often it may still be reported if nothing fails any more (`CanReport`); what was
reported and what may be are together at most one more than the faults
(`FaultsPay`), since only a crash, a failed fetch or a failed last commit raises
the sum, by one. Each run drops at most one message (`DropsFit`), and as long as
nothing has failed what was reported is what was gone through but for those
dropped and those still held (`CleanSoFar`).

**DashboardProofs.** `TypeCorrect`, `FiguresMatch` and `PagesHold`, for messages
with any natural numbers, any metrics and any of the modelled exceptions. What
`FiguresAgree` says of a free lock is extended to every step of an update:
`FiguresInv` says what the message at hand still lacks in the totals of
collectors at each place of the worker, and, while all messages are regular, what
its remaining metrics still owe the meters (`Owed`); `CollectorsInv` and
`MetersInv` say the same of each entry against the messages seen. No run
fails while all messages are regular, since then the entry of a meter has a positive count whenever the lock is free (`MetersInv`)
and no point has an unhashable collector (`SeriesInv`). `PageInv` says of what was
copied and drawn that it is of some moment since: windows drawn are at most those
of the entry now, its readings at least those of all these windows but one, an
energy at most the count now. Since entries only grow (`WorkerGrows`), the worker
preserves it; and since the readings of the first n windows of a collector never
change (`ReadingsAppended`), so does a new message.

**OutletsProofs.** `TypeCorrect`, `StatsOrdered` and `Implementation` (of
`WindowStore`). A window that was not received is not in the store
(`RequestsFit`), the fields that a reader has gone through are ordered and
bounded by the list, which only grows under it (`StatsFit`); on the Flight
server only a window whose send is under way waits for the lock, none is added
twice (`AddersFit`), and a table for the client who waits has what was there when
it asked and no more than is there now (`CallsFit`): a restart ends the call with
the data. One lemma per handler maps its steps to steps of `WindowStore` or to
none.

**SetProofs.** Sums of the community modules are folds that take the elements of
a set in the order CHOOSE happens to give them. The library's induction theorems
cannot be used for them (they take an operator as a parameter), so the lemmas
look at a smallest set for which a claim fails: from that a sum is one function
on subsets (`SumIsFold`), whatever the order, and grows, shrinks and compares as
expected (`SumAdd`, `SumRemove`, `SumChange`, `SumLeq`); finite sets of integers
have bounds.

**Only model-checked** is liveness: `LoneContenderServed`, `StaleEntryExpires`,
`FlushedInTheEnd`, `StopReturns`, `FlushedByTime`, `KeepsUp`, `StopEnds`,
`RunsEnd`, `SendsReturn`, `ClientCatchesUp`. They need fairness, which is
stated with ENABLED, and that is out of the prover's reach.

## 6. Not modelled

`components` in `PROJECT.json` gives the reason for each part. The storage
package has no caller in the repository and keeps nothing between its requests
to etcd, so that nothing but the resolution of its keys could be said of it. The
benchmarks measure windows that are modelled; their own code starts processes
and prints a table. The deployment files supply flags and restart policies.
Of the Flight server, `ListFlights` reads a length and `pkg/flightclient` does
nothing. Of the shard ranges, two lookups without effect and without callers
are left out. Time is a small clock (Go window) or left out (sleeps and
time-outs end at any time); wording, logging and layout are left out
everywhere. The arithmetic is exact: rounding of floating point numbers is not
modelled. Of the dashboard, negative numbers in messages, the least and greatest
energies, which no page shows, and a user who interrupts a page that is being
drawn are left out.

## 7. What is left

1. Safety steps towards the liveness properties: that at each place where a
   process waits, the one it waits for can move (for the Python lock, the queue of
   the Flight server, and the lock of the dashboard).
2. A composition of the Go window with a sender: the callbacks of
   `TumblingWindow` are the sends of `Outlets` and `KafkaSender`, which the
   modules connect by the name `SendAggregatedData` only.
3. Several browser sessions of the dashboard, which share one consumer group.
