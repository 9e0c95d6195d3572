# modbus-scan: specifications

TLA+ models of modbus-scan, a Go service that polls Modbus TCP devices, keeps
their latest values, shows them over HTTP and WebSocket, and publishes scans to
Kafka. Devices, points and settings live in SQLite and are edited while the
service runs. The models are about what is concurrent, can fail half-way or has
to happen eventually; data is abstracted to what the properties tell apart.
Paths below are relative to the repository.

## 1. The system

| Component | State it keeps | Operations | Talks to |
|---|---|---|---|
| device runtime manager (`internal/runtime/manager.go`) | one `deviceRuntime` entry per device: `opMu`, runner, `cancel`, `done`, shown state, loaded config version | Start, Stop, Restart, StartEnabled, StopAll, Snapshot, status sink | device rows, collector runner |
| device service (`internal/service/device.go`) | none | Create, Update, Delete (stop, then remove), Start, Stop, Restart | manager, store |
| device rows (`internal/store/device.go`) | row, `enabled`, `config_version` | create, update, enable, delete | SQLite |
| collector runner (`internal/collector/runtime.go`) | its `ConnManager`, values, a monitor goroutine | Run, Close, monitorConnectionState, publishSnapshot | connection manager, status sink, hub, Kafka coordinator |
| connection manager and scan loop (`internal/collector/collector.go`) | handler, client, `state`, `reconnecting` flag | Connect, Close, ReconnectWithBackoff, heartbeat probe, GetClient, ScanLoop, scanOnce | the Modbus device |
| Kafka manager (`internal/kafkapub/manager.go`) | producer, settings, status, `notify`, worker context | Start, ApplySettings, install, reconnect, worker `run`, Stop | coordinator, Kafka client library |
| Kafka coordinator and queue (`internal/kafkapub/coordinator.go`, `queue.go`) | admission flag, per-device policy and last values, bounded ring buffer | Submit, ApplyDeviceConfig, ResetDevice, SetEnabled, Next | worker, scans |
| Kafka settings service (`internal/service/kafka_update.go`) | none | UpdateSettings, UpdateDeviceConfig | store, Kafka manager |
| realtime hub and WebSocket (`internal/realtime/hub.go`, `internal/httpapi/websocket.go`) | the index of subscriptions, a bounded channel of events for each; a reading and a writing goroutine per socket | Publish, Set, Remove, Close; commands and messages | collectors, browsers |
| read planning (`internal/config/point_config.go`) | none (pure) | ValidatePoint, OptimizeChunks | collector runner, point service |
| value decoding and UDM (`collector.go`, `internal/udm`) | latest value per tag | parseAndUpdate, Update, Snapshot | hub, Kafka |
| store schema (`internal/store/database.go`) | schema version | migrations, each in a transaction | SQLite |
| points (`internal/store/point.go`, `internal/service/point.go`, `internal/pointcsv`) | point rows | list, replace, import and export CSV | device `config_version` |
| HTTP API (`internal/httpapi`) | none | decoding, routing, formatting | services |
| web UI (`web/js/device.js`) | the page shown, its query, a number for the latest request | paging, searching, editing and deleting points | HTTP API |
| process (`cmd/modbus-scan/main.go`) | context, listener | start order, shutdown order | everything |
| Windows service (`internal/winservice`) | service status | install, stop, control loop | process |

How they interact: an HTTP request runs on a goroutine of its own and calls a
service, which persists and then calls the manager or the Kafka manager. The
runtime manager starts one goroutine per device (a collector), which starts
others: the monitor of its connection, reconnects and a heartbeat probe. A
collector calls back into the manager (status sink), into the hub (`Publish`) and
into the Kafka coordinator (`Submit`, never blocking on the network). The main
goroutine serves HTTP *before* it starts Kafka and the enabled devices, and on
shutdown runs `StopAll`, Kafka `Stop`, `server.Shutdown` in that order.

What is hard, by component:

* **runtime manager**: starts, stops, restarts, sweeps and deletes of one device
  overlapping each other and the end of the old collector; a stop that times out;
  version and points read by two queries; requests served during the sweeps.
  Correct when a device is polled by at most one collector, the one recorded; a
  stop that succeeds leaves none, a start that succeeds leaves one; no call hangs.
* **connection manager**: atomics outside the lock, reconnects spawned by every
  failing scan, a probe that dials concurrently, a close that races a dial.
  Correct when there is one reconnect at a time, no connection is lost open, a
  broken connection is always being mended, and everything ends on cancellation.
* **Kafka manager**: operations that no lock spans, so settings requests, Start,
  reconnect, worker and Stop interleave between any two lines. Correct when
  producers are closed once, the queue is empty while off and moves while on,
  nothing is sent after Stop, and off means off.
* **hub and WebSocket**: a snapshot and later values reach the browser by two
  channels, the collector closes slow subscriptions while their reader changes
  them. Correct when a subscribed browser misses no value unless it is
  dropped, index and subscriptions agree, and a dropped connection is closed.
* **queue and policies**: a ring overwritten in place, a wake channel of one slot
  outside the lock, per-device last values that survive failed scans, full queues and
  policy changes. Correct when the queue is a FIFO that drops its oldest, the
  consumer never sleeps on a message, and the changes sent add up to the values scanned.
* **read planning and decoding**: uint16 arithmetic at both ends of the address
  space and at the limits of the protocol, points that overlap, values that span
  registers, four byte orders, bit fields, short answers. Correct when every point
  is in one read that the device can answer, and gets the value its registers have.
* **store**: a process killed between or within migrations, files of older
  versions. Correct when the file always opens and no device lacks its rows.
* **point list**: overlapping requests whose answers come in any order, a list
  that is edited by others while it is shown. Correct when what is shown is what
  the controls ask for, and only points that were seen are deleted.

## 2. Modules

| Module | Models |
|---|---|
| `CollectorLease` | abstract: a device is granted to one collector at a time, the grant can be revoked, and only the collector's own end gives the device back |
| `DeviceRuntime` | manager, device service, device rows, main goroutine, collector goroutines as the manager sees them; implements `CollectorLease` |
| `ConnManager` | one collector's connection: runner, reconnects, probes, stopper, device |
| `PointConfig`, `ReadPlan` | points and their validation; OptimizeChunks, an iteration a step |
| `PointDecode` | parseAndUpdate's conversions, and the reference they are held against |
| `Collector` | scans over the planned reads; extends `ReadPlan` and `PointDecode` |
| `DropOldest` | abstract: a bounded FIFO that drops its oldest message |
| `MessageQueue` | the ring buffer and its wake channel; implements `DropOldest` |
| `ScanPublisher` | the coordinator's policies between scans and worker; extends `MessageQueue` |
| `KafkaPublisher` | Kafka manager, admission and queue length, settings requests, start and stop |
| `Realtime` | realtime hub, publishing collector, the two goroutines of each WebSocket connection |
| `Store` | the SQLite file: migrations and crashes, a device's row, its points |
| `PointsPage` | a device's page in a browser, the point handlers and service; extends `Store` |
| `*Proofs` | the proofs about the module they are named after; `CollectorProofs` also those about `ReadPlan` and `PointDecode` |
| `MC*` | values of constants for TLC that a configuration cannot write |

**DeviceRuntime.** `exists, enabled, version` are the device's row; `entries,
opMu, runner, state, loaded` the manager's map and the fields of an entry;
`rpc, rdev, cancelled, points, monitor` a collector: where its goroutine is, its
device, its context, the config version its points were read at, its monitor.
`rpc[r] = "none"` stands for the closed `done` channel. A caller (a request or the
main goroutine) has a program counter `pc` and Go's local variables `op, dev, got,
read, target`. A request goes `Request`, `TryBegin` (entry and TryLock),
`Persist`, then `StopNothing` or `StopMark`, `StopCancel`, `StopWait` or
`StopExpires`, then `StartCheck`, `StartLoad`, `StartInstall` or `StartFails`;
a delete ends in `Remove`, after its stop has given the lock back. `MainList`, `MainNext`,
`MainSwept`, `Shutdown`, `CloseListener`, `Drained` are StartEnabled, StopAll and
server.Shutdown. `Run*`, `RunnerDone` and `Monitor*` are the collector. Steps that
can fail fail nondeterministically where the code has an error path; what
`After` and `Leave` do on the way out is the deferred `endOperation`.
Collector slots are reused when their goroutines have ended: this keeps
behaviours unbounded.

**ConnManager.** `handler`, `client` and `leaked` describe connections: a handler
is absent, closed or open, a client belongs to the current handler or to one
replaced since, and `leaked` records that an open connection was dropped
unclosed. `state` and `reconnecting` are the atomics. `Dial` is `Connect`,
`Disconnect` the closing in `Close` and in the head of a reconnect. The runner is
`Attach`, `FirstDial`, `FirstReturns`, `ScanTick`, `GetClient`, `ScanDone`,
`ScanFails`, `ScanExit`; a reconnect `CompareAndSwap` to `Release`; a probe
`ProbeTick`, `ProbeDial`, `ProbeOnline`; the stopper `StopCancel`, `StopClose`,
`StopWait`. `DeviceToggles` is the device going away and coming back; `broken`
says whether an outage has cut the existing connections. `late` counts how often a
timer has fired while a goroutine could run: every timer there runs for 100 ms or
more and the code between two waits takes microseconds, so `NoLeak` and `Recovers`
are stated of behaviours where it never has, the other properties of all. It is
assumed that a read through a closed handler fails (the Modbus library is not part
of the repository).

**ReadPlan, PointDecode, Collector.** A point is its register type, address, data
type and bit field; the widths of the protocol (`AddrSpace`, `ByteBits`,
`MaxRegisters`, `MaxCoils`) are constants. `OpenGroup`, `Merge`, `Cut` and
`CloseGroup` are the branches of the loop of OptimizeChunks, with `Wrap` for its
uint16 arithmetic; the order of a Go map and of an unstable sort is a choice. `Decode`
follows parseAndUpdate byte by byte, with `TwoTo` for its shifts and `Number` for
`binary.BigEndian`; `Meaning` says what a point's own registers
mean, bit by bit from the letters of the byte order and without the read they came in. In
`Collector`, `ReadOne` is one read of a scan with its decoding, the device changes
between reads, an answer may lack bytes at its end, and `readFrom` is history: the
contents of the device when a value was read. A floating-point value is its bits.

**MessageQueue, ScanPublisher.** `items, head, size, accepting, wake` are the
queue's fields; the worker in `next` looks under the lock, unlocks and waits.
The counter of dropped messages is left out, as nothing but its display reads it.
In `ScanPublisher`, `policy` and `state` are the coordinator's entries for one
device and `udm` the runner's values; `Publish` is publishSnapshot with the whole
of Submit, `ScanFails` a scan that stops half-way, `RunnerEnds` the deferred
ResetDevice. `known, told, fresh, since` are history: what the completed scans have
said, what a consumer of the topic can know, how many queued messages belong to the
present era, and the time since a full message. An era ends where the
coordinator's documentation says that a baseline is given up: when the runner ends,
or the policy changes its topic or mode or is switched on again.

**KafkaPublisher.** `admit` and `accepting` are the coordinator's and the queue's
switches, `queue` a length; `producer, on, status` the manager's fields, `life` a
producer's; `worker, using` the worker and the producer it has looked up, `hand`
the producer an actor holds between two critical sections. An ApplySettings is
`Update`, then `EndAdmission`, `DiscardAll`, `Drop`, `Shut` (off) or
`OpenSucceeds`, `Admit`, `Swap`, `Retire`, `Notify` (on: `install`); Start and
reconnect share these steps. Settings are their Enabled flag; the settings row is
not modelled. A producer slot is reused once it is closed and the worker has let
go of it.

**Realtime.** `index` is the hub's map, `keys, done, events` a subscription, `out`
the local channel of a connection. The collector does `Update` (the UDM), then
`CopyTargets` and one `Deliver` per subscription: the two parts of `Publish`,
the second of which holds no lock. The reading goroutine is `ReadSubscribe`,
`Set`, `Snapshot`, `Reply`, or `ReadUnsubscribe`, or `ReadInvalid`, `ReportError`,
with `ReadFails` at the end; the handler's own goroutine writes: `TakeEvent` or
`TakeOut`, `Write` or `WriteFails`, and at the end `Leave`, `CloseSubscription`,
`HangUp`, the deferred calls. A value is the `clock` at its update,
its `UpdatedAt`; `answered` and `newest` are history: what a snapshot has answered
and what the browser has got. There is one device. Snapshot values are sent in any
order, which allows the code's. A slot is reused when both goroutines have ended
and the hub has forgotten the subscription.

**Store, PointsPage.** `opening` is the migration the process is at, `applied` the
tables the file has, `recorded` the rows of schema_migrations; `Die` is a kill at any
time or an exit. SQLite has one connection here, so a transaction is a step. A point
is its id and its tag; `sequence` is sqlite_sequence and `made` numbers the points
ever made, so that one that takes another's place can be told from it. The page's
`latest` is the request whose number is `pointsRequest`, `stale` those before it.
`Load` is loadPoints up to its await, `Count` the first query of the handler,
`Show`, `Fail` and `Ignore` what an answer does. The page query and the arrival of
its answer are one step, as the list shown may be old anyway. Tags are numbers and a
list is ordered by them, where the code orders by register type, address and tag. One
deletion of a page is under way at a time, and the page is used only while
the server is up.

## 3. Runs

| Run | Configuration | Shows |
|---|---|---|
| `runtime` | 1 device, 2 clients, 2 collectors, 2 config versions, all operations, contexts may expire | `TypeOK`, `OneCollectorPerDevice`, `NotPendingIsCurrent`, `StopMeansStopped`, and that the manager implements the lease (`LeaseSpec`) |
| `runtime_live` | 1 client, 1 version, contexts do not expire, fair | `StartMeansCollecting`, `EveryCallReturns`, `CancelledCollectorEnds`, `SweepsComplete` |
| `delete_then_polled` | starts and deletes | violates `DeletedIsNotPolled` |
| `connection` | 2 spawned reconnects besides the runner's, 2 probes, 2 attempts, 1 late timer, fair | `TypeOK`, `SingleReconnect`, `NeverAbandoned`, `NoLeak`, `Recovers`, `AllGoroutinesEnd` |
| `stop_keeps_connection` | 1 attempt | violates `StopClosesConnection` |
| `collector` | 9 addresses, bytes of 2 bits, reads of 4 registers or 3 bits; 3 points anywhere, or one with any type and bit field behind another; 2 contents of the device; answers may lack a byte | `ReadsAreSound`, `EachPointOnce`, `NoReadToSpare`, `ValuesAreTrue` |
| `scan_to_kafka` | 2 tags, 2 values, a ring of 2, 3 policies (off, change, full on another topic) | `NoLostWake`, `ChangesAddUp`, `EachIsNews`, `FullOnTime`, and that the ring implements `DropOldest` (`RefinesFifo`) |
| `kafka` | 1 request at a time, 2 producer slots, queue of 1, fair | `TypeOK`, `NoProducerLeak`, `OffIsEmpty`, `NoLostWakeup`, `QueueMoves`, `StartRecovers`, `StopReturns` |
| `kafka_reopened` | 1 request at a time | violates `OnlineIsEnabled` |
| `closed_producer` | 1 request at a time | violates `NoMessageForClosed` |
| `realtime` | 1 connection at a time, 2 tags, at most 1 of them subscribed, both channels of 1, 2 updates, fair | `TypeOK`, `IndexAgrees`, `NothingMissed`, `DroppedIsClosed` |
| `pages` | 2 tags, 3 points ever made, pages of 1, files of every version, 1 superseded request | `AlwaysOpens`, `EveryDeviceCanPush`, `ShownIsAsked`, `ButtonsComeBack`, `DeletesWhatWasSeen` |

Deadlock is checked in every run: a process that may exit steps to itself
(`Closed`, `Exit`), a device can always toggle or change, a process be killed,
time pass, and where the bound on updates ends `Realtime` it steps to itself.

**Bounds, and why they are enough.**

* *Runtime.* Operations of different devices share nothing but the map of entries,
  whose lock is held for a look-up only; the theorems hold for any number. Two
  clients and the main goroutine give three callers on one lock, which is every
  pair of overlapping operations with a third in between. Two collectors: the old
  one and the new one; a third could exist only if `OneCollectorPerDevice` failed.
  `MaxVersion` 2 lets the configuration change once between any two reads.
* *Connection.* `MaxRetries` 2 (10 in the code) has an attempt that is followed by
  another and a last one. Two spawned reconnects and the runner's own are one in
  the loop and two at the compare-and-swap; two probes overlap when a second outage
  ends in a give-up before the first probe's tick. A scan that would need a third
  slot waits for one. `MaxLate` 1 lets one goroutine be overtaken once by a timer; the
  theorems about `SingleReconnect` and `NeverAbandoned` hold for any number.
* *Reads.* Nine addresses hold two reads of the largest size and the wrap at the
  last address; three points are one that merges with both others, with either or
  with none, in every position; a Double fills a read. Bytes of two bits have every
  bit field of an Int32 in them. Two contents of the device differ in every
  register, so that a value mixed from two moments, or from another place, differs
  from the right one.
* *Queue.* A ring of two wraps, overwrites and is emptied from every position; two
  tags are one that changes and one that does not. Intervals are one tick, as time
  only matters in being past an interval or not.
* *Kafka.* With `Push` the rest of the queue's behaviour is its length, and capacity
  1 is full after one message. Two producers are the installed one and the next, a
  closed one still in the worker's hand included; an open waits for a slot. The
  proofs hold for any number of requests and producers.
* *Realtime.* Connections share only the hub, each with its own entries there, and
  the collector's list of targets, from which they are served independently: one
  shows every interleaving of its two goroutines with the collector. Channels of 1
  (64 in the code) are full after one message, and two updates overflow one; with
  one of two tags subscribed at a time the limit is reached at once.
* *Page.* With two tags and pages of one there is a page past the end as soon as a
  point goes; with three points made, one can be deleted and another take its place.
  One superseded request is the one whose answer may come late, and a second load
  meanwhile waits until it has come.

**Fairness and why the code justifies it.** Goroutines that can run are scheduled
(weak fairness on the steps of each caller, collector, reconnect, probe and
worker). A `select` over a ticker and a cancelled context takes the context some
time, since Go chooses among the ready cases at random (strong fairness on
`ScanExit`, `BackoffCancelled`, `ProbeCancelled`, `WorkerEnds`, and on `Leave`, the
writer's way out of its select). `sync.Mutex`
hands the lock to a waiter after a millisecond (starvation mode), so `MainNext`,
which locks, is not passed over for ever by requests that `TryLock` (strong fairness).
Dials, reads, opens and sends return, as they have timeouts. `StartRecovers`
assumes that of infinitely many attempts to open a producer one is answered;
`Recovers` assumes a device that is back for good and timers that fire only when
no goroutine can run (`late = 0`). Without the latter a probe suspended between
its dial and its store of *online* while a whole reconnect is tried and given up
would break `Recovers` and `NoLeak`; the hazard is listed as not covered.
`StartMeansCollecting` is checked where contexts do not expire: after a stop that
timed out a start finds the cancelled collector still recorded and returns
success. Nothing is assumed of the arrival of requests, edits, scans' data,
outages or the shutdown.

`NoReadToSpare` excepts a read that ends at the last address, 65535: there the
comparison with the next point wraps to 0, and a point at that same address is
planned as a read of its own.

**What the violations show.**

* `delete_then_polled`: `DeviceService.Delete` releases the device between the
  stop and the removal of the row; a start in the gap leaves a collector on a
  deleted device, which no request reaches any more.
* `stop_keeps_connection`: a dial that ends after the stopper's `Close` leaves an
  open connection that nobody closes.
* `kafka_reopened`: `reconnect` is not told that Kafka was switched off and
  installs a producer for the disabled settings.
* `closed_producer`: the worker waits for a message with a producer in hand that
  a settings change closes; the first message after the change is given to it.

## 4. Proofs

Each module's theorems rest on its named assumption about the constants
(`RuntimeAssumption`, `ConnAssumption`, `PublisherAssumption`, ...) and on nothing
else; they hold for all values of the constants that satisfy it. That a device has
finitely many tags (`RealtimeAssumption`, `StoreAssumption`) and that registers hold
2 `ByteBits` bits each (`CollectorAssumption`) are facts of the configuration and the
protocol; the `None` and `Error` markers are only required to be no real values. Each
proof combines one lemma per action, or one per part of the invariant, into an
inductive invariant. Every invariant, action property and refinement of a passing run is
a theorem.

* **DeviceRuntimeProofs**: `TypeCorrect`, `OneCollector`, `PendingIsHonest`;
  `StopStops` (the action property `StopMeansStopped`); `ImplementsLease`, every step
  being a grant, a revocation, an end or a stutter of `CollectorLease`.
  `OneCollectorPerDevice` alone is not inductive: that an install happens only where
  no collector is recorded was checked two steps earlier, and is kept only because
  the lock is held since. `LockInv` says that a caller inside an operation is the one
  `opMu` names; `RoleInv` who runs which operation; `StartInv` and `StopInv` what
  such a caller still knows of the entry; `RunInv` that the recorded collector is
  exactly the goroutine at work and that only a cancelled one ends; `VersionInv`
  orders the copies of the version: shown ≤ points' ≤ current.
* **ConnManagerProofs**: `TypeCorrect`, `OneReconnect` (`SingleReconnect`) and
  `NothingAbandoned` (`NeverAbandoned`), also where timers beat goroutines. Flag and
  state are stored apart, so `FlagHeld` says who holds the flag, and `LeavesWell`
  what a reconnect past its last store has left for others to do.
  `NothingLeaks` (`NoLeak`) rests on `CalmInv`: while no timer has beaten a goroutine
  that could run, there is one reconnect or one probe at a time and none beside a scan,
  and whoever is to dial finds the connection closed.
* **KafkaPublisherProofs**: `TypeCorrect`, `NoneLeftOpen`, `NothingLeftQueued`,
  `WorkerIsWoken`, and `StopIsLast`: nothing is sent after Stop has returned in time
  (`StopEndsSending`, stated of steps and not in a run). `Hands` says where an actor
  may hold a producer, so that taking one up never drops another; `StopAfterWorker`
  and `SpawnedOnce` order the stop and the reconnect.
* **RealtimeProofs**: `IndexIsRight`, `NoneMissed` and `LimitsHold` (`TypeOK`: the
  limits of the buffers, and that a queued message is an error or a value the device
  has had by then), from `Limits`: whatever is queued, replied or held by a
  writer is an error or of a tag that has a value. `NothingMissed` speaks of a
  browser with nothing under way; `Delivered` strengthens it to any subscribed one:
  the current value has reached it, is about to be handed to its subscription, or is
  among its messages; `NotAhead` says that no message is newer than the current value,
  `Phases` what the two goroutines hold where they are.
* **CollectorProofs**, of the plan: `PlanIsSound` (`ReadsAreSound`) and
  `PlanIsComplete` (`EachPointOnce`), for any valid points, any address space and
  limits. `SoundSoFar` says of the read under construction that it is sound as far as
  it goes and that what is left of its type starts no lower, which keeps uint16
  subtraction from wrapping. `PlanIsShort` (`NoReadToSpare`), from `SpareInv`: the
  read under construction is apart from the last one of its type.
* **CollectorProofs**, of the values: `CollectorIsTrue` (`ValuesAreTrue`), for any
  width of a byte, any contents of the device and however short its answers are.
  Its core is arithmetic, in four steps. `TwoTo` and `Number` are recursive functions; that
  they satisfy their recursive equations is proved by the least number at which one
  would fail (`UpTo`, `Recursion`). `BitOfNumber`: bit b of a number whose digits have
  e bits is bit b mod e of a digit; `LastBits` and `TopBit` are the converse for a field
  and for its sign. `SourceOfLetter`: each byte order undoes the letters it is named
  by, for one, two and four registers. `FieldMeans` and `BytesOfPoint` then give
  `RegistersDecoded`, and `BitDecoded` is the same for coils, eight to a byte. The
  invariant `CollectorInv` adds to the plan's that the reads hold points of the
  device only: with `ReadsAreSound`, every point lies within the answer it is decoded
  from, and every bit asked for within the device.
* **CollectorProofs**, of a scan: `CollectorPlans` (`CollectorSpec => PlanSpec`), so
  that what is proved of the plan holds during scans; `ScansAreWhole`: where no answer
  lacks a byte (`Missing = {0}`, not in a run), a completed scan has a value
  for every point (`ScanIsWhole`). It needs `EachPointOnce`, that an answer
  of whole bytes reaches the last coil asked for (`WholeAnswerFits`), and, in
  `WholeInv`, that the reads counted as done have given all their points a value.
* **MessageQueueProofs**: `RingIsFifo`, the refinement of `DropOldest`, whose
  invariant `Ring` keeps head and size in range and real messages in the slots in
  use; `NoWakeIsLost`.
* **ScanPublisherProofs**: `UsesQueue`, `PublisherSpec => QueueSpec`: scans, policies
  and the worker use the queue in no other way than `MessageQueue` says, with messages it may
  hold, so that `RefinesFifo` (`ScansGoThroughFifo`) and `NoLostWake` (`ScansWakeWorker`)
  hold of the composition.
  `ChangesAreComplete` (`ChangesAddUp`), `ChangesAreNews` (`EachIsNews`) and
  `FullsAreOnTime` (`FullOnTime`). Of the queue as a sequence, `Told` says that the
  era's messages are its newest and lead from what the consumer has been told to the
  scanned values, each with news: it is kept as a message joins at one end and leaves,
  taken or overwritten, at the other (`KnowsMore`, `KnowsShifted`). `Linked` ties it
  to the coordinator: while a policy is on, its last values are those of the completed
  scans. `Aged` does the same for the age of the last full message.
* **PointsPageProofs**: `FileOpens` and `DevicesCanPush`, as a migration and its
  record are one (`Schema`); `OnlySeenDeleted` (`DeletesWhatWasSeen`), from `Named`:
  over the file, the list shown and the deletion under way an id names one point, and
  none is above `sequence`; `ListIsAsked` and `ButtonsAreBack`, from `Paging`: the
  request under way, when no search is to follow it, is for what the controls show.

Only model-checked: liveness (fairness and ENABLED are out of the prover's reach):
`StartMeansCollecting`, `EveryCallReturns`, `CancelledCollectorEnds`,
`SweepsComplete`, `DroppedIsClosed`, `Recovers`, `AllGoroutinesEnd`, `QueueMoves`,
`StartRecovers` and `StopReturns`.

## 5. Not modelled, and the plan

Not modelled: HTTP decoding and formatting, application configuration, logging,
CSV parsing (an import enters `Store` as the tags that replace the points), the
page's chart, dialogs and list of devices, and timing beyond the order of events:
no state of the services depends on these steps.

Planned, in this order:

1. The rows of Kafka's settings and policies beside the ones applied
   (`service/kafka_update.go`): what a failed write or two overlapping requests leave,
   and what a restart makes of it.
2. `Realtime`: a registration by `Set` after `Close`, and the reader left blocked
   on `out`; the Kafka status shown after a failed send.
3. `ServiceShutdown`, composing the order of `runWithReady` with the Windows
   service's control loop and its bounded waits.
