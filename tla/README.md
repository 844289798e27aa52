# A verification development for Pulswerk

Pulswerk is a gateway for building automation and energy management. One .NET
process polls field devices (BACnet, Modbus, KNX, smart meter gateways), accepts
the WebSockets of wallboxes (OCPP 1.6), shares the power of the site among
controllable consumers, runs control rules, raises alarms, bills charging
sessions and serves a dashboard, a single-page application in
TypeScript. These TLA+ modules model the parts of both where threads,
connections, databases, devices, requests and users meet; TLC checks them on small
instances, and TLAPS proves their safety properties for every value
of the constants. `PROJECT.json` lists the runs, which lines each definition
models, the hazards the properties are aimed at, and the theorems.

Paths are relative to `src/`; line numbers are those of the modelled commit.

## The system

| component | state | operations | shared with |
|---|---|---|---|
| OCPP connections (`Drivers/Ocpp/OcppManagerService.cs`) | socket, send semaphore and chain of handlers of each charge point, in concurrent dictionaries | accept and replace a connection, receive, clean up, send | all threads that talk to a charge point |
| OCPP transactions (same file, `Billing/BillingStore.cs`) | open transactions, their ids and counter (memory); finished sessions (SQLite) | Start, MeterValues, Stop, cleanup, restart | smart charging, billing |
| OCPP smart charging (same file, `OcppDriver.cs`) | setpoint, waits for answers | set a limit: a series of CALLs, each with a timeout | energy management, dashboard, control rules, the MeterValues handler |
| OCPP configuration (same file) | keys of a charge point, generations | refresh, change | dashboard |
| alarm store (`Storage/AlarmStore.cs`) | table of alarms (SQLite) | raise, acknowledge, clear, purge | poller, control engine, dashboard |
| device poller (`Host/DevicePoller.cs`) | fail counts, set of offline devices (memory) | poll, service a COV device | alarm store, heartbeat, one lock per connection |
| control engine (`Host/ControlEngine.cs`) | values, conditions, due times (memory) | evaluate a rule, write, alarm | connection locks, alarm store |
| energy management (`Ems/EmsService.cs`) | list of consumers with their runtime fields | dispatch, actuate, release, configure | dashboard, drivers |
| connector host (`Host/ConnectorHost.cs`) | drivers, stores, one lock per connection | start loops, shut down | everything |
| telemetry store, calculation engine, dashboard store (`Storage/`) | write batches, counters, rows | insert, flush, roll over | poller, dashboard |
| billing (`Billing/BillingStore.cs`) | tariffs, tenants, cards, meter replacements, sessions | CRUD, segmented consumption | OCPP, dashboard |
| drivers (`Drivers/BACnet`, `Knx`, `Modbus`, `Smgw`, `Weather`) | connections, subscriptions, caches | read, write, discover | poller, control engine |
| dashboard server (`Dashboard/Controllers`, `Services`) | latest values, subscriptions of event streams | REST API, event stream | everything, by calls |
| live values (`frontend/dashboards/api.ts`) | listeners, one event stream, timers | listen, leave, reconnect, hide and show the tab | all pages; the server's event stream |
| details dialogue (`frontend/modals.ts`, `timewindow.ts`) | one dialogue's globals, chart, schedule | open, edit, write, refresh, window, close | all pages |
| dashboards page (`pages/dashboards.tsx`, `dashboards/`) | one `DashboardStore`, grid, editor, drawings and charts of the widgets | show, edit, save, draw, name elements, place points, pick keys | live values, dialogue, draw.io in a window of its own |
| other pages (`pages/*.tsx`) | state of a component, requests in flight | see the modules below | live values, dialogue, REST API |
| application shell (`app.entry.tsx`, `base.ts`) | who the user is, favourites in the browser | navigate, star, migrate | all pages |

What is hard about it: every socket, poll loop, request and timer is a thread of
its own; the state they share is in concurrent dictionaries, which make a single
access atomic and nothing more, or in plain collections without a lock; most of
it is memory that a restart loses while the databases, the charge points and the
devices go on; connections break between a request and its answer; and a loop
that must not stop runs through code that waits for devices. In the browser there
is one thread, but every `await` lets the user go on: the answer of a request
comes when another row, key or page is shown than the one it was sent for, and most
dialogues, forms and services exist once for all of them.

What makes each component correct:

- *connections*: a charge point has one connection, which is the one it is sent
  to on; frames of one socket are not sent concurrently; CALLs are handled in the
  order they came; what a replaced connection cleans up is its own.
- *transactions*: an id names one transaction of one charge point; what is billed
  is what the session consumed; no entry is left for a charge point that is gone.
- *smart charging*: what is reported as applied is installed; every write returns,
  whatever gets lost, and none waits for something only it can cause.
- *alarms*: one active alarm of a type on an originator; rows only move forward.
- *polling*: a device is offline after consecutive failures only, has an alarm
  exactly while it is, and gets rid of both when it is back.
- *control rules*: edges fire once, a synchronising rule ends up with its target
  at the value of its source, failures are alarmed and the alarm is cleared.
- *energy management*: shares stay within the headroom and follow the priority;
  devices obey them; a minimum is guaranteed; nothing stays limited or stopped
  without a reason.
- *front end*: what an answer or a button changes is the thing it was asked for or
  opened for; nothing that was left goes on listening, polling or drawing; a
  number, a schedule or an imported row means on the server what it said in the page.

## Modules

Every module describes one component, with the fields of its class as VARIABLES
under their names where TLA+ allows it and one action per step. A step is what a
thread does between two points at which another one can change what it relies on:
an await, a lock, or a gap between accesses to two collections. History variables
come last and are read by properties only. `MCx` has the definitions the
configurations of `x` need, `x_proofs` its theorems. Definitions called *Mutant*
are plausible wrong versions of the definition after them, to show that the
property of a run depends on it.

### OcppConnections

The connections of one charge point; all dictionaries of the service are keyed by
charge point, so each is one variable. `HandleConnectionAsync` is the sequence
`Accept` (take the old socket out), `CloseOld` (await its close), `Register`,
`ReceiveCall`..., `LeaveLoop`, and the cleanup in the `finally`: `CheckOwner`,
`RemoveActive`, `MarkOffline`, `DropEntries`, all of them separate steps because
the code accesses one dictionary after the other. `StartCall`/`FinishCall` are the
chained handlers, `PickSocket`, `GetLock`, `AcquireLock`, `FinishSend` the steps of
`SendMessageAsync`; semaphores and tails of chains are identities, fresh when
`GetOrAdd` creates one. `disturbed` has the sockets that were registered when
another connection's handler removed the entry, its semaphore or chain, or wrote over it:
what the code promises without a condition holds for the others.

### OcppTransactions

All charge points, the id counter, the table of bills. From one cleanup to the
next is an epoch; handlers of an epoch are a queue that outlives it. The charge
points (external) plug in, charge, unplug, send a CALL again when they have not seen
the answer, and keep their session through lost connections and restarts.
`Restart` loses everything but `bills`, so ids are handed out again.

### OcppSmartCharging

One charge point and all who limit it. A write is a thread that goes through a
fixed program of operations (`SetLimit`): publish the setpoint, look the
transaction up, clear or set each profile; `SendCall` registers the wait and sends,
`TimeOut` ends it. `Receive` is the receive loop, which completes waits by message
id and hands the CALLs of the charge point to the handlers of the connection, of
which that of MeterValues is a writer itself when it recovers a transaction.

### AlarmStore, DevicePoller

AlarmStore is the table with the statements that change it, and at the same time the
abstract specification for those who use it. DevicePoller has the counts, the
offline set and the table (`Store == INSTANCE AlarmStore`), and implements it
(`UsesStore`). The counts are a plain `Dictionary` written by parallel loops;
what a racing insert can do to a write of another loop (lose it) is a choice of
`SetCount`. A database that refuses a statement leaves the steps before it done.

### ControlEngine

Rules, the values they read, the connection locks, the alarm table. `EvaluateDue`
takes the snapshot and records the condition, `NextAction`/`Skip`/`Refuse` walk the actions,
`AcquireLock` waits for the connection that polling loops take and release, and
`Write` uses the snapshot. Values change, expire and are seen again in between. When
a rule is due is left open.

### EmsDispatch

The list of consumers, the object each entry is (runtime fields live in the
object, so replacing it loses them), the loop with its two look-ups of the list, and
the devices. `Evaluate` is `EvaluateDispatchAsync` up to `Dispatch`; `Actuate` is
the second look-up; `Visit`/`EndWrite` are one consumer of either loop, `StartRelease` the
look-up of `ReleaseControlAsync`. `old` keeps the object the loop holds when the
dashboard exchanges it. The dispatch walks the consumers by priority and takes
each share from one headroom; `Shares` says the same without the walk: each share is
what the consumer can use of what those before it leave (a fixed point, of which
there is one). Power is in whole units. Whether a consumer demands power
is measured, and so depends on the setpoint the device obeys.

### The front end

A component's `useState`, refs and module variables are the VARIABLES; an event
handler up to its first `await` is an action, and so is what follows each one. A
request is a record in a set (`tasks`, `answers`, `awaited`, `loads`) that has
the values the closure captured; answering it, or its failure, is an action that
reads the state as it is then. Requests of one kind may be answered in any order
unless the code awaits one before it sends the next. The server is what the
requests change (external, unless under `src/`). The user does what the page offers,
`MaxActs` times.

| module | page or part | the hard part |
|---|---|---|
| LiveUpdates | the event stream under all pages, and `ApiController.GetSse` | one `EventSource` replaced on every change of keys, while requests, timers and the visibility of the tab interleave |
| TelemetryDetails | the details dialogue with window and schedule | globals that five requests of an earlier opening may still write to |
| Dashboards | page, store, grid, saving, polling | one engine for a route that changes under it |
| Charts | a time series: window, granularity, requests, live values, transformation | what is drawn a frame after its data came |
| WidgetEditor | the dialogue of a widget, key picker, rules | one dialogue and one array of rules for all widgets |
| Scada, ScadaPoints, ScadaPreview | drawings with draw.io, animation and naming of elements; points anchored to drawings; preview of classes | messages of a second window, a codec awaited between picture and diagram |
| BillingPage | customers, cards, tenants, tariffs, meter replacements, invoices | one draft for all rows, answers of an earlier row or month |
| EmsPage | snapshots, settings, consumers | a form filled from a snapshot that is polled on |
| ConfigPage | override of connections, devices and modules; scan | ids changed in place, devices that name connections |
| TelemetryCrud | stored telemetry: query, insert, delete, import | chunks sent while another key is chosen; separators of numbers |
| AssetsPage, TelemetryList | the tree; the virtual list | listening to what is in view |
| WallboxesPage, ConnectionsPage, HeartbeatPage, AlarmsPage | state polled or reloaded, one dialogue or chart each | late answers and timers |
| Shell | routes, identity, favourites, home page | who the user is comes after the pages are there |

`Pages` composes all of them but the first two: `scene` says which is open,
and its variables are INSTANCE'd on `v1`...`v20`. A scene does not
influence another; they share a run because each is small. The scenes of the dashboards' page
and of the pages that are forms (billing, consumers, wallboxes, alarms) are declared in `DashboardScenes`, which `Pages`
extends; `MCPages` gives the constants values.

## Runs

All bounds are named constants. `CHECK_DEADLOCK FALSE` is set where a behaviour
ends when its bounds are used up. Several properties are conjunctions of a module's
type invariant and its smaller safety invariants (`ConnectionsOwned`, `TransactionsOwned`,
`AnswersMatched`, `RulesObserved`, `ValuesOwned`, `StreamsOwned`, those of `Pages`); the conjuncts have names and
comments of their own in the modules.

| run | instance | shows | time |
|---|---|---|---|
| `connections_traffic` | 2 sockets, 2 senders, 3 CALLs | overlapping sends, handlers out of order and a wrong "Offline" all need the interference of another connection | 80 s |
| `connections_sockets` | 3 sockets, no traffic | the dictionary keeps no dead entry, replaced connections end | 10 s |
| `transactions_table` | 2 charge points, 2 ids, 3 epochs, 2 pending CALLs, 1 restart | ownership of ids, what is mapped, left over and billed | 55 s |
| `charging_timed` | 1 writer and both handlers, 1 lost connection, 8 timeouts | what is reported is installed, nothing leaks, writes return by the timer | 65 s |
| `charging_offline` | violation | see below | 2 s |
| `alarms_table` | 3 rows, 2 originators, 2 origin types, 2 severities | unique active alarms, forward life cycle | 3 s |
| `poller_polling` | a polled and a COV device, threshold 2, 2 outages or returns, 1 fault, 1 clear, 1 restart | agreement of memory and table, refinement of AlarmStore, alarms that come and go in the end | 120 s |
| `control_rules` | a synchronising and an edge-triggered rule, 3 targets on 2 connections, 5 events | edges, alarms, synchronisation | 30 s |
| `ems_cycles` | 2 consumers, 2 headrooms, 2 events | setpoints follow shares, shares the headroom; release, heartbeat, recovery | 80 s |
| `modal` | a number, a state and a schedule, 3 acts of the user, 2 openings under way, 2 schedule entries, German numbers | values and schedules belong to their key, and are shown in the end | 180 s |
| `stream` | a page and a widget, 2 keys, 2 acts, 1 update, 1 fault, 2 requests | one stream, fresh values in the end | 65 s |
| `pages` | 18 scenes, 2 to 5 acts and 1 to 3 requests each | what is shown, edited, saved, drawn, imported, started or acknowledged is that of the thing it was opened for | 80 s |

Why the bounds are enough to be of interest:

- *Sockets.* A race of the cleanup needs two connections. The overwritten newcomer
  needs three, in `connections_sockets`: one that is replaced and two that
  await its close. Two senders and three CALLs let a semaphore or a chain be dropped
  with one holder, one waiter and one newcomer.
- *Transactions.* Two ids and a restart give an id that is handed out twice to two
  charge points; three epochs a CALL that is handled two connections later; two
  pending CALLs a repeated one behind its original. One unit of energy tells a session's consumption from
  the register.
- *Charging.* One write has up to nine operations; eight timeouts let all waits of
  the handlers and the writer time out in one behaviour, and a drop in the middle splits a series over two
  connections.
- *Poller.* The threshold is 2 rather than 3 because only "one failure is too few"
  and "the count can be passed" matter; two flaps are an outage and a return. The
  properties about absence of faults, clears and restarts are conditional on the
  budget spent, so one run checks behaviours with and without them.
- *Rules.* Five events bring a value in, let it change and expire while a write
  waits, and break and mend a connection.
- *EMS.* Two events are enough for an exchange during a cycle that an import made
  necessary, a refused write and an override, or a toggle in a cycle. The headrooms
  are one that is shared or used up by the first consumer, depending on how far it
  has got, and more than both use.
- *Front end.* Two things to confuse (keys, rows, widgets, boxes), an act that opens the
  first, one that opens the second, one to save, and two requests whose answers can
  come in either order: every mix-up found while modelling took at most these. Where
  a third step matters (a drawing named, saved and closed; an override with a device, its
  connection and a rename) the scene has four or five acts. Numbers of `modal` are ones
  whose German form has both separators; the files of `historical` are in both notations.

### Fairness

- `OcppConnections`: started handlers, sends and CALL handlers go on (thread pool;
  closing, sending and handling have timeouts or end with the socket). Peers,
  networks and callers owe nothing.
- `OcppSmartCharging`: `TimedSpec` assumes threads and timers (each wait has a
  10 s `Task.WhenAny`); `UntimedSpec` threads, the receive loop and answers of
  the charge point, but no timer.
- `DevicePoller`: each device has its own loop, which the connection lock serves in turn.
- `ControlEngine`: the loop reaches every rule again and again (strong fairness of `EvaluateDue`, as the
  loop is busy in between), a `SemaphoreSlim` serves its waiters, polling loops
  release what they hold.
- `EmsDispatch`: the loop catches what a cycle throws and goes on; time passes.
- `TelemetryDetails`: requests are answered or fail, timeouts and the interval fire, and
  not every refresh fails. `LiveUpdates`: timers fire, subscriptions are answered, the
  stream opens, breaks or is served; a silently dead stream is left to the staleness check. The pages have safety only.

Events from outside (operators, faults, drops, restarts) are never fair.

### Where the code and what is said of it differ

One run is a violation, under "findings" in `PROJECT.json`: `charging_offline`,
`AppliedOnceStarted`. A setpoint written while the charge point is offline is not
applied when a transaction starts, only when one is recovered from MeterValues; the
comment in `OcppDriver.cs:161-165` says it is.

The others are stated at the end of their module, most after "Not so", with the
line that promises them; TLC refutes each when it is put into the configuration
of the module's run. The properties of the passing runs say what holds instead.

| module | property | what happens |
|---|---|---|
| OcppConnections | `CleanupSparesNewConnection` | a connection registers between the ownership test and the removal by key of its predecessor, and is removed |
| OcppTransactions | `BilledIsConsumed` | a recovered transaction has start value 0 and is billed the register |
| OcppTransactions | `IdsIncrease` | the counter starts again with the process |
| OcppTransactions | `NoOrphans` | a handler that runs after the cleanup leaves an entry |
| OcppSmartCharging | `LatestIsNotOverridden` | overlapping writes leave the profile of the older one (needs two writers and two writes) |
| DevicePoller | `AlarmIsTrue` | a device offline at a restart keeps its alarm when it is back |
| DevicePoller | `FailuresAreConsecutive` | the count of a COV device is never reset |
| ControlEngine | `StaleIsNotWritten` | a value expires between snapshot and write |
| ControlEngine | `SuccessClearsAlarm` | the alarm of a failed control write is raised with origin type CONTROL and cleared with origin type DEVICE |
| EmsDispatch | `RecoversWhenImportStops` | a consumer without a minimum, stopped by an import, draws nothing, so it does not demand, so its share stays 0 |
| LiveUpdates | `KeepalivesCount`, `HiddenHasNone` | keepalives are comments, which no handler sees, so a quiet stream is replaced; a reconnect or subscription begun before opens one while the tab is hidden |
| TelemetryList | `RowsInView` | the observer of the viewport is set up before there is one |
| WallboxesPage | `StopsTheTransaction` | a stop names transaction 1, and ids begin at 1001: nothing is stopped |
| TelemetryCrud | `DeletesTheRow` | the key chosen since is the one the row is deleted from |
| ConnectionsPage | `ChartOfSelected` | a late answer is drawn in the panel of another connection |
| HeartbeatPage | `CountsOnce` | answers out of order count updates twice |
| AlarmsPage | `CommentInPlace`, `ListOfFilter` | an unsent comment goes with the next alarm; the answer for another severity may come last |
| Shell | `FavouritesGone`, `HomeShowsOwn`, `HomeStopsListening` | the last favourite comes back from an older list; a home page loaded before the user is known shows Nobody's; one left before it is loaded listens on |

### Mutants

`PROJECT.json` has one mutant per property. A conjunction of parts, or of scenes, has
one for one of its parts; the mutants of the others are in the modules, before the
definition they spoil, and each makes the run fail under the same configuration:

| module | definition, mutant |
|---|---|
| Charts | `Granularity`, `Kept` |
| Dashboards | `StartPolling`, `StartPollingAgain` |
| Scada | `ConfirmRename`, `ConfirmRenameTaken`; `Applied`, `AppliedOver` |
| ScadaPoints, ScadaPreview | `Live`, `LiveToAll`; `Toggled`, `ToggledBeside` |
| BillingPage | `SelectPeriod`, `SelectPeriodOnly`; `Key`, `KeyByName`; `FinishReplacements`, `FinishReplacementsHere` |
| EmsPage | `HandleOpenEditConsumer`, `HandleOpenEditConsumerPartly` |
| TelemetryCrud, TelemetryList | `Normalized`, `NormalizedAsUS`; `VisibleSlice`, `VisibleSliceFromTop` |
| WallboxesPage, HeartbeatPage | `OpenStartModal`, `OpenStartModalPartly`; `FinishPoll`, `FinishPollAnew` |
| AlarmsPage | `FinishAcknowledge`, `FinishAcknowledgeAtOnce` |
| TelemetryDetails, LiveUpdates | `Filled`, `FilledOffByOne`; `Given`, `GivenNext` |
| AlarmStore, ControlEngine and the OCPP modules | those marked *Mutant* that `PROJECT.json` does not name |

## Proofs

Proved for all values of the constants that satisfy the module's
`ConstantsAssumption` (`SocketsAssumption` in OcppConnections, `RulesAssumption` in ControlEngine; bounds are natural numbers, special values are not members
of the sets; in the front end `DashboardAssumption` and `PagesAssumption`, which ask as much of `None`, that there is a window and lengths of windows
are whole hours, that the keys of a chart are in a sequence, that the rows of a
file are sequences of cells, which are of characters, and the nodes' keys, the columns' orders and the keys that are
offered sequences too, that positions in a list are natural numbers, that there are finitely many hosts, that places
are integers, that keys and rules of widgets are told apart, that no two elements of a picture have one name, as draw.io
numbers its cells, that cards and the invoices of a month are sequences, what an invoice costs a whole number (of the
smallest unit: rounding is not modelled), and no customer's id is `__unassigned__`, the key the page gives the group of
the invoices without one, `billing.tsx:480`):

- **Ocpp_proofs**, of OcppConnections: `SocketsTypeCorrect`, and the safety invariants of the two
  runs (`ConnectionsAreOwned` collects those about ownership). No invariant is inductive alone; each is proved from the type invariant and
  the few that it needs. `SendsSerialised` rests on `SemaphoreExclusive` (a semaphore admits
  one) and `SemaphoreIsCurrent` (while a socket is open and undisturbed its senders use the
  semaphore of the dictionary), which in turn needs that a handler past its loop has
  a closed socket (`EndedIsClosed`) and that whoever is named by a thread was registered
  before and will not be again (`NamedWasRegistered`). `HandlersInArrivalOrder` follows from `ChainIsCurrent` and `ChainIsSerial`.
- **Ocpp_proofs**, of OcppTransactions: `TypeCorrect`, `Orphans`, `Owner`, `MappedActive`,
  together `TransactionsAreOwned`.
  `OneOwner` is inductive because it speaks of everything that may know an id (entry,
  mapping, session, pending CALL) and of ids not issued yet; `MappedIsActive` follows
  with it, as only a charge point's own CALL can close what it is mapped to. The action
  properties `RowIsSession` and `ConfirmedHasRow` need to know what CALLs are under way:
  those of the current connection are in the order the session took (`CallsInOrder`), the
  register only rises (`SessionsRise`), the entry with the session's id began where the
  session did (`EntryIsSession`), a pending StopTransaction is that of the session that
  stopped (`StopIsSession`), and what an uninterrupted session has of the server is its
  entry, and then its row (`SessionIsKept`).
- **DevicePoller_proofs**: `TypeCorrect`, `InStepHolds`, and `Implements`: every
  step of the poller is a step of the alarm store or leaves the table alone. One
  lemma says of each operation of the store which devices it alarms and silences,
  one of each way a poll can end that it keeps memory and table in step. `OfflineEarned`
  needs `CountIsEarned`: of a polled device none of whose writes was lost, the count is at
  most the streak of failures, as far as that is counted.
- **Control_proofs**, of EmsDispatch: `TypeCorrect`, `AllocationObeyed`, `MinimumKept`, `SharesByPriority`. A device
  obeys what its object wrote last (`WrittenIsApplied`), and what was written last is
  near the share once the loop has visited the consumer (`Followed`). Both survive an
  exchange of the configuration because the object the loop goes on with is no longer
  that of the list, and its consumer is not sure to obey (`HeldInCycle`). The write
  itself needs that what is written is the setpoint of the cycle (`WritesTarget`), and
  the minimum that those ahead of the loop still have the share of the dispatch
  (`MinimumAhead`). That the shares fit the headroom is about a sum over a set, a
  recursive function that takes an element chosen by `CHOOSE` first. What the proof needs
  of it (`SumRest`: any element may be taken first; `SumGrows`; `SumSame`) is proved by the
  smallest subset that it would not hold of, which exists as the list is finite
  (`SmallestSubset`, from the library's well-foundedness of strict inclusion); the rest is
  the last consumer in the order of priorities, which takes no more than the others leave.
- **OcppSmartCharging_proofs**: `AnswersMatchedHolds`, `AppliedInstalled`. That an entry of
  `_pendingCallResults` is awaited is inductive only with two more facts: a thread that
  waits is at an operation of its write that sends a message (`WaitingIsAsking`, so that a
  write does not return, and a new one does not begin, while its message is pending), and writes have different
  numbers (`WritesAreNumbered`, so that a result ends one wait). The types need that a program
  has at most nine operations and that a handler that writes is still in its chain.
- **Control_proofs**, of ControlEngine: `RulesObservedHolds`, over what each operation of AlarmStore does to the
  rules' alarms. A failure updates or adds a row, a success clears rows of its own rule only. For the
  edges, the invariant adds that a rule that has fired remembers its condition as true
  (`Remembered`). Assumes that rules have actions; the others do nothing.
- **Dashboard_proofs**, of AlarmStore: `TypeCorrect`, `OneActiveHolds`, `LifecycleHolds`, over two
  lemmas: a step that activates no row keeps uniqueness, and clearing activates none.
- **Dashboard_proofs**, of LiveUpdates: `StreamsAreOwned`. Streams and requests stay finite sets, which is
  why a new one gets an identity no other has, and why a late event of an old stream
  is not taken for one of the current stream; `_reconnectSSE` closes the stream it replaces. The
  fall-back to the query string is where this ends (`fellBack`).
- **Dashboard_proofs**, of DashboardScenes: the lemmas on dashboards, telemetry points, widgets, drawings and forms that
  the next module concludes from, with those on sums over finite sets that the invoices' total needs (as in
  Control_proofs: what holds of every subset holds by the smallest one it would not hold of). They are here because each proof step costs the more the more
  modules are in view.
- **Pages_proofs**: nine properties of the application, each from an inductive invariant that the page's
  module states before its properties. A step of a scene is one of its page and keeps the scene
  (`SceneStays`), so each is proved of one page.

  | theorem | inductive because |
  |---|---|
  | `OneChartDrawn` | a chart is the one that the page knows (`ChartOwned`); in the heartbeat's page the first answer comes alone and polls after it (`PolledLater`), or it would draw a second chart |
  | `FavouritesStay` | a favourite is in its user's list, and migrating the old list skips users who have one (`InOwnList`) |
  | `DashboardsStayApart` | the title, saves under way and what is stored are of the dashboard they name, not only the page's (`PageApart`, `ServerApart`); subscriptions end with the poll timer (`Streams`) |
  | `PointsStayTrue` | types are enough beside the property (`Placed`, `Valued`): it excepts the points whose anchor was given up or whose drawing was removed since they were left (`left`) and those that an older answer overtook (`behind`) |
  | `SavingRevertsNothing` | fields that were not typed are what the form was filled from (`FormOfBase`), and every configuration a snapshot may bring is consistent (`ConfigsKnown`) |
  | `DialogueEditsOwnWidget` | a load for this opening is for the widget that is edited, and has its keys (`LoadsOwn`); the list, the rules and the list that cancelling returns to are what the widget has with the changes made since (`FilledForOwn`); the editor's array is only handed to widgets that are there (`EditorTyped`) |
  | `DrawingsStayTrue` | the editor talks to the window that was opened for its widget, and one about to deliver is that one (`TalksFor`); a renaming under way is the only one of its drawing, and its names are those the diagram will have (`NamesAgreeing`); what is animated is what came last, and the dots believed to be there are (`Animating`); in a preview, a class drawn for a rule is the only one of its category (`CopyExclusive`) |
  | `FormsStayApart` | what a table has of a row was typed or chosen for it, also in answers under way and in the fields of the row that is edited (`TablesOwn`, `AskedOwn`), and replacements name their tenant (`ReplacementsOwn`); unless loads of invoices crossed or failed, the invoices are the month's or the only load under way is for it (`InvoicesKnown`), and adding them up by group counts each once (`SumByGroups`); names of consumers are their own in every snapshot (`NamesOwn`); a card that was typed was typed for the dialogue's box (`ChoiceSound`); an acknowledgement, or the closing after it, is the only one, and the dialogue's (`AckAlone`) |
  | `ChartStaysTrue` | unless it was missed, what is awaited, being drawn or shown is of the window and the kind in force, and only one of the three is new (`InForce`, `ChartTyped`), so live values join lines only; points of a chart of the keys are of times that are over, so a live one is the latest (`KeysShown`). Without state: every finite set of times can be sorted, by taking its largest away (`SomeSorted`, `LargestOf`); cutting keeps the order and, where series stand at the same times, those (`ChartAt`, `ChartAtSame`); equal names get different numbers, as a later one counts one more (`NamesApart`); some granularity is always enabled (`ChartGranularity`) |

- **PageData_proofs**: three more, with the lemmas on sequences that they need. That a filter, a fold or a search of a
  sequence does what it should is again proved by the smallest length for which it would not (`Least`).

  | theorem | inductive because |
  |---|---|
  | `ListensStay` | the listener there is is the one to be given up, and for what is drawn (`Listening`, of both pages); a row that is observed is one of the node that is shown. That every row in view is drawn is arithmetic (`SliceDrawn`): ten rows more at either end, of 60 pixels |
  | `OverridesStayApart` | ids differ also in what the server has and what a dialogue may save (`IdsOwned`). A scan looks for the first id with a number that is free; that there is one is counting (`SomeUnused`): more numbers are tried than ids are taken |
  | `ImportsStayApart` | parsed points are those of the file and the columns that are shown (`ParsedFrom`), an upload goes on with the key and the points it began with (`UploadOwned`), rows are kept under their key (`StoredOwned`), and what is selected is offered (`KeyOffered`). Reading a number needs no state: `ReadsAsWritten` follows the replacements of separators through the text |

- **TelemetryDetails_proofs**: `ValuesStayOwned`, `SchedulesStayCoded`. The dialogue is shown exactly for the key that
  is open (`DialogueSound`), and as long as nothing strayed one opening at most is under way, for that key, whose text
  and visible input these are (`TextsOwn`); a refresh has an identity of its own because requests are finitely many. For
  schedules, those being sent are in order too, and what is edited counts states from zero (`SchedulesCoded`). `InOrder`
  sorts by insertion, and the theorem covers what the run has too few steps for: entries that were not in order before.

Some things came out of the attempts. A telemetry point shows its own key also while answers are awaited, which the
property had excepted. Editing a widget opens the dialogue at once, whether keys are loaded already or not; in the
model it had stayed closed when they were. Bars are more than fit in windows beyond four centuries, where years are all
that is left; `ChartIsTrue` had not excepted them, as the run has no such window. `ImportsApart` took a number to begin
with a digit; the code reads `,5` as well, and the property now speaks of it.

Only model-checked: liveness, as fairness is defined by ENABLED, for which the prover has no rules. The properties under
"Where the code and what is said of it differ" are refuted, not proved.

## Not modelled

Formatting, logging and layout; the wire formats of the protocols and the
register tables of devices; discovery. Devices and charge points are modelled from
how the code uses them.

Of the server: configuration generations of OCPP, the batches of the telemetry store,
counters of the calculation engine and rolling windows, and the connections of the BACnet, KNX,
Modbus and smart meter gateway drivers (`PROJECT.json` has the reason for each). In the modules of those who use
them they appear as values that arrive, polls that fail and writes that are refused. The dashboard's
controllers are modelled where they change what a module has; reading requests are answers.

Of the front end: toasts, confirmations, the limit on error messages, translations and the log page;
the order of keys in a widget; zoom, and the second dimension of drawings. The `*.page.ts` files that `.tsx` pages
superseded, and the compiled `wwwroot/js`, repeat what is modelled from the sources in use.

Two hazards have no property: see their notes under "hazards".
