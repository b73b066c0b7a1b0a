# RedMole: models, checks and proofs

RedMole is the firmware of an ESP32-S3 (two cores, FreeRTOS at 1000 Hz) with a
touch display, WiFi, an environment sensor and a UART diagnostic link, and a PC
client for that link. This directory holds TLA+ modules of its core logic,
configurations that check them with TLC, and theorems proved with TLAPS.
`PROJECT.json` maps every definition to the source lines it stands for.

## 1. The system

Five FreeRTOS tasks share the firmware's data, most of it without locks:

| task | runs |
| --- | --- |
| main | `app_main()`: boot, then for ever `app_gui_bindings_sync()`, `task_scheduler_work()`, 30 ms sleep |
| event loop | `wifi_event_handler()` of the NAC for each event of the WiFi driver |
| LVGL | GUI event callbacks, which call into NAC and the settings store |
| UART listener | `uart_mole`'s command loop |
| environment | the polling loop of the measurements manager |

### Inventory

| component | state | operations | hard behaviours | what makes it correct |
| --- | --- | --- | --- | --- |
| **task scheduler** `components/task_scheduler` | intrusive list of nodes, `active` flags, `count`, `run_at_tick` | add, remove, one pass (`work`) | callbacks edit the list during the pass; tick wrap-around; callers on four tasks, no lock | list, flags and count agree; a node runs at or after its tick, only while queued; passes end, nobody starves |
| **network access controller** `components/nac` | WiFi state, retry count, credentials, `hw_online`, driver, node | connect / disconnect / scan requests, `wifi_connect()` callback, event handler, boot-time scan | three tasks, events queued by the driver, back-off retries, failing driver calls, late events | states match the link; every attempt and scan ends; only proven credentials are stored; other modules hear of changes |
| **environment measurements** `components/environment_measurements` | stop flag, notification, semaphore; latest records, versions, failure flags | init, start, stop, poll; publish, invalidate, copy, freshness, update count | stop/start crossing the polling task; readers during publication; ageing | no lost wake-up; a stopped task is quiet; coherent snapshots; failures invalidate; values refused for a cause only |
| **UART diagnostic service** `components/uart_mole` | shared package buffer, tag, node, event bits | listener per command, `uart_mole_work()` | listener and main share a buffer; commands dropped while busy; the boot ROM prints its log on the same pins | an answer belongs to its command |
| **UART client** `software/uart_client` | request, serial port | request/response with time-outs | late or missing answers | an answer is taken only for its request |
| **HTTP client** `components/http_client` | `network_up`, poll node, response buffer | up/down notification, poll, get | notifications on two tasks, requests that fail half-way, a listener that copies the buffer | polling follows the network and goes on; what is passed on is one response |
| **settings store, NVS** `main/src/app_gui_bindings/app_gui_settings_store.c`, `app_gui_bindings.c`, `components/nvs` | keys in flash, last saved values, change flags | load, save-if-changed, factory reset | several keys per setting, failing writes, restarts, a reset on another task | what is remembered as saved is what the next start loads; edits are stored |
| **GUI bindings** `main/src/app_gui_bindings` | GUI settings, scheduler nodes of the fetches | runtime sync, WiFi sync, spot price, forecast, LEOP | settings read before a blocking request and written back after it | data shown belong to the settings shown; no edit is lost without need |
| **BME280 driver** `components/environment_measurements/src/bme280` | ready flag, calibration; the sensor's registers | `init()`, `read()` | every transaction may fail; the sensor loses power, is unplugged or exchanged unnoticed | readings are complete and compensated with the right calibration; recovery after every fault |
| SNTP | client running or not | start, stop | – | follows the network |
| SD card, log | mount state, log queue | mount, log task | queue limits | – |
| GUI, LVGL port, touch, RGB panel, GPIO, I/O expander, board I2C, BluFi | drivers and layout | – | – | – |

How they interact: GUI callbacks call NAC requests; NAC queues its node, and
main runs it; the driver's events reach NAC's handler, which notifies the HTTP
client, the SNTP client and the event group that the UART service reads; the
HTTP client queues a poll node; the GUI work tasks are scheduler nodes that
fetch through the HTTP request functions; the environment task publishes into
the store that the GUI sync and the UART service read.

The hazards this gives rise to are listed, with their lines, in `PROJECT.json`.

## 2. Modules

| module | what it is |
| --- | --- |
| `SchedulerContract` | what `task_scheduler.h` promises: a set of queued nodes, true waiting times, the running node |
| `TaskScheduler` | `task_scheduler.c` used from one task: list as a sequence, wrapping ticks, the pass with its saved next pointer; implements the contract |
| `TaskSchedulerUnlocked` | the same functions statement by statement on pointers, called from several tasks; for one task it implements the contract |
| `TaskSchedulerProofs` | theorems about `TaskScheduler`, its wrapping tick and the signed comparison |
| `TaskSchedulerUnlockedProofs` | theorems about `TaskSchedulerUnlocked` with main as the only task, and about walks along pointers |
| `Nac`, `NacProofs` | `nac.c` with its three tasks and the WiFi driver as environment; theorems |
| `MeasurementsManager` | start/stop handshake and polling loop |
| `MeasurementStore` | publication, invalidation, multi-channel copy, freshness, update count, conversion to tenths |
| `EnvironmentMeasurementsProofs` | theorems about both |
| `Bme280`, `Bme280Proofs` | the sensor driver, transaction by transaction, against a sensor that can be disturbed; theorems |
| `UartMole` | `uart_mole.c`: the listener task, the package buffer it shares with the main task, transmission and restart |
| `UartLink` | `UartMole` composed with the client on the PC (`software/uart_client`): requests, packets, time-outs, the adapter being plugged in |
| `UartLinkProofs` | theorems about the two |
| `HttpClient`, `HttpClientProofs` | notifications, poll, response buffer and the listener's copy of it, byte by byte; theorems |
| `SettingsStore` | GUI settings, last saved values and NVS keys: saves, factory reset, restarts |
| `WorkTasks` | `SettingsStore` composed with the tasks that fetch prices and forecast for the settings; it implements `SettingsStore` |
| `SettingsProofs` | theorems about both |
| `MC*` | instances for TLC |

### Correspondence

*TaskScheduler.* One action per list call (`task_scheduler_add`,
`task_scheduler_remove`, and `schedule_now`, by which the GUI work tasks pull a
queued node forward), and the pass as `BeginPass`, `Invoke`, `Skip`,
`ReturnRunAgain`, `ReturnRemove`, `EndPass`. A callback is the time between
`Invoke` and a return, in which list calls may happen. The variables `wait`,
`ran`, `owed` and `cut` are history: no guard of the code's own conditions reads
them. `Tick` states the two timing facts the signed comparison depends on:
delays and stalls stay below half the tick range.

*TaskSchedulerUnlocked.* Each statement that touches a shared pointer is a
step. `run_at_tick` is left out; a visited node may or may not be due. What a
walk visits is said as the least set closed under the pointers (`Visited`),
which is defined on a broken list too, and can be proved about.

*Nac.* `wifi_connect()` is split at its driver calls and its 50 ms sleep,
`wifi_disconnect()` at `esp_wifi_stop()` and `esp_wifi_deinit()`. Every driver
call of theirs may fail: the `esp_wifi_stop()` of a retry, whose result the code
does not look at, leaves radio and link as they are; that of a tear-down leaves
the radio on and at most the link is given up (`StaysOnline`); `esp_wifi_deinit()`
leaves `hw_online` set with the handlers gone. The `esp_wifi_scan_stop()` of
`wifi_bring_hw_offline()` is left out: main, which runs it, is never in
SCANNING then, and after a disconnect the state is IDLE. The reads and
writes of `wifi.state` between two such points are one step. The driver is
external: it associates or refuses, loses links, ends scans, and posts events
to a queue that the event loop serves in order; `esp_wifi_stop()` posts a
disconnect event when there was a link, as the code's comments presume.
`announced` stands for all that is told on a change: HTTP client, event-group
bits, SNTP. The *circumstances* of a behaviour - which driver calls may fail,
what the user does, whether links drop, how the tasks are timed - are chosen in
the initial state and never change, so that one run covers many mixtures and
each property names those it needs.

*MeasurementsManager.* `stop_requested_`, the notification and the semaphore are
accessed in separate steps by the owner and the task. A FreeRTOS notification
used with `pdTRUE` and a binary semaphore are Booleans.

*MeasurementStore.* `poll_once()` reads, locks, writes channel by channel and
unlocks; a consumer copies channel by channel, then reads the clock and judges:
`Judge` refuses for a record that is not fresh and for a value that does not
convert. `ConvertedUnits` is the conversion to the unit of the public API,
with C's division towards zero written out, and `Convertible` its check of the
bounds of `int32_t` (`Lowest`, `Highest`). A record holds its value; `reading` is the
batch between a producer's read and its publication.
`environment_measurements_is_fresh()` is the first half of `Judge`, and the cast
of the update count to 32 bits is left out.

*Bme280.* Each bus transaction of `Bme280Sensor` is one step: it is answered, or
nobody answers, or it fails before or after the sensor has taken it. `Read` is
`Bme280Producer::read()`, which calls `init()` when the driver is not ready. The
sensor is external: what its registers keep, when a conversion runs and what
the data then hold is modelled from what the driver relies on. A register is
TRUE when it holds the value of `settings_`, and a calibration is the sensor it
came from. Between any two steps the sensor may lose its power or be
unplugged; it is plugged in only while the driver is idle, since that takes
longer than a call. Running out of status reads counts as a fault, as the
attempts outlast the sensor's work. The compensation formulas and chips that
are no BME280 are left out.

*HttpClient.* The flag and the list are changed in two steps by each of the two
notifications. A response arrives in chunks, which the event callback copies a
byte a step, so that the listener's `strnlen` and `memcpy`, also a byte a step,
can fall between any two of them. Whether a request succeeds is open, and a
failed one leaves what it has written. `esp_http_client` and the server are
external. The other users of the request functions run on main with buffers of
their own.

*SettingsStore.* Main's loop is a chain of positions; each `gui_get` is a step that
waits for the GUI's mutex, each key written is a step, and so is each key a
reset erases. The load at boot is one step, because no other task runs yet, and
an assignment of several fields at the end of a reset is one. A failing
write leaves the key as it was, which NVS promises. The WiFi keys of the reset
belong to `Nac`. The mapping of theme numbers and the clamping of brightness are
left out. Text that is no coordinate is `Invalid`; an empty one is stored like a
value, but is no place. A reset sets `spot_price_area_changed` and not
`location_changed`: the forecast follows at its next minute. `torn`, `crossed` and
`stale` are history.

*WorkTasks.* Each task copies its setting, waits, and shows the answer; main does
nothing else meanwhile, while the user does what he likes. Parsing, averages
and dates are left out.

*UartMole.* The listener's steps are those between which another task can act:
receive, look at `active`, fill the buffer, add the node. `uart_mole_work()`
writes a header and a payload; TEST is written by the listener in one call. The
scheduler is taken at its contract, so `active` is set by `Add` and cleared by
`Release`. A package is its tag and the number of the request it answers; its
fields are not modelled. A restart empties the driver and the listener begins
anew. At each start the boot ROM prints its log: `CONFIG_BOOT_ROM_LOG_ALWAYS_ON`
is set (sdkconfig:890) and UART0's own pins are the service's
(uart_mole.c:22-24). It is one item of `wire`, `BootLog`, which belongs to no package; the
console of the firmware is on the USB port (sdkconfig:2595) and adds nothing.

*UartLink.* The client's loop is `Send`, `ReadHeader`, `ReadPayload` or `TimeOut`.
`wire` holds everything the device has sent, `read` how far the client is.
Only the main task can be late: a GET, or a connection attempt, blocks it for
seconds, while the listener runs at the second highest priority. `clean` is
history: a quiet line, with nothing left over. It becomes false when the client
sends a command before it has read what there is - a boot log, for one -, when it
gives up on an answer that may still come, or when a break on the line gets past
the flush; starting the client again throws away what has come (`serial_open`)
and makes it true when nothing is under way. What the client takes for a header
and is none - the boot log, or the rest of a packet that was cut in two by
reopening the port - costs it as many bytes of what follows as it likes
(`ReadGarbage`); that a checksum could match by accident is ignored, and an item
of which only some bytes were consumed counts as read or as not read.

## 3. Runs

| run | shows | bounds |
| --- | --- | --- |
| `scheduler` | list, deadlines, contract, at most once per pass, none missed, no starvation | 3 nodes, 6 tick values, delays 0 and 1, two list calls per callback: a callback can remove the next node and put it back in front, ticks wrap while nodes wait |
| `unlocked_single` | statement-level refinement of the contract, acyclic list, flags and count right | 3 nodes, all calls by main, also from callbacks |
| `unlocked_shared` | **violation**: the list breaks when two tasks edit it | the firmware's two most used nodes and its three callers |
| `nac` | the 8 properties below, each under the circumstances it names | 2 networks, the 5 attempts of the firmware, 3 pending events; no, every, or every driver call but `esp_wifi_deinit()` failing, mixed with scans, resets, lost links and timing |
| `measurements_manager` | no lost wake-up, stop returns and takes effect, first stop is honest | 2 producers, 3 stops told apart |
| `measurement_store` | coherent snapshots, fail-fast, refusal for age or range and nothing else, update count | 2 producers (2 channels + 1), 3 publications, 3 clock values, age limit 1: a record can be fresh, of limit age, and stale; an API of -2 to 2 units, values on both sides of where rounding leaves it: 2.49 and 2.5, -2.4 and -2.5 |
| `bme280` | sound readings, one call lost per fault, recovery | 2 sensors, 3 status reads, 4 faults, forced mode as in the firmware |
| `bme280_normal` | **violation**: in normal mode the driver never gives a reading | 1 sensor |
| `uart` | whole packets on the wire, each command answered at most once and in order, accepted commands answered, restarts acknowledged, answers that are those of their requests | 3 commands and adapter plug-ins in all, breaks of up to 2 bytes: a lag of two answers, a late answer, a restart with a command during the start-up, a boot log before an answer, a TEST while a package is sent |
| `http` | polling follows the network, packages are responses, polls go on | buffers of 4 bytes, chunks of one and two bytes, bodies of up to 4: one fits, one does not, in one chunk or several |
| `settings` | what is remembered is stored, prices match the area, only crossed edits are lost, edits reach NVS, data follow the settings | 2 values per key, 2 edits or resets, 1 restart or failure |
| `settings_reset` | **violation**: a factory reset is undone by a save it crosses | the same, without failures |

Why the bounds are enough: the scheduler's interesting cases need a visited
node, the saved one and one behind it; the list algorithm treats all others
alike. Ticks are only compared through their difference, so six values cover
before, at, after and wrapped. NAC has all its retries, since two were too few
(section 3, *What NAC's properties need*). In the store a third publication is enough to have a record of
the copy before, one in flight and one after. For the sensor, four faults leave
two for a first call, one for its repetition and one after. In the HTTP
client all lengths from empty to one above what fits occur. For the settings one
edit and one reset, two crossing edits or an edit around a failure are the cases
there are: values are only compared for equality, and the theorems below hold
for any number of each.

The type invariants are stated in each module; where proofs rest on them they
are proved, and the others were checked along with the runs' properties.

### Fairness

`TaskScheduler`: main's steps are weakly fair, because `app_main()` loops for
ever and callbacks return; list calls and ticks are not. `Nac`: each task's
steps, the driver's answer to an association and the end of a scan; users and
link losses are not. `MeasurementsManager`: a call that has begun continues and
the task is scheduled; nobody has to call `start()` or `stop()`. `UartMole`: the
listener, main and the UART hardware go on; the client need not, so what the
device promises does not rest on the client's time-out. `WorkTasks`: main and a
reset that has begun go on (both are loops without a wait other than for each
other), and a minute passes for a node again and again (strongly fair, because
main is only now and then at the point where the model lets it); users and
faults are not fair. `HttpClient`: notifications end, time passes, main goes on -
a request is bounded by the library's time-out; the network and the listener
need not do anything. `Bme280`: the polling task goes on and the sensor ends what
it begins.

### What NAC's properties need

*Faultless*: no driver call fails without a cause in the model. *Patient*: the
user presses a button only when nothing is in progress. *Undisturbed*: patient,
and a link is not lost while a factory reset is going on. *Timely*: events are
dispatched during main's 50 ms sleep, and main removes its node before the
driver answers. Outside of these the following is possible (found with TLC by
dropping the condition from the property):

- not timely: `wifi_reconnect()` adds the node while `wifi_connect()` has not yet
  returned; the addition is refused, the node then removed, and the state stays
  RECONNECT without a worker (nac.c:570, task_scheduler.c:105);
- `esp_wifi_init()` fails: `wifi_connect()` returns TASK_ERROR in RECONNECT and
  the status stays CONNECTING (nac.c:421-425);
- a scan while connected: `wifi_scan_done()` sets IDLE, the status is
  DISCONNECTED with the link up (nac.c:590);
- a disconnect while an address is under way: GOT_IP sets CONNECTED after IDLE
  was set, so the disconnect event schedules a reconnect (nac.c:659, 534);
- a factory reset while an address is under way: the credentials are stored
  again after they were erased (app_gui_settings_store.c:433-479);
- a link lost without a request: HTTP client, event group and SNTP were told that
  it was up and are told nothing until the next change (nac.c:624);
- a scan that a connection attempt overlaps: the restart of the radio cuts it
  off, and no event ends the scanning state (nac.c:504);
- a second request between association and address: the credentials stored are
  those of the latest request, not of the network joined (nac.c:672);
- not timely, and `esp_wifi_stop()` fails at a retry, then `esp_wifi_set_config()`
  and `esp_wifi_deinit()`: of two starts of the radio the first association is
  refused and the second succeeds; the failed stop, whose result is not looked
  at (nac.c:419), keeps that link, its address is dispatched while main sleeps and sets
  CONNECTED, and the attempt, given up, stops the radio with the handlers
  already unregistered (nac.c:344-352): nobody hears that the link has ended, and
  the state stays CONNECTED. `ConnectedMeansLink` therefore asks that
  `esp_wifi_deinit()` does not fail when the timing is not given. With the timing
  given no address can arrive during that sleep, and any call may fail;
- not timely, and `esp_wifi_stop()` fails in a disconnect: the state is IDLE with
  the link up (nac.c:549). The next attempt stops the radio, and the event of the
  link it ends is dispatched only after CONNECTING was set, so the attempt is
  started over; two starts of the radio are then pending, and the second makes
  the station join once more while the end of the first link is still to be
  heard of. Its address can be dispatched when the link has been stopped again:
  HTTP client and event group are told of a network that is not there. The proof
  of `EndedOnRequest` could not be done without excluding this; TLC finds it from
  three attempts on.

### What the stop handshake needs

`FirstStopIsQuiet` is about the first stop. The task can see the request before
the notification that comes with it (measurements_manager.cpp:92-94): the
notification then ends the sleep that the acknowledgement was followed by, and
the request is acknowledged once more. This second acknowledgement is left in
the semaphore, and a later `stop()` returns on it while the task is polling.

### What the UART link's properties need

`AnswersMatch` speaks of a client that begins with a quiet line (`clean`): it has
waited out, or thrown away by being started again, the answers to earlier
requests and the boot log. It then compares the request (`to`) and not just its
kind with what the printed packet answers. Without that condition, found with TLC
by dropping it, the client prints answers to other requests:

- the boot log after a restart, or what is left of it, takes the place of an
  answer; the next request then begins behind, and `serial_open()` is the only
  place that flushes (serial.c:33);
- an answer that came after the client's time-out: it is taken for the answer to
  the next request, whose tag is not compared (protocol.c:42);
- a command sent between `uart_flush_input()` and `xQueueReset()`
  (uart_mole.c:281-282): its byte stays, its event is gone, and from then on every
  event takes the byte before its own;
- a burst after start-up: one byte is read for each event (uart_mole.c:292), so
  the rest of the bytes stay and answer later requests, until the restart.

A command that arrives after the last byte of an answer but before the
scheduler has taken the node out is dropped (uart_mole.c:297) and the client
times out; when nothing is under way by then, `clean` stays true.

### What the HTTP client promises

`PackageIsResponse` is about packages that no request has crossed. One that is
being copied when the next request begins may mix two responses, and what
`strnlen` has counted may no longer be there. Before the first request the
buffer is what `malloc` returned (http_client.h:85). An error page, or the part
of a body that came before the connection broke, is a response like any other.
When two notifications overlap - down on the LVGL task (nac.c:540), up on the
event loop (nac.c:664) - flag and node can disagree until the next one
(`overlapped`).

### What a factory reset leaves

Run `settings_reset`: main has seen a changed setting and is about to write it;
the reset erases the keys; main writes its copy and remembers it; the reset
shows the factory settings and remembers those. From then on nothing differs
from what is remembered, and NVS keeps the user's value until the next start
loads it. `RememberedIsStored` excepts the groups this has happened to, and those
of which a write failed half-way, as `torn`.

### The sensor in normal mode

Run `bme280_normal`: after `init()` in normal mode `read()` reads the data at once,
before the first conversion has ended; the sample is refused, and a refusal asks
for a complete `init()` in the next call, which resets the sensor. The firmware
uses forced mode, where `read()` waits.

### Removing the next node

A callback that removes the node the pass has saved as next ends the pass
early, because removal clears the next pointer; if it also adds the node again
in front, the pass starts over. The header calls removal safe inside a callback
(task_scheduler.h:103), and it is for the list; `NoneMissed`, `OncePerPass` and
`NeverStarves` except such passes (`cut`). No callback of the
firmware removes a node other than its own.

## 4. Faulty variants

Next to some definitions stands a variant with a plausible slip. Putting it in
place of the definition makes TLC report the property:

| definition | variant | slip | property |
| --- | --- | --- | --- |
| `TaskScheduler!Deadline` | `DeadlineFromPass` | counted from the start of the pass instead of now | `DeadlinesTrue` |
| `TaskScheduler!Drop` | `DropNext` | unlinks the node behind | `ListConsistent` |
| `TaskScheduler!Due` | `DueUnsigned` | ticks compared unsigned | `ImplementsContract`, `NeverStarves` |
| `TaskScheduler!NextOf` | `NextInRing` | the last node points back to the first | `OncePerPass` |
| `TaskScheduler!Due` | `DueLater` | `>` for `>=` | `NoneMissed` |
| `TaskSchedulerUnlocked!AddCheck` | `AddCheckNothing` | no check of `active` | `ListSound` |
| `TaskSchedulerUnlocked!WorkCall` | `WorkCallAny` | does not look at `active` before the call | `ImplementsContract` |
| `Nac!Reconnect` | `ReconnectUnscheduled` | sets the state without queueing the node | `WorkHasWorker` |
| `Nac!Active` | `ActiveWhileConnecting` | CONNECTED is not an active state | `ConnectedMeansLink` |
| `Nac!RestartHardware` | `RestartWithoutStop` | no `esp_wifi_stop()` before a retry | `ConnectingEnds` |
| `Nac!BringOnline` | `BringOnlineDeaf` | event handlers not registered | `LoneScanEnds` |
| `Nac!Configured` | `ConfiguredOnce` | the configuration is kept from the first attempt | `OneRequestCredsProven` |
| `Nac!OnStaStart` | `OnStaStartAlways` | connects at every start of the radio | `StoredByAttempt` |
| `Nac!NotifyDown` | `NotifyNobody` | nobody told on a disconnect | `EndedOnRequest` |
| `Nac!DisconnectStop` | `DisconnectNoStop` | the radio is not stopped | `DisconnectedMeansNoLink` |
| `MeasurementsManager!StartTask` | `StartTaskOnce` | an existing task is not notified | `NoLostWakeup` |
| `MeasurementsManager!StopTake` | `StopTakeAtOnce` | no wait for the acknowledgement | `FirstStopIsQuiet` |
| `MeasurementsManager!Acknowledge` | `AcknowledgeNobody` | no acknowledgement | `StopReturns` |
| `MeasurementsManager!SleepEnd` | `SleepEndPolls` | no look at the request after a sleep | `StopTakesEffect` |
| `MeasurementStore!Matches` | `MatchesAnything` | any batch is published | `CoherentSnapshot` |
| `MeasurementStore!Write` | `WriteValuesOnly` | a failure keeps the record valid | `FailFast` |
| `MeasurementStore!Convertible` | `FitsUnrounded` | the bounds are compared before rounding | `RefusedForCause` |
| `MeasurementStore!Fresh` | `FreshIfOlder` | `<` for `<=` on the timestamp | `RefusedForCause` |
| `MeasurementStore!UpdateCount` | `UpdateCountOldest` | the oldest version instead of the newest | `CountTellsNews` |
| `UartMole!Accept` | `AcceptAlways` | no look at `active` | `WireFramed`, `AnsweredOnce` |
| `UartMole!TxDone` | `TxNotAwaited` | no wait for the transmit buffer | `RestartAcknowledged` |
| `UartMole!FlushInput` | `FlushNothing` | no flush at start-up | `AnswersMatch` |
| `UartMole!WorkPayload` | `WorkPayloadReleased` | the callback removes its node, and the scheduler does so again | `AcceptedIsAnswered` |
| `SettingsStore!PutFails` | `PutSkips` | a key that cannot be written is skipped | `RememberedIsStored` |
| `SettingsStore!Changed` | `ChangedFirst` | only the first key of a group is compared | `EventuallyStored` |
| `SettingsStore!Corrected` | `CorrectedBoth` | both coordinates are replaced when one is not valid | `OnlyCrossedEditsLost` |
| `WorkTasks!ShowPrices` | `ShowPricesKeepArea` | the new prices under the area shown by then | `PricesMatchArea` |
| `WorkTasks!Elapse` | `ElapseOnce` | the forecast ends its node after the first success | `DataFollowSettings` |
| `HttpClient!RemoveNode` | `RemoveNothing` | the node stays in the list | `PollingMatchesNetwork` |
| `HttpClient!Clear` | `Keep` | the buffer is not cleared before a request | `PackageIsResponse` |
| `HttpClient!Again` | `AgainIfOk` | a failed poll ends its node | `PollsGoOn` |
| `Bme280!Complete` | `CompleteNotHumidity` | the pattern of skipped humidity is accepted | `SoundReading` |
| `Bme280!Refuse` | `RefuseStaysReady` | a refused sample does not ask for `init()` | `OneLossPerFault` |
| `Bme280!ModeMatches` | `ModeMatchesExactly` | sleep is no match for forced mode | `Recovers` |

## 5. Proofs

`TaskSchedulerProofs` (for every set of fewer than 256 nodes, every even tick
range, all delays and stalls below half of it):

- `TypeCorrect`: `Spec => []TypeOK`;
- `ListIsConsistent`: `Spec => []ListConsistent`. Inductive given `TypeOK`:
  prepending a node that is not active and dropping the only occurrence of a
  node change list, flag and count alike (`PrependMembers`, `DropMembers`);
- `DeadlinesAreTrue`: `Spec => []DeadlinesTrue`, with the bounds on waiting time
  and pass length that make the next step possible;
- `SchedulerImplementsContract`: `Spec => ImplementsContract`. The inductive
  invariant is `IInv == TypeOK /\ ListConsistent /\ DeadlinesTrue`; it is needed
  because `Invoke` guards on the signed difference of wrapped ticks while the
  contract's `Start` guards on the true waiting time. `DueMeansElapsed`
  joins the two: the comparison is right about every deadline that is less than half
  the tick range away;
- `NoDueNodeMissed` and `InvokedOncePerPass`: while no callback has cut the pass
  short, the nodes it has invoked are behind its pointer, and those still owed are
  before it (`BetweenRanAndOwed`); the pointers keep their places in the list
  whatever is added in front or dropped (`PrependBehind`, `DropBehind`,
  `NextBehind`). An owed node is overdue (`OwedIsOverdue`), so by
  `DeadlinesTrue` it cannot be skipped.

`TaskSchedulerUnlockedProofs` (for every set of fewer than 256 nodes):

- `MemoryTypeCorrect`, with any number of tasks;
- `SingleTaskListSound` and `SingleTaskImplementsContract`, assuming that main is the
  only task (`Others = {}`); with others `ListSound` is false, as run
  `unlocked_shared` shows. The invariant `ListInv` says that the list has no
  cycle, that unlinked nodes point nowhere (`LooseEnds`), that flags and links
  agree except between the store to a pointer and that to its flag (`Flags`), and
  that a removal's `prev` is the predecessor of its `curr` (`Finding`). It rests on
  lemmas about pointers of any list: what a walk visits is a closed set, two
  nodes of a walk are one after the other (`VisitedLinear`), so on a list without
  a cycle a node has one predecessor (`OnePredecessor`), and unlinking it there
  takes it and nothing else out (`UnlinkedNext`).

`NacProofs` (for any number of networks, retries and pending events, under every set
of circumstances). Three invariants hold of every behaviour: the types, what is
off stays off (`Hardware`), and, for a patient user, the credentials do not change
while an attempt is under way (`Patient`); from these `NacCredsProven`. Each
other theorem has an invariant of its own on what may wait in the event queue
while the controller is in a state, under the circumstances its property names:

- `NacConnectedIsLinked` (`Connection`): when a link is gone that the controller
  believes in, or is about to hear of, the last event about it says so
  (`LastWord`), and there is a handler to take it (`Heard`). A failing
  `esp_wifi_deinit()` takes the handlers away; that it does not do so in CONNECTED
  follows from the timing: no address waits or is awaited between two attempts
  (`InTime`), although `esp_wifi_stop()` may have left the radio on;
- `NacDisconnectedIsUnlinked` (`Disconnection`): in IDLE a link is one whose address
  is still to be announced, after any scan (`Forgotten`);
- `NacWorkersStay` (`Service`): a state that waits for main has its node, and
  nothing adds it between main's last driver call and its removal (`Served`);
- `NacStoredByAttempt` (`Unsaved`): until credentials are stored, an association
  belongs to the attempt under way and no event before its address ends it;
- `NacRequestedEndings`: the rest of the firmware has been told of a
  network exactly in CONNECTED. When no driver call fails (`Endings`, with
  `Announced`): no second start of the radio finds the controller connecting while
  the end of a link waits (`Losing`). With the timing given and whatever call fails
  (`Keeping`): the radio is started while no event waits, and a link that a failing
  call leaves behind was not announced yet (`Kept`).

`EnvironmentMeasurementsProofs`, of the manager (for every number of producers):
type correctness; `NoWakeupIsLost`, from an invariant that follows where the request, the
notification and the acknowledgement are for each pair of positions of owner
and task; `FirstStopIsHonest`, from an invariant that says that the semaphore is
empty until the first stop is acknowledged.

Of the store, in the same module (for every set of registrations, every age limit, any
number of publications):

- `StoreTypeCorrect`; the base invariant `IInv` adds who holds the mutex for what
  (`Turns`), that what the poller has visited it has written (`Written`), and that
  no record is from the future (`InTime`);
- `FailuresInvalidate`: a producer marked as failed has no valid record, except
  while its own publication is being written (`FailedIsOff`);
- `RefusalsHaveACause`: a verdict is about the copy that is still there
  (`DecidedOnCopy`), no age is negative (`InTime`), and of the numbers of the API
  at most one is the nearest to a value (`OneIsNearest`), which is the one that
  the conversion gives (`ConversionRounds`), so that its check of the bounds
  refuses exactly what has none (`ConvertibleIsRepresentable`);
- `CountNeverMisses`: the last version to be drawn is in the store (`Versions`), and
  where a copy differs from the one before it is newer than all of that
  (`Follows`, in `InOrder`); so its greatest version moves exactly then;
- `SnapshotsAreCoherent`, assuming `FullBatches`: producers fill all of their
  channels, as the firmware's does. Without it a batch of some channels leaves
  the others with their earlier records, which is what the code intends;
- `ConversionRounds`: half a unit is rounded away from zero, for every value and
  every even divisor (the code's are 10 and 100).

`SettingsProofs`, of the store (for every set of values, any number of edits, resets,
restarts and failures): `RememberedAlwaysStored`. The inductive invariant says
where main is while it saves (`Placed`, `PosInGroup`), that only legible values are
saved (`Legible`), that the keys written so far hold main's copy unless a reset
has crossed the save (`Copied`, `Crossing`), and that the keys a reset has passed
are erased unless that failed (`Erased`); `Sound` is the property for the groups
that are neither torn nor being written.

Of the work tasks: `WorkImplementsStore` (every behaviour of the composition is one
of `SettingsStore`, so its theorem holds of it, too), `PricesAlwaysMatch`, and
`OnlyCrossedEditsAreLost`, from the invariant that main's copies are what the GUI
shows, but for `stale` keys (`CopiedLocation`, `CopiedArea`).

`Bme280Proofs` (for every set of sensors, every mode, any number of attempts and
disturbances): `ReadingsAreSound` rests on one idea. `ctrl_hum` is the first
register that `init()` writes after it has loaded the calibration, and every
sensor powers up with it cleared; so a sensor that measures humidity is the one
whose coefficients were loaded, and it has lost no setting since (`Own`).
`DisturbancesCostOneCall`: except in normal mode, each lost call is paid for by a
disturbance (`Paid`): either the registers are as `init()` left them, or one more
disturbance has happened than calls were lost.

`HttpClientProofs` (for buffers, chunks and bodies of any length): `PollsWhileUp`,
from what each half of a notification still has to do (`HalfWay`);
`PackagesAreResponses`, from `Assembled` (the buffer up to the byte being written is
the body, the rest of the chunk is what comes next) and `Followed` (what an
uncrossed copy has seen is the body).

`UartLinkProofs` (for any number of commands, glitches and restarts). All rest
on `Handshake`: while the node is active the listener neither builds an answer nor
writes one, which is what `uart_mole.c:297` looks at without a lock.

- `StreamIsFramed`: the stream, that is what is on the wire and what waits in the
  transmit buffer, is whole packets with boot logs between them, the last one open while main is between its
  two writes (`Framing`);
- `AnswersInOrder`: whatever may still be answered is later than all of the stream,
  and later than the package that is staged (`Order`);
- `RestartsAreAcknowledged`: while main waits for the transmit buffer to run empty,
  the stream holds one answer to RESTART more than there were restarts (`Acked`);
- `AnswersAlwaysMatch`: from a quiet line on there is one exchange at a time
  (`Exchange`): the request is in the receive buffer, with the listener, staged,
  or answered in what the client has not read yet, and in one of these places
  only (`Holding`, `Writing`, `Unread`, `Alone`). What is unread is that answer and,
  after a restart, the boot log behind it (`Exact`); a request sent before the
  log is read ends `clean` (`Send`), and reopening begins anew (`IdleIsQuiet`).

Assumptions are the ASSUMEs of the modules, which TLC evaluates in the runs.

Every invariant and every safety property of the passing runs is stated by a
theorem. Only model-checked is liveness, which needs ENABLED: `NeverStarves`,
`ConnectingEnds`, `LoneScanEnds`, `StopReturns`, `StopTakesEffect`,
`AcceptedIsAnswered`, `EventuallyStored`, `DataFollowSettings`, `PollsGoOn` and
`Recovers`.

## 6. Plan

Done: everything above. What is left, in the order of its use:

1. what the firmware's use of the unlocked list keeps in spite of its races;
2. the WiFi page: main copies it whole, changes its status and writes it back,
   while the LVGL task enters a selection or a password (app_gui_wifi.c:113);
3. the SD card's mount state and the log queue;
4. pure algorithms: spot-price averages, calendar, compensation formulas.

## 7. Not modelled

Most of the repository's 1.1 million lines are not this program: LVGL with its
fonts, the NimBLE stack and other vendored components, generated images and
tables. The map covers a small share of all lines for that reason. Of the
program's own code these parts are left out:

- GUI layout and event plumbing (`components/gui`), which run on LVGL's one task;
  their requests are modelled where they arrive;
- drivers of display, touch, GPIO, I/O expander and board I2C: bus transactions
  and frame buffers without protocol state;
- SNTP: two library calls, part of `announced` in `Nac`;
- BluFi: its entry point is commented out (main.c:83);
- LEOP: its fetch depends on no setting and shows what it has got;
- parsers and formatters of the server's answers, which keep no state;
- `uart_mole_deinit()`, `http_client_deinit()`, which nothing calls, and
  `task_scheduler_deinit()`, which is declared and not defined.
