# Verification of the CircularManuSystem control software

The control software of a two-station closed-loop line (`src/physical_system`)
as TLA+ modules: model-checked with TLC on small instances, and, for every
safety property that holds, proved with TLAPS for every instance.

## 1. The system

Parts circulate: main conveyor M1 → corner 1 → station 1 → corner 4 → main
conveyor M2 → corner 3 → station 2 → corner 2 → M1. A corner pushes a part
from one belt to the next. A Raspberry Pi runs one Python process.

| Component | State | Operations | Talks to |
|---|---|---|---|
| `SensorReader` | debounce times, previous MCP levels | GPIO interrupt callback, 10 ms polling thread | puts sensor events into `gpio_queue`, `mcp_queue` (100 places, dropped when full) |
| `NFCReaderThread` ×2 | `running` | read loop | puts reads into `nfc_queue` (20 places, dropped when full) |
| `CEPConsumer` | pending sensor events, pending reads, statistics | loop: consume, fuse, expire, deliver | one thread; calls `process_event` of the state machine in `fsm_map` |
| `StationController` ×2 | state, current part, process timer | `process_event`, two timer callbacks, `stop` | motors, `DataLogger` |
| `CornerController` ×4 | state, approach and handshake timer | `process_event`, approach, retry and timeout callbacks, `stop` | motors, `CollisionManager`, `DataLogger` |
| `CollisionManager` | reserved corners, last use, handshake flags (one lock) | request, release, set/clear flag, may the conveyor stop | called from CEP and timer threads |
| `MotorController` | eight throttles | `set_speed`, `stop`, `stop_all` | two HATs over I2C; errors are swallowed |
| `DataLogger` | CSV file, KPI and WIP counters (one lock) | `log_event`, `get_kpis` | may raise (file errors); InfluxDB writer |
| `InfluxDBWriter`, `MQTTHandler` | connections | output only | catch their exceptions |
| `SystemManager`, `main` | all of the above | construct, start, stop, monitor | signal handler |

What makes it hard: the single CEP thread shares the state of every controller
with `threading.Timer` callbacks; `log_event` and the InfluxDB writes are slow
and sit in the middle of handlers; exceptions are swallowed at several levels;
time windows, retries and timeouts overlap.

What correctness means, per component:

* corners and collision manager: neighbouring pushers are never out together,
  reservations are neither leaked nor given up early, no wait is left that
  nothing ends, conveyors and pushers run when and only when they should;
* stations: one part at a time, taken through the log in order and without a
  gap, with the belt standing still while it is processed;
* CEP consumer: a sensor event reaches its state machine at most once, in
  order, and is never lost; reads are used or expire;
* sensor reader: one event per passing part, none for a switch that did not
  close, none missed because a read failed;
* NFC readers: an entry is given the part that caused it;
* data logger: entry, cycle and busy times and the work in progress follow the
  log and agree with each other;
* system manager and `main`: a signal stops the motors and ends the main
  thread, and after `stop` nothing moves that a late timer thread does not start.

## 2. Modules

| Module | Models | Composes |
|---|---|---|
| `LineLayout` | sensor tables, locations, `fsm_map`, neighbours | – |
| `MotorController` | throttles, clamp, failing writes | – |
| `CollisionManager` | the reservation table | `LineLayout` |
| `PusherExclusion` | abstract: neighbouring pushers never out together | `LineLayout` |
| `CornerController` | the four corner state machines | `CollisionManager`, `MotorController` |
| `CornerRouting` | corners behind the event routing | `CornerController` |
| `StationController` | the two stations and their log rows | `LineLayout`, `MotorController` |
| `StationEntrance` | stations and the parts at their entrances | `StationController` |
| `CornerArrival` | corners and the parts that reach them on a conveyor | `CornerController` |
| `CEPConsumer` | queues, fusion, expiry | `LineLayout` |
| `SensorReader` | interrupt callback, polling thread, their queues | `LineLayout` |
| `NFCReader` | read loops and the parts at the entrances, in front of the consumer | `CEPConsumer` |
| `SystemShutdown` | `main`, `SystemManager.start` and `stop` | `CornerController`, `StationController`, `MotorController` |
| `DataLogger` | counters and times kept by `log_event` | `LineLayout` |
| `LoggedStations` | the stations with the logger, and parts that go round | `StationController`, `DataLogger` |
| `CornerProofs`, `StationProofs`, `SensorProofs`, `CepProofs` | theorems about one component | the module they extend |
| `LoggerProofs`, `ShutdownProofs`, `ReaderProofs` | theorems about a composition | `LoggedStations`, `SystemShutdown`, `NFCReader`, and the theorems of the parts |
| `MCCorner`, `MCRouting`, `MCArrival`, `MCEntrance`, `MCCep`, `MCSensor`, `MCReader`, `MCShutdown`, `MCLogged` | instances for TLC | |

`PROJECT.json` maps each definition to its source lines.

**Motors.** An operation is the set of throttle functions it may leave: with
`HatFaults` a write may have no effect, as when `set_speed` swallows an I2C
error. Speeds are integers; `FullSpeed` is 1.0. The simulation mode, in which
no motor is driven, is left out.

**Corners.** One action per handler and callback. A handler is split where a
slow call (`log_event`, a state write to InfluxDB) separates two changes that
another thread can see: `HandleExtending`/`ArmHandshake`,
`HandleRetracting`/`ReturnToIdle` (the CEP thread's place is `cep_thread`) and
`TryPush`/`ExtendPusher` (`extend_step`). `HandshakeExpires` separates the
moment a timer thread passes its cancel check from the callback, so that
`cancel()` may come too late. Refused `request_corner` calls re-arm the 0.2 s
timer and change nothing. `corner_last_used` is a saturating age, because only
"less than `min_interval`" is ever asked. `CornerController` gives a corner its
confirmation sensor directly, the interface `process_event` is written for;
`CornerRouting` puts the real routing in front of it. A limit switch event is
taken to be handled while the pusher still moves towards the switch
(`SensorMayFire`): only the handler stops it, `stop()` apart, so a switch event
that is in flight when `stop()` halts the pusher is not delivered afterwards.

**Stations.** `last_row` is the last CSV row that a station has written itself;
the `ERROR_GHOST_NFC` rows that the CEP thread writes under the same station are
not among them. `log_event` may
raise at every call (`LogFaults`): then no row is written and the handler or
callback stops there. `_processing_complete` and `_exit_complete` are two steps
each, split at the log write.

**CEP consumer.** Queues are taken event by event, as `get_nowait` does. The
loop that decides what a pass delivers or expires is one step (`FuseEvents`,
`ExpireGpio`, `ExpireReads`), because only the CEP thread touches the pending
lists; every `del` that follows is a step of its own (`DelGpio`, `DelNfc`), with
the index taken as it is written: the greatest of those left, duplicates
included, an index beyond the end raising `IndexError` (`PassRaises`).
`nfc_to_remove` is a function from the event to the read it was matched with,
which is how one index can be there twice. Timestamps are ages; the clock stands
still during the deletions, which compare none. `delivered` and `matched` record
what the pass has handed on. What a state machine does with a delivered event
is described in the corner and station modules.

**Sensor reader.** RPi.GPIO runs callbacks one after the other; a callback puts
the events of its pin one by one (`callback` holds those still to come), so the
consumer may take events in between. The polling thread reads one pin per step
and looks at `mcp_running` only before the first, as the `while` around the
`for` does. A read error starts the pass again and keeps the levels. `closings`,
`detections` and `reports` count what the switches did, what the poll saw, and
what it put into the queue; a full queue makes the last two differ (`Dropped`).

**NFC readers.** The two loops are in front of an unchanged `CEPConsumer`.
`event_part` and `read_part` record which part caused an event or a read; the
code knows the second and not the first, which is the question; both forget an
event or read that is no longer under way. Reading a tag
and stamping the read are two steps, as in `run`.

**Shutdown.** `main_pc` is the place of the main thread in `start` and `stop`,
`stops_left` the calls of `stop` that are still to come: one or two, because
`sys.exit` in the handler passes through `main`'s `finally`. A signal inside
`stop` starts it again. A signal may also come before the CEP thread was
started; `join` then raises and the rest of `stop` is skipped. `outlived`
records that the CEP thread was still alive when the last `join` gave up. The
CEP and timer threads go on meanwhile, as the steps
of `CornerController` and `StationController`. `log_lock` is `DataLogger.lock`:
`log_event` holds it while it writes its row, so a row is two steps here
(`BeginRow`, `RowWritten`) between which the thread may hang for ever, and
`print_kpis` at the end of `stop` waits for it without a timeout (`Cleanup`,
`GetKpis`). A signal leaves a lock that main holds where it is. What a handler
does before its row happens together with the row. `CornerController.stop` and
`StationController.stop` cancel the timers they know if these are waiting;
`push_timer`, `extend_step`, the exit timer and running callbacks they leave.
The monitoring thread, the readers and the output connections have no effect on
the motors and are passed over; the monitoring thread also calls `get_kpis`, but
holds the lock only for a copy of numbers in memory.

**Data logger.** `log_event` writes its row first and then its counters, under
one lock, so that a call that raises changes nothing and a call that returns is
one step. `LoggedStations` ties it to `last_row` and lets the parts go round;
`failed` records that a row of a station could not be written.

Abstractions throughout: log texts, statistics counters, status reports and the
InfluxDB measurements are left out. Handlers that ignore an event are left out
as steps that change nothing.

Two start-up orders in the code are taken as written but not split:
`Timer.start()` precedes the assignment of the state it belongs to by
microseconds against delays of at least 0.5 s.

Operators marked `Fault:` are plausible mistakes. Each property of a passing
run is violated when one of them takes the place of the operator after it
(`mutants` in `PROJECT.json`), so no property holds by the shape of the model.

## 3. Runs

| Run | Result | Shows |
|---|---|---|
| `corner_transfer` | passes | pushers, feed conveyors and states agree; neighbours never both out; `PusherExclusion` implemented; handshake waits end and pusher motors stop |
| `corner_faults` | passes | reservations and timers stay consistent when any motor write or log row fails; no handshake flag stays up without something that takes it down |
| `corner_receiving_conveyor` | violated | finding 1 |
| `corner_confirmation` | violated | finding 2 |
| `corner_arrival` | violated | finding 5 |
| `station_log` | passes | log without gaps; belt, timers, entry, cycle and busy times agree with the state, also when rows fail; a part leaves unless a row fails |
| `station_entrance` | violated | finding 4 |
| `cep_safety` | passes | each sensor event delivered at most once, none lost, order of a source kept |
| `cep_reads` | violated | finding 3 |
| `reader_entrance` | passes | parts more than a fusion window apart are never confused; every sensor event is delivered or expires, unless from some time on every pass raises |
| `sensor_reader` | passes | events of a barrier are a debounce time apart; no phantom edges; the event of a switch that stays closed is put into the queue although reads fail, or the queue is full |
| `shutdown` | passes | a signal ends the main thread, whenever it comes, unless the logger's lock is never given back, and then the motors have stopped; neighbours stay excluded; only late timer threads move a motor after `stop_all` |

### Findings

1. A corner stops its feed conveyor before it has reserved anything; the
   neighbour that needs that conveyor moving can be granted afterwards. It then
   waits for its part on a standing belt, and the first corner waits for it.
2. No corner ever receives its confirmation: the sensors are routed to the
   stations, or to a conveyor key that `fsm_map` lacks. Every push ends in a
   reported jam and a locked corner.
3. `_fuse_events` lets one read match two entry events; its index is deleted
   twice, which removes an unrelated read or raises `IndexError`. A turn of the
   loop that raises also skips expiry, so that an event can wait for ever in a
   behaviour where two new entry events and one read arrive in every turn. The
   run `reader_entrance` contains this behaviour; `SensorEventSettled` says that
   nothing less than an exception in every turn keeps an event (`NoPassEnds`).
4. An ENTRY event for a busy station is dropped; the README's queue does not
   exist.
5. "Conveyor busy, waiting..." does not wait: the corner drops the event and
   the part is not reported again.

### Observations

Noticed while modelling; no run claims the opposite.

* Shutdown. The signal handler is registered before the CEP thread is started
  and after the conveyors are: a signal in between makes `join` raise, and
  `stop` ends before it stops any motor (the case `cep = "new"` that
  `OnlyLateTimersMove` leaves out). `_try_push` stores its retry timer nowhere,
  so it can start a pusher after `stop_all` (the exception that
  `OnlyLateTimersMove` makes for an extending corner), and a corner whose
  neighbour was stopped in mid-push starts retry timers for ever; timer threads
  are not daemons, so the process does not end.
* The logger's lock. `stop` ends with `print_kpis`, which waits for the lock
  that `log_event` holds over its file and database writes. A thread that hangs
  there keeps the main thread for ever, although the `join` before it has a
  timeout; a signal that interrupts `get_kpis` makes the main thread wait for
  itself, since the lock is not reentrant. The shipped configuration has no
  `influxdb` section, which leaves the file write and the second signal.
* Late timeouts. A jam timeout that is past its cancel check when the
  confirmation comes still runs. If its corner is waiting again by then, it
  clears the flag of the later push and reports a jam that is none
  (`HandshakeTimeout` in any state).
* A limit switch that is closed when its pin is read for the first time is never
  reported (`prev_state is not None`), and a full `mcp_queue` drops an event for
  which a corner waits without a timeout.
* Identity. A tag is read every 0.1 s and the reads stay pending: within the
  fusion window of two seconds an entry can be fused with a read of the part
  before or after it. `MCReader_entrance.cfg` with `MinGap = 1` shows it; with
  `MinGap = 2`, beyond the window, the property holds.
* Work in progress. `current_wip` goes up at both stations and down at one.
  `LoggerFollowsStations` states the error exactly: it is the number of parts
  that station 1 has let out. `total_parts` counts the exits of both stations.
* `log_event` looks for the entry time of a part after
  `_update_realtime_metrics` has deleted it (`data_logger.py:122`, `:190`), so
  the `cycle_time` field of an event is never written.
* InfluxDB. The table of state numbers (`influxdb_writer.py:172`) has
  upper-case keys and the states are lower-case, so the number is always 0;
  `write_system_status` compares with `'IDLE'` in the same way and always
  reports busy. `_transition_to` assigns a state and writes it afterwards, in
  two threads without a common lock, so a stale state can stay on the panel.

### Bounds

* Corners: all four, since the ring of neighbours is the point. `MinInterval`
  is 0 in the passing runs, where `request_corner` grants most: a larger
  interval only adds refusals, which change nothing, and the theorems hold for
  every interval. It is 1 in `corner_receiving_conveyor` and
  `corner_confirmation`. `MaxTimeoutThreads = 1`: one late timeout callback per
  corner is enough for it to meet a later push. `PushSpeed` and `StationSpeed`
  are above 1.0 in `corner_transfer` and `station_log`, so that the clamp works.
* Stations: both, two parts, so that a part can meet the traces of another;
  three visits of a station and `MaxCycleTimes = 2`, so that a cycle time is
  dropped; three ticks.
* CEP: three sensor events (two to share a read and one that must survive) and
  two reads (one matched twice, one in danger), queues of two so that they
  overflow, `ExpiryTimeout = FuseWindow = 1`, `MaxAge = 2`, the first age that
  is expired.
* Readers: two parts (one before, one after) at one station, three entries under
  way (two that share a read in every turn, and one that waits meanwhile) and one
  read, a queue of one, the ages of the CEP runs, and a `log_event` that may
  raise. Without `NoPassEnds` the property is violated at these bounds.
* Sensor reader: a pin with one barrier and one with two, the two switches of
  one pusher, each closing once after it was seen open, queues of one, so that
  an event of the poll is dropped: without `Dropped` the property is violated.
  `DebounceTime = MaxAge = 1` lets two events of a barrier wait together.
* Shutdown: two neighbouring corners and one station carry parts, all six are
  stopped; two signals, so that one comes inside `stop`, `get_kpis` included.
  `MaxTimeoutThreads = 0` leaves the jam timeout out of this run: it clears a
  flag and touches no motor, no reservation and no lock; the theorems hold for
  every number of them.
* Deadlock is not checked in `station_log` (a lost row stops a station for
  good, as in the code, and the clock stops at `MaxRuntime`), nor in the CEP,
  sensor, reader and shutdown runs (`stop` ends the threads).

### Fairness

* Threads run: weak fairness for each timer callback, for the rest of a CEP
  handler, and for the CEP and reader loops. Time passes: strong fairness,
  because `NFCReader` lets no tick fall between reading and stamping a tag.
* A moving pusher reaches its switch and the CEP thread, which serves FIFO
  queues, gets to the event: strong fairness of `LimitSwitch`, because handlers
  of other corners disable it again and again. This leaves out a switch event
  that a full `mcp_queue` drops. A running belt carries its part
  to the next sensor: weak fairness of `BeltMoves`.
* A pin of the expander that is read again and again is read successfully in
  the end: strong fairness of the poll of each pin. Without it a permanent
  error of one pin hides all pins behind it.
* Shutdown: the main thread runs. Neither the CEP thread nor a timer thread is
  assumed to run, with the logger's lock or without it, since a database write
  may hang; `join` has its timeout.
* Nothing is assumed about parts arriving, confirmations, bounces or grants.

## 4. Proofs

Every invariant and every action property of the passing runs is also a
theorem, for all values of the constants that the named assumptions allow: any
speed, interval, queue size, window, bound, set of parts and number of signals.
The inductive invariants were checked with TLC before they were proved.

**Corners** (`CornerProofs`). `CornerInv` = types + `NeighboursNotBothReserved`
+ `ReservedWhilePushing` + `TimersBelong` is inductive whatever fails. With the
types, `NeighboursNotBothReserved` would be inductive alone;
`ReservedWhilePushing` needs `TimersBelong`, because the approach callback,
which sets `READY_TO_PUSH` without looking, must find its corner in
`FINAL_APPROACH` and not in the middle of a push. `TimersBelong` is the half of
`TimersMatchState` that survives a cancelled timer, so that `CornerInv` can be
used again under `stop` (`CornerInvKept`); the rest is proved on top
(`TimersNeverStale`), as two parts that are inductive over it: every state has
its timer (`StatesHaveTimers`), and every flag that is up has a timer or a
callback that takes it down (`FlagsTakenDown`).
With `~HatFaults` as an assumption, `PusherFollowsState` is added (`PusherInv`),
and the lemma `PusherStepInv` sorts every step into one of five effects on the
pushers. It yields `PushersFollowStates`, `NeighboursNeverBothOut` (a pusher
that is out is reserved, and neighbours are not both reserved),
`PusherNeverReversed`, and the refinement `CornersImplementExclusion`.
`ConveyorsRunWhenIdle` needs `TimersBelong` for the timer callbacks: none of them
takes a corner out of `IDLE` behind the back of its conveyor.
The assumption `~HatFaults` is needed: a stop that fails leaves a pusher running
after its corner was released.

**Stations** (`StationProofs`). `StationInv` = types + `StationConsistent` is
inductive with failing rows and writes; `LogHasNoGap` is proved from it step by
step, and `BeltsStandStill` under `~HatFaults`.

**Data logger** (`LoggerProofs`). What the logger holds is determined by the rows
it was given, and the stations agree with their rows. So `LoggerInv` relates the
logger to `last_row` only (`EntryTimes`, `CycleTimes`, the WIP counter), and
`StationInv` carries it over to the states (`LoggerFollows`). For
`CycleTimesAddUp` the sum of a list is given by the function of its running
totals (`RunningSums`), which an `append` extends by one value and the cut at
`MaxCycleTimes` shifts by the value that is dropped; that it never falls has to
be in the invariant, or a cut could make the rest larger. `LoggedStationsRefine`:
the composition implements the stations alone.

**Sensor reader** (`SensorProofs`). `NoPhantomEdges` follows from `EdgesPaid`: an
edge the poll has yet to see is a closing that no detection has used.
`DebounceKeepsSpacing` needs that a pin has been quiet no longer than any of its
waiting events is old (`SpacingInv`), and that no two pins report the same
barrier, which the tables say (`SensorAssumption` names the pins of
`GPIO_TO_BARRIER`).

**CEP consumer** (`CepProofs`). Two facts carry the theorems. `Waiting`: the sensor
events under way have different ids, and those of one source wait in order of
age, across the queue and the pending list. `PassInv`: the indices that are left
are exactly those of the events this pass delivered, or found expired. The
second is inductive because the greatest index goes first (`DelGpioEffect`): the
indices that are left are smaller and do not shift, so `del` never raises for
sensor events. From them `DeliveredAtMostOnce`, `NoSensorEventLost` and
`DeliveryKeepsOrder`, all with a `log_event` that may raise and with the
`IndexError` of finding 3. `CepAssumption` says that no barrier is both a GPIO
and an MCP one, as in `GPIO_TO_BARRIER` and `MCP_PIN_MAP`.

**Readers** (`ReaderProofs`). The invariant looks at the stamps of a station: the
age and the part of every event and read under way there. Two stamps of
different parts are `MinGap` apart (`Apart`). It is inductive together with
three facts about the present: at an empty entrance every stamp is as old as
the emptiness, at an occupied one every stamp of another part is `MinGap` old,
and a tag in the hands of the thread is that of the part there, or of the part
that has just left. `EntriesGetOwnTag` follows under `FuseWindow < MinGap`, an
assumption about the line and not about the code; without it the property fails
(observations). `ReadersRefineCep`: the composition implements the consumer with
arbitrary producers.

**Shutdown** (`ShutdownProofs`). `CornerInv` and `StationConsistent` survive `stop`,
because it cancels timers and writes motors but leaves the states alone; a row
that is begun changes the lock only (`RowMoves`), and one that is written is a
step of its controller, also when `stop` has halted the pusher meanwhile
(`LateRetract`).
`MainInv` says where `stop` is. `ExclusionOutlivesStop` and
`OnlyLateTimersMoveMotors` assume `~HatFaults`; the second needs `JoinNoted`, that
a CEP thread alive behind the `join` has been recorded as outliving it.
`ShutdownAssumption` repeats for the instance of the stations what
`StationAssumption` says.

Induction over data is avoided throughout: least and greatest elements come from
the well-foundedness of the natural numbers (`MinEffect`, `NextIndexEffect`), sums
from their running totals, and a list without some of its elements from the
increasing map of its indices (`SubList`).

Only model-checked: the liveness properties `HandshakeWaitEnds`, `PusherStops`,
`PartLeaves`, `SensorEventSettled`, `ClosingReported` and `SignalEndsMain`, since
fairness is beyond the prover. The five violated properties are refuted by their
traces.

## 5. Not modelled

* `MQTTHandler`: nobody calls its publishing methods. `part_uid_dict` and the
  `Part` class of `nfc_reader.py` are not used.
* `InfluxDBWriter`, the monitoring thread, the busy times of the corners, `get_status`, the CEP
  statistics, event rate, tags and printed reports: output that nothing reads
  back. The dashboard, the configuration file and the manual sensor test have no
  behaviour.
* Simulation mode, in which sensors and motors do nothing; `start_conveyors`
  and `stop_conveyors`, which nothing calls.
* That a full queue may drop one of the two events of a dual-purpose pin is in
  `SensorReader`, but no property speaks of it: the code announces the drop, and
  the repository promises nothing else.
* Parts that travel round the whole line through corners and stations at once:
  since no push is ever confirmed (finding 2), every corner is locked after its
  first push, and nothing beyond that is reachable.

## 6. Plan

A common abstract specification of a timer that may be cancelled too late, which
the station and corner timers both implement; and a proof that `PassRaises` is
reached only through a read that was matched twice.
