# A TLA+ model of the MuonPi detector software

This project models `muondetector-daemon`, the protocol between it and its
graphical client, and the parts of the client that keep state, in TLA+. It checks
them with TLC on small instances and proves most of its safety properties with
TLAPS, for every value of the constants. Paths below are relative to the
repository.

## 1. The system

The daemon runs on a Raspberry Pi with a u-blox GNSS receiver on a serial line,
GPIO lines for the detector's signals and I2C devices for thresholds, bias
voltage and display. It records events and reports them to GUI clients over
TCP, to an MQTT broker and to files.

| Component | Source | State it keeps | Operations |
|---|---|---|---|
| Scheduler | `daemon/src/core/scheduler.cpp` | `queue` of tasks, `cancelled` ids, `running`, one thread | `every`, `once`, `cancel`, `start`, `stop`, `loop` |
| ThreadPool | `daemon/src/core/thread_pool.cpp` | `tasks`, `running`, worker threads | `enqueue`, `worker_loop`, `stop` |
| EventBus | `daemon/src/core/event_bus.h` | `subscribers` by type | `subscribe`, `publish` |
| TcpConnection | `library/src/network/tcpconnection.cpp` | socket, receive buffer, write queue | `start`, `stop`, `sendPacket`, read and write handlers, `tryParsePacket` |
| TcpServer, TcpSink | `daemon/src/network/tcpserver.cpp`, `daemon/src/sinks/tcp_sink.h` | `sessions_`, `connections_` | accept, `removeSession`, `heartbeatAndCleanup`, `handle` |
| SerialUblox | `daemon/src/hardware/ublox/serialublox.cpp` | `init_state_`, `pending_`, transmit queue, version, queued commands, retry timer | one handler per command and acknowledgement, read and write handlers |
| Maintenance | `daemon/src/core/maintenance.cpp` | the tasks it has scheduled | polls for what the store lacks |
| DataStore, EventBindings | `daemon/src/core/registries/data_store.h`, `daemon/src/core/event_bindings.cpp` | the last value of every type | `store`, `get`, handlers that store and that answer requests |
| UbxParser, MessageProcessor | `daemon/src/hardware/ublox` | place in a frame, checksums; version, length of the last pulse | `feed`, a handler per message |
| GpioDriver | `daemon/src/drivers/gpio_driver.cpp`, `utility/gpio_ratebuffer.cpp` | requested lines, a thread that reads edges, recent edges | `eventLoop`, `stop`, `sampleAndRetrieve`, switch commands |
| CounterRateBuffer | `daemon/src/utility/ublox_ratebuffer.cpp` | recent counter values | `onCounterValue`, `avgRate` |
| I2C devices: base class, ADS1115, MCP4728, EEPROM | `daemon/src/hardware/i2c`, `daemon/src/drivers`, `utility/calibration.cpp` | handle, flags and counters; trace and burst; copy of the registers; calibration items | transfers, sampling, set, store, read and write back |
| GeoPosManager, Histogram | `daemon/src/utility/geoposmanager.cpp`, `library/src/data/histogram.cpp` | mode, filter, position; bins and range | `new_position`, `set_mode_config`; `fill`, `rescale`, `clear` |
| FileSink, MqttSink | `daemon/src/sinks` | open files and their names; status, handle | write, rotate, remove; connect, publish, clean up |
| Codecs, command decoder | `library/src/capnp/capnp_codec.cpp`, `daemon/src/sources/tcp_command_decoder.cpp` | none | encode, decode |
| SDS011 | `daemon/src/hardware/sds011` | place in a frame, transmit queue | read, `setMode` |
| NetworkDiscovery | `library/src/network/networkdiscovery.cpp` | socket, receiver thread | search, answer, `stop` |
| Configuration | `daemon/src/app/main.cpp`, `config_parser.cpp` | settings and where each came from | load, parse, validate |
| GUI: MainWindow, ScanForm | `gui/src` | connection, attempt, timers; scan and what it must restore | connect, cancel, disconnect; start, step, finish |
| main, SystemBuilder | `daemon/src/app/main.cpp`, `daemon/src/core/system_builder.cpp` | the context that owns all the others | build, run, shut down |
| LogEngine, LogParameterProcessor | `daemon/src/components` | collected parameters | derive, poll |
| Display, light and climate sensors, credentials, drawing widgets, test programs | `daemon/src/hardware/i2c`, `credentials_utility`, `gui`, `testserver`, `tools` | registers, files, pictures | |

How they interact: almost everything is an event. A component publishes it on
the EventBus, which takes a snapshot of the handlers and gives one job to the
ThreadPool; a worker calls the handlers in order, and handlers publish further
events. Besides the workers there are the scheduler's thread, one thread that
runs the `io_context` (TCP connections, serial lines, timers of the ADC), the GPIO
thread, mosquitto's thread and the main thread. Components
that live on the `io_context` post the events they get to their strand.

What is hard here, and hard to reach with a test:

* notifications sent after a mutex was released (scheduler, pool);
* `stop()` against threads that sleep, run a function or are about to push;
* state read outside its lock (`cancelled` in the scheduler, the pointer that
  `DataStore::get` returns) or through a reference that outlives its object (the
  acknowledgement handlers of SerialUblox);
* reading, changing and storing a value in separate critical sections (the
  preamplifier array and the map of rates in EventBindings);
* events that overtake each other in the pool;
* TCP bytes in any grouping, peers that close, fall silent or send nonsense,
  sends to connections that were just dropped;
* a receiver that does not answer, answers late or refuses; a retry timer;
* bytes lost in a serial frame, a counter that wraps around and values of it that
  overtake each other;
* transfers that fail, a crash between two pages of an EEPROM or two lines of a
  file, names of files that meet;
* lambdas queued for the window that run after the connection they are about;
* two ends of a protocol that were changed at different times.

`PROJECT.json` lists the most important hazards line by line with the properties
that cover them; section 5 has further ones.

What makes each component correct:

* Scheduler: no due task is slept over, none exists twice, a cancelled or
  stopped task does not come back, `stop()` returns.
* ThreadPool: jobs begin in order, each once; no worker sleeps over a job;
  after `stop()` nothing runs; `stop()` returns.
* EventBus: an event reaches exactly the handlers subscribed when it was
  published.
* TcpConnection: what is delivered is what was sent, up to the first malformed
  frame; frames leave whole and in order. TcpServer: session, socket and sink
  agree; silent and closed peers are dropped.
* SerialUblox: set up once and in order, and finally ready. Maintenance: ends
  when, and only when, nothing is missing.
* Data store: follows the hardware; clients follow the store, whenever they
  connect; no cascade of events goes on for ever.
* Parsers: exactly the messages in the bytes, whatever was lost before them.
* Drivers: what the class believes of its device is so, after failures too.
* Files and calibration: what was written is there after a crash or a rotation.
* Protocol: both ends take the same bytes for the same thing.
* Client: the window shows the connection it has; a scan and a search leave
  nothing behind.

## 2. The modules

Every critical section, handler or stretch between two points where the code
gives up control is one action. Names follow the source; `PROJECT.json` maps
each definition to its lines. Histories, marked as such, record what a property
needs and the code does not keep. Where a helper is preceded by a variant of
itself (`WakesNone` before `WakesOne`), the variant is the form a plausible
mistake would give it. No action uses it; with it in place TLC finds a
property violated, which shows that the property depends on that line of code.

**Scheduler.tla.** `pc` is where `loop()` is, `cpc` where each caller is.
`schedule()` is a push under the mutex and a notification after it, `stop()` is
clear, notify, join. The mutex spans several actions in two cases: the scheduler
thread going round its loop, and a caller inside `cancel()`, because
`loop()` reads `cancelled` without the mutex (line 85): while an insertion is
in progress that read may miss an id (`MayMiss`). Spurious wake-ups are actions.
The heap of tasks is a set; `Top` is any task with the earliest time.

**ThreadPool.tla, JobQueue.tla.** `wpc` and `epc` say where workers and callers
are; a worker may be in `enqueue()` from inside its job. `notify_one` reaches
any waiting worker. `JobQueue` is what the pool promises: accept, begin in
order, finish, close. The mapping takes `tasks` as the pending jobs and the
jobs of running workers as the active ones.

**EventBus.tla** extends ThreadPool: a job is an event with its snapshot of
handlers, and running it is a loop of calls that may publish, return or throw.

**TcpConnection.tla, TcpServer.tla.** Bytes are pieces that know their frame and
place; a read returns any number of pieces. A completed operation and its
handler are two actions, because the socket may be closed in between. The loop
over `tryParsePacket()` is one action per call. `TcpServer` extends the
connections with sessions, the sink's list, the clock and the heartbeat; the
sends of pool workers go to a copy of the list.

**SerialUblox.tla.** Messages are reduced to port, rate, version and everything
else that is acknowledged. Events on their way to the handlers are a bag,
because workers may swap them. An acknowledgement is read through a reference
to a freed event: `ReadsAs` gives the values the read can yield. The handler of
the retry timer opens an open port and the exception ends the process
(`crashed`). The `faults` are a lost message, a failed read and a misread.

**EventBindings.tla.** The two entries of the store that several events
contribute to, with the switch commands of the GPIO driver and the
maintenance task as their sources and a client as their reader. Copying,
storing and publishing are separate steps. The pool is represented by what
JobQueue promises.

**EventFlow.tla.** All types of events, who subscribes to what and what each
handler publishes or stores, for one worker. The value of an event is the number
of the stimulus behind it, so that an old value can be told from a new one. Each
driver's handler is an operator with its failures: a write that is not answered, a
read that gives zeros, a line written and the next one not. Histories keep what is
so (`flNow`), what the drivers and sources reported of it last (`flSaid`), and of
which types the two may differ (`flMisled`).

**UbxParser.tla, MessageProcessor.tla.** The byte automaton with both checksums,
against a definition of the frames in a sequence of bytes. A handler of a message
is the fields it reads, each an offset and a size, against the length of the
message; two fields taken from one place are two. The version text and the recovery of a half-timed pulse are computed.

**GpioDriver.tla, CounterRate.tla.** The thread that waits in `poll()`, its
control descriptor, and the buffer that it fills while the scheduler samples it.
The counter wraps around and its values may come in the wrong order.

**I2cDevice.tla, AdcDriver.tla, Dac.tla, Calibration.tla.** Transfers are
complete, short or an error. The base class with its list, flags, retries and
mutex; sampling, traces and bursts by workers, the scheduler and two timers; the
copy of the DAC's registers and the codes of voltages with their 8 or 16 bits;
the calibration with the daemon ending between two pages.

**GeoPos.tla, Histograms.tla.** Modes and lock-in of the position; bins, ranges
and rescaling over whole numbers. What the Kalman filter computes is left open.

**Messages.tla, Protocol.tla.** The codecs as tables of members with their bits at
both ends, the subscriptions of the sink, the client's decoder map and the
daemon's decoder; a packet that goes through them.

**FileSink.tla.** Names with their resolution of a second, suffixes, rotation by
size and by day, removal of old files. A line goes into the stream's buffer
(`writeToFile`) and from there to the file before the mutex is released
(`publishInfoUnlocked`); a crash may come in between. Any open, write, look at a
file's age or removal may fail; a failed write leaves the stream bad.

**MqttSink.tla, GuiConnection.tla.** Threads as scripts of steps that interleave:
the main thread, mosquitto's and a worker in the first, the Qt thread with its
queue and timers and the network's thread in the second.

**Configuration.tla, Sds011.tla, ScanForm.tla, NetworkDiscovery.tla.** The files,
the command line and the defaults against a definition of what was asked for; the
dust sensor's frames and its queue; the client's scan over a connection that may
break, with the user's other settings and a DAC that refuses, fails or is misread;
the search for daemons over a network that loses, repeats and reorders.

Composition: EventBus on ThreadPool, TcpServer on TcpConnection (both by
EXTENDS); EventBindings, EventFlow and SerialUblox rest on the promises of the
pool. `MCComponents` and `MCServices` put components side by side that share no
state: `part` names the one that runs in a behaviour, the others rest. They are
disjoint unions, not compositions.

## 3. The runs

| Run | Instance | Distinct states | Properties |
|---|---|---|---|
| `scheduler` | main and a worker, 2 tasks, clock 0..2 | 217 000 | `OneCopy`, `NoLostWakeup`, `EndsAreFinal`, `StartSpacing`, `SchedulerMakesProgress` |
| `event_bus` | 2 workers, 2 clients, 2 jobs, 2 types, 2 handlers | 156 000 | `EachJobOnce`, `NoIdleWhileWork`, `StopIsFinal`, `DeliversSnapshot`, `ImplementsJobQueue`, `PoolMakesProgress` |
| `tcp_connection` | 1 connection, headers in 2 pieces, 2 frames of 4 kinds | 67 000 | `DeliversFrames`, `SessionsHaveSockets`, `LostPeersAreDropped` |
| `tcp_server` | 2 connections, 1 sender, 2 packets each, symmetry | 1 540 000 | `SinkServesSessions` |
| `ublox` | slow receiver, 1 fault, 1 command | 665 000 | `ReadyMeansSetUp`, `BecomesReady` |
| `event_bindings` | 1 worker, 2 channels, 1 rate, 1 command, 1 lost answer | 419 000 | `StoreMatchesPins`, `ClientIsUpToDate`, `RatesTaskEnds` |
| `components` | 16 parts | 1 678 000 | `ParsesFrames`, `MessagesAreDecoded`, `LineIsFollowed`, `CountsAreEdges`, `DevicesAreAsShown`, `TracesAreOfTheirTrigger`, `DacIsAsBelieved`, `CalibrationSurvives`, `LockInIsSound`, `SameAtBothEnds`, `LinesAreKept`, `ConfigurationIsAsAsked`, `HistogramsAreFaithful`, `SensorIsServed`, `ScanLeavesNoTrace`, `DiscoveryIsSound` |
| `services` | 3 parts: 2 attempts to connect, 2 tries of the broker, 2 stimuli | 657 000 | `WindowMatchesConnection`, `MqttStatusIsTrue`, `ClientIsCurrent`, `ServicesSettle` |
| `ublox_ack` | one misread | violation | `UnexpectedIsUnrequested` |
| `ublox_maintenance` | a poll before the receiver is ready | violation | `MaintenanceCanBeDone` |
| `event_bindings_workers` | 2 workers, the start-up commands only | violation | `StoreMatchesPins` |
| `gui_disconnect` | 1 attempt | violation | `DisconnectIsSafe` |

What the larger properties say:

* `DeliversFrames`: the packets delivered are the frames sent, up to the first
  malformed one. `SessionsHaveSockets`: a session and its socket end together.
  `LostPeersAreDropped`: a silent or closed peer loses its session.
  `SinkServesSessions`: the sink's list follows the sessions, and each connection
  gets its packets whole and in order.
* `ReadyMeansSetUp`: the driver is ready only after its rounds, in order, and
  configures the receiver once. `BecomesReady`: without a fault it gets there.
* `StoreMatchesPins`, `ClientIsUpToDate`: the store follows the lines, a client
  follows the store. `RatesTaskEnds`: polling ends for good with no rate missing.
* `ClientIsCurrent`: when nothing is on its way, a client that connected at any
  time was told what was reported last of everything it shows, and that is the
  present value unless the driver misreported it. `ServicesSettle`: an attempt
  to connect ends, and so does every cascade of events.
* `WindowMatchesConnection`, `MqttStatusIsTrue`: what is shown of a connection is so
  when its threads are at rest.
* The properties of `components` each compare a component with a definition of
  what it should have done (`ParsesFrames`, `MessagesAreDecoded`, `SensorIsServed`,
  `ConfigurationIsAsAsked`, `HistogramsAreFaithful`, `CountsAreEdges`), with the device
  or file behind it (`DacIsAsBelieved`, `CalibrationSurvives`, `LinesAreKept`,
  `DevicesAreAsShown`, `LineIsFollowed`), or with the other end (`SameAtBothEnds`,
  `ScanLeavesNoTrace`, `DiscoveryIsSound`). `TracesAreOfTheirTrigger` and
  `LockInIsSound` are about sequences of events. The comment above each says
  what it excepts and why.

The types are not checked by a run of their own: they are part of every inductive
invariant of section 4, and TLC stops at an expression that does not evaluate.

Bounds, and why they are enough for what they are meant to show:

* Two threads of each kind make every pairwise interleaving of operations
  possible; in the pool two workers and two clients give a notification that
  finds no sleeper and a worker that takes a job another was woken for. Two
  tasks let one be late because of the other; two clock ticks let a task of
  period 1 run late and again.
* Two frames with headers in two pieces give every cut inside a header, between
  header and payload and between frames; a malformed frame may come first or
  second, with good bytes behind it.
* `MaxPings` bounds the pings waiting for a peer that does not read. It
  restricts `Heartbeat` only while such a peer blocks the queue; the code itself
  has no limit.
* One fault can stand for any message, read or acknowledgement, at any stage of
  the set-up. One command reaches each handler before, during and after it.
* `MaxQueue` bounds only what enters from outside the pool. What handlers
  publish is not bounded by it.
* `SlowReceiver` separates the behaviours of a receiver that answers in time.
* The widths are scaled, the structure kept: a counter of two bits, DAC codes of
  four, a page of four bytes, a buffer of three samples, a day of three
  seconds. Every limit of the code is a constant of its module, and the inputs
  lie on both sides of it (a voltage above one gain's range, above both and above
  what the number's width carries; a payload longer than the limit).
* A connection attempt and its successor are enough for a handler that belongs
  to the one before; the counters of failures reach their limits (`s_max_tries`,
  `s_max_publish_errors`).
* Two stimuli of EventFlow let a client be told an old and a new value. A failure
  of a driver, a client that leaves and a start that misreads the hardware count as
  stimuli (`MaxStimuli`).
* One failing step of FileSink (`MaxFileFaults`) may fail for both files at once and at
  any file of a removal. In ScanForm one transfer fails (`MaxScanFaults`), or a channel is
  misread (`ReadFaults`); two time marks (`MaxMarks`) end a measurement that needs no
  statistics; the scans go up to the DAC's limit and beyond it.
* One daemon and one client that hear each other and themselves give every
  pairing of roles in a search; three packets heard allow a repeated answer.
* Dac and Histograms run with one worker. Neither class has a lock; with two
  workers their properties do not hold.

All runs turn off the deadlock check: the daemon may be stopped, and clients,
callers and lines may do nothing more.

Fairness:

* Scheduler and pool: every thread that can go on does (weak fairness), and
  scheduled functions and jobs return. A thread competing for a mutex that
  others hold for bounded times gets it (strong fairness of `Relock`,
  `PushAgain` and `SchedulePush`). The clock advances. Nobody must call
  anything, and no spurious wake-up may be counted on.
* TCP: asio runs ready handlers in turn, so a handler that is ready again and
  again is run (strong fairness per connection and direction). The scheduler
  keeps posting heartbeats. A peer may fall silent, close or send anything. What is
  assumed of it is that it reads: a write that is possible again and again
  completes, so a peer that pings for ever and never reads is left out.
* SerialUblox: the io thread runs its handlers, and the receiver answers what
  reaches it. `BecomesReady` excepts the behaviours with a fault: after a lost
  message nothing is ever sent again.
* EventBindings: workers and the scheduler run, and a poll is answered or its
  answer is lost, `MaxLost` times at most.
* Services: a timer that was started fires, a lambda queued for the window runs,
  a worker handles the next event. The network, the broker and the user owe
  nothing.

## 4. What is proved

TLAPS proves the following for every value of the constants that the module's
ASSUME admits: any number of threads, tasks, connections, commands, voltages,
faults. The bounds of the runs are natural numbers in the proofs, so nothing
depends on their being small. Each theorem is `Spec => []Property` from an inductive invariant
whose parts are named in the module; what follows says what each adds to the
property and why the property alone is not inductive.

| Module | Theorems |
|---|---|
| SchedulerProofs | `SchedulerTypeOK`, `SchedulerOneCopy`, `SchedulerNoLostWakeup`, `SchedulerCancelIsFinal`, `SchedulerStopIsFinal`, `SchedulerEndsAreFinal`, `SchedulerStartSpacing` |
| ThreadPoolProofs | `PoolTypeOK`, `PoolEachJobOnce`, `PoolStopIsFinal`, `PoolNoIdleWhileWork`, `PoolImplementsJobQueue` |
| EventBusProofs | `BusImplementsPool`, `BusKeepsPool`, `BusDeliversSnapshot` |
| TcpServerProofs | `ConnectionDeliversFrames`, `ServerSinkServesSessions`, `ServerSessionsHaveSockets`, `ProtocolIsAgreed` |
| SerialUbloxProofs | `UbloxReadyMeansSetUp`, `UbxFramesAreParsed`, `MessagesDecoded`, `DustSensorIsServed` |
| EventBindingsProofs | `OneWorkerKeepsTheStore`, `OneWorkerTellsTheClient` |
| DeviceProofs | `I2cDevicesAreAsShown`, `AdcTracesAreOfTheirTrigger`, `DacIsAsBelievedByOneWorker`, `CalibrationSurvivesFaults`, `GeoLockInIsSound`, `CounterCountsEdges`, `GpioFollowsItsLine` |
| ServiceProofs | `DiscoveryStaysSound`, `MqttTellsTheTruth`, `FileSinkKeepsLines`, `WindowShowsConnection`, `ScanRestores`, `ClientStaysCurrent` |

**Scheduler.** One invariant carries all its theorems. The properties need these
additions:

* `IdsIssued`: every task that exists took its id from `next_id`, so a new id
  collides with none (for `OneCopy`);
* `CancelInv`: a task that was popped and not yet called has had no start after
  its `cancel()`. The check under the mutex before the pop gives this, and
  that is why the unlocked read afterwards is harmless;
* `StopInv`: while `running` holds, or the loop is between pop and call, nothing
  has started after `stop()`;
* `SpacingInv`: wherever a task waits (queue, local variable, call) its time is
  at least one interval after its last start.

`NoLostWakeup` is inductive with the types.

**ThreadPool.** Here the type invariant is not inductive by itself: that
`enqueue()` appends a job, and not the empty value, follows from the partition of
the jobs. The invariant is the types, `Partition` and `OneHolder` (together
equivalent to `EachJobOnce`), and `StopInv` (the flag goes with the place in
`stop()`, workers end before `stop()` returns, only a worker in a job is in
`enqueue()`). The steps are classified first (`Move`): each hands one job from
one place to the next, or all from the queue to the dropped ones, or none. The
partition and the refinement follow from what a move does. `NoIdleWhileWork`
counts: a push adds a job and a caller about to notify, a notification turns
that caller into an awake worker, a take uses up one of each. It needs the set of
notifying callers to be finite, which is part of its invariant since nothing
bounds the callers.

**EventBus.** The bus is shown to implement the pool step by step
(`BusStepIsPoolStep`), so everything proved of the pool holds under the bus, the
refinement of JobQueue included (`BusKeepsPool`). `DeliversSnapshot` speaks of
finished jobs. `InProgress` is what it needs: of a job that runs, the handlers
called and those to be called make up the snapshot, and after an exception none is
left.

**TcpConnection and TcpServer.** `DeliversFrames` compares what the handler got
with what the peer sent. `ReadInv` says what lies between: the two buffers and
the wire joined (`Stream`) begin with the frame after the last one delivered, and
every piece that begins a frame is followed by the rest of it, as far as the
stream goes. How a read cuts the stream is then of no consequence, and while the
peer has not closed nothing is missing. `WriteInv` does the same for the packets
that leave: the queue, the posted handlers and the network hold consecutive
numbers without a gap. `SessionInv` ties the sink's list to the sessions and says
that a connection whose `stop()` is posted has none. Assumed: `Idle` is not a
connection.

**Protocol.** That both ends agree is a property of tables: each codec takes every
field it was given or is named as one that does not (`CodecsSound`), and each decoder
has the entry of every message sent to it or the message is named
(`EventsUnderstood`, `CommandsUnderstood`). `PacketUnderstood` says what that gives for
one packet. The invariant carries it to any number of packets: each way holds only
packets of its sender.

**SerialUblox.** An acknowledgement on its way is one the receiver has given, the
rate is not sent before the port was acknowledged, and each state of the driver is
earned by the acknowledgements before it.

**MessageProcessor.** The property speaks of the last message; what a half-timed
pulse needs from earlier ones is that the remembered length is below
`PulseLimit`, which is all the invariant adds. The rest is arithmetic and text: the last
field of each message, and of each repeated block, ends within every length that is
let through (`FixedFieldsFit`, `BlockFieldsFit`, `VersionFieldsFit`); what is kept of
a version text of any length is a number with one dot or nothing
(`AnnouncedIsUnderstood`); nanoseconds stay proper across the second's boundary.
Assumed: `PulseLimit` is at most a second, and a text is a sequence of the kinds of
characters the parser tells apart.

**UbxParser, Sds011.** The property compares what was published with the messages read off the whole
line from its first byte on, a recursive function. The invariant says where the parser is: at a frame that
begins at place `p`, all before it has been read and given what was published
(`ParserIsAt`). Since a frame's fate is known only later, it says so of every
line that begins with the bytes fed (`Reached`), and then one step of the
recursion per byte is enough (`FeedKeeps`). Of a frame that is not complete nothing is read
(`NothingFromHere`).

**EventBindings**, with one worker. That hypothesis is the property's own limit: run
`event_bindings_workers` shows two workers losing a state. The invariant looks at
all events that wait, the one being handled and those about to be published as one
sequence (`Pending`): its last event about a key, or the stored value when it has
none, is what the line says (`LinesEnd`). The same relation (`Ends`), between the
store and what the client was told, gives the second theorem, unless the events
still contain the request that will have everything told. `WorkIsSound` holds with
one worker only: the copy a handler is about to change is what is stored. Assumed:
channels and identifiers are different, and `None` is none of the values.

**The devices.** *I2cDevice*: each object's flag, the counter and the global list
are related to its own history; the list has each object once, so erasing one
leaves the others. *AdcDriver*: the index counts the samples since the trigger and
all of the buffer is of the present period; a burst's wait that calls back late
finds room for one more sample. *Dac*: what a call holds between its transfers is
still true of the device, and its data are the code of its voltage. That needs
one worker, because the driver has no lock. The lemmas `VddError` and `VddFits` bound
the rounding of a code for every supply voltage of `DacAssumption`. The theorem
states the property of accepted voltages as far as the width of the code's number
carries them; beyond it they wrap around (section 5). *Calibration*: the buffer of
a valid EEPROM holds its unique id, and while pages are written those below the
next one are already the buffer's. `ItemsAreApart` derives from `CalibAssumption`
(the last item ends before the id) that no item overlaps another, the header or
the id, for every layout. *GeoPos*: the property is inductive by itself. *CounterRate*: as long as no
value was overtaken, the buffer, the values on their way and the counter are one
sequence in which no step is a whole round (`NoRoundIsMissed`). The sum of the
differences then telescopes, and otherwise does so but for whole rounds
(`CountsTelescope`, `RoundsDoNotShow`). *GpioDriver*: the
edges published are a choice of places in the line's history. The choice is among the edges the
thread has gone through, and batch and kernel hold the rest of the line in order (`NothingIsLost`). The
buffer's events are the last ones published and all before them have left the window
(`BufferIsOfBus`); times do not run back (`EdgesInOrder`), so the edges of the window of a later
sample are the end of the buffer (`RateMatches`), for any window and dead time.

**The services.** *NetworkDiscovery*: a client's list and the signals that wait are
together what it has found; the receiver holds a packet only while it handles it.
*MqttSink*: what the main thread and the loop thread have still to do are scripts,
and each script of the loop thread ends by storing and publishing the status that
fits the connection. *FileSink*: between the two halves of
a write the line is in the buffer of the file it belongs to and nothing else is there,
unless the stream is bad; then the failed line is the first of it. A file that is open has
never been open before, because its name is new; a name is reused only when all suffixes
are taken, for any number of them. What a rotation left of the old files keeps its age. *GuiConnection*: the window follows the connection through lambdas that the io
thread and the window itself queue. What is shown may lag behind; the invariant
is about what *will* be shown once the queue is worked off (`WillShowConnecting`,
`WillShowDisconnected`), and says that nothing is queued behind the completion of
the present attempt. As the property does, it leaves out the behaviours in which a
disconnect lambda has met another connection than its own, and the fault of
section 5. *ScanForm*: the property looks at a moment when nothing is on its way; the
invariant relates the two queues to both ends at every other moment. The last setting of a
channel on its way is the user's or the scan's, and the DAC has the user's when there is
none (`SettingsArrive`, `InhibitsEnd`; `Settles` is this relation). A scan knows the
voltage it will put back (`ScanKnows`), unless it began from another (`scMistaken`). The rest
(`Measuring`, `ScanPoints`) is that the counter's difference is three edges for each pulse,
which needs a `CounterRange` above 3. Assumed besides: the ranges a user enters are integers.
*EventFlow*: the same relation on the bus, in two stages. `StoreFollows`: the last
wrapped event of a type, or the store, has the value reported last (`flSaid`). `ClientFollows`: unless
it is still to be stored, the last plain event, or what the client was told, has it,
or an event waits that will have it told (a request, or the client's own arrival).
Thresholds and bias voltage follow from the DAC in a third stage (`DacFollows`). The
status of the MQTT connection is told before it is stored, so it has a part of its own
(`MqttFollows`). `TruthIs` says that what was reported last is so but for the types in
`flMisled`. `ToldIsStored` says that a request answered with nothing
leaves nothing stale. Every delivery is shown to be of one form (`Delivers`),
whatever the event, and the invariant is shown of that form once. The proof goes
through all tables of subscriptions, requests and commands of the module.

Where an argument needs induction over numbers (the least suffix that is free,
the last event about a key, the addresses of the items, the sum of the counts) it
uses instead that every set of natural numbers has a least element (`LeastNumber`),
from the library's theorem that `<` is well-founded on them. That a recursive
function exists is shown in the same way (`AddressExists`, `CountsExist`, `ReadingExists`).

Only model-checked:

* all liveness properties: fairness and ENABLED are outside the prover's reach;
* `HistogramsAreFaithful` and `ConfigurationIsAsAsked`: they compare the code with
  folds and sums over sequences and sets of the library, about which the provers have
  no induction.

No module declares a RECURSIVE operator.

## 5. What the model showed of the code

* `serialublox.cpp:60` and `:65`: the lambdas posted to the strand capture the
  event by reference. The event belongs to the pool's job and is gone when they
  run. An acknowledgement may be taken for another or for an unrequested one.
  (run `ublox_ack`)
* `serialublox.h:93`: a message refused by `enqueueMessage()` arms the retry
  timer, whose handler opens the port again. The port is open, so
  `makeConnection()` throws on the io thread, where nothing catches it. A
  maintenance poll that comes before the receiver is ready triggers this.
  (run `ublox_maintenance`)
* `event_bindings.cpp:303`: two workers that store the two preamplifier states
  concurrently lose one of them. The start-up commands come back to back.
  (run `event_bindings_workers`; with one worker the property holds, run
  `event_bindings`.) The map of rates has the same pattern at line 329.
* `mainwindow.cpp:1279`: the comment promises to "safely close async connection
  without segfault". A connection that has ended queues a lambda for the window;
  a click on disconnect before it runs resets `clientConn`, which the lambda
  dereferences at 626. (run `gui_disconnect`)

Modelled, with the exception named in the property:

* `capnp_codec.cpp:1603`: `PreampSwitchCmd::encode()` leaves out `state`. Members
  of 32 bits travel in fields of 16 (`NavStatus`, line 1134). Two commands of the
  client have no case in `tcp_command_decoder.cpp:225`.
* `i2cdevice.cpp:354`: `writeByte()` and `writeBytes()` turn a negative result into true.
  `writeBit()` at 296 takes a mutex it holds; it has no caller in the daemon.
* `main.cpp:51-57`: the branch commented "create the settings tree and proceed
  anyway" cannot be reached, because `loadConfigFile()` catches the exception.
* `sds011.cpp:76`: `setMode(Interval)` falls through to the branch that returns, so that
  the sensor gets no command with the default of one minute (`config_parser.cpp:651`),
  although `config_parser.cpp:643` calls the setting the sleep between readouts; a write
  that fails (190) leaves its message at the head of the queue for good.
* `networkdiscovery.cpp:121`: `stop()` sets the socket to -1 while the receiver may
  be about to call `FD_SET`. `bind()` (78) is not checked.
* `mcp4728.cpp:30`: a voltage from 32.768 V on wraps around and is accepted.
* `file_sink.cpp:366`: the stored path is in quotation marks and never found, so a
  restart always opens a new file; files with a suffix (404) are never removed.
* `file_sink.cpp:439` and `:449`: no write is looked at. After one that failed the stream
  stays bad and later lines are dropped without a word until a rotation. `:384`: after a
  file that cannot be removed no other is. Lines are flushed (192-198), so that the end of
  the process costs the line being written at most; what a loss of power costs is not
  modelled, nothing calls `fsync`.
* `message_processor.cpp:1080` and `:1082`: `refInfo` is read at the offset of `flags`.
* `pca9536_driver.cpp:55`: the port is reported as set whether it was or not.
  `mcp4728_driver.cpp:171-175`: a bias voltage or fourth channel that the parameter tab sets is not
  reported, so a client's bias is stale until the next request, and a scan of the bias
  begun meanwhile puts the older value back. `:125`: a channel that cannot be read is
  reported as 0 V. `:95`: at the start the voltages are reported as they were before the
  configured ones were set.
* `gpio_driver.cpp:52-59`: when the second polarity line cannot be written the first stays
  changed and nothing is told. `system_builder.cpp:112`, `mainwindow.cpp:754`: the event
  trigger is stored, polled and decoded, and never sent, because the TCP sink is not
  subscribed to it.
* `tcp_command_decoder.cpp:96-102`: what a scan tells the daemon to inhibit is not inhibited:
  a `MqttInhibitCmd` has no subscriber and a `GpioInhibitEvent` is only passed on to the
  clients.
* `gpio_ratebuffer.cpp:171` and `ublox_ratebuffer.cpp:39`: buffers filled by one thread and read
  by another without a lock. `eeprom24aa02.cpp:52`: a daemon that ends between two pages leaves a
  mixture of two calibrations that calls itself valid. `maintenance.cpp:92`: polling of rates has
  ended when two workers lose one of them.
* `scanform.cpp:67` and `:265`: a scan begun before the first read-back, from one that
  was misread, or cut off by a lost connection, does not give the old voltage back; what
  is read back during a scan of something else is ignored, so the next scan may begin from
  an older value; a setting of the scanned channel during the scan is lost.
* `histogram.cpp:110` and `mcp4728.cpp:271`: no lock, although any worker may handle
  the events that change them.
* `mqtt_sink.cpp:297`: a worker that found the sink connected may publish while the
  main thread destroys the handle.

Found by reading: `system_builder.cpp:196` subscribes to `StatusLedEvent`, while
`gpio_driver.cpp:116` publishes only the wrapped
`DatastoreStoreEvent<StatusLedEvent>`. `LogEngine::onLogParameterReceived()` has no
caller. `serialublox.cpp:167`: after a write error the queue stands still; `:460`: a version
that does not parse ends the process. `tcpconnection.cpp:37`: the write queue has
no limit. `data_store.h:57`: a pointer from `get()` is used after the mutex was
released. `main.cpp:144`: sinks are stopped before the workers that deliver to
them.

## 6. What is not modelled

* The further I2C devices (display, light and climate sensors): register
  sequences, conversions of units and drawing. Their transfers are those of
  I2cDevice, and nothing else reads their state.
* The widgets of the GUI that draw what arrives; a test that looks at the
  picture is the better means.
* The credentials utility: a dialogue on a terminal and a cipher. The test server,
  the stand-alone client and the sensor readers: programs for trying things out.
* Floating point: the Kalman filter, means and widths, conversions to volts.
* The bytes of a TCP frame beyond its being well-formed, and the text of log
  lines, reports and MQTT messages.
* Shutdown across components. Each `stop()` is an action of its module; that the
  main thread calls them in an order in which workers still reach stopped sinks
  is seen in MqttSink only.
* Operations without a caller (`setVRef`, `query`, inhibiting and subscribing of the
  MQTT sink).

## 7. Plan

Done: all components of section 1 except those of section 6; the theorems of
section 4.

Next:

1. Shutdown: the order in `main.cpp:142-153` composed of the stop operations of
   scheduler, sinks, pool and GPIO thread; no handler reaches a destroyed
   component.
2. Abstract specifications: a connection as a pair of first-in first-out queues of
   packets, implemented by TcpConnection; a store with atomic updates,
   implemented by EventBindings with one worker.

## 8. Running the checks

    tlc -workers 2 -config MCEventBus.cfg MCEventBus
    tlapm SchedulerProofs.tla
    tlapm ThreadPoolProofs.tla
    tlapm EventBusProofs.tla
    tlapm TcpServerProofs.tla
    tlapm SerialUbloxProofs.tla
    tlapm EventBindingsProofs.tla
    tlapm DeviceProofs.tla
    tlapm ServiceProofs.tla

The module of each configuration is in `PROJECT.json`, under `runs`.
