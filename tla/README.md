# kpods: a verification project

kpods is a user service (`kairpodsd`, Rust, tokio) that finds AirPods and
Nothing/CMF headsets through BlueZ, keeps a protocol connection to each, learns
their battery drain and offers all of it on D-Bus to a Plasma widget. This
directory holds TLA+ models of the service's stateful parts, TLC configurations
that check them on small instances, and theorems about them proved with TLAPS.
All source paths below are under `src/service/src/`.

Contents: inventory · modules · how the models correspond to the code · runs
and bounds · fairness · proofs · disagreements found · not modelled · plan.

## 1. Inventory

| part | state it keeps | operations | hard behaviour |
|---|---|---|---|
| **Manager actor** `bluetooth/manager.rs` | `adapters` (state, monitor handle), `devices` (BlueZ state, AAP state, task handle, `AirPods`), `aap_connecting`, command channel, loopback channel | 12 commands, three interval ticks, one monitor task per adapter, one AAP task per connection, sleeping tasks that send a command later | the actor is single, everything around it is not: reports of tasks that were aborted or replaced, `await`s inside handlers, timers that fire late, an adapter that fails while its devices connect |
| **Connection of one headset** `airpods/device.rs` | `conn` (tokio `RwLock`), `is_connected` (atomic), cached attributes, tracker | `connect`, `disconnect`, `notify_transport_disconnected`, setters, packet processor | the flag is written outside the lock; a processor is detached from the task that started it and outlives the connection; disconnect waits behind a handshake of up to 30 s |
| **Transports** `bluetooth/l2cap.rs`, `bluetooth/rfcomm.rs` | two bounded queues, a socket, two tasks or blocking threads | `send` (queued, answered, with time limit), `recv`, drop | late answers, full queues, threads no abort stops, descriptors an error path leaks |
| **Nothing/CMF protocol** `nothing/*.rs` | framer buffer, `NothingState` (level, preset, ringing, firmware, operation id) | probe channels, frame, decode, setters | reads that cut frames, damaged headers; a level that takes two packets; sockets of earlier attempts |
| **AAP protocol** `airpods/protocol.rs`, `airpods/parser.rs` | the feature bitmaps | byte layouts, `FeatureBitmap::set` | two bitmaps written one after the other |
| **Battery study** `battery_study.rs` | two ring histories, last estimate, cache, LMDB record per headset | record, should_save, save, estimate, init_session | reports before the session is opened; save races with reports; ring edges; what a save counts again |
| **Ring** `ringbuf.rs` | N slots, unbounded `tail` | push, get, clear, truncate_front, as_slices/iter | head, length and slices are each computed from `tail` in their own way |
| **Event processor** `main.rs`, `event.rs` | lock-free queue, `Notify`, dispatcher task | `emit`, `recv` | `notify_waiters` stores no permit; the dispatcher ends by a reference count |
| **Media control** `media_control.rs` | `ENABLED`, `PAUSED_PLAYERS` (global) | `send_pause`, `send_play`, `set_enabled` | the list is read, awaited over, and overwritten; a player asked in one call and paused in the next |
| **D-Bus service** `dbus.rs` | object server | setters, queries, the `Devices` property | calls run concurrently, and with the dispatcher; the property is read attribute by attribute |
| **Configuration, errors, recognition** | none that changes | — | — |
| **Plasmoid, scripts, packaging** | user interface, installation | — | — |

How they interact. D-Bus calls become commands in the manager's channel; the
manager's own tasks (monitors, AAP tasks, timers) answer through a second,
bounded *loopback* channel. An AAP task runs `AirPods::connect`, reports
`AAPConnected`, awaits the packet processor's handle and reports
`AAPDisconnected`. The manager takes a connection down with
`handle.abort(); device.disconnect().await`, inside its handler. Processors
push events into the event processor, whose dispatcher emits D-Bus signals, has
the `Devices` property published, and on ear detection pauses or resumes media
players before it takes the next event. D-Bus setters send a command over the
connection and then write the attribute that a later report of the headset
writes too.
The packet processor, the manager's device tick and `disconnect()` share the
battery tracker behind a mutex that is taken anew for each call.

What makes each part correct:

* manager: a device shown as *Connecting* has an attempt that will end, is in
  `aap_connecting`, and is managed; a lost adapter has its recovery under way;
  a lost headset is noticed;
* connection: a stored connection is watched by a live processor, reads as
  disconnected only while somebody is taking it out; `disconnect()` returns; a
  lost transport reaches the manager;
* events: each is delivered, once, in the order of its emitter;
* ring: `get` and `iter` are the last N pushes, oldest first;
* tracker: a history is one discharge of one bud, a charge forgets the past,
  the study counts what was measured;
* noise mode: the mode shown is the headset's, an answer goes to the call whose
  command was written, a call cannot keep `disconnect()` waiting;
* attributes: when nothing is under way they are what the headset is, and the
  property clients were last sent is what the service knows;
* RFCOMM: an attempt does not pass over a channel that would have answered, a
  stored connection hears of its loss, what is given up is closed but for a
  descriptor the code leaks;
* framer: the frames found depend on the bytes and not on the reads, an intact
  frame is neither lost nor held back;
* media: only players that were paused by the service are resumed, and one that
  is still paused is forgotten only if its resume failed or the list was replaced.

## 2. Modules

| module | models | state → code |
|---|---|---|
| `AirPodsLink` | one headset object's connection and its tasks | `conn`, `isConnected` = the fields of `AirPodsInner`; `attempt`, `aborted`, `target` = AAP tasks; `proc` = packet processors; `closers` = callers in `disconnect()`; `held` = objects in the manager's map |
| `BluetoothManager` | the manager actor, monitors, timers, BlueZ; drives `AirPodsLink`, which it extends | `adapters`, `devices`, `connecting`, `loopback` = the fields of `ManagerActor`; `todo`, `ending` = the rest of a handler that is in a loop or at an `await`; `monitors`, `timers` = spawned tasks; `adapterUp`, `btOn` and the like = BlueZ |
| `MCBluetoothManager` | values for TLC | — |
| `EventProcessor` | `emit`, `recv`, the dispatcher | queue, the dispatcher's place in `recv`, who holds a sender |
| `Ring` / `BoundedHistory` | `ringbuf::Ring` / what it promises | `data`, `tail` |
| `BatteryTracker` | histories, reports, ticks, saves | `hist` = the two histories, `packet` = a report stored and not yet recorded, `saveDue` = between `should_save` and the save, `opening` = `connect()` between starting the processor and `init_session`, `studied` = the study has a record |
| `MediaControl`, `MCMediaControl` | what `dispatch()` does on ear detection, with the players and their users; extends `EventProcessor` | `enabled`, `paused` = the two statics; `task`, `todo`, `asked`, `mine` = where `send_play` or `send_pause` is, and its local list |
| `RfcommLink` | `nothing::device::connect` over `rfcomm.rs`: channels, passes, sockets and their blocking threads | `at`, `pass`, `chan`, `sawFastPair` = where the attempt is and its locals; `sock` = every socket's threads, channel ends and packets on their way |
| `NothingFrame` | the frame format: `build`, and what `push()` asks of bytes | — |
| `NothingFramer`, `MCNothingFramer` / `FrameStream` | `Framer::push` fed by reads / what it promises | `buf` = `Framer::buf`; `wire`, `got` = the stream and how much of it was read |
| `HeadsetState`, `MCHeadsetState` | a headset's attributes, its reports, the setters of `dbus.rs`, publication of `Devices` | `cache` = the atomics of `AirPodsInner` and `NothingState`; `proc` = the processor within a report; `old` = a processor whose connection was taken down, with the reports it has; `call` = where each D-Bus call is; `disp`, `view`, `shown` = publication; `hw` = the headset itself |
| `NoiseControl`, `MCNoiseControl` | calls of `set_noise_control` on one L2CAP connection, its command channel, the headset's notifications, and what ends it | `req` = where each call is, `cmds`, `sending` = the command channel and the send task, `inbound` = notifications on their way, `noiseMode` = `AirPodsInner::noise_mode`, `slot` = `conn` |
| `*_proofs` | theorems | — |

Composition. `BluetoothManager` EXTENDS `AirPodsLink` and conjoins its actions:
the manager's spawn, abort, disconnect and insertions into the map are
`Spawn`, `Abort`, `DisconnectBegin`/`DisconnectEnd` and `Create` of the
connection, on the same variables. That every step of the composed system is a
step of the connection's own specification is a property (`LinkSafeSpec`),
checked and proved, so what is shown of `AirPodsLink` alone holds under the
manager. `MediaControl` EXTENDS `EventProcessor` in the same way and implements
its specification (`MediaImplementsEvents`, proved): the dispatcher's awaits on
players are part of the step between taking an event and the next `recv`.
`NothingFramer` implements `FrameStream` (`RefinesStream`), where the position in
the stream is what was read less what the buffer holds.
`Ring` implements `BoundedHistory` under `history <- Contents`.
`NoiseControl`, `RfcommLink` and `HeadsetState` stand beside `AirPodsLink`: the
first looks at the command queue of one L2CAP connection between its handshake
and its end, the second at the RFCOMM side of `connect()` and `disconnect()`, the
third at what reports and setters write, over a link that can be lost.
`BatteryTracker` uses what `Ring` shows of sequences, and keeps just enough of
`tail` to reproduce the ring's edge at exactly N pushes.

### Choices worth knowing

* **Atomicity.** A step of the model is what the code does between two points
  where another task can be seen to act: `await`s, channel sends, lock
  acquisitions and accesses to atomics or mutexes. A manager handler is one
  step up to its first `await` that can be observed; loops over devices or
  adapters with awaits in them go through `todo`, a `disconnect().await`
  through `ending`. While `todo` or `ending` is not empty the actor takes
  nothing from its channels, as the code does.
* **Aborts** take effect at an await: `Abort` marks, `Vanish` ends the task. A
  task that has been aborted may still run to its next await, so it can still
  store a connection or send a report. This is where most of the interesting
  behaviour comes from.
* **The lock** of `conn` is not a variable: it is held exactly while some task
  is inside `connect()`. The order of waiters is left open.
* **L2CAP and RFCOMM** differ in one thing here: dropping an L2CAP connection
  ends the tasks that feed its processor; dropping an RFCOMM one does not,
  because its reader is a blocking thread. The constant `Rfcomm` says which
  objects are of the second kind.
* **BlueZ** is a nondeterministic environment: headsets connect and vanish,
  adapters listed in `Faulty` fail and return, queries answer what is true when
  they are asked or fail.
* **Noise mode.** The read lock of `conn` is held by the calls in `Readers`; a
  waiting writer lets no later reader in, as tokio's lock does. `raced` marks the
  one interleaving after which the mode shown may be wrong: the headset was told
  or made to change between the answer to a call's write and that call's store.
* **Ear detection.** A player is playing or not; one that is not on the bus is one
  that fails. `UserActs` may come between any two calls of the dispatcher. `ours`
  and `stopped` are histories of what was done to players; `overwritten` and
  `refused` mark the two cases in which the code forgets one that is still paused:
  a second removal that pauses others replaces the list, and a resume clears it
  whether or not every `Play` was answered.
* **RFCOMM.** A blocking thread cannot be aborted once it runs; `Aborted` says so.
  `prompt` is the set of channels of the control protocol that always answer in
  time, unless a socket of an earlier attempt is open or being opened on them
  (`Occupied`): the kernel gives a channel to one socket. A `connect()` that is
  refused at once closes its socket; when `wait_connected(fd)?` fails the
  descriptor is leaked, and the model keeps the socket (`Leftovers`, opener
  `"leaked"`) as one that nothing closes and that keeps its channel.
* **Framer.** Bytes are numbers and the checksum is the code's, computed in
  `MCNothingFramer`; the specification and the framer are about any `Crc`.
* **Attributes.** Each is written by itself, a report that updates two in two
  steps. The AirPods' two feature bitmaps are two cells. A headset carries out
  commands in order and reports every change but ringing. `raced` marks cells a
  report reached while a call was setting them, or that an earlier connection's
  processor wrote, until the next report; `crossed` that publishers
  overtook one another, `silent` the features a headset changed by itself.
  A call fails with the link down or lost, or when a packet times out while the
  link is up; the packet is then still queued and may be carried out later
  (`SendFails`), after the first of two was.
* **Connections cut.** `disconnect()` awaits the lock and nothing else, so the
  processor of the connection it takes goes on with the reports it has, and over
  RFCOMM with new ones as long as the reading thread lives, next to the processor of
  a new connection (`old`). It ends by taking down whatever is stored by then
  (`OldEnds`). One such processor at a time. Reports the receiver has not got and
  commands on their way are lost with the connection; a command that is carried
  out all the same is a change nobody asked for, which `Worn` is.
* **Battery.** Of a rate only its existence matters; `samples += count` marks
  the samples that were counted, so that counting one twice can be seen without
  an unbounded counter. One processor at a time records reports. `connect()` starts
  it (`Connect`) before `init_session` makes the record, which may fail or find no
  study (`InitSession`); reports and saves come in between. All of it is about
  AirPods: the Nothing/CMF path neither opens a session nor records.

## 3. Runs

`CHECK_DEADLOCK` is on everywhere but in `control`, whose connection ends for
good, `media`, whose dispatcher does, and `framer` and `headset`, which stop when
what the bounds let happen has happened.

| run | instance | shows |
|---|---|---|
| `link` | 2 tasks, 1 object | `ConnWatched`, `ConnFlagged`; `DisconnectCompletes`, `LossReported` under fairness |
| `manager` | 1 adapter, 1 headset that is forgotten and found again, 2 objects, 2 tasks, users; channel 1, timers 1 | `ConnectingMarked`, `ConnectingManaged`, `ConnectingProgress`, implementation of `AirPodsLink` |
| `manager_adapter` | 1 faulty adapter, 1 headset, 1 task, 1 monitor; channel 1 | `ConnectingProgress`, `RecoveryPending` |
| `manager_live` | 1 RFCOMM headset; channel 2 | `ConnectingEnds`, `LossNoticed` under fairness |
| `media` | 2 emitters with 1 and 2 events, 2 players, users | `NoLostWakeup`, `DeliveredInOrder`, `ResumesOnlyOurs`, `StoppedRemembered`; `EventuallyDelivered` under fairness |
| `rfcomm` | 3 channels, 2 sockets, inbound queue 1, 1 leak, any number of attempts | `FailsForCause`, `LossHeard`; `AbandonedClosed` under fairness |
| `framer` | 3 items of 2 frames, 2 noises and every damaged byte, every cut | `NothingHeldBack`, `IntactReturned`, implementation of `FrameStream` |
| `headset` | AirPods and Nothing/CMF, 2 calls of 3 kinds; calls, changes nobody asked for, losses and cuts: 4 for AirPods, 3 for Nothing/CMF, a cut counting as two | `FollowsHeadset`, `ShownIsKnown` |
| `control` | 3 calls, 2 modes, channel 1, 1 press of the button | `AgreesUnlessRaced`, `AnswersOwn`; `DisconnectReturns` under fairness |
| `ring` | N = 3, pushes past twice N | `IterAgrees`, refinement of `BoundedHistory` |
| `battery` | 4 levels, N = 3, keep 2, 3 instants | `OneDischarge`, `ChargingForgets`, `NewestFalls`, `RecountBounded` |
| `manager_leak` | as `manager_adapter` | a disagreement, section 6 |

Why the bounds are enough. Two tasks on one object are what it takes for a
report, a connection or an abort of an earlier attempt to meet a later one; two
objects for one address are what forgetting and rediscovering gives. A loopback
channel of one command makes every sender wait at some point and still lets
each command overtake none; the manager runs with a channel of two show the
same results (`manager_adapter` at two: 10.8 million states, no error). One
timer of a kind per address or adapter is what the code can have asleep, except
that recoveries may pile up; `MaxTimers` bounds those. The manager's invariants
do not rest on these bounds: they are proved for all of them (section 5). For
the battery, N = 3 and four levels let a history fill, evict, and be trimmed to
N − 1; the exact sizes of the code (32, 5, 4, 3) matter only through their
order, which `SizeAssumption` states. Three calls and a
channel of one command let one be written, one wait in the channel and one wait
for room; the code's 128 differs in how long the queue is, not in who waits for
whom. Two players make a list that can lose one and keep the other, and three
events make a pause, a pause or a resume, and another event behind them. Two
sockets are one of an earlier attempt and the one now tried; three channels let
the first be passed over, the second speak Fast Pair and the third answer, and a
second pass meet what the first left behind. Three items let a damaged one stand
between two intact ones; the frames hold a start byte in the payload and in the
operation id. Two calls and the dispatcher are the publishers that can overtake
one another. `MaxChances` bounds calls, changes nobody asked for, lost connections
and cut ones together, by kind, a cut counting as two: AirPods may see both calls
and two changes or losses, or both calls and a cut; Nothing/CMF, whose level takes
two packets and two stores, both calls and a change or loss, or one call or change
and a cut. That makes 4.9 million states; the theorems have no such bound. `MaxTail`
in `Ring` stands for 2^64 and is more than twice N, so that the tail goes around
twice.

## 4. Fairness

Safety runs assume none. Liveness assumes what tokio and the code give, one
thing of BlueZ, and nothing of users or the peer:

* a task that is ready runs (weak fairness of each step of each task);
* the tokio `RwLock` and the channels are FIFO, so a waiter that finds the
  resource free again and again gets it (strong fairness of taking the lock in
  `DisconnectEnd` and `TransportClosed`, and of sending a report);
* `select!` picks at random among ready branches, and an interval branch stays
  ready until it is taken (strong fairness of `CommandStep`, `HealthTickSeeing`);
* BlueZ answers the queries of a health tick some time: the fairness is that of a
  tick with true answers, so no property rests on a query that fails;
* `connect()` ends: every await in the handshake has a time limit (weak
  fairness of `StartProcessor \/ ConnectFail`);
* a write ends, by sending or by the kernel giving the link up, and a time limit
  expires (weak fairness of `Written \/ WriteFails`, `TimeOut`); `DisconnectReturns`
  holds only so far as the kernel keeps this;
* every call to a media player is answered or fails, as the D-Bus daemon sees to for
  one that leaves the bus; the code sets no time limit (weak fairness of
  `DispatchStep` in `MediaControl`);
* blocking threads run, an RFCOMM socket opens or fails within 8 s and an attempt is
  cut off after 30 s (weak fairness of `OpenerConnects \/ OpenerFails`,
  `ThreadStarts`, `WriterEnds`, `CutOff`), and a processor that waits for the lock
  gets it (strong fairness of `ProcessorEnds`); a reading thread ends only if the
  peer closes, which nothing grants;
* dropping an L2CAP connection wakes its processor (weak fairness of
  `WakeClosed`); a lost transport *not* dropped by us is only reported if the
  peer or kernel says so, hence no fairness of `RecvError`.

## 5. Proofs

| module | of |
|---|---|
| `BluetoothManager_proofs` | the connection and the manager |
| `MediaControl_proofs` | the event path and the players |
| `HeadsetState_proofs` | the attributes |
| `NoiseControl_proofs` | the noise mode |
| `RfcommLink_proofs` | RFCOMM |
| `NothingFramer_proofs` | the framer |
| `BatteryTracker_proofs`, `Ring_proofs` | the tracker, the ring |

They are checked by tlapm to the last leaf, and nothing in them is assumed but the
constants' assumptions, which TLC evaluates in each run:

* the empty value is none of the tasks, objects, monitors, addresses, players,
  sockets, modes or calls, and the dispatcher is not a caller (`NoneAssumption`,
  `NoRecordAssumption`, `MonAssumption`, `UnknownAssumption`,
  `DispatcherAssumption`, `PacketAssumption`);
* what is an address, a level, a wanted mode (`AddrAssumption`, `AddrOfAssumption`,
  `LevelAssumption`, `ReportAssumption`, `WantedAssumption`), what a headset of a
  kind has and may be asked for (`HeadsetAssumption`, `RequestAssumption`);
* bounds and sizes are numbers, those of channels and rings not 0
  (`BoundsAssumption`, `MaxEventsAssumption`, `CapAssumption`, `ChannelsAssumption`,
  `RoomAssumption`, `NAssumption`, `MaxTailAssumption`, `HeadsetBounds`), and the
  sizes of the battery study are in the code's order (`SizeAssumption`);
* frames have at most 255 bytes of payload and noise is bytes (`SendsAssumption`,
  `NoiseAssumption`), a checksum is of 16 bits (`CrcAssumption`) and differs when
  one byte behind the header does (`DamageAssumption`: what a CRC-16 grants; TLC
  computes the code's for every byte of the frames of the instance). Only
  `IntactReturned` rests on the last.

**The connection.** `ConnWatched` is not inductive: that a stored connection has
a live processor depends on what the storing task and a closing processor are
doing. `LinkInv` adds `TasksSound` (who has an object and a processor in which
phase; a task about to store has a live processor of its own) and `ConnFlagged`.
One step per action. From it: `ConnAlwaysWatched`, `ConnAlwaysFlagged`.

**The manager.** `ConnectingProgress` says that a device in *Connecting* has a
live task or a report in the channel. For a step of the manager to keep it one
has to know that a device's handle is a task on the device's own object, that
two devices have neither a task nor an object in common, that the slots of the
channel hold well-formed commands, that marks belong to managed devices or to
the one being removed, and that an AAP task that ends without having been
aborted leaves a report. `MgrInv` is the conjunction of these with `LinkInv`.
Its proof has one step per action and one lemma per conjunct that several
actions disturb. From it: `ManagerTypes`, `AlwaysMarked`, `AlwaysManaged`,
`AlwaysProgress`, `AlwaysRecovering`, and the implementation theorem
`ManagerImplementsLink` (initial states to initial states, each step to a step
or a stutter of `AirPodsLink`), from which `ManagedConnWatched` follows.

**The tracker.** The lemmas are about the operators: trimming, marking and
pushing a lower level each keep a history a discharge and say what becomes of
its newest level. The invariant adds that the report in flight names the
charging buds.
From it: `AlwaysOneDischarge`, `AlwaysChargingForgets`,
`AlwaysRecountBounded`, and the action property `AlwaysNewestFalls`, for every set
of levels and all sizes.

**The event path.** That no wake-up is lost rests on where the dispatcher is: from
its subscription on, an event in the queue has an emitter that has still to
notify, or the dispatcher is on its way to the second pop. That each event comes
once and in its emitter's order rests on what was delivered and what is queued
being, for each emitter, the numbers up to the last it pushed. From these, for
any emitters and numbers of events: `NeverLosesWakeup`, `AlwaysInOrder`.
`MediaImplementsEvents` carries them to the dispatcher that handles media players (`MediaNeverLosesWakeup`). The invariant of the players adds
where the list in hand comes from in each phase of `dispatch()`; from it, for any
set of players: `AlwaysResumesOnlyOurs`, `AlwaysStoppedRemembered`.

**The framer.** `FramerInv` says that the buffer is the end of what was read, and
the lemmas what reading more, dropping up to a start byte and draining a frame do to
an end of a sequence. Then what is left of the stream in `FrameStream` *is* the
buffer, whatever reads brought it: `FramerImplementsStream`, and with it
`AlwaysNothingHeldBack`, for any frames, noise, checksum and cuts.
`AlwaysIntactReturned` needs to know more than the end of the stream: `ParseInv` says
that the frames sent have a `Layout` in the wire (disjoint, in order, every start
byte within one of them), that none lies across the framer's position, and that
what was returned is the intact ones before it. A start byte at the position is then
the first of a frame, whose header gives its length (`FrameAt`, `FoundFrame`);
`BuildSound` says that what `build` makes is read back as what was built. At the end
an intact frame not yet returned would be whole in the buffer, and
`NothingHeldBack` forbids that. `FramerTypeOK`, which no run checks, is proved too: what
is returned are frames, whatever bytes arrive.

**The ring.** That `iter()` yields the last N values is arithmetic modulo N, wrapped
around or not (`AlwaysIterAgrees`). `RingImplementsHistory`: each push, clear and
truncation of array and tail is that step of `BoundedHistory` on what `get()` shows,
for any number of slots; a push that overwrites the oldest is the case that counts.

**RFCOMM.** `FailsForCause` is about the moment an attempt gives up and says nothing
of how it got there. `LinkInv` adds that the current socket is sound
(`CurrentSound`: threads, channel ends and what is on its way agree) and that a
channel which always answers has been passed over only if an earlier socket kept it
(`PassedOver`). From it `AlwaysTyped`, `AlwaysFailsForCause` and `AlwaysLossHeard`,
for any channels, sockets, room and leaks. Sockets carry sequences, so the types are proved
first and every action has a lemma of what it does to one socket.

**The noise mode.** `AnswersOwn` needs that a command is in one place at a time: a
call that has not queued its command has none in the channel, in the hand of the send
task or written, and the channel holds none twice (`CommandsSound`). For
`AgreesUnlessRaced` the invariant looks ahead (`ModesFollow`): the last notification
on its way is of the headset's mode; and while nothing has raced, at most one call
has its answer and has still to store, what it will store is the mode the headset
ends with, and with no such call what the service shows once it has read what is on
its way is the headset's mode. From them
`AlwaysAnswersOwn` and `AlwaysAgrees`, for any calls, modes and size of the channel.

**The attributes.** Both properties are about quiet moments, so each invariant says
for every cell what must still come. `TellInv`, of what clients are shown: somebody
will yet publish, or a publisher at work has the cell still to read, or carries what
it is, or it is shown and whoever carries something else was overtaken
(`Covered`); from it `AlwaysShownIsKnown`. `FollowInv`, of what the service knows: the
last report of an attribute on its way is of what the headset is; and once no report
of it is to come and no command on its way changes it, the cell fits what the headset
is, and so does what every call that has sent a command has still to store
(`Tracks`), unless the cell is in `raced`. A call whose packet timed out needs nothing
more: its packet is on its way like any other. What the processor of an earlier
connection writes is in `raced` until the next report (`OldTracks`). A new connection
asks for everything that is followed, so nothing known before it matters
(`ConnectTracks`). From it `AlwaysFollowsHeadset`, for any headsets, calls, requests
and any number of connections lost or cut.

**Only model-checked.** Everything that needs fairness: `DisconnectCompletes`,
`LossReported`, `ConnectingEnds`, `LossNoticed`, `EventuallyDelivered`,
`DisconnectReturns`, `AbandonedClosed`. The provers have no fairness rules and no
`ENABLED`. Every safety property a passing run checks is a theorem. What the theorems
leave to the instances is how far their constants' assumptions describe real data:
that the code's checksum is a `Crc` as assumed, and that `MCHeadsetState`'s tables
are those of the headsets.

## 6. Disagreements found

* `manager_leak` — `handle_adapter_lost` (`bluetooth/manager.rs:566`) aborts a
  connecting task and leaves its address in `aap_connecting`; when the adapter
  returns, the reconnect it promises is refused.

The rest are visible in the models without a run of their own:

* after `handle_adapter_error` an adapter can become Active again with the handle
  of a monitor that has ended; "Restart monitor if needed"
  (`bluetooth/manager.rs:519`) tests only for a handle;
* with exactly N elements pushed `iter()` of the ring yields nothing, although
  `len()` is N (`ringbuf.rs:81`); `IterAgrees` leaves that length out;
* `save_to_study` keeps five samples and counts them again at the next save: at
  once when the processor of a connection that `disconnect()` closed saves in
  turn, and every tick once they are five minutes old. `RecountBounded` shows
  that no more than those are counted twice by any one save;
* dropping a Nothing/CMF connection does not end its packet processor:
  `abort_all()` cannot stop a reading thread that runs (`bluetooth/rfcomm.rs:121`),
  so the handle of `connect()` need not resolve "when the connection is closed"
  (`airpods/device.rs:360`) until the peer closes. `WakeClosed` of `AirPodsLink`
  leaves such objects out. In `RfcommLink` the socket left open keeps its channel
  from the next attempt, and its processor, when it ends, takes down whatever
  connection is stored by then;
* the answer of a channel to the probe counts only if its first read holds a whole
  frame (`nothing/device.rs:158`);
* a setter stores an attribute without a signal, so `NoiseControlChanged` (the
  repository's `README.md:278`) is not sent for it, and may store it over a newer
  one (`raced`); a feature the headset changes by itself is stored without an event
  (`airpods/device.rs:705`), so clients learn of it with the next one (`silent`);
  two D-Bus calls that overtake one another may leave the older property published
  last (`crossed`);
* "so we can resume all of them" (`media_control.rs:14`) fails when a second
  removal of a bud pauses another player: the list is replaced (`overwritten`). And
  "since we've resumed them all" (`media_control.rs:68`) clears the list also when a
  `Play` failed: that player stays paused and is forgotten (`refused`);
* `connect_blocking` returns with `?` past an open descriptor when the wait for the
  peer fails (`bluetooth/rfcomm.rs:191`, also 171 and 194), so each failed wait
  leaks a socket (`Leftovers`);
* `connect()` starts the processor before `init_session` (`airpods/device.rs:383`,
  390) and ignores its failure: a save in between or after it finds no record, counts
  nothing and trims the history all the same;
* `disconnect()` leaves the processor of its connection running
  (`airpods/device.rs:400`): its last reports may be stored over those of a new
  connection, and its end takes that connection down (`OldUpdate`, `OldEnds`);
* the flag `is_connected` can stay raised over an empty slot (`connect()` raises it
  after a dying processor lowered it), and `aap_connecting` does not prevent a
  second AAP task on one object (a late report of an earlier task takes the mark
  away). What *is* shown is that neither leaves a connection unwatched nor a
  device hanging;
* `parse_metadata` slices `payload[i..i.min(..)]` (`airpods/parser.rs:237`), which is
  always empty: no name is ever found. Not modelled; seen while reading.

## 7. Not modelled, and why

* **The cleanup after the manager's loop** runs when every handle of the manager
  is gone, which is the end of the process.
* **Events of the manager** (`DeviceConnected` and so on) and their order against
  the processor's: planned.
* **A full loopback channel met by the manager itself** in the middle of a
  handler: the model waits before the handler, the code inside it. Planned.
* **Running out of descriptors**: `MaxLeaks` bounds the leaked ones, and what
  `socket()` does when there are none left is left out.
* **The events of a connection made or ended** in `HeadsetState`: they have the
  property published once more, with no cell changed.
* **`passthrough`**, which sends bytes and stores nothing, and the headset's name,
  which `parse_metadata` never finds.
* **Operation ids**: a counter nothing reads back; answers are matched by command.
* **Byte layouts** of reports other than the levels and the frame: `HeadsetState`
  takes a report as the value it stands for.
* **Estimates** shown to the user: floating-point arithmetic over what
  `BatteryTracker` keeps; TLC and the provers have no reals to check it with.
  The noise mode under which a rate is filed is left out with it.
* **LMDB**: a transaction per call; modelled as one step of the caller.
* **The rest of the D-Bus service** (plain queries), **configuration, recognition,
  plasmoid, scripts**: no state of their own that takes part in a protocol.

## 8. Plan

Done, in order of importance: `AirPodsLink`, `BluetoothManager`, `EventProcessor`,
`Ring`, `BatteryTracker`, `NoiseControl`, `MediaControl`, `RfcommLink`,
`NothingFramer` with `FrameStream`, `HeadsetState`. To come:

1. `Announcements` — the manager's and the processor's events through the event
   processor: the last one a client sees agrees with the state.
2. Loopback capacity — the manager blocked on its own channel in a handler.
3. Retries that are turned away: whether a device in `WaitingToReconnect` is
   reached again.

Proofs to come: the safety part of what is still to be modelled.
