# A TLA+ model of the server room monitor

The program watches a server room. An Arduino reads sensors, drives the power
buttons of the servers through relays, and talks to a central server, a C++
process that passes every message of a network on to all devices connected to
it. This directory models the concurrency of the central server, the timed
behaviour of the Arduino and both ends of the connection between them, checks
the models with TLC, and proves with TLAPS the central server's memory
management and broadcast, the agreement of the programs on their messages, that
both ends of a connection stay in step with the stream between them, the time
limits of `receive_message`, and the Arduino's timing of orders, alarms,
readings and pings.

Contents: [inventory](#inventory), [modules](#modules),
[runs](#runs), [proofs](#proofs), [divergences](#divergences),
[what is not modelled](#what-is-not-modelled), [plan](#plan).

## Inventory

### Central server (`src/server`)

| part | state | operations | who calls it |
| --- | --- | --- | --- |
| accepting and dispatching (`server.cpp`, `main.cpp`) | the list `connected_devices` | accept a connection; make a `DeviceData` and a thread for each | the process's first two threads |
| device threads (`device.cpp`) | `DeviceData`: descriptor, network, state, time of the last message, `sending_buffer` with its mutex and condition | `handle_device` pings every 5 s, `handle_device_receiver` reads and verifies, `handle_device_sender` flushes the buffer | one thread each, per connection |
| reference counting (`memory.cpp`) | `memory_pointers` in every `DeviceData` | `acquire`, `release` (closes and deletes at zero) | all threads of a device, the registry, every broadcast |
| registry and broadcast (`network.cpp`) | `network_devices`, a set of devices ordered by descriptor | add, remove, `broadcast_to_network` | the receivers |
| message I/O (`utility.cpp`) | none | `send_message`, `receive_message` with time limits | senders and receivers |

Hard here: three threads per device and any number of broadcasts share one
object; the condition wait has no predicate; references are given back before
the last use; descriptors are reused; `send` may block or kill the process.
Correct means that no object is used after its deletion and every object is
deleted, that a broadcast reaches exactly the working connections, in order and
once, and that nobody waits for ever.

### Arduino (`src/arduino`)

One thread runs `loop()` of `main.ino`, which visits every part in turn, so
each part is late by as long as the others take.

| part | state | operations |
| --- | --- | --- |
| power control (`ServersHandler.cpp`) | operation, timer and time of the last data per server; relay pins | `loop` (buttons, phases), `turnOn`, `turnOff`, `restart`, `pingFromServer` |
| alarm sensors (`FlameHandler.cpp`, `SmokeHandler.cpp`, `MotionHandler.cpp`) | alarm, time of reading, time of detection | `loop` and the getter |
| temperature and humidity (`TemperatureHumidityHandler.cpp`, `cactus_io_DHT22.cpp`) | last values, the driver's data and its time | `loop`, `readHumidity`, `readTemperature` |
| network (`NetworkConnection.cpp`, `NetworkReceiver.cpp`, `NetworkSender.cpp`, `NetworkHandler.cpp`) | the TCP client, times of the last pings, the connection number, a message buffer and its index | `keep_connected`, the receiver's `loop`, `send`, `receive` |
| main program (`main.ino`) | `sending_timer` | `report_data_to_server`, `processing_unit`, `loop` |
| error reporting (`ErrorHandler.cpp`) | none | prints |

Hard here: `millis()` wraps every 49.7 days, in the middle of an operation too;
a push button stops the loop as long as it is held; messages come in pieces
over many rounds, on connections that break in between; sensors fail. Correct
means that an order becomes the right sequence of presses with the right
durations, that an alarm is raised, held and told, that values are checked ones,
and that the receiver stays in step with the stream and the connection is
replaced when, and only when, it should be.

`src/arduino/server` is an identical copy of `src/server`, so the modules about
one are about both. `src/protocol` describes the message format that both sides
share: a header with two signatures, one for the server and one for the devices
of the network, and an encrypted end. Correct means that both sides take the
same bytes for a message and the same messages for good ones.

## Modules

| module | models | lines of it |
| --- | --- | --- |
| `Relay` | the central server: connections, threads, counting, registry, broadcast | device.cpp, memory.cpp, network.cpp, main.cpp, the accept loop of server.cpp |
| `Multicast` | what network.h promises of the registry: a message reaches, in order and once, those who are members when it is cast | abstract specification of `Relay` |
| `DeviceLifetime` | what memory.h promises of a shared object: users join while it lives, the last to leave frees it | abstract specification of `Relay` |
| `RelayProofs` | theorems about `Relay` for any number of devices and descriptors: counting, descriptors, registry, and the refinement of `DeviceLifetime`; then the mutex of a sending buffer, who is listed, what is delivered, and the refinement of `Multicast` | |
| `Protocol` | a message on its way: what each side converts, encrypts, signs, compares and decrypts | NetworkSender.cpp, device.cpp, NetworkReceiver.cpp |
| `ProtocolProofs` | theorems about `Protocol` for every device, type and length, and about the messages there are; lemmas about the streams of `Frames` | |
| `Frames` | messages as bytes of a stream; used by the next two | message.h, NetworkReceiver.cpp |
| `DeviceReceiver` | the receiver of one connection over `recv`, with its time limits, and a device that writes byte by byte | device.cpp, utility.cpp, NetworkSender.cpp |
| `ReceiverProofs` | theorems about `DeviceReceiver` for any lengths, limits and buffers | |
| `ServersHandler` | power control and the orders of `processing_unit` | ServersHandler.cpp, main.ino |
| `PowerPlan` | an order as a plan of phases in real time | abstract specification of `ServersHandler` |
| `ArduinoNetwork` | keeping a connection and cutting the stream into messages, while the server's `send` may block | NetworkConnection, NetworkReceiver, NetworkHandler, send_message of utility.cpp |
| `Monitor` | the alarm sensors and the periodic report | the three handlers, main.ino |
| `Dht` | temperature and humidity: handler over driver | TemperatureHumidityHandler.cpp, cactus_io_DHT22.cpp |
| `ClockProofs` | lemmas about unsigned differences of a clock that wraps; used by the proofs about the Arduino | |
| `ServersProofs`, `MonitorProofs`, `NetworkProofs`, `DhtProofs` | theorems about the module each is named for, for any limits and any wrap | |
| `MCRelay`, `MCServersHandler`, `MCArduinoNetwork`, `MCDeviceReceiver`, `MCMonitor` | constants for TLC | |

`PROJECT.json` maps every definition to its source lines. Definitions called
`X_Y` are `X` with a plausible slip `Y`; replacing `X` by it makes the property
named there fail, which shows that the property depends on the code.

### How `Relay` corresponds to the code

A step is a critical section, or the code between two. `itmes_mutex` and
`network_devices_mutex` are released in the section that takes them, so the
sections are atomic steps and the mutexes need no variable. `new_message_mutex`
is held across steps, by the sender while it sends and by a broadcaster between
`release` and the signal, and is the variable `locked`. Steps of one thread
that no other thread can tell apart are one: the two sections that set WORKING
and take the registry's reference (`Verified`), and the release of that
reference with the section that sets ENDED (`RecvEnd`).

- A verified message is either a ping, which is not broadcast, or a data
  message, known by its origin and its number. `ping_queued` stands for any
  number of pings in the buffer: they differ in nothing the properties see.
- `receive_message` is its outcome: a message, or -1 for any of its reasons
  (`RecvFail`). The 30 s limit ends a connection in the same way. How it comes
  to that is `DeviceReceiver`.
- `memory_pointers` is a natural number. The field is small, but the number of
  users bounds it.
- The kernel gives `accept` some descriptor that is not open. It gives the
  lowest; the model allows any.
- `send` on a connection the peer has reset raises SIGPIPE, which the program
  neither handles nor blocks: `SenderKilled` ends the process.
- An access to a deleted object is undefined. What it does to the rest of the
  model is chosen from what the build can produce: it goes unnoticed, it kills
  the process, or the thread hangs on the memory it finds (`sendPc = "lost"`).
  `uaf` records every such access.
- As a `Multicast`, the members are the registry. A message is cast when
  `broadcast_to_network` lists the targets (`CastCount`); the channel from an
  origin to a device is the message the device is still a target of
  (`Channel`); and a device is given it when it is pushed into its buffer
  (`Given`, what the sender has handed over followed by the buffer).

### How the two ends of a connection correspond

`Protocol` has one operator per function. A word of a header is a value that
may have its bytes reversed; `htonl` reverses them. A digest is known by its key
and the words it covers, as they are in memory, and a text by the keys it is
encrypted under, so HMAC and AES are taken to be as good as their names. The
names of `Packet` are the messages there are, by who made them. The server's
`HMAC(..., NULL, ...)` returns a buffer all its threads share: `OverwrittenPing`
is a ping that was given another thread's digest, `HandleOverwritten` of
`DeviceReceiver` a comparison with one.

In `Frames` a byte is known by its place in a message. If a program ever read a
header at the wrong place, the length it finds would be any (`LengthRead`) and
the message no message (`IsFrame`).

`DeviceReceiver` has a step for each return of `recv`: some bytes, none, the
end, -1. `recv_counter` wraps like the `uint16_t` it is and -1 is added to it.
There are four limits of time: 30 s since a verified message, looked at once in
a message; 13 s in each `receive_message`, looked at after each `recv`; 15 s in
a `recv`, from the listening socket, whose options accepted ones inherit on
Linux; and the tries of the device for a message. The device is
`ethernet_send_message`, one `write` a byte. When it gives up,
`keep_connected` replaces the connection and `report_data_to_server` does not
look, so the rest of the stream is out of step (`torn`).

### How the Arduino modules correspond to the code

A round of `loop()` visits the parts in order; `Tick` lets time pass between
any two steps, at most `MaxPass` in a round. `millis` and all timers are
counters modulo `Wrap`, where the code has 2^32. History variables measure the
same times in real time; they are the only ones that properties use as such, so
that a comparison that is wrong across the wrap shows.

- `ServersHandler`: a push button that is down holds the loop (`pc = "held"`).
  Orders carry any integer; `server_number` is `atoi` followed by the conversion
  to `uint8_t`. The payload of server data is JSON, of which `atoi` makes 0.
  A relay pin becomes an output without being written, so it is LOW, which
  presses the button, until something operates it (`driven`). `turnOn`,
  `turnOff` and `restart` are declared `boolean` and return nothing on success;
  no caller uses the value, and the model takes the call to return.
- `ArduinoNetwork`: `received_message` is the buffer up to `index`. TCP
  connections may be closed by the peer, lost without a sign, reset or refused.
  The server's stream is one whole frame after another, because one thread
  writes it and `send` blocks until all is written; `blocked` is how long it
  has. Any frame may be the next: the sender thread empties `sending_buffer` from
  the front, so a ping waits behind what was queued before it, and any number of
  pings may carry a digest that was overwritten. Nothing bounds the time between
  two pings. `unheard` is how long good pings have waited without one being
  heard.
- `Monitor`: the flame and smoke handlers differ in constants only, and motion
  is such a sensor that is read in every round. `send` of a report may fail at
  any time (`Sent`); the timer is restarted all the same, and `unsent` is the
  time since it last did.
- `Dht`: a reading is one that passed its checksum, or not; a value knows of
  which it was made.

## Runs

All runs take at most about 160 s with two workers.

| run | instance | shows |
| --- | --- | --- |
| `RelayLifecycle` | 2 devices, 2 descriptors, 1 data message each way, one device may end, threads may fail to start | the reference count is the number of users; no user of a freed object; descriptors and registry are exact; the mutex has one owner; nothing broadcast is lost; an ended device is in no later broadcast; the broadcast implements `Multicast` |
| `RelayLiveness` | 1 device that sends 2 data messages, which come back to it, and may end | the counting implements `DeviceLifetime`; a buffer is flushed although signals get lost, since the next ping wakes the sender; an ended device is freed, or its sender is stranded, which happens only if it was not waiting when the end was signalled |
| `RelayCrossLiveness` | 2 devices that stay | every broadcast completes: broadcasters, senders and pings do not lock each other out |
| `RelayStranded` (violated) | 1 device | an ended device is always freed: no, see below |
| `RelaySignalAfterFree` (violated) | 2 devices | a broadcast touches live objects only: no |
| `ServersControl` | 2 servers, delays of 1 and 2, `Wrap` 5 | the relay follows operations and buttons exactly; orders are `PowerPlan`s in real time; no phase outlasts its delay by more than two rounds; a server that was heard is not switched on |
| `ServersOrders` (violated) | 1 server | the order types do what their comments say: no |
| `DeviceReceiver` | header of 2 bytes, payload 0 or 1, 2 bytes on the wire, limits of 3, 3 and 4 for 13, 15 and 30 s | the receiver is in step until the device itself gives up in a message; every whole message is handled once; a device that is not heard, or not understood, is ended in time; one that is punctual is never ended; both sides agree on what is a good message, and on what is in it |
| `ArduinoNetwork` | header of 2 bytes, payload 0 or 1, room for 4 bytes, limits of 3 and 1 for silence and pings, `Wrap` 6, connection number modulo 4 | the receiver is in step with the stream; no whole message is lost on a connection that is kept; silence and a due ping are noticed in time; the server's `send` never blocks for more than three rounds; a ping that arrived is heard within four, whatever is before it; a connection that was heard within the limit is not given up for silence |
| `MonitorAlarms` | a sensor read always and one read at intervals, a report interval of 2, up times of 4, `Wrap` 10 | an alarm is up as long as it should be and no longer; danger that lasts is detected; no alarm ends untold unless a report was refused shortly before |
| `DhtReadings` | intervals 4 and 3, `Wrap` 11 | a humidity that failed its checksum is not used; the sensor is never asked twice within its two seconds |
| `DhtRecovers` (violated) | the same | the values recover when the sensor does: no |

**Bounds.** Two devices are the least for which a broadcast has a foreign
target, and for which a descriptor is reused while another connection lives;
the theorems have no bound. `MaxMessages` bounds the data messages and not the
pings. `MayEnd` keeps the instances small: in `RelayLifecycle` one device stays
so that the other can end at every point of its broadcast.
`CountingImplementsLifetime` is checked on one device, whose threads share one
object in every order, and proved for any number. Descriptors
are a symmetry set in the safety runs; devices are not, one being the origin.
In the Arduino modules `Wrap` is a little more than the longest time the code
compares, so the clock wraps within every operation; `MaxPass` 1 is as long as
the shortest delay, so a phase may be found to end a whole delay late. Orders
name 0, 1, 2, -1 and 256: both servers, one out of range, and the two ways a
`uint8_t` conversion changes a number. The controller's buffer of four bytes
holds two pings, or a message and the beginning of the next; the connection
number has four values because three reconnections fall between two rounds of
the receiver at most. In `DeviceReceiver` the limits are longer than the time
between punctual messages, the one of the device thread (30 s) longer than the
other two, which fall together; two bytes on the wire split a
message of three in all ways; `PROTOCOL_SEND_TRIES` 1 means that one failed
`write` in a message makes the device give up, at any byte. `CounterWrap` 8 is
more than the longest part and one, as 2^16 is.

**Conditions the runs rest on.** `MonitorAssumption` has an alarm's up time
exceed the report interval by two rounds. The program's numbers satisfy it with
rounds of some seconds, and a push button held for longer breaks it.
The two properties of `ArduinoNetwork` about queues need its constants to stand
in the relations that `RoundsAssumption` names. A round of the Arduino takes at
least a header of `H` bytes off what is queued. With `L` the length of the
longest message, room for a message next to the one that is being sent is made
in `SendRounds` rounds if `L + H <= SendRounds * H + 2` (8 rounds in the program,
where `H` is 48 and `L` 303), and all that can be before a ping is read in
`PingRounds` if `L + RxBuffer <= PingRounds * H + 1`: 49 rounds for the
controller's 2 KB, and more for what the kernels hold.

No property says that the Arduino keeps a connection because the server pings on
it, and the program does not see to it. A ping counts when the receiver gets to
it, which is bounded (`PingsAreHeard`) but not by the twelve seconds allowed: a
round in which the humidity sensor is read takes 270 ms in
`cactus_io_DHT22.cpp` alone, and one with a held button any time. The server
queues a ping every five seconds at the earliest and behind other messages, and
a ping with another thread's digest does not count at all. What the code does see
to is that a connection which was made or heard within the limit is not closed
for silence (`HeardIsKept`).

`PunctualIsKept` needs a device's messages to be closer together than each limit
(`PunctualAssumption`): its pings come every 5 s and a round. `AlarmIsReported`
says nothing of an alarm that ends soon after a report could not be sent, the
code having no second try.

**Deadlock** is checked in every run. `Relay` may really come to an end, when
the process was killed or its bounded connections are over: `Finished` is a
step of its own that says when.

**Fairness.** `Relay!FairSpec` has strong fairness of each thread: the scheduler
runs every thread that can run, and a mutex that is free again and again is
obtained in the end. That `SenderFlush` happens assumes that `send` returns,
because the peer reads or the connection breaks; the time limit in
`send_message` does not bound a blocking `send`. `SendIsReleased` shows that
the Arduino's program does read. Nothing is assumed of clients.
`Dht!FairSpec` has weak fairness of the loop and of time. The time limits of the
other modules are stated as bounds in real time, which need no fairness.

## Proofs

`RelayProofs` proves, for any finite set of devices, any
descriptors and any bounds:

| theorem | statement |
| --- | --- |
| `Invariance` | `Spec => []IInv` |
| `TypeCorrect` | `Spec => []TypeOK` |
| `CountIsExact` | `Spec => []RefCount` |
| `NoUserIsFreed` | `Spec => []UsersAreSafe` |
| `DescriptorsIdentify` | `Spec => []DescriptorsDistinct` |
| `RegistryIsExact` | `Spec => []WorkingIsRegistered` |
| `ThreadsKeepStep` | `Spec => []ThreadsInStep` |
| `CountingIsLifetime` | `Spec => CountingImplementsLifetime` |
| `MutexIsExclusive` | `Spec => []MutexOwner` |
| `EndedIsNotListed` | `Spec => NoFutureBroadcast` |
| `NoneIsLost` | `Spec => []NothingLost` |
| `OriginOrderIsKept` | `Spec => []InOrderOnce`, which no run checks |
| `BroadcastIsMulticast` | `Spec => BroadcastImplementsMulticast` |

They assume `RelayAssumption` only (the devices are finite, `NoDevice` and
`NoFd` are not values of their kind).

The argument. `RefCount` and `UsersAreSafe` are not inductive: whether a release
is the last one depends on who else is there, which depends on where the threads
of a device stand to each other, on the registry, and, because the registry
compares devices by descriptor, on the descriptors. `IInv` is the conjunction of
`TypeOK`, `RefCount`, `UsersAreSafe`, `DescriptorsDistinct`,
`WorkingIsRegistered` and `ThreadsInStep`; `RelayLifecycle` checks each of them.
The heart is the lemma `EveryUserStep`: every step either keeps the users of all
objects and the counts, or lets one user join objects that live and counts it,
or lets one user leave one object and counts that; the cardinality of the set of
users follows. The other parts are preserved action by action. The refinement
has the same three cases, each a step of `DeviceLifetime` or a stutter, and
`AdmissionUsers` for the steps that create objects.

`MutexOwner` is inductive relative to `IInv`, which says that a broadcast has a
target while it pushes and signals. `EveryMutexStep` sorts the steps: a step
takes one free mutex, gives back one that it has, or leaves all of them and
their owners alone. `NoFutureBroadcast` follows from `WorkingIsRegistered`: only
`Collect` makes a message due, and it asks the registry.

For the deliveries, `NothingLost` needs that what a broadcast is about to push
is its origin's latest message and no target has it yet, and `InOrderOnce` that
nobody was given a message that was not received (`OnlySent`). With the mutex,
a step is one of four kinds for every device: it leaves buffers and handed
messages alone or moves the one into the other, reads a message, lists the
targets of a message, or queues it for one target. In the refinement these are
a stutter, perhaps with `Add` or `Remove`, a stutter, `Cast` and `Give`.
`InOrderOnce` is proved and in no run: it takes two broadcasters, one of them
with two messages, to say anything, and that instance is too large for TLC. The
order of two messages in `Multicast` is likewise covered by the proof, since
`RelayLifecycle` has one message of each origin.

`ProtocolProofs` proves, for every device (a network and two keys), type and
length of a message, by following the words through each conversion:

| theorem | statement |
| --- | --- |
| `RelayedIsSent` | the server relays what it received, word for word |
| `VerifiedIsSigned` | it takes a message for good exactly if the device is of network 0 and has the server's key |
| `AcceptedIsSigned` | a device takes a message, of type 0 apart, for one exactly if it has the sender's key and its own identifier equals the sender's with its bytes reversed |
| `OnlyNetworkZero` | so devices of one network hear each other only if its identifier is 0 |
| `VerifiedKinds` | of the messages in `Packet`, the server takes for good those of a sender of network 0 with its key, and its own pings unless their digest was overwritten |
| `AcceptedKinds` | of those, an Arduino takes for orders the ones of its network and key that are no pings, and knows the server's pings as such |

They rest on what `Protocol` says of HMAC: two digests are equal only if their
keys and what they sign are.

The two ends of a connection are proved about for any length of a header and of
payloads, any sizes of the buffers and any kinds of messages the assumptions
allow; `NetworkProofs` thereby covers the server's data messages without payload
(`"empty"`), which the run leaves out:

| module | theorem | statement |
| --- | --- | --- |
| `ReceiverProofs` | `ReceiverTypes` | `Spec => []TypeOK` |
| | `StreamIsKept` | `Spec => []InStep` |
| | `MessagesAreHandled` | `Spec => []NothingSkipped` |
| | `PeersAlwaysAgree` | `Spec => []PeersAgree` |
| | `SilenceEnds` | `Spec => []SilentIsEnded` |
| | `PunctualStays` | `Spec => PunctualIsKept` |
| `NetworkProofs` | `NetworkTypes` | `Spec => []TypeOK` |
| | `StreamIsKept` | `Spec => []InStep` |
| | `OrdersAreDelivered` | `Spec => []NothingSkipped` |
| | `SendsAreReleased` | `Spec => []SendIsReleased` |
| | `PingsAreRead` | `Spec => []PingsAreHeard` |

They assume `FramesAssumption` and `ReceiverAssumption`, `PunctualStays` also
its `PunctualAssumption`, or `NetworkAssumption`, `SendsAreReleased` and
`PingsAreRead` also `RoundsAssumption`. Two clauses of these say who
writes to a connection: what a device sends to the server is none of the server's
own pings (`ReceiverAssumption`), and the server relays only what it has
verified, hence no message of an unknown sender (`NetworkAssumption`).

The argument. Neither `InStep` nor `NothingSkipped` is inductive. Both modules
strengthen them to a `StreamInv`: what was read and not handled, followed by what
has arrived, is a stream of frames without a gap that begins at a boundary; its
last byte is the one before the byte that is written next (`LastFits`); and what
the reader holds is less than one message, unless it is just handing that one
over (`Counts` with `InFrame`, `Wholeness`). From this, `HeaderRead` and
`FrameIsCut` say that the length found in the header is that of the frame, so
that a reader which takes as many bytes as it says takes one frame and leaves a
stream. `EndsAreCut` counts the whole frames of a kind by their last bytes
(`Ends`): cutting a frame takes off one of its kind, and appending a byte adds
one exactly if it is a last byte; this is what `owed` counts. That a stream of
which the first `k` bytes belong to one frame has no smaller end is shown by a
least counterexample, as the prover has no induction over data.

`StreamInv` of `DeviceReceiver` also says that `recv_counter` is what has been
read of the part, so that adding -1 to it can complete no part, and that what a
healthy device wrote is verified to the last byte (`Signed`). On the Arduino the
receiver learns of a new connection by its number only: `LeadIsSmall` says that
it is never more than three connections behind, which is why a `uint8_t`
suffices. `NothingSkipped` rests there on `AcceptedKinds`, and `PeersAgree` on
it and `VerifiedKinds`: a frame that is handled is one packet of those there are.

For `SilenceEnds`, `InTime` bounds the time since the last verified message by
the limit, the parts of the message read since it was looked at, each of them at
most `RecvTime - 1 + SO_RCVTIMEO` because `receive_message` looks at its time
only after a `recv`, and the time spent elsewhere. For `PunctualStays`, `Heard`
ties the age of a `recv` to the time since the device last wrote a message whole,
as long as nothing is on the wire, and the age of `receive_message` to it as
long as no end of a message is on the wire: `NoEndIsTaken` says that
`receive_message` calls `recv` again only while it has less than one.

`SendsAreReleased` and `PingsAreRead` count rounds of `NetworkHandler::loop`.
Each call of the receiver parses one message, hence a header at least, unless
less than a message is there (`Takes`, `TakesNone`). `BlockedInTime`: what the
message being sent still needs beyond the room in the buffer is a debt; `j`
rounds have paid `j` headers of it and the send has been blocked for `j` rounds
at most (`FreedBy`); a debt larger than `SendRounds` headers does not fit into a
message. `HeardInTime`: a good ping is `Queued` so near that the rounds left can
reach it, and has waited for no longer than the rounds that are over
(`LeftIsReadable` at first); what arrives comes behind it, and a round moves it
nearer by a header or more, or takes it.

The modules about the Arduino are proved about for every number of servers and
sensors, every delay, interval and number in an order, and every wrap of the
clock that is larger than the times compared, so for the 2^32 of the program:

| module | theorem | statement |
| --- | --- | --- |
| `ServersProofs` | `TypeCorrect` | `Spec => []TypeOK` |
| | `RelayIsOperated` | `Spec => []RelayFollowsOperation` |
| | `OrdersEnd` | `Spec => []OrdersEndInTime` |
| | `HeardIsNotPressed` | `Spec => NeverPressesHeard` |
| | `OrdersArePlanned` | `Spec => OrdersArePlans`, the refinement of `PowerPlan` |
| `MonitorProofs` | `TypeCorrect` | `Spec => []TypeOK` |
| | `AlarmStaysAndEnds` | `Spec => []AlarmIsHeld` |
| | `LastingDangerAlarms` | `Spec => []DangerIsDetected` |
| | `NoAlarmEndsUntold` | `Spec => AlarmIsReported` |
| `NetworkProofs` | `SilenceEnds` | `Spec => []SilenceIsNoticed` |
| | `PokesInTime` | `Spec => []ServerIsPoked` |
| | `HeardStays` | `Spec => HeardIsKept` |
| `DhtProofs` | `TypeCorrect` | `Spec => []TypeOK` |
| | `HumidityIsGood` | `Spec => []HumidityIsChecked` |
| | `SensorHasTime` | `Spec => SensorIsNotRushed` |

They assume `ServersAssumption`, `MonitorAssumption`, `NetworkAssumption` and
`DhtAssumption`, which say that a limit and the rounds in which it is acted on
stay below `Wrap`; for `Monitor` also that an alarm's up time exceeds the report
interval by two rounds.

The argument is the same in all of them. What a program compares is
`millis() - timer` in unsigned arithmetic; `TimerTicks` says that it grows with
real time as long as it is below the wrap. So the inductive invariant has two
halves that need each other: the timers show the real times of the history
variables (`TimersAreExact`, `AlarmTimersAreExact`, `PokesAreExact`), for which
the times must stay below the wrap; and the times are bounded, by the limit, one
round, and what has passed of the present round (`PhasesEndInTime`,
`ReadsInTime`, `SilenceInTime`), for which the comparisons must be exact. The
second half is sharper after the loop has looked at the timer in this round than
before, which is why the limits of the properties have two rounds in them.
`OrdersArePlanned` follows: the loop ends a phase when the timer says so, and
the timer is the `elapsed` of `PowerPlan`. For alarms, `UntoldIsNew` says that
one which no report has told was raised after the last report, or that one could
not be sent. The driver of the humidity sensor takes its last reading for one
made at 0 after a wrap; `AgeIsNotOverrated` says that it never
takes its data for older than it is while the sensor may not be asked, and
`FailureShows` that rejected data are never there without a value that is not a
number, which stops the handler before it would use them for a humidity.

Only model-checked: liveness under fairness, that is `BufferIsFlushed` and
`EndedIsFreedOrStranded` of `RelayLiveness`, `BroadcastCompletes` of
`RelayCrossLiveness`, and what `DhtRecovers` refutes. It stays with TLC for good:
the prover does not handle `ENABLED`. It also cannot do induction over data or
recursive operators; the modules that are proved about use neither.

## Divergences

Shown by a run that TLC finds violated:

1. `RelayStranded`: the wait at `device.cpp:140` has no predicate, so the signal
   of the end is lost on a sender that is not waiting; it then waits for ever,
   and the connection's object, thread and descriptor are never freed.
2. `RelaySignalAfterFree`: `broadcast_to_network` releases a device
   (`network.cpp:62`) before it signals and unlocks it (63-64).
3. `ServersOrders`: message types 0x51 and 0x52 are exchanged in
   `processing_unit` (`main.ino:73-78`).
4. `DhtRecovers`: `TemperatureHumidityHandler::loop` (17) returns when the last
   value is not a number before it reads again: one failed reading is final.

Seen while modelling, and part of the models without a run of their own:

- `release` unlocks the mutex inside the object it has deleted (`memory.cpp:24`);
  a sender that first runs after its connection has ended takes a reference to
  a deleted object (`device.cpp:134`).
- `DHT22::read` answers from data that failed its checksum
  (`cactus_io_DHT22.cpp:96`, "return last correct measurement"): after a failed
  humidity the temperature is made of the rejected bytes.
- `serversLastPing` starts at the current time (`ServersHandler.cpp:12`): for a
  minute every server counts as on without having sent anything.
- Server data of any server counts as server 0's (`main.ino:68`).
- `is_valid_message` compares the network identifier before it converts its byte
  order (`NetworkReceiver.cpp:78`), which only the configured 0 survives
  (`OnlyNetworkZero`).
- `HMAC` is called without a buffer by several threads (`device.cpp:32`, `178`)
  and then returns a static one, which may be overwritten before it is compared
  or copied: a good message is dropped, or a ping sent that nobody can verify.
- "max time of [SEND_TRY_TIME, SEND_TRY_TIME+1]" (`utility.h:10`): a `send` to a
  peer that does not read blocks as long as the peer likes, since the socket has
  no limit for sending; `recv` may take 15 s more than its 13.
- The signatures cover "last 32 bytes of header" and the payload according to
  `protocol-documentations.md:46-47`; both programs start at byte 8 and cover 40.
- A `recv` of no bytes, for a message without payload, waits on Linux until
  something comes (`device.cpp:95`): a ping is handled when the next message
  begins. It is within the limits (`PunctualIsKept`).
- Timestamps are sent as all ones and never checked; the specification has
  messages valid for ten seconds.

## What is not modelled

- HMAC, SHA-256 and AES themselves: libraries', taken by what they promise.
- The layout of a header: its words are fields of a record.
- Opening the listening socket and the SIGCHLD handler (`server.cpp` 1-106),
  `setup()` of the Arduino beyond the initial state, and printing: straight-line
  I/O.
- `ErrorHandler`: prints.
- The age of a server's data wraps after 49.7 days of silence, after which it
  counts as on for a minute; the models cap that history, so no property is about it.

## Plan

Done: `Relay` with its refinements of `DeviceLifetime` and `Multicast`,
`ServersHandler` with `PowerPlan`, `Monitor`, `Dht`, `Protocol`,
`DeviceReceiver` and `ArduinoNetwork`, with the proofs of all their safety
properties.

Left, in this order:

1. One round of `main.ino` that composes power control, sensors and network: the
   parts share the clock only, and each module already lets the others take any
   time up to its bound, so this adds no behaviour, but would derive `MaxPass`
   from the button's time instead of assuming it.
