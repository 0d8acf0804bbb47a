# A formal model of domo-wot-bridge

The bridge (`src/src/`, Rust, tokio) connects three kinds of devices to a
distributed hash table (DHT) of a smart home: ESP32 actuators (Shelly Plus),
which open a WebSocket *to* the bridge and also relay BLE beacons of radiator
valves, thermometers and contact sensors; ESP8266 Shelly devices, which the
bridge finds by mDNS and opens a WebSocket *from* the bridge to; and Bluetooth
valves, reached only through an ESP32. This directory holds TLA+ modules of
the parts whose correctness depends on what happens in which order, the TLC
configurations that check them on small instances, and TLAPS proofs of what
matters most for instances of every size.

    ValveService            what the valve queue promises (abstract)
      ^ refined by
    ValveCommands           the valve command queue        ValveCommandsProofs
      ^ extended by
    ValveDelivery           queue, ESP32s, valves and reports, end to end
                                                           ValveDeliveryProofs
    Keepalive               Pings and Pongs against time   KeepaliveProofs
    BroadcastChannel        the tokio broadcast channel (operators)
                                                           BroadcastChannelProofs
      ^ used by ValveDelivery, DeviceControl, ContactSensor and
    EspSessions             ESP32 sessions and the main loop that feeds them
                                                           EspSessionsProofs
    ShellyConnections       connections to WiFi Shelly devices
                                                           ShellyConnectionsProofs
    DeviceStatus            what a status means to a source; modes (operators)
      ^ extended by
    CommandParser           what order a command becomes (operators)
      ^ extended by
    DeviceControl           one actuator from command to status of its sources
                                                           DeviceControlProofs
    BleParsing              index arithmetic on BLE frames (operators)
      ^ extended by
    ContactSensor           a contact, its topic and its window sensor
                                                           ContactSensorProofs

`MC*.tla` and `*.cfg` instantiate them for TLC. `PROJECT.json` lists, for every
definition, the lines of source it translates. Definitions whose comment says
*(Mutant: ...)* are faulty variants of the definition that follows; nothing in
the specifications uses them. Substituting one for its original must make a
stated property fail, which is how the strength of each property is measured.

## 1. Inventory

One tokio task runs `main` (`main.rs`): a loop over one `select!` with branches
for the DHT, the credentials of ESP32s, mDNS, two channels of updates, the
Shelly connections, the ping timer (10 s), the valve timer (20 s) and the mode
timer. A branch that has been chosen runs to its end, awaits included, before
any other is looked at; futures of branches not chosen are dropped. Besides it
there is one task per ESP32 WebSocket. They share nothing but channels.

| Component | State | Operations | What makes it correct |
|---|---|---|---|
| Valve command queue (`utils.rs`, `main.rs`) | pending command per valve with its attempts; best actuator per valve; addresses that ever authenticated | accept a command, re-send on the timer, take a beacon, take a status | an order leaves the queue only when it is satisfied, spent or replaced; the attempts counted are the messages published; the best actuator is the strongest heard since it was stored; every order that can be sent is concluded |
| ESP32 sessions (`wssmanager.rs`, `messages.rs`) | per task: its command receiver, address, last Pong, oneshot responder; the credentials channel (32), the command channel (broadcast, 16) | upgrade, send credentials, take the answer, take commands, Ping/Pong, Close | an answer reaches the task that asked; no command published since the subscription vanishes without a reason; skipped only beyond the capacity |
| Keepalive (`main.rs`, `wssmanager.rs`) | schedule of the ticks; age of the last Pong per session | tick, publish a Ping, answer it, give the device up | an answering device is never cut off; a silent one always is |
| Shelly connections (`globalshellymanager.rs`, `shellymanager.rs`, `main.rs`) | list of connections, index of a scan, state of each stream | discover, read, remove a closed one, scan and reconnect, drop for a mode change | no duplicate, no stale entry missed, only broken ones dropped, the main loop never spins or panics |
| Device status in the DHT (`main.rs`) | topics of actuators, contacts and sources; the connections between them | take a status, copy it to every source connected to the device, take an advertisement | the topic is the state last reported; every source shows what its actuator's topic shows; nothing on the way is handled twice or out of order |
| Command parser (`command_parser.rs`, `dhtmanager.rs`) | none | user command to device command | an order sets what the source of the command mirrors: what was asked for comes back |
| Device modes (`main.rs`) | none besides the lists above | `calculate_mode` and two mode checks | a device converges to the mode its connections ask for |
| BLE parsing (`bleutils.rs`) | none | frames to readings | slices stay within the frame |
| mDNS, DHT access, start-up (`main.rs`, `dhtmanager.rs`) | external | look-ups and configuration | not state machines of their own |

What is hard to test here:

* the DHT, beacons, timers and commands meet in the valve queue in any order;
* the command channel overflows silently, and sessions subscribe before they
  are authenticated, so what they missed and what they did not is subtle;
* the session judges its device by a clock although the Pings come from a main
  loop that can be held up: each unreachable Shelly costs the scan a connection
  attempt (up to 10 s for the WebSocket handshake, tried twice, and a TCP
  connect that has no timeout of its own);
* ticks that were missed are not skipped and arrive in a burst;
* the Shelly list is scanned and filtered by index while it shrinks, and entries
  are found by mac address although they are told apart by mac and IP address;
* a stream that has ended answers at once and for ever, without awaiting;
* reports of all devices share two channels of 16 messages that overwrite the
  oldest, and a stream that is replaced takes its unread reports along: which
  topic may then be wrong, and until when?
* a topic and the topics of the sources connected to it are written one after
  another, and the bridge may crash in between; connections change meanwhile;
* orders to a valve are resent, go through different ESP32s and overtake each
  other, while the queue judges them by a topic that lags behind; so do the
  reports, which wait in the sockets of sessions that are tasks of their own;
* two functions written apart, the parser of commands and the mirror of states,
  must agree on what every channel number means;
* advertisements arrive through several ESP32s with different delays.

`PROJECT.json` ("hazards") lists each at its line with the properties that
cover it, or why none does yet.

## 2. Plan

The modules were written in the order of importance of what they model: the
valve queue is the bridge's own logic, the sessions deliver what it orders,
the keepalive and the Shelly list decide whether the bridge stays usable; then
came what crosses components: the delivery of valve orders, the control of an
actuator and the contact sensors, each from the user or the device to the DHT
and back. What is left:

1. power and energy, once it is known what the firmware counts between two
   reports;
2. the Pongs of Shelly devices against time: they are read only when the main
   loop comes back to it, and a scan that waits for others may find them old;
3. more proofs: what a session of `EspSessions` does to a command, as an
   implementation of an abstract delivery service; `ShellyConnections` with several
   addresses per device, where only a weaker form of `DropsOnlyBroken` can hold.

## 3. The modules

**ValveService.** An order is none or a desired state with the number of times
it was sent. It may be placed (replacing an older one) with nothing or one
message sent, sent once more while below the budget, satisfied when the reported
status is the desired one, or given up when the budget is spent. The step of
the timer may do these to many valves at once. The service says nothing about
actuators, beacons or authentication: these are how the code decides when.

**ValveCommands.** One action per branch of `main` that touches the
`ValveCommandManager`: `HandleValveCommand` (command from the DHT),
`CheckRadiatorValveCommands` (20 s timer, all pending commands in one step, as
the branch never yields in between), `UpdateBestActuator` (beacon),
`HandleBleValveUpdate` (status written to the topic), `HandleCredMessage`. The
environment is other DHT nodes (`TopicWritten`, one topic per valve) and the
30 s age of an entry (`BestActuatorAges`). Publishing is a count: what the
sessions do with the message is in `EspSessions`. `published` and `heard` are
history variables, `requests` a bound.

**Keepalive.** Time in one unit; only ages and the time to the next tick are
kept, so nothing grows without bound. `Tick` is the passing of a unit;
`PublishPing` the ping branch of the main loop, which may be late by at most
`MaxStall`: everything the main loop does before it comes to a tick, several
branches in a row and ticks missed before included; the next tick is due a `Period` after the *schedule* of this one, so
missed ticks fire one after another. A session handles a Ping as soon as it is
published unless it still waits for its credentials: then the Ping stays
`queued` and is handled first in `EnterLoop`. A device answers within
`Latency`, unless it falls silent.

**BroadcastChannel.** Operators only (tokio's channel, as the code uses it), in two
forms. For many receivers: a log, and for a receiver the number of messages it
is past; a receiver more than `Capacity` behind gets one error and is moved to
the oldest message retained. For one receiver that ignores the error, as the
main loop does: the sequence of messages it can still read, where sending into a
full channel drops the oldest.

**EspSessions.** One record per task. The actions are the code of a task between
two uses of a channel or of the socket: subscribe on the HTTP request, send the
credentials (blocking while the channel is full), take the answer, and in the
loop take a command, a `Lagged` error, a Pong or a Close. A socket that breaks
without a Close frame only disables the reading branch: the session goes on and
the commands it takes are `lost`. On the other side the main loop answers
credentials, publishes commands, and runs the mode check entry by entry, since
sessions read while it publishes. `fate` is history: what each session did with
each command. `shelly_plus_actuators` is private to the main loop, so remembering
an address and answering are one step. Whether credentials are right and a mode
is wrong depends on the DHT and is chosen anew at each look-up.

**ShellyConnections.** The list of connections, each with a stream that is open,
closing (a Close frame or an error waits to be read) or ended (it was read).
Actions: discovery; reading a Pong; reading the end of a stream, which removes
the *first* entry with the same mac; polling an ended stream, which spins in
`wait_for_shelly_message`; the ping branch with its scan, a step per entry since
each may await a connection attempt; and the mode check, which removes indices
collected from the full list one after another. `hung` and `panicked` are states
of the main loop. Which devices a check finds in the wrong mode is chosen freely
(`WrongModes`). The collection of the indices and their removal are the loops
of the code, written as recursive functions of the number of turns. Entries are
created only for devices with credentials in the
DHT; `Address` is the set of those.

**ValveDelivery** extends `ValveCommands` and gives each of its actions what it
does outside the queue: an order published is put into `transit`, from where it
is lost (by lag, by a broken socket, by the radio) or carried out in any order,
perhaps again. An ESP32 that carries one out writes a report into the socket of a
session of its own (`CarryOut`), if it has one; each session is a task, which reads
its socket when it is scheduled (`ReportRelayed`) or ends with what it has not read
(`SessionEnds`), so reports through two sessions overtake each other. Reports and
beacons share the channel of updates; `HandleBleUpdateMessage` is the branch of the
main loop that takes one of them and dispatches it. A valve may also be turned by
hand (`TurnedByHand`), which nothing reports: a topic that no longer says where the
valve is. History: `carrier` (the session whose socket holds the report of a valve's
last move), `lost` (valves whose last move no report tells of any more), `late`
(valves of which an older report came behind that of the last move), `foreign`
(valves whose topic another node wrote since) and `goal` (what the last order asks
of a valve, unless it was accepted while an order for the opposite was under way,
or while the topic or a report already said falsely that it was done).

**DeviceStatus** and **CommandParser** are operators. `Mirror` says which property
of an actuator each field of a source's topic is a copy of
(`get_topic_from_actuator_topic`), `Takes` which reports a source follows,
`CalculateMode` the mode; `Parsed` is the order a command becomes, a raw
`shelly_actuator_command` included, which is passed on as it is. `Needed` is what
the parser unwraps of a command, `AsRead` the default of a `turn_command`.

**DeviceControl** composes them around one actuator of any kind. `UserCommand` puts
an order on its way, `Execute` lets the device carry one out and report,
`LocalChange` is somebody pressing its button, `HandleUpdate` is the whole of
`handle_shelly_message`: the topic is replaced, then every source connected to
the device is rewritten. `Crash` ends the bridge after any subset of these
writes. An ESP32 reports through the channel it shares with other devices
(`OtherDeviceReports`); an ESP8266 has a stream of its own, which `Reconnect` and
`ModeCheck` replace with all that is unread in it. `RawCommand` is an order for the
actuator itself, `UnreadableCommand` a command whose unwraps panic and end the
bridge. `Replumb` changes a connection; a dimmable light may be connected to a
channel no LED has (`NoLed`), since the topic of a connection may hold any number.
History: `gap`, `behind` and `missed` follow updates whose report was lost, `current`
the sources that took a report since they were connected, `skipped` those of them a
crash kept from being written with the last one, `goal` what the last command
asked of a source, as long as nobody else touched what it sets.

**BleParsing** has the length tests, slices and indices of `bleutils.rs` and of its
callers; a frame is a number of characters, the place of the preamble, the
length byte and what decryption finds. No form is presumed beyond whole bytes and a
preamble that fits.

**ContactSensor.** A contact moves; ESP32s hear it, some later than others or not at
all, and their sessions put advertisements into the channel of updates, next to
those of a thermometer. `HandleBleUpdateMessage` parses one, and writes the
contact's topic if its state differs; the copy to the window sensor is a step of
its own (`UpdateActuatorConnection`), since the bridge may crash before it. A frame
on which a slice fails leaves the main loop `panicked`. `Late` and `Cut` name the
frames that do, in terms of what is sent and not of the slices.

## 4. Runs

| Run | Question | Shows |
|---|---|---|
| `valve_commands` (111,792 states) | does the queue keep its promise under every interleaving? | types; a pending command is always one the timer may serve; attempts are messages published; the best actuator is the strongest heard; the queue implements `ValveService`; a command with a known actuator is concluded |
| `keepalive` (36,372) | with the whole stall budget used up? | the age of Pongs keeps pace with the publications; nobody who answers is cut off; nobody is kept longer than the limit and one gap; the silent are closed |
| `esp_delivery` (453,861) | what becomes of every command? | each is forwarded, lost to a broken socket, skipped by lagging, or still ahead; only a lag beyond the capacity skips; backlogs are drained |
| `esp_handshake` (45,078) | do competing sessions get their own answers? | credentials or answer, exactly one, for each waiting task; every active device is known to the main loop; everyone is answered |
| `shelly_connections` (4,223) | one address per device, one mode change at a time | the main loop stays responsive, only broken connections are dropped, closing ones always |
| `shelly_new_lease` (7,569) | and without those restrictions? | still no address twice and no stale entry passed over |
| `valve_delivery` (798,680) | is an order that is taken as done really done? | once the report of its last move is handled a topic is right, unless that report was lost, an older one came behind it, or another node wrote the topic; an order leaves the queue as satisfied only when the valve has moved, unless it met an order for the opposite or something that already called it done |
| `device_control` (794,647) | from a command to the status of every source | the topic is the device's state when no report is ahead or lost; sources show the topic, but for a detector whose report was lost and for what a crash left unwritten; the repair of the latter is always under way; a command that arrived comes back as it was asked |
| `device_mode` (253,174) | does the mode settle? | it does, on an ESP8266 although each check drops the stream that would bring the answer, on an ESP32 if its newest report is not crowded out for ever |
| `contact_sensor` (5,397,694) | is the window sensor right? | only another ESP32 brings an older state over a newer one; the sensor follows unless it was connected, or the bridge crashed between the two writes, since the last change; the main loop is stopped by a thermometer's frame without its last byte and a contact's with a late preamble, and by no other |
| `shelly_two_addresses` | finding | a device listed at its old and its new address: the closed new connection removes the old entry, the ended stream stays and the main loop spins |
| `shelly_two_modes` | finding | two devices in the wrong mode in one check: `Vec::remove` past the end |

The README of the repository (`src/README.md:12`) says the bridge keeps a
persistent connection "for being able to receive commands from the user"; in
the last two runs the loop that receives them is gone. Both happen in the code as
it is written: in the first, the device must get a new address while its old
connection is still listed (up to 60 s and a scan); in the second, two
ESP8266 devices must be found in the wrong mode by one check, the later of them
at the end of the list.

A third defect is part of what `contact_sensor` shows: when the length byte of a
thermometer's advertisement is the number of the bytes there are (the last one was
lost), the test `data_decoded[0] <= adslength` (`bleutils.rs:173`) passes although the
byte does not count itself, and the slice `[0..len]` of line 180 panics in the main
loop. The run contains such a frame and reaches the panic; `StopsOnlyOnDamaged` names
it (`Cut`) as one of the two kinds of frames that have this effect.

### Bounds, and why they are enough

* `ValveCommands`: two valves share the queue and the timer; one actuator (its
  identity decides nothing; actuators with no part in the choice differ by
  strength only) with two strengths; two attempts (first, one more, spent) and
  two commands, so that one can replace another. The proofs remove all these
  bounds.
* `Keepalive`: `Period` 2, `MaxStall` 2, `Latency` 1, `Limit` 5 meet the budget with
  equality, so one unit less would fail; two sessions. The proofs hold for all.
* `EspDelivery`: capacity 1 and three commands give a lag of one and of two; one
  slot, used again by later sessions; two devices, so some commands are not for
  the session; two acceptances, so that the same address can be in the list
  twice. Sessions of different slots meet only in the handshake, hence:
* `EspHandshake`: three sessions and a channel of two, so that one has to wait;
  no commands (`MaxCommands` 0, which also means no mode check that finds a
  device in the wrong mode).
* `ValveDelivery`: one valve, since valves share only the channel, where beacons
  of the same valve crowd out reports just as well; two actuators with a session
  each, so that an order, and a report, can overtake one that goes through the
  other; a report in each socket and a channel of two; two commands, each sent once,
  by the command or, if no actuator was known, by the timer. What a second sending
  would add, a copy of an order already under way or carried out, is covered by
  orders that stay in `transit` when they are carried out (`again`). The proofs
  remove all of these.
* `DeviceControl`: an ESP32 with two relays, an ESP8266 with two relays and an RGBW
  device, since the other kinds have a part of their properties; a light, a
  button, a dimmable light and an RGBW light, which stand for the four ways of
  mirroring (always, only when named as updated, by channel, all colours), in
  `DeviceMode` a shutter and an RGBW light, which call for modes; two channels and one
  no LED has, two orders under way, two steps of users or failures in any order
  (`Budget`), a channel of two. For safety the proofs remove the bounds and take all
  kinds.
* `ContactSensor`: two ESP32s that hold one advertisement each and a channel of
  two, so that an old state overtakes a newer one; two moves and two failures,
  so that the contact may be back in its first state; frames on both sides of each
  test: a contact's with its preamble at the usual place and one character
  beyond what the test on its length makes up for, a thermometer's that lacks one
  byte and one that lacks two. The proofs take all frames.
* `ShellyConnections`: three addresses, of one device each, or two of one
  device; at most `MaxWrong` devices are in the wrong mode in one check. Lists
  longer than three entries repeat the same patterns: an entry before, at and
  behind the one removed.

### Fairness, and why the code justifies it

* the valve timer and the ping timer are polled in every turn of the main loop,
  and `select!` picks at random among branches that are ready: weak fairness
  where the branch stays enabled, strong fairness where another branch can
  disable it for a while (`HandleCredMessage` during a mode check, `BeginScan`,
  `ReadCloseOf` during a scan);
* a scan and a mode check end, because each connection attempt ends in success
  or in an error;
* every session task is scheduled by tokio; a full mpsc channel serves its senders
  in order, which is stronger than the strong fairness of `SendCred`;
* in `DeviceControl` the mode timer (`ModeCheck`) and the channel of updates
  (`HandleUpdate`, strong, since `select!` picks at random and a replaced stream
  disables it) are polled like those; a device that is up carries out the orders
  it holds (`Execute`; strong for changes of mode, which a failing link may take
  from it), and one that was dropped is found again (`Reconnect`: an ESP32 opens a
  new session, an ESP8266 is announced by mDNS every 5 s or reconnected);
* time passes. Nothing else is assumed of devices, of the network or of other DHT
  nodes, except in `Keepalive` that a device which has not fallen silent answers.

`ShellyNewLease.cfg` switches deadlock checking off, as there the main loop may
really stop; so do `DeviceControl.cfg` and `DeviceMode.cfg`, as there users and
failures stop when the budget is used up, and nothing has to happen then.

### What is assumed of devices

* a status message holds all properties of its device, and its mode: the code
  unwraps several of them, and replaces the topic by the message;
* an order makes the properties it names take the values it gives, and the device
  reports each change once; what a shutter reports for *up*, *down* and *stop* is
  taken to be the same as what it is told, which only the firmware knows;
* an ESP32 answers each valve order it carries out with a report of the valve's
  new state, and writes it to its socket before it carries out the next for the
  same valve; reports in one socket keep their order, as TCP does;
* every valve has its topic in the DHT before commands for it are pending: the
  valve timer unwraps the list of these topics (`main.rs:190`), and what the cache
  answers when there is none is not in the sources; a `valve_command` has the fields
  that its parser unwraps (`command_parser.rs:334-335`).

## 5. Proofs

For all values of the constants, from the named assumptions of the modules
(`ValveCommandsAssumption`, `DeliveryAssumption`, `KeepaliveAssumption`, `BroadcastAssumption`,
`WishAssumption`, `OrdersAssumption`, `FrameAssumption`, `BoundsAssumption`,
`EspSessionsAssumption`, `ShellyAssumption`: sorts of the constants, and that `None`
and the like are none of the values they stand in for; `FrameAssumption`, that
frames are whole bytes and hold the preamble that was found in them). Two theorems
about `ShellyConnections` and one about `Keepalive` have further hypotheses, which are
stated in the theorem: `OneAddressEach` and `MaxWrong <= 1` (below), and
`StallWithinBudget`.

**ValveCommandsProofs.** `TypeCorrect`, `PendingServed`, `AttemptsCounted`,
`StrongestChosen` and `Refinement`. The inductive invariant is the conjunction of
the type invariant and the three safety properties. None of them alone is
inductive: that the number of publications stays within `MaxAttempts` needs that
it equals the counter the guard reads; that a counted command has a
known actuator needs that the entry for an actuator is never removed; and the
refinement needs that `published` is the counter, since the abstract service
counts messages and the code's guard reads attempts. `Refinement` maps an entry
of the queue to an order with the messages published for it, and shows each
action to be a step of the service or a stutter.

**KeepaliveProofs.** `KeepingPace`: `PongsKeepPace` relates the age of the last Pong
to the age of the oldest Ping not yet answered and to the longest gap between
two publications; with the types it is inductive with no relation between the
constants. `BudgetSuffices`: if `Latency + Period + MaxStall <= Limit`, no
answering device is ever cut off; the hypothesis is a constant fact, and the
run `keepalive` meets it with equality. With the code's numbers it leaves
`MaxStall` at most 50 s less the latency: a scan that meets three unreachable
Shelly devices may use that up. The proof says what suffices, not that the
code keeps to it. `SilentGivenUp` needs no budget: an open session's last Pong is
never older than the limit and the time since the last Ping, since each Ping, and
the one that waited for a session to open, judges it.

**BroadcastChannelProofs.** `SameToRead`, `SentToBoth` and `ReadFromBoth`: the sequence
that stands for the channel of one receiver in `ValveDelivery`, `DeviceControl` and
`ContactSensor` is what the log of `EspSessions` leaves that receiver to read. A
message sent is sent into both, a message read is the head of one and at the
position of the other, and the error of a lagging receiver changes nothing of
what it will read: the main loop may ignore it and lose no more than was
overwritten.

**EspSessionsProofs.** `SessionTypes`, `ResponderAlwaysHeld`, `ActiveAlwaysKnown`,
`CommandsAccountedFor` and `SkippedOnlyBehind`, for any number of sessions, devices
and commands and all capacities. The inductive invariant adds `NothingTaken`: a task
that is not active has taken no command, so its loop starts at its subscription.
That the answer in the oneshot channel is the task's own rests on its credentials
being in the channel exactly once, hence `ResponderHeld` is about places in the
channel. `ActiveIsKnown` is inductive only with the answer under way: a task
whose answer says *accepted* is known before it is active. `CommandsAccountedFor`
is shown record by record: a step of a task extends `fate` by the commands between
its old and its new position, and a publication leaves them alone.

**ShellyConnectionsProofs.** The two loops of the mode check, and the search by mac
address, are understood first: `CountingUp`, the induction over the turns of a loop,
comes from the least turn at which it would fail (`LeastNumber`, from the
well-foundedness of `<`). `CollectsTheWrong` then says that the indices collected are
exactly those of the devices in the wrong mode, in ascending order; `RemovedLeaves`,
that removing ascending indices one after another leaves the list without the
entries they *hit*, in the old order, where removal *j* hits the entry *j - 1* places
behind its index. `ModeCheckRemovesShifted` states this of every mode check that does
not panic. The invariant for `ConnectionTypes`, `ConnectedOnce` and `ScanSeesAllStale`
is their conjunction with *the scan has an index exactly while it runs*:
`ScanMissesNone` needs distinct addresses (a second entry with an address that is due
might be behind the scan), and every removal, the wrong ones included, keeps
addresses distinct. All of this holds without restriction.
`BridgeStaysResponsive` and `OnlyBrokenAreDropped` hold under `OneAddressEach` (devices do
not appear at a second address) and `MaxWrong <= 1` (a mode check finds at most one
device in the wrong mode); the runs `shelly_two_addresses` and `shelly_two_modes` show
that neither can be left out of the first. The added invariant is that no entry of
the list has a stream that has ended: with one address each the entry found by mac
address is the one that was read, with one wrong mode the entry removed is the
one collected.

**ValveDeliveryProofs.** `QueueInDelivery` shows every step of the composition to be a
step of the queue or a stutter, so all that is proved of the queue holds in it.
`DeliveryTypes`, `TopicTrue` and `DoneIsMoved` rest on one inductive invariant that
follows the report of a valve's last move: while `carrier` names a session, the last
report of the valve in that socket says where the valve is; afterwards, unless the
report was lost or an older one came behind it, the newest report in the channel
does, and when none is left there, the topic. Older reports of the same valve may
lie in every other socket; the moment one of them is published behind that of the
last move is the moment the valve is `late`, and nothing less is excused. For
`DoneIsMoved` the invariant says of a valve with a goal that every order under way and
the pending command ask for it, and that whatever says that the goal is reached (the
topic, a report in the channel or in any socket) is right. It needs no order among
reports: once a valve with a goal has moved there, no order under way takes it back,
so an old report can only deny what is true. That is also why the two cases in which
an order gets no goal, `Contested` and `Misled`, are stated when it is accepted.

**DeviceControlProofs.** `ParserMatchesMirror` compares the parser with the mirror for
every source, kind and channel. They agree, with one exception that the theorem
states: a dimmable light on a channel no LED has switches the red LED and mirrors
nothing (`command_parser.rs:222-237`). The invariant behind `TopicTrue` and
`SourcesMirror` is a chain: the topic, the reports of the device in the channel and
the device itself are points in time, and what differs between two points was
named as updated by a report in between (`Explained`). Overwriting a report must
keep the chain whole, which is why the history of what was lost moves to the
next report. `SourcesMirror` has two excuses, a detector whose report was lost and a
source that a crash left unwritten (`skipped`); `CrashesAreRepaired` bounds the second.
Its invariant says that a source in `skipped` is waiting for a link, for the status a
new link asks for first, or for an update that is on its way or known to be lost: a
crash takes the link down, no other order overtakes the first one, and executing it
updates every property. `CommandsComeBack` adds that the *last* order under way that sets
a property of a goal sets it to what was asked, or, if there is none, the device
has it already; it uses `ParserMatchesMirror` for the order, the mirror for the
way back, and `CrashesAreRepaired` for sources left unwritten. All hold for any number
of orders, reports, users and failures, for each capacity, and for all kinds of
actuators and sources.

**ContactSensorProofs.** `ContactPanicsExactly` and `AtcPanicsExactly` characterise the
frames, of any length, on which the slices of `bleutils.rs` fail. `EarlyPreambleIsSafe`
shows that contacts' frames with the preamble in their first 16 characters are not
among them: the 58 characters asked for in one function make up for the test in the
other that asks for 7 bytes where 22 are used. `StoppedOnlyByDamaged` says the same of
the behaviours: with any set of frames a step stops the main loop only on a
contact's frame with a late preamble, or on a thermometer's that lacks its first or
exactly its last byte or is shifted by half a byte (`bleutils.rs:173`).
`SensorFollowing` is
inductive almost as it stands. `StaleByOtherRelay` needs that advertisements keep
their order on the way through one ESP32, in its queue, in the channel, and
between the two. `ContactTypes` is the type invariant with the function `queue` itself.

## 6. What is only model-checked, and what is not modelled

All liveness properties (`RoutedCommandConcludes`, `SilentEventuallyClosed`,
`BacklogDrained`, `CredentialsAnswered`, `ClosingEventuallyGone`, `ModeSettles`) rest on
TLC: the prover does not treat fairness here. Every invariant that a passing run
checks, `DropsOnlyBroken`, `StopsOnlyOnDamaged` and the refinement `ImplementsValveService` are also proved; the
first half of `SilentEventuallyClosed` is, as `GivenUpInTime`, which bounds the time but
does not say that it passes.

Not modelled: power and energy; what a message contains, apart from what decides
where it goes and what it changes; the decryption of BLE frames and TLS
(libraries); the readings of thermometers, which nothing reads back; jumps of the
system clock (the models have ages, the code would panic on a negative one);
beacons whose device has no DHT topic; the replication of the DHT, and other
nodes that write the topic of a source; the names of mDNS records (an address
with an AAAA record yields a mac the look-up does not know, so it never gets into
the list); several actuators at once, which share nothing but the channels;
start-up.
