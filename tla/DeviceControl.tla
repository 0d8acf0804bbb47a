---------------------------- MODULE DeviceControl ----------------------------
(***************************************************************************)
(* One actuator from the user's command to the status of its sources: the  *)
(* orders sent to it, its reports on the way back, its topic in the DHT,   *)
(* the topics of the sources connected to it, and the check of its mode    *)
(* (src/src/main.rs, with the links of src/src/wssmanager.rs and           *)
(* src/src/shellymanager.rs).                                              *)
(*                                                                         *)
(* An ESP32 reports through the broadcast channel it shares with others;   *)
(* an ESP8266 has a stream of its own, whose unread reports go when the    *)
(* stream is replaced.                                                     *)
(***************************************************************************)
EXTENDS CommandParser, BroadcastChannel, FiniteSets

CONSTANTS Kind,       (* topic names the actuator may have                   *)
          Source,     (* the sources, one of each kind                       *)
          Channel,    (* channels of the actuator                            *)
          Wish,       (* what a command may ask of the fields of a source    *)
          MaxOrders,  (* orders on their way; more are lost                  *)
          Budget,     (* bound of the model: steps of users and failures     *)
          None        (* no connection, no value                             *)

Value == {0, 1}
Mode  == 0..4

ASSUME WishAssumption == \A wish \in Wish : wish \in [DOMAIN wish -> Value]
ASSUME OrdersAssumption == MaxOrders \in Nat \ {0}

\* The properties an actuator of a kind reports.
Properties(k) ==
    CASE k = "shelly_rgbw"   -> {Led(f) : f \in Colours}
      [] k = "shelly_dimmer" -> {Dimmer}
      [] OTHER -> {Output(c) : c \in Channel} \cup {Input(c) : c \in Channel}
                  \cup (IF k \in TwoRelay THEN {Shutter} ELSE {})

ModeProperty == <<"mode", 0>>
Beacon       == <<"beacon_adv", 0>>
Everything(k) == Properties(k) \cup {ModeProperty}

RangeOf(m) == {m[f] : f \in DOMAIN m}

\* A channel no LED has.  The topic of a connection may name any number, and for a
\* dimmable light on LEDs the parser takes those that are none for red.
NoLed == 5

\* Channels a source can be connected to; where the channel makes no difference,
\* the first stands for all.
Sockets(s, k) ==
    {c \in Channel : /\ DOMAIN Mirror(s, k, c) # {}
                     /\ RangeOf(Mirror(s, k, c)) \subseteq Properties(k)
                     /\ c = 1 \/ Mirror(s, k, c) # Mirror(s, k, 1)}
    \cup {c \in {NoLed} : s = "domo_light_dimmable" /\ k = "shelly_rgbw"}

VARIABLES
    kind,     (* topic name of the actuator                                   *)
    device,   (* values of its properties                                     *)
    mode,     (* its mode                                                     *)
    linked,   (* its session or stream is up                                  *)
    orders,   (* orders on their way to it                                    *)
    updates,  (* reports the main loop can still read                         *)
    topic,    (* its topic in the DHT: values and mode                        *)
    conn,     (* channel each source is connected to, or None                 *)
    source,   (* topics of the sources                                        *)
    budget,   (* steps left                                                   *)
    gap,      (* history: properties with an update lost since the last report
                 was put into the channel                                     *)
    missed,   (* history: properties whose last update before the topic's
                 report was lost                                              *)
    current,  (* history: sources that took a report since they were last
                 connected                                                    *)
    skipped,  (* history: those of them that a crash kept from being written
                 with the last report they took                               *)
    goal      (* history: what the last command asked of a source, while
                 nothing else may touch the properties it sets                *)

deviceVars  == <<kind, device, mode>>
dhtVars     == <<topic, source, missed, current, skipped>>
vars == <<deviceVars, linked, orders, updates, dhtVars, conn, budget, gap, goal>>

Fields(s) == CASE s \in Shutters -> {"shutter_status"}
               [] s = "domo_rgbw_light" -> Colours
               [] OTHER -> {"status"}

\* Sources with an output connection; detectors have an input connection.
Driven == {s \in Source : conn[s] # None /\ CommandFor(s) # "none"}

Calculated == CalculateMode(kind, Driven)

MirrorOf(s) == Mirror(s, kind, conn[s])

TypeOK ==
    /\ kind \in Kind
    /\ device \in [Properties(kind) -> Value]
    /\ mode \in Mode
    /\ linked \in BOOLEAN
    /\ Len(orders) <= MaxOrders
    /\ kind \in Esp32 => Len(updates) <= Capacity
    /\ topic \in [values: [Properties(kind) -> Value], mode: Mode]
    /\ \A s \in Source : /\ conn[s] \in Sockets(s, kind) \cup {None}
                         /\ source[s] \in [Fields(s) -> Value \cup {None}]
    /\ gap \subseteq Everything(kind)
    /\ missed \subseteq Everything(kind)
    /\ skipped \subseteq current

\* The bridge starts without a link to the device, which is in its first mode or
\* the one that fits, and with a topic from before.
Init ==
    /\ kind \in Kind
    /\ mode \in {0, CalculateMode(kind, {})}
    /\ device = [p \in Properties(kind) |-> 0]
    /\ linked = FALSE
    /\ orders = <<>>
    /\ updates = <<>>
    /\ topic = [values |-> [p \in Properties(kind) |-> 1], mode |-> mode]
    /\ conn \in {f \in [Source -> Channel \cup {None}] :
                    \A s \in Source : f[s] \in Sockets(s, kind) \cup {None}}
    /\ source = [s \in Source |-> [f \in Fields(s) |-> None]]
    /\ budget = Budget
    /\ gap = Everything(kind)
    /\ missed = {}
    /\ current = {}
    /\ skipped = {}
    /\ goal = [s \in Source |-> None]

-----------------------------------------------------------------------------
(***************************************************************************)
(* The way up                                                              *)
(***************************************************************************)

\* (Mutant: a message with a beacon is not passed on as a status.)
ForwardedWithoutBeacon(updated) == Beacon \notin updated

\* A session passes on a status message unless all it is about are beacons.
Forwarded(updated) == updated \ {Beacon} # {}

\* What reports of other devices are to this one.
Noise == [values |-> None, mode |-> None, updated |-> {}, behind |-> {}]

OwnReports(ms) == {i \in 1..Len(ms) : ms[i] # Noise}

UpdatesIn(ms) == UNION {ms[i].behind \cup ms[i].updated : i \in 1..Len(ms)}

\* (Mutant: the channel has no bound.)
SendUnbounded(m) == updates' = Append(updates, m) /\ gap' = IF m = Noise THEN gap ELSE {}

\* Sending into a full channel overwrites the oldest message; the updates lost
\* with it are noted in the next report of the device, or in gap if none follows.
SendOnChannel(m) ==
    LET kept    == Sent(updates, m)
        carried == IF Overwrites(updates) THEN UpdatesIn(<<Head(updates)>>) ELSE {}
        own     == OwnReports(kept)
        first   == CHOOSE i \in own : \A j \in own : i <= j
        left    == IF m = Noise THEN gap ELSE {}
    IN  IF own = {}
        THEN updates' = kept /\ gap' = left \cup carried
        ELSE updates' = [kept EXCEPT ![first].behind = @ \cup carried] /\ gap' = left

\* The device reports the values and the mode it has after the step; an ESP32
\* may put a beacon into the same message.
Report(updated) ==
    LET m == [values |-> device', mode |-> mode', updated |-> updated, behind |-> gap]
    IN  \/ ~linked /\ gap' = gap \cup updated /\ UNCHANGED updates
        \/ linked /\ kind \notin Esp32 /\ updates' = Append(updates, m) /\ gap' = {}
        \/ /\ linked /\ kind \in Esp32
           /\ \E beacon \in SUBSET {Beacon} :
                 IF Forwarded(updated \cup beacon)
                 THEN SendOnChannel(m)
                 ELSE UNCHANGED <<updates, gap>>

OtherDeviceReports ==
    /\ kind \in Esp32
    /\ SendOnChannel(Noise)
    /\ UNCHANGED <<deviceVars, linked, orders, dhtVars, conn, budget, goal>>

-----------------------------------------------------------------------------
(***************************************************************************)
(* The main loop takes a report                                            *)
(***************************************************************************)

\* (Mutant: the mode is kept like the credentials.)
ModeKept(m) == [values |-> m.values, mode |-> topic.mode]

\* handle_shelly_message replaces the whole status.
TopicOf(m) == [values |-> m.values, mode |-> m.mode]

\* (Mutant: the search ends at the first connection to the actuator.)
FirstTaker(m) ==
    {s \in Source : /\ conn[s] # None /\ Takes(s, conn[s], m.updated)
                    /\ s = CHOOSE q \in Source : conn[q] # None}

\* update_actuator_connection: the sources the report is for.
Takers(m) == {s \in Source : conn[s] # None /\ Takes(s, conn[s], m.updated)}

\* The fields that mirror a property get its value, the others stay.
Copied(s, m) ==
    [f \in Fields(s) |-> IF f \in DOMAIN MirrorOf(s) THEN m.values[MirrorOf(s)[f]]
                         ELSE source[s][f]]

\* The topic is written first, then the sources of written one by one.
Handle(m, written) ==
    /\ topic' = TopicOf(m)
    /\ source' = [s \in Source |-> IF s \in written THEN Copied(s, m) ELSE source[s]]
    /\ missed' = (missed \cup m.behind) \ m.updated
    /\ current' = current \cup Takers(m)
    /\ skipped' = (skipped \cup Takers(m)) \ written

HandleUpdate ==
    /\ updates # <<>>
    /\ updates' = Tail(updates)
    /\ IF Head(updates) = Noise THEN UNCHANGED dhtVars
       ELSE Handle(Head(updates), Takers(Head(updates)))
    /\ UNCHANGED <<deviceVars, linked, orders, conn, budget, gap, goal>>

\* A user interface or another node does something, or something fails.
Spend == budget > 0 /\ budget' = budget - 1

\* With the bridge go its links and what its channels hold.
BridgeStops(unhandled) ==
    /\ updates' = <<>>
    /\ gap' = gap \cup UpdatesIn(unhandled)
    /\ linked' = FALSE

\* The bridge crashes in the middle of a report; the DHT keeps what was written.
Crash ==
    /\ Spend
    /\ updates # <<>> /\ Head(updates) # Noise
    /\ \E written \in SUBSET Takers(Head(updates)) : Handle(Head(updates), written)
    /\ BridgeStops(Tail(updates))
    /\ UNCHANGED <<deviceVars, orders, conn, goal>>

-----------------------------------------------------------------------------
(***************************************************************************)
(* The way down                                                            *)
(***************************************************************************)

Order(sets, m) == [sets |-> sets, mode |-> m]
Nothing == [p \in {} |-> 0]

\* No source whose fields mirror one of ps has a goal any more.
WithoutGoals(ps) ==
    [s \in Source |-> IF conn[s] # None /\ RangeOf(MirrorOf(s)) \cap ps # {}
                      THEN None ELSE goal[s]]

Arrives == linked /\ Len(orders) < MaxOrders

Ordered(o) == orders' = IF Arrives THEN Append(orders, o) ELSE orders

UserCommand(s, wish) ==
    LET asked == AsRead(CommandFor(s), wish)
        sets  == Parsed(CommandFor(s), kind, conn[s], asked) IN
    /\ Spend
    /\ s \in Driven
    /\ DOMAIN asked = Fields(s)
    /\ Ordered(Order(sets, None))
    /\ goal' = [WithoutGoals(DOMAIN sets) EXCEPT ![s] = IF Arrives THEN asked ELSE None]
    /\ UNCHANGED <<deviceVars, linked, updates, dhtVars, conn, gap>>

\* A command lacks what the parser unwraps, and the main loop panics.
UnreadableCommand(s, wish) ==
    /\ Spend
    /\ ~Legible(CommandFor(s), wish)
    /\ BridgeStops(updates)
    /\ UNCHANGED <<deviceVars, orders, dhtVars, conn, goal>>

Raw(p, x) == Order(Parsed("shelly_actuator_command", kind, None, [q \in {p} |-> x]), None)

\* A raw command for one property or the mode; one for more is several of them.
RawOrders == {Raw(p, x) : p \in Properties(kind), x \in Value}
             \cup {Order(Nothing, m) : m \in Mode}

RawCommand(o) ==
    /\ Spend
    /\ Ordered(o)
    /\ goal' = WithoutGoals(DOMAIN o.sets)
    /\ UNCHANGED <<deviceVars, linked, updates, dhtVars, conn, gap>>

\* get_status_update, the first order on a new link, sets nothing and has
\* everything reported.
UpdatedBy(o) ==
    IF o = Order(Nothing, None) THEN Everything(kind)
    ELSE DOMAIN o.sets \cup (IF o.mode # None THEN {ModeProperty} ELSE {})

Execute ==
    /\ orders # <<>>
    /\ orders' = Tail(orders)
    /\ LET o == Head(orders) IN
       /\ device' = [p \in DOMAIN device |->
                        IF p \in DOMAIN o.sets THEN o.sets[p] ELSE device[p]]
       /\ mode' = IF o.mode # None THEN o.mode ELSE mode
       /\ Report(UpdatedBy(o))
    /\ UNCHANGED <<kind, linked, dhtVars, conn, budget, goal>>

\* Somebody presses a button, or a switch that is wired to the device.
LocalChange(p) ==
    /\ Spend
    /\ device' = [device EXCEPT ![p] = 1 - @]
    /\ mode' = mode
    /\ Report({p})
    /\ goal' = WithoutGoals({p})
    /\ UNCHANGED <<kind, linked, orders, dhtVars, conn>>

Replumb(s, c) ==
    /\ Spend
    /\ conn' = [conn EXCEPT ![s] = c]
    /\ conn' # conn
    /\ current' = current \ {s}
    /\ skipped' = skipped \ {s}
    /\ goal' = [goal EXCEPT ![s] = None]
    /\ UNCHANGED <<deviceVars, linked, orders, updates, topic, source, missed, gap>>

LinkFails ==
    /\ Spend
    /\ linked
    /\ linked' = FALSE
    /\ UNCHANGED <<deviceVars, orders, updates, dhtVars, conn, gap, goal>>

\* What a stream that is given up still held is lost.
StreamDropped ==
    IF kind \in Esp32 THEN UNCHANGED <<updates, gap>>
    ELSE updates' = <<>> /\ gap' = gap \cup UpdatesIn(updates)

\* (Mutant: the status is not asked for.)
NoStatusAsked == <<>>

\* A new session or stream begins with get_status_update.
FirstOrders == <<Order(Nothing, None)>>

\* Orders the device has not carried out by now are lost.
Reconnect ==
    /\ ~linked
    /\ linked' = TRUE
    /\ orders' = FirstOrders
    /\ StreamDropped
    /\ goal' = WithoutGoals(UNION {DOMAIN orders[i].sets : i \in 1..Len(orders)})
    /\ UNCHANGED <<deviceVars, dhtVars, conn, budget>>

ModeCheck ==
    /\ linked
    /\ topic.mode # Calculated
    /\ Ordered(Order(Nothing, Calculated))
    /\ linked' = (kind \in Esp32)
    /\ StreamDropped
    /\ UNCHANGED <<deviceVars, dhtVars, conn, budget, goal>>

-----------------------------------------------------------------------------
Next ==
    \/ \E s \in Source : \/ \E wish \in Wish : UserCommand(s, wish) \/ UnreadableCommand(s, wish)
                         \/ \E c \in Sockets(s, kind) \cup {None} : Replumb(s, c)
    \/ \E p \in Properties(kind) : LocalChange(p)
    \/ \E o \in RawOrders : RawCommand(o)
    \/ OtherDeviceReports
    \/ HandleUpdate
    \/ Execute
    \/ Crash
    \/ LinkFails
    \/ Reconnect
    \/ ModeCheck

Spec == Init /\ [][Next]_vars

ModeChange == Execute /\ Head(orders).mode # None

\* The timer and the main loop's select! come to every branch; a device
\* carries out orders, and among them changes of mode, unless its link keeps
\* failing first.
FairSpec ==
    /\ Spec
    /\ WF_vars(Reconnect) /\ WF_vars(ModeCheck) /\ WF_vars(Execute)
    /\ SF_vars(ModeChange) /\ SF_vars(HandleUpdate)

-----------------------------------------------------------------------------
(***************************************************************************)
(* Properties                                                              *)
(***************************************************************************)

Quiet == OwnReports(updates) = {} /\ gap = {}

\* The topic of an actuator is right when no report is ahead and the newest
\* one was not lost: every report is handled as a whole and in order, through
\* full channels, replaced streams and crashes.
TopicIsTrue == Quiet => topic = [values |-> device, mode |-> mode]

\* A source that took a report since it was connected shows what the topic of
\* its actuator shows.  It may lag in two cases: the bridge crashed after it wrote
\* the topic of the actuator and before that of the source (CrashIsRepaired says
\* how long), or the source is a detector and the report that named its input was
\* lost: no later report about something else makes up for it.
SourceMirrorsTopic ==
    \A s \in current \ skipped : conn[s] # None =>
        \A f \in DOMAIN MirrorOf(s) :
            \/ source[s][f] = topic.values[MirrorOf(s)[f]]
            \/ s \in Detectors /\ MirrorOf(s)[f] \in missed

\* What a crash left unwritten is made up for: the link has still to come back,
\* the status that every new link asks for is still to be reported, a report that
\* the source takes is ahead, or the one it would have taken was lost.
CrashIsRepaired ==
    \A s \in skipped : conn[s] # None =>
        \/ ~linked
        \/ Order(Nothing, None) \in RangeOf(orders)
        \/ \E i \in OwnReports(updates) : Takes(s, conn[s], updates[i].updated)
        \/ IF s \in Detectors
           THEN Input(conn[s]) \in gap \cup missed \cup UpdatesIn(updates)
           ELSE gap # {}

\* A command that arrived comes back: what was asked of a source is what it
\* shows once everything under way is done, so the parser and the mirror agree
\* on what a channel means.  A light on a channel no LED has is the exception:
\* its command turns the red LED, and nothing is copied to it.  After a crash the
\* command comes back when the link does.
CommandComesBack ==
    \A s \in current :
        /\ goal[s] # None /\ DOMAIN MirrorOf(s) # {}
        /\ orders = <<>> /\ Quiet
        /\ linked \/ s \notin skipped
        => source[s] = goal[s]

\* The mode of the device becomes the one its connections call for and stays
\* so, although each check drops the stream whose answer it waits for.  An
\* ESP32 needs the newest report to get through the shared channel.
ModeSettles == (kind \notin Esp32 \/ <>[](gap = {})) => <>[](mode = Calculated)
=============================================================================
