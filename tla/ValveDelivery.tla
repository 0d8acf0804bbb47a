---------------------------- MODULE ValveDelivery ----------------------------
(***************************************************************************)
(* Valve orders from end to end: the queue of ValveCommands, the ESP32s    *)
(* that carry its orders to the valves, and the way back of their reports  *)
(* and beacons (parse_esp32_message and the channel of updates in          *)
(* src/src/wssmanager.rs, handle_ble_update_message in src/src/main.rs).   *)
(*                                                                         *)
(* On the way down an order may be skipped by a lagging session, lost with *)
(* a broken socket, held up, and overtaken by one that goes through        *)
(* another ESP32; the module abstracts from which of these it is.  On the  *)
(* way up a report waits in the socket of a session, a task of its own,    *)
(* which puts it into the one broadcast channel that reports and beacons   *)
(* share: reports through two sessions may overtake each other.            *)
(***************************************************************************)
EXTENDS ValveCommands, BroadcastChannel

CONSTANTS Session,   (* sessions, each a pair of its ESP32 and a number; an   *)
                     (* ESP32 that reconnects has several                     *)
          MaxHeld    (* bound of the model: reports held in one socket        *)

ASSUME DeliveryAssumption ==
    /\ Session \subseteq Actuator \X Nat
    /\ None \notin Session
    /\ MaxHeld \in Nat

State == {"0", "1"}    \* closed and open, in an order, a report and a position

Order  == [actuator: Actuator, valve: Valve, value: State]
Report == [valve: Valve, payload: State]
Beacon == [valve: Valve, payload: {"adv"}, actuator: Actuator, rssi: Rssi]

VARIABLES
    transit,    (* orders on their way to an ESP32 and from it to a valve    *)
    position,   (* the position of each valve                                *)
    sockets,    (* reports sent to each session that it has not read         *)
    updates,    (* channel_of_updates: what the main loop can still read     *)
    carrier,    (* history: session whose socket holds the report of the     *)
                (* last move of each valve, or None                          *)
    lost,       (* history: valves whose last move no report tells of any    *)
                (* more: it was never sent, or lost before it was handled    *)
    late,       (* history: valves of which a report of an earlier move was  *)
                (* published when that of the last one was not ahead of it   *)
                (* any more                                                  *)
    foreign,    (* history: valves whose topic another node wrote since a    *)
                (* report was handled                                        *)
    goal        (* history: what the last order asks of each valve, unless   *)
                (* it was accepted contested or misled; otherwise None       *)

deliveryVars == <<vars, transit, position, sockets, updates, carrier, lost, late,
                  foreign, goal>>

DeliveryTypeOK ==
    /\ TypeOK
    /\ transit \subseteq Order
    /\ position \in [Valve -> State]
    /\ sockets \in [Session -> Seq(Report)]
    /\ updates \in Seq(Report \cup Beacon)
    /\ Len(updates) <= Capacity
    /\ carrier \in [Valve -> Session \cup {None}]
    /\ lost \subseteq Valve
    /\ late \subseteq Valve
    /\ foreign \subseteq Valve
    /\ goal \in [Valve -> State \cup {None}]

DeliveryInit ==
    /\ Init
    /\ transit = {}
    /\ position \in [Valve -> State]
    /\ sockets = [s \in Session |-> <<>>]
    /\ updates = <<>>
    /\ carrier = [v \in Valve |-> None]
    /\ lost = {}
    /\ late = {}
    /\ foreign = Valve
    /\ goal = [v \in Valve |-> None]

-----------------------------------------------------------------------------
(***************************************************************************)
(* What is on its way                                                      *)
(***************************************************************************)

\* Places of the reports of valve v in the channel, and in the socket of s.
ReportsOf(v) == {i \in 1..Len(updates) : updates[i].valve = v /\ updates[i].payload \in State}

HeldOf(s, v) == {i \in 1..Len(sockets[s]) : sockets[s][i].valve = v}

\* A report on its way says that valve v is in state d.
Said(v, d) ==
    \/ \E i \in ReportsOf(v) : updates[i].payload = d
    \/ \E s \in Session : \E i \in HeldOf(s, v) : sockets[s][i].payload = d

-----------------------------------------------------------------------------
(***************************************************************************)
(* The way down                                                            *)
(***************************************************************************)

OrderFor(v, d) == [actuator |-> best_actuator[v].actuator, valve |-> v, value |-> d]

\* An order for the opposite is still under way to the valve.
Contested(v, d) == \E o \in transit : o.valve = v /\ o.value # d

\* The topic, or a report that is still to be handled, says d of a valve that is
\* not in state d: the timer would take the order as done without a move.
Misled(v, d) == position[v] # d /\ (status[v] = d \/ Said(v, d))

\* A valve command that is accepted is published if an actuator is known.
AcceptCommand(v, d) ==
    /\ HandleValveCommand(v, d)
    /\ IF shelly_plus_actuators = {}
       THEN UNCHANGED <<transit, goal>>
       ELSE /\ transit' = IF Routed(v) THEN transit \cup {OrderFor(v, d)} ELSE transit
            /\ goal' = [goal EXCEPT ![v] =
                           IF Contested(v, d) \/ Misled(v, d) THEN None ELSE d]
    /\ UNCHANGED <<position, sockets, updates, carrier, lost, late, foreign>>

\* (Mutant: the timer opens every valve it serves.)
AlwaysOpened == {OrderFor(v, "1") : v \in {w \in Valve : Resent(w)}}

ResentOrders ==
    {OrderFor(v, valve_commands[v].desired_state) : v \in {w \in Valve : Resent(w)}}

CheckCommands ==
    /\ CheckRadiatorValveCommands
    /\ transit' = transit \cup ResentOrders
    /\ UNCHANGED <<position, sockets, updates, carrier, lost, late, foreign, goal>>

OrderLost(o) ==
    /\ transit' = transit \ {o}
    /\ UNCHANGED <<vars, position, sockets, updates, carrier, lost, late, foreign, goal>>

\* An ESP32 carries out an order; another copy of the order may still be under
\* way.  It reports through a session of its own, if one is up (s is not None).
CarryOut(o, again, s) ==
    /\ position' = [position EXCEPT ![o.valve] = o.value]
    /\ transit' = IF again THEN transit ELSE transit \ {o}
    /\ carrier' = [carrier EXCEPT ![o.valve] = s]
    /\ late' = late \ {o.valve}
    /\ IF s = None
       THEN /\ lost' = lost \cup {o.valve}
            /\ UNCHANGED sockets
       ELSE /\ lost' = lost \ {o.valve}
            /\ Len(sockets[s]) < MaxHeld
            /\ sockets' = [sockets EXCEPT ![s] =
                              Append(@, [valve |-> o.valve, payload |-> o.value])]
    /\ UNCHANGED <<vars, updates, foreign, goal>>

SessionsOf(a) == {s \in Session : s[1] = a}

\* Somebody turns the valve, and nothing reports it.
TurnedByHand(v, d) ==
    /\ position[v] # d
    /\ position' = [position EXCEPT ![v] = d]
    /\ carrier' = [carrier EXCEPT ![v] = None]
    /\ late' = late \ {v}
    /\ lost' = lost \cup {v}
    /\ goal' = [goal EXCEPT ![v] = None]
    /\ UNCHANGED <<vars, transit, sockets, updates, foreign>>

-----------------------------------------------------------------------------
(***************************************************************************)
(* The way up                                                              *)
(***************************************************************************)

\* The valves that lose the report of their last move when m is sent.
LostBySending(m) ==
    {v \in Valve : /\ Overwrites(updates)
                   /\ ReportsOf(v) = {1}
                   /\ carrier[v] = None
                   /\ ~(m.valve = v /\ m.payload \in State)}

\* (Mutant: the channel of updates has no bound.)
PublishedUnbounded(m) ==
    /\ updates' = Append(updates, m)
    /\ UNCHANGED lost

\* A session publishes what it takes out of a status message.
Published(m) ==
    /\ updates' = Sent(updates, m)
    /\ lost' = lost \cup LostBySending(m)

\* A session reads the next report from its socket.
ReportRelayed(s) ==
    /\ sockets[s] # <<>>
    /\ sockets' = [sockets EXCEPT ![s] = Tail(@)]
    /\ LET m == Head(sockets[s]) IN
       /\ Published(m)
       /\ late' = IF carrier[m.valve] = None THEN late \cup {m.valve} ELSE late
       /\ carrier' = IF carrier[m.valve] = s /\ HeldOf(s, m.valve) = {1}
                     THEN [carrier EXCEPT ![m.valve] = None] ELSE carrier
    /\ UNCHANGED <<vars, transit, position, foreign, goal>>

\* A session ends, and what it has not read is gone.
SessionEnds(s) ==
    /\ sockets[s] # <<>>
    /\ sockets' = [sockets EXCEPT ![s] = <<>>]
    /\ carrier' = [v \in Valve |-> IF carrier[v] = s THEN None ELSE carrier[v]]
    /\ lost' = lost \cup {v \in Valve : carrier[v] = s}
    /\ UNCHANGED <<vars, transit, position, updates, late, foreign, goal>>

\* A beacon changes nothing before it is published, so its time in a socket is
\* left out.
BeaconRelayed(m) ==
    /\ Published(m)
    /\ UNCHANGED <<vars, transit, position, sockets, carrier, late, foreign, goal>>

\* (Mutant: a report that finds the valve in another state than its topic
\* loses to the topic.)
ReportIgnored(m) == m.payload \in State /\ UNCHANGED vars

\* What the main loop does with a message of the channel: a report is written to
\* the topic of its valve, a beacon is weighed, what is not known is dropped.
HandleReport(m) == m.payload \in State /\ HandleBleValveUpdate(m.valve, m.payload)

HandleBeacon(m) == m.payload = "adv" /\ UpdateBestActuator(m.valve, m.actuator, m.rssi)

UnknownValve(m) == status[m.valve] = "absent" /\ UNCHANGED vars

HandleBleUpdateMessage ==
    /\ updates # <<>>
    /\ updates' = Tail(updates)
    /\ LET m == Head(updates) IN
       /\ HandleReport(m) \/ HandleBeacon(m) \/ UnknownValve(m)
       /\ foreign' = IF m.payload \in State /\ status[m.valve] # "absent"
                     THEN foreign \ {m.valve} ELSE foreign
    /\ UNCHANGED <<transit, position, sockets, carrier, lost, late, goal>>

\* Another node writes the topic.
WrittenElsewhere(v, s) ==
    /\ TopicWritten(v, s)
    /\ foreign' = foreign \cup {v}
    /\ goal' = IF s = goal[v] /\ position[v] # s THEN [goal EXCEPT ![v] = None] ELSE goal
    /\ UNCHANGED <<transit, position, sockets, updates, carrier, lost, late>>

-----------------------------------------------------------------------------
QueueOnly == UNCHANGED <<transit, position, sockets, updates, carrier, lost, late,
                         foreign, goal>>

DeliveryNext ==
    \/ CheckCommands
    \/ HandleBleUpdateMessage
    \/ \E v \in Valve :
          \/ \E d \in State : AcceptCommand(v, d) \/ TurnedByHand(v, d)
          \/ \E s \in Status : WrittenElsewhere(v, s)
          \/ BestActuatorAges(v) /\ QueueOnly
    \/ \E a \in Actuator : HandleCredMessage(a) /\ QueueOnly
    \/ \E o \in transit :
          \/ OrderLost(o)
          \/ \E again \in BOOLEAN, s \in SessionsOf(o.actuator) \cup {None} :
                CarryOut(o, again, s)
    \/ \E s \in Session : ReportRelayed(s) \/ SessionEnds(s)
    \/ \E m \in Beacon : BeaconRelayed(m)

DeliverySpec == DeliveryInit /\ [][DeliveryNext]_deliveryVars

-----------------------------------------------------------------------------
(***************************************************************************)
(* Properties                                                              *)
(***************************************************************************)

\* The topic of a valve is right once the report of its last move has left its
\* socket and been handled, however many reports of earlier moves are still held
\* by other sessions, unless that report was lost, another node wrote the topic,
\* or an earlier report came behind it, which only another session can bring
\* about.  Beacons, which share the channel, do harm only by filling it.
TopicIsTrue ==
    \A v \in Valve \ (lost \cup late \cup foreign) :
        carrier[v] = None /\ ReportsOf(v) = {} => status[v] = position[v]

\* The queue takes an order as done when the topic says so.  Unless the order
\* was accepted while an order for the opposite was under way (Contested), or
\* something already said falsely that it was done (Misled), the topic says so
\* only if the valve is where the order wants it.  Reports that are lost, late,
\* or still held in sockets, and everything that is resent or repeated, may make
\* the topic wrong, but never so that the order is dropped too early.
DoneMeansMoved ==
    \A v \in Valve : goal[v] # None /\ status[v] = goal[v] => position[v] = goal[v]
=============================================================================
