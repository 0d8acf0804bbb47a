--------------------------- MODULE ValveCommands ----------------------------
(***************************************************************************)
(* The valve command queue of the main loop: src/src/utils.rs             *)
(* (ValveCommandManager) and the branches of src/src/main.rs that use it.  *)
(* The main loop is one task and none of these branches awaits between its *)
(* reads and its writes, so each branch is one action.                     *)
(*                                                                         *)
(* Publishing on the command channel is abstracted to a count of the       *)
(* Valve messages published for the order of each valve; the sessions that *)
(* consume the channel are in EspSessions.                                 *)
(***************************************************************************)
EXTENDS Integers

CONSTANTS Valve,        (* mac addresses of radiator valves                *)
          Actuator,     (* mac addresses of the ESP32 actuators            *)
          Rssi,         (* signal strengths a beacon can report            *)
          MaxAttempts,  (* transmissions of one order; 100 in the code     *)
          MaxRequests,  (* bound of the model: valve commands ever issued  *)
          None          (* a missing entry of a HashMap                    *)

Status       == {"absent", "unset", "0", "1"}
Desired      == {"unspecified", "0", "1"}
ValveData    == [desired_state: Desired, attempts: 0..MaxAttempts]
BestActuator == [actuator: Actuator, rssi: Rssi, old: BOOLEAN]

ASSUME ValveCommandsAssumption ==
    /\ Rssi \subseteq Int
    /\ MaxAttempts \in Nat \ {0}
    /\ MaxRequests \in Nat
    /\ None \notin ValveData \cup BestActuator
    /\ None \notin [desired: Desired, sent: 0..MaxAttempts]

VARIABLES
    valve_commands,         (* the pending command of each valve, or None  *)
    best_actuator,          (* the actuator to use for a valve, or None;   *)
                            (* old: stored more than 30 s ago              *)
    shelly_plus_actuators,  (* the ESP32s that ever authenticated          *)
    status,                 (* DHT topic domo_ble_valve of each valve      *)
    published,              (* history: Valve messages published for the   *)
                            (* last command accepted for each valve        *)
    heard,                  (* history: strengths reported for a valve     *)
                            (* since its best_actuator entry was stored    *)
    requests                (* commands issued so far (bound)              *)

vars == <<valve_commands, best_actuator, shelly_plus_actuators, status,
          published, heard, requests>>

TypeOK ==
    /\ valve_commands \in [Valve -> ValveData \cup {None}]
    /\ best_actuator \in [Valve -> BestActuator \cup {None}]
    /\ shelly_plus_actuators \subseteq Actuator
    /\ status \in [Valve -> Status]
    /\ published \in [Valve -> 0..MaxAttempts]
    /\ heard \in [Valve -> SUBSET Rssi]
    /\ requests \in 0..MaxRequests

Init ==
    /\ valve_commands = [v \in Valve |-> None]
    /\ best_actuator = [v \in Valve |-> None]
    /\ shelly_plus_actuators = {}
    /\ status \in [Valve -> Status]
    /\ published = [v \in Valve |-> 0]
    /\ heard = [v \in Valve |-> {}]
    /\ requests = 0

-----------------------------------------------------------------------------
Pending(v) == valve_commands[v] # None
Routed(v)  == best_actuator[v] # None

\* (Mutant: an attempt is counted though there is nobody to send it to.)
CountedUnrouted(v) == 1

\* attempts of a command just queued: it is published at once when an
\* actuator is known for the valve.
FirstAttempts(v) == IF Routed(v) THEN 1 ELSE 0

\* A valve command from the DHT.  It is dropped unless some ESP32 has
\* authenticated; it replaces the pending command of the same valve.
HandleValveCommand(v, d) ==
    /\ requests < MaxRequests
    /\ requests' = requests + 1
    /\ IF shelly_plus_actuators = {}
       THEN UNCHANGED <<valve_commands, published>>
       ELSE /\ valve_commands' = [valve_commands EXCEPT ![v] =
                  [desired_state |-> d, attempts |-> FirstAttempts(v)]]
            /\ published' = [published EXCEPT ![v] = IF Routed(v) THEN 1 ELSE 0]
    /\ UNCHANGED <<best_actuator, shelly_plus_actuators, status, heard>>

-----------------------------------------------------------------------------
\* The 20 s timer.
Satisfied(v) == Pending(v) /\ valve_commands[v].desired_state = status[v]

\* (Mutant: no limit on the attempts.)
WaitingForEver(v) == Pending(v) /\ ~Satisfied(v)

Waiting(v) == Pending(v) /\ ~Satisfied(v) /\ valve_commands[v].attempts < MaxAttempts

Resent(v) == Waiting(v) /\ Routed(v)

\* (Mutants: the new attempt is not written back; a command without a known
\* actuator is given up; a command whose attempts are spent stays.)
AttemptForgotten(v) == IF Waiting(v) THEN valve_commands[v] ELSE None

UnroutedGivenUp(v) ==
    IF Resent(v) THEN [valve_commands[v] EXCEPT !.attempts = @ + 1] ELSE None

SpentKept(v) ==
    IF Resent(v) THEN [valve_commands[v] EXCEPT !.attempts = @ + 1]
    ELSE IF Satisfied(v) THEN None ELSE valve_commands[v]

\* The entry of valve v after the check: counted up when it was published
\* again, kept when no actuator is known, removed otherwise.
Checked(v) ==
    IF Resent(v) THEN [valve_commands[v] EXCEPT !.attempts = @ + 1]
    ELSE IF Waiting(v) THEN valve_commands[v] ELSE None

\* All pending commands in one step.  The branch unwraps the list of valve topics,
\* which is taken to be there: valves get their topic before their commands come.
CheckRadiatorValveCommands ==
    /\ \E v \in Valve : Pending(v)
    /\ shelly_plus_actuators # {}
    /\ valve_commands' = [v \in Valve |-> Checked(v)]
    /\ published' = [v \in Valve |->
                        IF Resent(v) THEN published[v] + 1 ELSE published[v]]
    /\ UNCHANGED <<best_actuator, shelly_plus_actuators, status, heard, requests>>

-----------------------------------------------------------------------------
\* (Mutant: signal strengths, which are negative, compared the wrong way.)
DisplacedByWeaker(v, r) ==
    ~Routed(v) \/ best_actuator[v].rssi > r \/ best_actuator[v].old

\* A BLE beacon of a valve registered in the DHT, relayed by an ESP32.
Displaces(v, r) == ~Routed(v) \/ best_actuator[v].rssi < r \/ best_actuator[v].old

UpdateBestActuator(v, a, r) ==
    /\ status[v] # "absent"
    /\ IF Displaces(v, r)
       THEN /\ best_actuator' = [best_actuator EXCEPT ![v] =
                  [actuator |-> a, rssi |-> r, old |-> FALSE]]
            /\ heard' = [heard EXCEPT ![v] = {r}]
       ELSE /\ heard' = [heard EXCEPT ![v] = @ \cup {r}]
            /\ UNCHANGED best_actuator
    /\ UNCHANGED <<valve_commands, shelly_plus_actuators, status, published, requests>>

\* More than 30 s pass since the entry of valve v was stored.
BestActuatorAges(v) ==
    /\ Routed(v)
    /\ ~best_actuator[v].old
    /\ best_actuator' = [best_actuator EXCEPT ![v].old = TRUE]
    /\ UNCHANGED <<valve_commands, shelly_plus_actuators, status, published, heard, requests>>

\* The valve reports its state ("0" or "1") and the bridge writes the topic.
HandleBleValveUpdate(v, payload) ==
    /\ status[v] # "absent"
    /\ status' = [status EXCEPT ![v] = payload]
    /\ UNCHANGED <<valve_commands, best_actuator, shelly_plus_actuators,
                   published, heard, requests>>

\* An ESP32 of a shelly plus topic presents valid credentials.
HandleCredMessage(a) ==
    /\ shelly_plus_actuators' = shelly_plus_actuators \cup {a}
    /\ UNCHANGED <<valve_commands, best_actuator, status, published, heard, requests>>

\* Another node of the DHT creates, rewrites or deletes the topic of valve v.
TopicWritten(v, s) ==
    /\ status[v] # s
    /\ status' = [status EXCEPT ![v] = s]
    /\ UNCHANGED <<valve_commands, best_actuator, shelly_plus_actuators,
                   published, heard, requests>>

Next ==
    \/ CheckRadiatorValveCommands
    \/ \E a \in Actuator : HandleCredMessage(a)
    \/ \E v \in Valve :
          \/ \E d \in Desired : HandleValveCommand(v, d)
          \/ \E a \in Actuator, r \in Rssi : UpdateBestActuator(v, a, r)
          \/ BestActuatorAges(v)
          \/ \E payload \in {"0", "1"} : HandleBleValveUpdate(v, payload)
          \/ \E s \in Status : TopicWritten(v, s)

Spec == Init /\ [][Next]_vars

\* The timer is polled in every turn of the main loop's select!.
FairSpec == Spec /\ WF_vars(CheckRadiatorValveCommands)

-----------------------------------------------------------------------------
(***************************************************************************)
(* Properties                                                              *)
(***************************************************************************)

\* A command waits only while the timer may serve it (some ESP32 is known),
\* and it was counted as attempted only if an actuator is known for its valve:
\* the guards of the command handler and of the timer agree for ever.
PendingIsServed ==
    \A v \in Valve : Pending(v) =>
        /\ shelly_plus_actuators # {}
        /\ valve_commands[v].attempts > 0 => Routed(v)

\* attempts is the number of times the command was really published, through
\* replacement by newer commands and through every turn of the timer.
AttemptsArePublications ==
    \A v \in Valve : Pending(v) => published[v] = valve_commands[v].attempts

\* However beacons of several actuators interleave with ageing, the stored
\* actuator is at least as strong as every beacon heard since it was stored.
BestIsStrongest ==
    \A v \in Valve : Routed(v) =>
        /\ best_actuator[v].rssi \in heard[v]
        /\ \A r \in heard[v] : r <= best_actuator[v].rssi

\* The queue keeps the promise of ValveService: an order disappears only
\* when the DHT reports the desired state or its attempts are spent.
OrderOf(v) == IF Pending(v)
              THEN [desired |-> valve_commands[v].desired_state, sent |-> published[v]]
              ELSE None

Service == INSTANCE ValveService
           WITH Budget <- MaxAttempts, order <- [v \in Valve |-> OrderOf(v)]

ImplementsValveService == Service!Spec

\* A pending command whose valve has a known actuator is eventually
\* concluded, even if no status report ever arrives.
RoutedCommandConcludes ==
    \A v \in Valve : (Pending(v) /\ Routed(v)) ~> ~Pending(v)
=============================================================================
