---------------------------- MODULE ContactSensor ----------------------------
(***************************************************************************)
(* A contact (open or closed) whose advertisements reach the bridge        *)
(* through several ESP32s, its topic in the DHT, and the topic of a window *)
(* sensor connected to it (handle_ble_update_message and                   *)
(* handle_ble_contact_update in src/src/main.rs).  Advertisements of a     *)
(* thermometer share the channel.                                          *)
(*                                                                         *)
(* The topic of the contact and the topics of the sensors connected to it  *)
(* are written by two awaited calls, between which the bridge may crash.   *)
(***************************************************************************)
EXTENDS BleParsing, BroadcastChannel, FiniteSets

CONSTANTS Relay,         (* ESP32s that hear the contact                     *)
          ContactFrame,  (* advertisements of the contact                    *)
          AtcFrame,      (* advertisements of the thermometer                *)
          MaxQueue,      (* advertisements an ESP32 has not delivered        *)
          MaxMoves,      (* bound of the model: times the contact moves      *)
          MaxFaults      (* bound of the model: crashes and new connections  *)

Frame == [chars: Nat, preamble: Nat \cup {None}, object: Nat \cup {None}, length: Nat]

\* The ESP32s send whole bytes, and the preamble that was found is 6 characters.
ASSUME FrameAssumption ==
    \A f \in ContactFrame \cup AtcFrame :
        /\ f \in Frame /\ f.chars % 2 = 0
        /\ f.preamble # None => f.preamble + 6 <= f.chars

ASSUME BoundsAssumption == MaxQueue \in Nat /\ MaxMoves \in Nat /\ MaxFaults \in Nat

VARIABLES
    moves,      (* how often the contact moved; open after an odd number      *)
    queue,      (* advertisements on the way through each ESP32               *)
    updates,    (* channel_of_updates: what the main loop can still read      *)
    pc,         (* the main loop: idle, connecting, panicked                  *)
    status,     (* the contact's topic: open, closed, or unset                *)
    sensor,     (* the window sensor's topic                                  *)
    connected,  (* the window sensor is connected to the contact              *)
    faults,     (* crashes and new connections so far                         *)
    last,       (* history: the advertisement decoded last                    *)
    newest,     (* history: the newest advertisement decoded                  *)
    behind      (* history: the sensor was connected, or the bridge crashed,
                   after the contact's topic was last written                 *)

vars == <<moves, queue, updates, pc, status, sensor, connected, faults, last, newest, behind>>

State(n) == IF n % 2 = 1 THEN "open" ELSE "closed"

Advert == [n: 0..MaxMoves, relay: Relay, frame: ContactFrame \cup AtcFrame]

TypeOK ==
    /\ moves \in 0..MaxMoves
    /\ \A r \in Relay : queue[r] \in Seq(Advert) /\ Len(queue[r]) <= MaxQueue
    /\ updates \in Seq(Advert) /\ Len(updates) <= Capacity
    /\ pc \in {"idle", "connecting", "panicked"}
    /\ status \in {"open", "closed", "unset"}
    /\ sensor \in {"open", "closed", "unset"}
    /\ connected \in BOOLEAN
    /\ faults \in 0..MaxFaults
    /\ last \in [n: 0..MaxMoves, relay: Relay \cup {None}]
    /\ newest \in [n: 0..MaxMoves, relay: Relay \cup {None}]
    /\ behind \in BOOLEAN

Init ==
    /\ moves = 0
    /\ queue = [r \in Relay |-> <<>>]
    /\ updates = <<>>
    /\ pc = "idle"
    /\ status = "unset"
    /\ sensor = "unset"
    /\ connected \in BOOLEAN
    /\ faults = 0
    /\ last = [n |-> 0, relay |-> None]
    /\ newest = [n |-> 0, relay |-> None]
    /\ behind = TRUE

-----------------------------------------------------------------------------
ContactMoves ==
    /\ moves < MaxMoves
    /\ moves' = moves + 1
    /\ UNCHANGED <<queue, updates, pc, status, sensor, connected, faults, last, newest, behind>>

\* An ESP32 hears an advertisement, new or repeated; others may not hear it.
Heard(r, f) ==
    /\ Len(queue[r]) < MaxQueue
    /\ queue' = [queue EXCEPT ![r] = Append(@, [n |-> moves, relay |-> r, frame |-> f])]
    /\ UNCHANGED <<moves, updates, pc, status, sensor, connected, faults, last, newest, behind>>

\* (Mutant: the channel keeps every message.)
RelayedUnbounded(r) ==
    /\ queue[r] # <<>>
    /\ queue' = [queue EXCEPT ![r] = Tail(@)]
    /\ updates' = Append(updates, Head(queue[r]))
    /\ UNCHANGED <<moves, pc, status, sensor, connected, faults, last, newest, behind>>

\* Its session publishes the oldest one.
Relayed(r) ==
    /\ queue[r] # <<>>
    /\ queue' = [queue EXCEPT ![r] = Tail(@)]
    /\ updates' = Sent(updates, Head(queue[r]))
    /\ UNCHANGED <<moves, pc, status, sensor, connected, faults, last, newest, behind>>

-----------------------------------------------------------------------------
Fate(m) == IF m.frame \in ContactFrame THEN ContactFate(m.frame) ELSE AtcFate(m.frame)

Decoded(m) == m.frame \in ContactFrame /\ Fate(m) = "decoded"

\* (Mutant: the state is written once, and no change of it.)
ContactUpdateOnce(m) ==
    /\ last' = [n |-> m.n, relay |-> m.relay]
    /\ newest' = IF m.n >= newest.n THEN last' ELSE newest
    /\ IF status # "unset"
       THEN UNCHANGED <<pc, status, behind>>
       ELSE /\ status' = State(m.n)
            /\ pc' = "connecting"
            /\ behind' = FALSE

\* The state is written only when it differs from the topic; then the
\* connections are due.
ContactUpdate(m) ==
    /\ last' = [n |-> m.n, relay |-> m.relay]
    /\ newest' = IF m.n >= newest.n THEN last' ELSE newest
    /\ IF status = State(m.n)
       THEN UNCHANGED <<pc, status, behind>>
       ELSE /\ status' = State(m.n)
            /\ pc' = "connecting"
            /\ behind' = FALSE

\* What the thermometer's topic says is left out.
HandleBleUpdateMessage ==
    /\ pc = "idle"
    /\ updates # <<>>
    /\ updates' = Tail(updates)
    /\ LET m == Head(updates) IN
       \/ Decoded(m) /\ ContactUpdate(m)
       \/ ~Decoded(m) /\ Fate(m) # "panic" /\ UNCHANGED <<pc, status, last, newest, behind>>
       \/ Fate(m) = "panic" /\ pc' = "panicked" /\ UNCHANGED <<status, last, newest, behind>>
    /\ UNCHANGED <<moves, queue, sensor, connected, faults>>

\* (Mutant: a window that opens is not reported.)
ClosedOnly == IF connected /\ status = "closed" THEN status ELSE sensor

Mirrored == IF connected THEN status ELSE sensor

UpdateActuatorConnection ==
    /\ pc = "connecting"
    /\ sensor' = Mirrored
    /\ pc' = "idle"
    /\ UNCHANGED <<moves, queue, updates, status, connected, faults, last, newest, behind>>

\* The bridge is restarted; what was on its way is lost, the DHT keeps its topics.
Crash ==
    /\ faults < MaxFaults
    /\ faults' = faults + 1
    /\ pc' = "idle"
    /\ queue' = [r \in Relay |-> <<>>]
    /\ updates' = <<>>
    /\ behind' = (behind \/ pc = "connecting")
    /\ UNCHANGED <<moves, status, sensor, connected, last, newest>>

\* A user connects the sensor to the contact, or to something else.
Replumb ==
    /\ faults < MaxFaults
    /\ faults' = faults + 1
    /\ connected' = ~connected
    /\ behind' = TRUE
    /\ UNCHANGED <<moves, queue, updates, pc, status, sensor, last, newest>>

Next ==
    \/ ContactMoves
    \/ \E r \in Relay : Relayed(r) \/ \E f \in ContactFrame \cup AtcFrame : Heard(r, f)
    \/ HandleBleUpdateMessage
    \/ UpdateActuatorConnection
    \/ Crash
    \/ Replumb

Spec == Init /\ [][Next]_vars

-----------------------------------------------------------------------------
(***************************************************************************)
(* Properties                                                              *)
(***************************************************************************)

\* The preamble of a contact's advertisement stands behind its first 15 characters,
\* with no more than 21 bytes from there to the end.
Late(f) == f.preamble # None /\ f.preamble > 15 /\ f.chars - f.preamble <= 42

\* The advertisement of a thermometer lacks the byte for its length, is shifted by
\* half a byte, or lacks its last byte: the length counts the bytes behind itself.
Cut(f) == /\ f.preamble # None
          /\ \/ f.preamble < 2
             \/ (f.chars - f.preamble) % 2 = 1
             \/ 2 * f.length = f.chars - f.preamble + 2

Damaged(m) == IF m.frame \in ContactFrame THEN Late(m.frame) ELSE Cut(m.frame)

\* The main loop is stopped by no advertisement but these: for contacts the test on
\* 58 characters in one function makes up for slices in another that are not tested,
\* and for thermometers a length byte that is too large by more than one is noticed.
StopsOnlyOnDamaged == [][pc' = "panicked" => pc = "panicked" \/ Damaged(Head(updates))]_vars

\* The topic says what the advertisement decoded last says, and this is older
\* than another one decoded before only when that came through another ESP32.
StaleOnlyByOtherRelay ==
    /\ last.relay # None => status = State(last.n)
    /\ last.n < newest.n => last.relay # newest.relay

\* Between two advertisements the window sensor shows what the contact's topic
\* says, unless it was connected, or the bridge crashed between the two
\* writes, since the contact's topic was last written: advertisements that
\* repeat the state never make up for it.
SensorFollows == pc = "idle" /\ connected /\ ~behind => sensor = status
=============================================================================
