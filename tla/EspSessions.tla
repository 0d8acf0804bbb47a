---------------------------- MODULE EspSessions -----------------------------
(***************************************************************************)
(* The ESP32 sessions of src/src/wssmanager.rs: one task per WebSocket,    *)
(* the handshake with the main loop through an mpsc channel and a oneshot  *)
(* responder, and the delivery of the commands the main loop publishes on  *)
(* a broadcast channel.  The tasks run in parallel with the main loop; an  *)
(* action is the code of one of them up to its next use of a channel or of *)
(* the socket.                                                             *)
(*                                                                         *)
(* Time is abstracted to whether the last Pong is older than 60 s; the     *)
(* module Keepalive has the clock.  What the DHT says of credentials and   *)
(* modes is chosen anew whenever the code reads it.                        *)
(***************************************************************************)
EXTENDS Integers, Sequences, Functions, BroadcastChannel

CONSTANTS Session,      (* slots for session tasks                           *)
          Mac,          (* mac addresses of ESP32 actuators                  *)
          Command,      (* the commands the main loop may publish            *)
          AuthCapacity, (* capacity of the credentials channel; 32           *)
          MaxCommands,  (* bound of the model: commands ever published       *)
          MaxAccepts,   (* bound of the model: credentials ever accepted     *)
          None          (* no mac address, no response                       *)

ModeCommand(m) == [type |-> "Actuator", target |-> m, action |-> TRUE]

ASSUME EspSessionsAssumption ==
    /\ Command \subseteq [type: {"Actuator", "Valve", "Ping"},
                          target: Mac \cup {None}, action: BOOLEAN]
    /\ \A m \in Mac : ModeCommand(m) \in Command
    /\ AuthCapacity \in Nat \ {0}
    /\ MaxCommands \in Nat
    /\ MaxAccepts \in Nat
    /\ None \notin Mac \cup {"accepted", "refused"}

Fate   == {"none", "sent", "skipped", "lost"}
NoFate == [p \in 1..MaxCommands |-> "none"]

(* phase:      free; subscribed to the command channel; waiting for the      *)
(*             answer to its credentials; active in its loop                 *)
(* peer:       the device that connected, known by its credentials           *)
(* esp32_mac_address: the address the main loop answered with                *)
(* socketUp:   the socket still delivers frames                              *)
(* pongTooOld: last_pong_timestamp is more than 60 s ago                     *)
(* resp:       the oneshot channel                                           *)
(* next:       commands the receiver is past                                 *)
(* start:      history: next when the session subscribed                     *)
(* fate:       history: what became of each command here                     *)
Task == [phase: {"free", "subscribed", "waiting", "active"},
         peer: Mac \cup {None}, esp32_mac_address: Mac \cup {None},
         socketUp: BOOLEAN, pongTooOld: BOOLEAN,
         resp: {"accepted", "refused", None},
         next: 0..MaxCommands, start: 0..MaxCommands,
         fate: [1..MaxCommands -> Fate]]

Free == [phase |-> "free", peer |-> None, esp32_mac_address |-> None,
         socketUp |-> FALSE, pongTooOld |-> FALSE, resp |-> None,
         next |-> 0, start |-> 0, fate |-> NoFate]

VARIABLES
    task,                  (* the session task in each slot                  *)
    rx_auth_cred,          (* the mpsc channel of credentials                *)
    log,                   (* command_channel: everything published on it    *)
    shelly_plus_actuators, (* main loop: addresses accepted, in order        *)
    modeCheck              (* main loop: entry its mode check is at, or 0    *)

vars == <<task, rx_auth_cred, log, shelly_plus_actuators, modeCheck>>

TypeOK ==
    /\ task \in [Session -> Task]
    /\ rx_auth_cred \in Seq(Session)
    /\ Len(rx_auth_cred) <= AuthCapacity
    /\ log \in Seq(Command)
    /\ Len(log) <= MaxCommands
    /\ shelly_plus_actuators \in Seq(Mac)
    /\ Len(shelly_plus_actuators) <= MaxAccepts
    /\ modeCheck \in 0..Len(shelly_plus_actuators)

Init ==
    /\ task = [s \in Session |-> Free]
    /\ rx_auth_cred = <<>>
    /\ log = <<>>
    /\ shelly_plus_actuators = <<>>
    /\ modeCheck = 0

-----------------------------------------------------------------------------
(***************************************************************************)
(* The handshake                                                           *)
(***************************************************************************)

In(s, phase) == task[s].phase = phase

\* An HTTP request with credentials arrives.  The handler subscribes to the
\* command channel before anything else; the upgrade then runs the session.
HandleWebsocketReq(s, m) ==
    /\ In(s, "free")
    /\ task' = [task EXCEPT ![s] =
                   [Free EXCEPT !.phase = "subscribed", !.peer = m, !.socketUp = TRUE,
                                !.next = Subscribed(log), !.start = Len(log)]]
    /\ UNCHANGED <<rx_auth_cred, log, shelly_plus_actuators, modeCheck>>

\* The upgrade fails, the closure is never run.
UpgradeFails(s) ==
    /\ In(s, "subscribed")
    /\ task' = [task EXCEPT ![s] = Free]
    /\ UNCHANGED <<rx_auth_cred, log, shelly_plus_actuators, modeCheck>>

\* The session sends its credentials and a responder to the main loop; it
\* waits while the channel is full.
SendCred(s) ==
    /\ In(s, "subscribed")
    /\ Len(rx_auth_cred) < AuthCapacity
    /\ rx_auth_cred' = Append(rx_auth_cred, s)
    /\ task' = [task EXCEPT ![s].phase = "waiting"]
    /\ UNCHANGED <<log, shelly_plus_actuators, modeCheck>>

\* The main loop takes the oldest credentials, answers, and remembers the
\* address of an accepted device, again if it was known already.  (The list
\* is private to the main loop: its update needs no step of its own.)
\* (Mutants: a refusal is not answered; the wrong devices are remembered.)
AnswerOnlyAccepted(accepted) == IF accepted THEN "accepted" ELSE None

Answer(accepted) == IF accepted THEN "accepted" ELSE "refused"

RememberedRefused(accepted, m) ==
    IF accepted THEN shelly_plus_actuators ELSE Append(shelly_plus_actuators, m)

Remembered(accepted, m) ==
    IF accepted THEN Append(shelly_plus_actuators, m) ELSE shelly_plus_actuators

HandleCredMessage(accepted) ==
    /\ modeCheck = 0
    /\ rx_auth_cred # <<>>
    /\ accepted => Len(shelly_plus_actuators) < MaxAccepts
    /\ rx_auth_cred' = Tail(rx_auth_cred)
    /\ task' = [task EXCEPT ![Head(rx_auth_cred)].resp = Answer(accepted)]
    /\ shelly_plus_actuators' = Remembered(accepted, task[Head(rx_auth_cred)].peer)
    /\ UNCHANGED <<log, modeCheck>>

\* (Mutants: the session subscribes only now; the answer stays behind.)
SubscribedLate(t) ==
    IF t.resp = "accepted"
    THEN [t EXCEPT !.phase = "active", !.resp = None, !.esp32_mac_address = t.peer,
                   !.next = Subscribed(log)]
    ELSE Free

AnswerKept(t) ==
    IF t.resp = "accepted"
    THEN [t EXCEPT !.phase = "active", !.esp32_mac_address = t.peer]
    ELSE Free

\* The session takes the answer: it enters its loop or ends.
Answered(t) ==
    IF t.resp = "accepted"
    THEN [t EXCEPT !.phase = "active", !.resp = None, !.esp32_mac_address = t.peer]
    ELSE Free

TakeResponse(s) ==
    /\ In(s, "waiting")
    /\ task[s].resp # None
    /\ task' = [task EXCEPT ![s] = Answered(@)]
    /\ UNCHANGED <<rx_auth_cred, log, shelly_plus_actuators, modeCheck>>

-----------------------------------------------------------------------------
(***************************************************************************)
(* The loop of a session                                                   *)
(***************************************************************************)

\* A command that a session forwards to its device.
Addressed(t, cmd) == /\ cmd.type # "Ping"
                     /\ cmd.target = t.esp32_mac_address
                     /\ cmd.action

\* (Mutants: a lagging session drops its whole backlog, or stays where it is.)
BacklogDropped(t) ==
    [t EXCEPT !.next = Len(log),
              !.fate = [p \in 1..MaxCommands |->
                           IF p \in t.next + 1..Len(log) THEN "skipped" ELSE t.fate[p]]]

StaysBehind(t) == t

\* recv answers a lagging session with an error, which the session drops
\* together with the commands it stands for.
Skipped(t) ==
    [t EXCEPT !.next = AfterRecv(log, t.next),
              !.fate = [p \in 1..MaxCommands |->
                           IF p \in t.next + 1..AfterRecv(log, t.next)
                           THEN "skipped" ELSE t.fate[p]]]

SkipLagged(s) ==
    /\ In(s, "active")
    /\ Lagged(log, task[s].next)
    /\ task' = [task EXCEPT ![s] = Skipped(@)]
    /\ UNCHANGED <<rx_auth_cred, log, shelly_plus_actuators, modeCheck>>

\* One command is taken: forwarded if it is for this device (a failed write is
\* ignored); a Ping ends the session if its device has not answered lately.
Taken(t, cmd) ==
    IF cmd.type = "Ping" /\ t.pongTooOld THEN Free
    ELSE [t EXCEPT !.next = AfterRecv(log, t.next),
                   !.fate = IF Addressed(t, cmd)
                            THEN [@ EXCEPT ![t.next + 1] =
                                     IF t.socketUp THEN "sent" ELSE "lost"]
                            ELSE @]

ReceiveCommand(s) ==
    /\ In(s, "active")
    /\ Readable(log, task[s].next)
    /\ ~Lagged(log, task[s].next)
    /\ task' = [task EXCEPT ![s] = Taken(@, log[@.next + 1])]
    /\ UNCHANGED <<rx_auth_cred, log, shelly_plus_actuators, modeCheck>>

PongReceived(s) ==
    /\ In(s, "active")
    /\ task[s].socketUp
    /\ task' = [task EXCEPT ![s].pongTooOld = FALSE]
    /\ UNCHANGED <<rx_auth_cred, log, shelly_plus_actuators, modeCheck>>

CloseReceived(s) ==
    /\ In(s, "active")
    /\ task[s].socketUp
    /\ task' = [task EXCEPT ![s] = Free]
    /\ UNCHANGED <<rx_auth_cred, log, shelly_plus_actuators, modeCheck>>

\* The connection breaks without a Close frame.  A session in its loop only
\* disables the branch that reads the socket and stays.
SocketEnds(s) ==
    /\ task[s].socketUp
    /\ task' = [task EXCEPT ![s].socketUp = FALSE]
    /\ UNCHANGED <<rx_auth_cred, log, shelly_plus_actuators, modeCheck>>

\* More than 60 s pass since the last Pong (or since the upgrade).
PongExpires(s) ==
    /\ ~In(s, "free")
    /\ ~task[s].pongTooOld
    /\ task' = [task EXCEPT ![s].pongTooOld = TRUE]
    /\ UNCHANGED <<rx_auth_cred, log, shelly_plus_actuators, modeCheck>>

-----------------------------------------------------------------------------
(***************************************************************************)
(* The main loop publishes                                                 *)
(***************************************************************************)

\* A command from the DHT, a valve command sent again, or the Ping of the
\* timer.  Valve commands are published only once some ESP32 was accepted.
Publish(cmd) ==
    /\ modeCheck = 0
    /\ Len(log) < MaxCommands
    /\ cmd.type = "Valve" => shelly_plus_actuators # <<>>
    /\ log' = Append(log, cmd)
    /\ UNCHANGED <<task, rx_auth_cred, shelly_plus_actuators, modeCheck>>

\* The mode check goes through the list of accepted addresses and publishes a
\* command for every entry whose device is in the wrong mode.
BeginModeCheck ==
    /\ modeCheck = 0
    /\ shelly_plus_actuators # <<>>
    /\ modeCheck' = 1
    /\ UNCHANGED <<task, rx_auth_cred, log, shelly_plus_actuators>>

\* (Mutant: the check runs past the end of the list.)
EntryPastEnd == modeCheck + 1

NextEntry == IF modeCheck = Len(shelly_plus_actuators) THEN 0 ELSE modeCheck + 1

CheckShellyEsp32Mode(wrong) ==
    /\ modeCheck > 0
    /\ modeCheck' = NextEntry
    /\ wrong => Len(log) < MaxCommands
    /\ log' = IF wrong
              THEN Append(log, ModeCommand(shelly_plus_actuators[modeCheck]))
              ELSE log
    /\ UNCHANGED <<task, rx_auth_cred, shelly_plus_actuators>>

-----------------------------------------------------------------------------
SessionStep(s) ==
    \/ \E m \in Mac : HandleWebsocketReq(s, m)
    \/ UpgradeFails(s)
    \/ SendCred(s)
    \/ TakeResponse(s)
    \/ SkipLagged(s)
    \/ ReceiveCommand(s)
    \/ PongReceived(s)
    \/ CloseReceived(s)
    \/ SocketEnds(s)
    \/ PongExpires(s)

MainStep ==
    \/ \E accepted \in BOOLEAN : HandleCredMessage(accepted)
    \/ \E cmd \in Command : Publish(cmd)
    \/ BeginModeCheck
    \/ \E wrong \in BOOLEAN : CheckShellyEsp32Mode(wrong)

Next == MainStep \/ \E s \in Session : SessionStep(s)

Spec == Init /\ [][Next]_vars

\* select! picks at random among the branches of the main loop that are ready,
\* so the credentials branch is not passed over for ever; a mode check ends;
\* every task is scheduled; a full mpsc channel serves its senders in order,
\* which is more than the strong fairness of SendCred.
FairSpec ==
    /\ Spec
    /\ SF_vars(\E accepted \in BOOLEAN : HandleCredMessage(accepted))
    /\ WF_vars(\E wrong \in BOOLEAN : CheckShellyEsp32Mode(wrong))
    /\ \A s \in Session : /\ SF_vars(SendCred(s))
                          /\ WF_vars(TakeResponse(s))
                          /\ WF_vars(SkipLagged(s) \/ ReceiveCommand(s))

-----------------------------------------------------------------------------
(***************************************************************************)
(* Properties                                                              *)
(***************************************************************************)

Queued(s) == s \in Range(rx_auth_cred)

\* A waiting session has its credentials in the channel, once, or its answer
\* in the oneshot channel, never both and never neither: the unwrap of rx_resp
\* (wssmanager.rs) cannot fail, and no answer reaches a task it is not for.
ResponderHeld ==
    /\ \A s \in Session :
          /\ In(s, "waiting") => (Queued(s) <=> task[s].resp = None)
          /\ ~In(s, "waiting") => ~Queued(s) /\ task[s].resp = None
    /\ \A i, j \in 1..Len(rx_auth_cred) :
          rx_auth_cred[i] = rx_auth_cred[j] => i = j

\* The main loop knows the device of every active session, so its test of
\* shelly_plus_actuators never withholds a Valve command from one.
ActiveIsKnown ==
    \A s \in Session :
        /\ In(s, "active") => task[s].esp32_mac_address \in Range(shelly_plus_actuators)
        /\ task[s].resp = "accepted" => task[s].peer \in Range(shelly_plus_actuators)

\* Every command published since an active session subscribed, also during its
\* handshake, is still ahead of it or met its fate: those for its device were
\* forwarded, lost to a broken socket or skipped, and no other was forwarded.
AccountedFor ==
    \A s \in Session : In(s, "active") =>
        LET t == task[s] IN
        /\ t.start <= t.next
        /\ t.next <= Len(log)
        /\ \A p \in 1..MaxCommands :
             IF t.start < p /\ p <= t.next
             THEN IF Addressed(t, log[p]) THEN t.fate[p] # "none"
                                          ELSE t.fate[p] \in {"none", "skipped"}
             ELSE t.fate[p] = "none"

\* A command is skipped only when more than Capacity commands were waiting:
\* never one of the last Capacity commands published.
SkippedOnlyWhenLagging ==
    \A s \in Session, p \in 1..MaxCommands :
        task[s].fate[p] = "skipped" => p + Capacity <= Len(log)

\* Credentials are always answered: no session waits for ever, even when the
\* channel is full and devices keep connecting.
CredentialsAnswered ==
    \A s \in Session :
        (In(s, "subscribed") \/ In(s, "waiting")) ~> (In(s, "free") \/ In(s, "active"))

\* An active session gets to the end of its backlog or ends.
BacklogDrained ==
    \A s \in Session :
        In(s, "active") ~> (~In(s, "active") \/ task[s].next = Len(log))
=============================================================================
