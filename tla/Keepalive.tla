----------------------------- MODULE Keepalive ------------------------------
(***************************************************************************)
(* The keepalive between the main loop and the ESP32 sessions: the ping    *)
(* timer of src/src/main.rs and the Ping and Pong branches of              *)
(* src/src/wssmanager.rs, against time.                                    *)
(*                                                                         *)
(* A session judges its device only when the main loop publishes a Ping,   *)
(* and the main loop publishes late when other branches hold it between    *)
(* the tick and the publication (reconnections to Shelly devices above     *)
(* all), several in a row or for longer than a whole period.               *)
(* All times are ages in one unit, so no clock grows without bound.        *)
(***************************************************************************)
EXTENDS Integers

CONSTANTS Session,   (* ESP32 sessions                                      *)
          Period,    (* period of the ping timer; 10 s in the code          *)
          Limit,     (* age of the last Pong that is tolerated; 60 s        *)
          Latency,   (* longest time a live device takes to answer a Ping   *)
          MaxStall,  (* longest time by which a Ping, or the answer to      *)
           (* credentials, is late, whatever the main loop did    *)
          None       (* no Ping is owed an answer                           *)

ASSUME KeepaliveAssumption ==
    /\ Period \in Nat \ {0}
    /\ Limit \in Nat
    /\ Latency \in Nat
    /\ MaxStall \in Nat
    /\ None \notin Nat

MaxGap == Period + MaxStall   \* longest time between two publications

VARIABLES
    due,      (* time until the next scheduled tick; negative when overdue  *)
    sincePing,(* time since the last Ping was published                     *)
    phase,    (* closed; waiting for the answer to its credentials; open    *)
    age,      (* time since last_pong_timestamp                             *)
    queued,   (* a Ping waits in the channel of a session not yet open      *)
    owed,     (* age of the oldest Ping not answered yet, or None           *)
    silent,   (* sessions whose device has stopped answering                *)
    cutOff    (* history: sessions closed by a Ping though not silent       *)

vars == <<due, sincePing, phase, age, queued, owed, silent, cutOff>>

TypeOK ==
    /\ due \in -MaxStall..Period
    /\ sincePing \in 0..MaxGap
    /\ phase \in [Session -> {"closed", "waiting", "open"}]
    /\ age \in [Session -> Nat]
    /\ queued \in [Session -> BOOLEAN]
    /\ owed \in [Session -> Nat \cup {None}]
    /\ silent \subseteq Session
    /\ cutOff \subseteq Session

\* The first tick of a tokio interval is due at once.
Init ==
    /\ due = 0
    /\ sincePing = 0
    /\ phase = [s \in Session |-> "closed"]
    /\ age = [s \in Session |-> 0]
    /\ queued = [s \in Session |-> FALSE]
    /\ owed = [s \in Session |-> None]
    /\ silent = {}
    /\ cutOff = {}

-----------------------------------------------------------------------------
\* A device connects: the session subscribes to the command channel and takes
\* the time as its first last_pong_timestamp before its credentials are checked.
Upgrade(s) ==
    /\ phase[s] = "closed"
    /\ phase' = [phase EXCEPT ![s] = "waiting"]
    /\ age' = [age EXCEPT ![s] = 0]
    /\ queued' = [queued EXCEPT ![s] = FALSE]
    /\ owed' = [owed EXCEPT ![s] = None]
    /\ silent' = silent \ {s}
    /\ cutOff' = cutOff \ {s}
    /\ UNCHANGED <<due, sincePing>>

\* A session handles a Ping: it gives up a device whose last Pong is too old
\* and pings every other.
\* (Mutants: off by one, to either side.)
OldAtLimit(s) == age[s] >= Limit

OldBeyondLimit(s) == age[s] > Limit + 1

TooOld(s) == age[s] > Limit

\* (Mutant: every Ping restarts the wait for an answer.)
WaitRestarted(s) == 0

OwedAfterPing(s) == IF owed[s] = None THEN 0 ELSE owed[s]

\* The main loop has accepted the credentials: the session enters its loop and
\* first handles a Ping that was published while it waited.
EnterLoop(s) ==
    /\ phase[s] = "waiting"
    /\ LET expired == queued[s] /\ TooOld(s) IN
       /\ phase' = [phase EXCEPT ![s] = IF expired THEN "closed" ELSE "open"]
       /\ cutOff' = IF expired /\ s \notin silent THEN cutOff \cup {s} ELSE cutOff
       /\ owed' = [owed EXCEPT ![s] = IF queued[s] /\ ~expired THEN 0 ELSE None]
    /\ queued' = [queued EXCEPT ![s] = FALSE]
    /\ UNCHANGED <<due, sincePing, age, silent>>

\* The credentials are refused, or the device closes its connection.
Leave(s) ==
    /\ phase[s] # "closed"
    /\ phase' = [phase EXCEPT ![s] = "closed"]
    /\ owed' = [owed EXCEPT ![s] = None]
    /\ UNCHANGED <<due, sincePing, age, queued, silent, cutOff>>

\* The main loop takes a tick of the ping timer and publishes a Ping.  Ticks
\* that were missed are not skipped: the next one is due a period after the
\* schedule of this one.
Expired == {s \in Session : phase[s] = "open" /\ TooOld(s)}

\* (Mutants: a tick too long between two ticks; the time of the last Pong is
\* refreshed when a Ping is sent.)
TickTooLate == due + Period + 1

NextTick == due + Period

PublishAndRefresh ==
    /\ due <= 0
    /\ due' = NextTick
    /\ sincePing' = 0
    /\ phase' = [s \in Session |-> IF s \in Expired THEN "closed" ELSE phase[s]]
    /\ cutOff' = cutOff \cup (Expired \ silent)
    /\ queued' = [s \in Session |-> queued[s] \/ phase[s] = "waiting"]
    /\ owed' = [s \in Session |-> None]
    /\ age' = [s \in Session |-> IF phase[s] = "open" THEN 0 ELSE age[s]]
    /\ UNCHANGED silent

PublishPing ==
    /\ due <= 0
    /\ due' = NextTick
    /\ sincePing' = 0
    /\ phase' = [s \in Session |-> IF s \in Expired THEN "closed" ELSE phase[s]]
    /\ cutOff' = cutOff \cup (Expired \ silent)
    /\ queued' = [s \in Session |-> queued[s] \/ phase[s] = "waiting"]
    /\ owed' = [s \in Session |->
                   IF phase[s] # "open" \/ s \in Expired THEN None ELSE OwedAfterPing(s)]
    /\ UNCHANGED <<age, silent>>

\* The device answers and the session takes the time of the Pong.
PongReceived(s) ==
    /\ phase[s] = "open"
    /\ owed[s] # None
    /\ s \notin silent
    /\ age' = [age EXCEPT ![s] = 0]
    /\ owed' = [owed EXCEPT ![s] = None]
    /\ UNCHANGED <<due, sincePing, phase, queued, silent, cutOff>>

\* The device loses power or the network without closing the connection.
FallSilent(s) ==
    /\ phase[s] # "closed"
    /\ s \notin silent
    /\ silent' = silent \cup {s}
    /\ UNCHANGED <<due, sincePing, phase, age, queued, owed, cutOff>>

-----------------------------------------------------------------------------
\* Time passes unless something is overdue: all that the main loop does before
\* it comes to a tick, however many branches and missed ticks that are, takes
\* at most MaxStall, and so it is for credentials; a live device answers within
\* Latency.
Older(t) == IF t = None THEN None ELSE t + 1

Tick ==
    /\ due > -MaxStall
    /\ \A s \in Session :
          /\ phase[s] = "waiting" => age[s] < MaxStall
          /\ phase[s] = "open" /\ owed[s] # None /\ s \notin silent => owed[s] < Latency
    /\ due' = due - 1
    /\ sincePing' = sincePing + 1
    /\ age' = [s \in Session |-> IF phase[s] = "closed" THEN 0 ELSE age[s] + 1]
    /\ owed' = [s \in Session |-> Older(owed[s])]
    /\ UNCHANGED <<phase, queued, silent, cutOff>>

SessionStep(s) ==
    Upgrade(s) \/ EnterLoop(s) \/ Leave(s) \/ PongReceived(s) \/ FallSilent(s)

Next == Tick \/ PublishPing \/ \E s \in Session : SessionStep(s)

Spec == Init /\ [][Next]_vars

\* Time goes on, the main loop comes back from every branch, and live devices
\* answer: what the guards of Tick wait for happens.
FairSpec ==
    /\ Spec
    /\ WF_vars(Tick)
    /\ WF_vars(PublishPing)
    /\ \A s \in Session : WF_vars(EnterLoop(s)) /\ WF_vars(PongReceived(s))

-----------------------------------------------------------------------------
(***************************************************************************)
(* Properties                                                              *)
(***************************************************************************)

\* Between two publications at most MaxGap passes, and the age of the last
\* Pong of an answering device never outruns the publications: an unanswered
\* Ping is young, and before it the last Pong was younger than the Ping before.
PongsKeepPace ==
    /\ sincePing + due <= Period
    /\ \A s \in Session :
        /\ phase[s] = "waiting" =>
             /\ age[s] <= MaxStall
             /\ owed[s] = None
             /\ ~queued[s] => age[s] <= sincePing
        /\ phase[s] = "open" /\ owed[s] = None => age[s] <= sincePing
        /\ phase[s] = "open" /\ owed[s] # None =>
             /\ age[s] <= owed[s] + MaxGap
             /\ s \notin silent => owed[s] <= Latency

\* The code tolerates a stall of the main loop up to this budget.
StallWithinBudget == Latency + MaxGap <= Limit

\* A session is never closed by a Ping while its device answers every Ping in
\* time (wssmanager.rs closes a session for lack of Pongs only).
AnsweringNeverCutOff == cutOff = {}

\* However the session was opened and whatever held the main loop, no session is
\* kept whose last Pong is older than the limit and the longest gap between two
\* Pings: a device that has gone silent is given up within that time.
GivenUpInTime == \A s \in Session : phase[s] = "open" => age[s] <= Limit + MaxGap

\* A session whose device has gone silent is eventually closed (or its device
\* comes back as a new session), although TCP never tells.
SilentEventuallyClosed ==
    \A s \in Session : (phase[s] = "open" /\ s \in silent) ~> phase[s] = "closed"
=============================================================================
