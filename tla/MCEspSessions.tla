--------------------------- MODULE MCEspSessions ----------------------------
(* Two devices; the commands are the ones a session tells apart: for m1,    *)
(* for another device, without a payload to forward, and Pings.             *)
EXTENDS EspSessions

CONSTANTS m1, m2

MCCommand ==
    {ModeCommand(m1), ModeCommand(m2),
     [type |-> "Valve", target |-> m1, action |-> TRUE],
     [type |-> "Actuator", target |-> m1, action |-> FALSE],
     [type |-> "Ping", target |-> None, action |-> FALSE]}

(* Where only the handshake matters, one device and no command.             *)
MCCommandOne == {ModeCommand(m1)}
=============================================================================
