-------------------------- MODULE MCValveCommands ---------------------------
(* Two valves share the queue and the timer; one actuator reports them with *)
(* two strengths.                                                           *)
EXTENDS ValveCommands

MCRssi == {-80, -60}
=============================================================================
