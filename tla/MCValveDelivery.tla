-------------------------- MODULE MCValveDelivery ---------------------------
(* One valve in reach of two actuators with a session each, one strength.   *)
EXTENDS ValveDelivery, TLC

CONSTANTS a1, a2

MCActuator == {a1, a2}
MCSession  == {<<a1, 1>>, <<a2, 1>>}
MCRssi     == {-60}
Symmetry   == Permutations(MCActuator)
=============================================================================
