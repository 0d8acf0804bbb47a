-------------------------- MODULE MCContactSensor ---------------------------
(* Advertisements of as few bytes as are parsed (31 with the two that are    *)
(* added), with the preamble at its usual place and behind it; those of a    *)
(* thermometer lack their last byte, or their last two.                      *)
EXTENDS ContactSensor, TLC

MCContact == [chars: {58}, preamble: {10, 16}, object: {9}, length: {0}]
MCAtc     == [chars: {38}, preamble: {8}, object: {0}, length: {16, 17}]
Symmetry  == Permutations(Relay)
=============================================================================
