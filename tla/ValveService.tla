---------------------------- MODULE ValveService ----------------------------
(***************************************************************************)
(* What the bridge promises about radiator valve orders, independently of  *)
(* timers, BLE beacons and ESP32 sessions.  An order, once accepted, is    *)
(* kept until the DHT reports the desired state or the transmission budget *)
(* is spent; a newer order for the same valve replaces it.                 *)
(***************************************************************************)
EXTENDS Naturals

CONSTANTS Valve,   (* the radiator valves                                *)
          Budget,  (* transmissions after which an order may be given up *)
          None     (* "no order", not an order                           *)

VARIABLES order,   (* the order pending for each valve, or None          *)
          status   (* what the DHT says of each valve                    *)

vars == <<order, status>>

Status  == {"absent", "unset", "0", "1"}
Desired == {"unspecified", "0", "1"}
Order   == [desired: Desired, sent: 0..Budget]

Init == /\ order = [v \in Valve |-> None]
        /\ status \in [Valve -> Status]

\* An order is accepted, transmitted at once or left to a later attempt.
Accept(v) ==
    \E d \in Desired, n \in {0, 1} :
        /\ order' = [order EXCEPT ![v] = [desired |-> d, sent |-> n]]
        /\ UNCHANGED status

\* What one attempt may do to the order of valve v.
Attempted(v, o) ==
    \/ o = order[v]
    \/ /\ order[v] # None
       /\ order[v].sent < Budget
       /\ o = [order[v] EXCEPT !.sent = @ + 1]
    \/ /\ order[v] # None
       /\ order[v].desired = status[v] \/ order[v].sent = Budget
       /\ o = None

Attempt == /\ order' \in [Valve -> Order \cup {None}]
           /\ \A v \in Valve : Attempted(v, order'[v])
           /\ UNCHANGED status

Report(v) == /\ status' \in {[status EXCEPT ![v] = s] : s \in Status}
             /\ UNCHANGED order

Next == \/ Attempt
        \/ \E v \in Valve : Accept(v) \/ Report(v)

Spec == Init /\ [][Next]_vars
=============================================================================
