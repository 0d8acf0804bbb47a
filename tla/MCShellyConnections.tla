------------------------ MODULE MCShellyConnections -------------------------
(* Three devices with one address each, or two of which one has two (its    *)
(* address was leased anew while the old connection was still listed).      *)
EXTENDS ShellyConnections

MCOneAddressEach == {[mac |-> "m1", ip |-> "ip1"], [mac |-> "m2", ip |-> "ip2"],
                     [mac |-> "m3", ip |-> "ip3"]}

MCNewLease == {[mac |-> "m1", ip |-> "ip1"], [mac |-> "m1", ip |-> "ip2"],
               [mac |-> "m2", ip |-> "ip3"]}
=============================================================================
