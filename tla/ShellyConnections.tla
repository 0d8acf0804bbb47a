------------------------- MODULE ShellyConnections --------------------------
(***************************************************************************)
(* The connections to WiFi Shelly devices: src/src/globalshellymanager.rs, *)
(* src/src/shellymanager.rs, and the mode check of src/src/main.rs that    *)
(* drops connections.  The list belongs to the main loop; devices and the  *)
(* network act between its steps.                                          *)
(*                                                                         *)
(* A stream is open; closing, when a Close frame or an error waits to be   *)
(* read; or ended, when that was read: reading an ended stream again       *)
(* yields nothing, for ever, without waiting.                              *)
(***************************************************************************)
EXTENDS Integers, Sequences, SequencesExt

CONSTANTS Address,    (* [mac, ip] pairs mDNS reports for known devices      *)
          MaxWrong    (* bound of the model: devices one mode check finds    *)
                      (* in a mode other than the DHT calls for              *)

ASSUME ShellyAssumption ==
    /\ \A a \in Address : a = [mac |-> a.mac, ip |-> a.ip]
    /\ MaxWrong \in Nat

Entry == {[mac |-> a.mac, ip |-> a.ip, stale |-> old, stream |-> st] :
             a \in Address, old \in BOOLEAN, st \in {"open", "closing", "ended"}}

AddressOf(e) == [mac |-> e.mac, ip |-> e.ip]

Fresh(a) == [mac |-> a.mac, ip |-> a.ip, stale |-> FALSE, stream |-> "open"]

VARIABLES
    shelly_list, (* the list of connections                                  *)
    main,        (* the main loop: select, scan (in the ping branch), hung   *)
                 (* or panicked                                              *)
    idx,         (* entry the scan is at                                     *)
    due,         (* history: entries stale when the scan began that it has   *)
                 (* not reconnected or removed yet                           *)
    changed      (* history: entries told to change mode by the last step    *)

vars == <<shelly_list, main, idx, due, changed>>

TypeOK ==
    /\ shelly_list \in Seq(Entry)
    /\ main \in {"select", "scan", "hung", "panicked"}
    /\ idx \in 0..Len(shelly_list) + 1
    /\ due \subseteq Address
    /\ changed \subseteq Address

Init ==
    /\ shelly_list = <<>>
    /\ main = "select"
    /\ idx = 0
    /\ due = {}
    /\ changed = {}

Indices == 1..Len(shelly_list)

-----------------------------------------------------------------------------
(***************************************************************************)
(* Branches of the main loop                                               *)
(***************************************************************************)

\* mDNS reports a device that has credentials in the DHT.  A device listed
\* with the same mac and ip is left alone, another one is added if the bridge
\* can connect to it.
\* (Mutant: a connection whose device is not answering does not count.)
KnownAndAnswering(a) ==
    \E i \in Indices : AddressOf(shelly_list[i]) = a /\ ~shelly_list[i].stale

Known(a) == \E i \in Indices : AddressOf(shelly_list[i]) = a

InsertShelly(a) ==
    /\ main = "select"
    /\ ~Known(a)
    /\ shelly_list' = Append(shelly_list, Fresh(a))
    /\ changed' = {}
    /\ UNCHANGED <<main, idx, due>>

\* A Pong is read.
ReadPong(i) ==
    /\ main = "select"
    /\ shelly_list[i].stream = "open"
    /\ shelly_list[i].stale
    /\ shelly_list' = [shelly_list EXCEPT ![i].stale = FALSE]
    /\ changed' = {}
    /\ UNCHANGED <<main, idx, due>>

\* A Close frame or an error is read from entry i.  The reader reports only
\* the mac address, and the first entry with that address is removed.
\* (Mutant: the first entry of the list is removed.)
FirstOfAll(m) == 1

FirstWithMac(m) == CHOOSE j \in Indices :
                      /\ shelly_list[j].mac = m
                      /\ \A k \in 1..j - 1 : shelly_list[k].mac # m

\* (Mutant: the error is ignored.)
CloseIgnored(i) ==
    /\ main = "select"
    /\ shelly_list[i].stream = "closing"
    /\ changed' = {}
    /\ UNCHANGED <<shelly_list, main, idx, due>>

ReadClose(i) ==
    /\ main = "select"
    /\ shelly_list[i].stream = "closing"
    /\ shelly_list' = RemoveAt([shelly_list EXCEPT ![i].stream = "ended"],
                               FirstWithMac(shelly_list[i].mac))
    /\ changed' = {}
    /\ UNCHANGED <<main, idx, due>>

\* Polling an ended stream spins without awaiting: the main loop is gone.
PollEnded(i) ==
    /\ main = "select"
    /\ shelly_list[i].stream = "ended"
    /\ main' = "hung"
    /\ changed' = {}
    /\ UNCHANGED <<shelly_list, idx, due>>

\* The ping timer: a Ping is written to every device, then the list is scanned
\* for devices whose last Pong is more than 60 s old.
BeginScan ==
    /\ main = "select"
    /\ main' = "scan"
    /\ idx' = 1
    /\ due' = {AddressOf(shelly_list[i]) : i \in {j \in Indices : shelly_list[j].stale}}
    /\ changed' = {}
    /\ UNCHANGED shelly_list

\* A stale entry is connected anew, or removed when that fails; the entry that
\* takes its place is scanned next.
\* (Mutant: the entry that takes the place of a removed one is skipped.)
AlwaysAdvanced(ok) == idx + 1

Advanced(ok) == IF ok THEN idx + 1 ELSE idx

Reconnect(ok) ==
    /\ main = "scan"
    /\ idx \in Indices
    /\ shelly_list[idx].stale
    /\ shelly_list' = IF ok
                      THEN [shelly_list EXCEPT ![idx] = Fresh(AddressOf(@))]
                      ELSE RemoveAt(shelly_list, idx)
    /\ idx' = Advanced(ok)
    /\ due' = due \ {AddressOf(shelly_list[idx])}
    /\ changed' = {}
    /\ UNCHANGED main

PassOver ==
    /\ main = "scan"
    /\ idx \in Indices
    /\ ~shelly_list[idx].stale
    /\ idx' = idx + 1
    /\ changed' = {}
    /\ UNCHANGED <<shelly_list, main, due>>

EndScan ==
    /\ main = "scan"
    /\ idx > Len(shelly_list)
    /\ main' = "select"
    /\ idx' = 0
    /\ changed' = {}
    /\ UNCHANGED <<shelly_list, due>>

\* The mode check: devices in the wrong mode are told to change it, their
\* indices are collected in ascending order and then removed one after the
\* other from the shrinking list.
\* (Mutant: the devices in the right mode are collected.)
ToRemoveRight(wrong) ==
    LET ids[n \in 0..Len(shelly_list)] ==
          IF n = 0 THEN <<>>
          ELSE IF AddressOf(shelly_list[n]) \notin wrong THEN Append(ids[n - 1], n)
          ELSE ids[n - 1]
    IN  ids[Len(shelly_list)]

ToRemove(wrong) ==
    LET ids[n \in 0..Len(shelly_list)] ==
          IF n = 0 THEN <<>>
          ELSE IF AddressOf(shelly_list[n]) \in wrong THEN Append(ids[n - 1], n)
          ELSE ids[n - 1]
    IN  ids[Len(shelly_list)]

OutOfRange(ids) == \E k \in DOMAIN ids : ids[k] > Len(shelly_list) - (k - 1)

Removed(list, ids) ==
    LET left[k \in 0..Len(ids)] ==
          IF k = 0 THEN list ELSE RemoveAt(left[k - 1], ids[k])
    IN  left[Len(ids)]

CheckShellyEsp8266Mode(wrong) ==
    /\ main = "select"
    /\ changed' = wrong
    /\ IF OutOfRange(ToRemove(wrong))
       THEN /\ main' = "panicked"
            /\ UNCHANGED shelly_list
       ELSE /\ shelly_list' = Removed(shelly_list, ToRemove(wrong))
            /\ UNCHANGED main
    /\ UNCHANGED <<idx, due>>

-----------------------------------------------------------------------------
(***************************************************************************)
(* Devices, network and time                                               *)
(***************************************************************************)

\* The device closes the connection or the connection fails.
StreamCloses(i) ==
    /\ shelly_list[i].stream = "open"
    /\ shelly_list' = [shelly_list EXCEPT ![i].stream = "closing"]
    /\ changed' = {}
    /\ UNCHANGED <<main, idx, due>>

\* More than 60 s pass since the last Pong was read.
PongExpires(i) ==
    /\ ~shelly_list[i].stale
    /\ shelly_list' = [shelly_list EXCEPT ![i].stale = TRUE]
    /\ changed' = {}
    /\ UNCHANGED <<main, idx, due>>

-----------------------------------------------------------------------------
Listed == {AddressOf(shelly_list[i]) : i \in Indices}

\* The devices a check finds in the wrong mode are chosen freely; which they are
\* depends on the DHT (CalculateMode in DeviceStatus, ModeCheck in DeviceControl).
\* The mode is a matter of the device, so of all its entries.
WrongModes == LET macs == {a.mac : a \in Listed} IN
              {{a \in Listed : a.mac \in wrong} :
                  wrong \in {w \in SUBSET macs : w # {} /\ Cardinality(w) <= MaxWrong}}

AnyReconnect == \E ok \in BOOLEAN : Reconnect(ok)

Scan == AnyReconnect \/ PassOver \/ EndScan

Running == main \in {"select", "scan"}

Next ==
    \/ \E a \in Address : InsertShelly(a)
    \/ BeginScan
    \/ Scan
    \/ \E wrong \in WrongModes : CheckShellyEsp8266Mode(wrong)
    \/ \E i \in Indices : ReadPong(i) \/ ReadClose(i) \/ PollEnded(i)
    \/ \E i \in Indices : Running /\ (StreamCloses(i) \/ PongExpires(i))

Spec == Init /\ [][Next]_vars

\* A connection attempt ends, in success or in an error; select! picks at
\* random among its ready branches, so none is passed over for ever.
ReadCloseOf(a) == \E i \in Indices : AddressOf(shelly_list[i]) = a /\ ReadClose(i)

FairSpec ==
    /\ Spec
    /\ WF_vars(Scan)
    /\ SF_vars(BeginScan)
    /\ \A a \in Address : SF_vars(ReadCloseOf(a))

-----------------------------------------------------------------------------
(***************************************************************************)
(* Properties                                                              *)
(***************************************************************************)

\* A device is connected at most once at each of its addresses, however
\* discovery, scans and closing connections interleave.
NoDuplicateConnection ==
    \A i, j \in Indices :
        AddressOf(shelly_list[i]) = AddressOf(shelly_list[j]) => i = j

\* The main loop never polls a stream that has ended and never removes past the
\* end of the list: the bridge stays able to receive commands (README.md, the
\* DHT module).
StaysResponsive == Running

\* The scan of a list that shrinks under it passes over no stale entry: those
\* it has still to see are ahead of it, and at the end there are none.
ScanMissesNone ==
    /\ due # {} => main = "scan"
    /\ \A i \in Indices : AddressOf(shelly_list[i]) \in due =>
          shelly_list[i].stale /\ i >= idx
    /\ due \subseteq Listed

\* The steps after which every connection that left the list was closing or stale
\* or its own device was told to change mode, and those that were told have left.
OnlyBrokenDropped ==
    /\ \A i \in Indices :
          \/ AddressOf(shelly_list[i]) \in Listed'
          \/ shelly_list[i].stream = "closing"
          \/ shelly_list[i].stale
          \/ AddressOf(shelly_list[i]) \in changed'
    /\ changed' \cap Listed' = {}

\* A connection leaves the list only because it was closing or stale or because
\* its own device was told to change mode, and then it does leave.
DropsOnlyBroken == [][OnlyBrokenDropped]_vars

\* A connection that was closed by its device is eventually removed or renewed.
ClosingEventuallyGone ==
    \A a \in Address :
        (\E i \in Indices : AddressOf(shelly_list[i]) = a /\ shelly_list[i].stream = "closing")
        ~> ~(\E i \in Indices : AddressOf(shelly_list[i]) = a
                                /\ shelly_list[i].stream = "closing")
=============================================================================
