------------------------ MODULE ContactSensorProofs -------------------------
(***************************************************************************)
(* Proofs about BleParsing for frames of every length, and about           *)
(* ContactSensor for every set of ESP32s and frames, every channel         *)
(* capacity, and any number of advertisements, moves and failures.         *)
(***************************************************************************)
EXTENDS ContactSensor, TLAPS

-----------------------------------------------------------------------------
(***************************************************************************)
(* The index arithmetic                                                    *)
(***************************************************************************)

LEMMA HalfFacts ==
    ASSUME NEW n \in Nat
    PROVE  /\ n \div 2 \in Nat
           /\ 2 * (n \div 2) <= n
           /\ n <= 2 * (n \div 2) + 1
OBVIOUS

\* parse_contact_sensor, called on what handle_ble_contact_update lets through,
\* leaves its slices exactly when the preamble is so late that fewer than 22
\* bytes follow its start, or just 22 that can be opened: the test in
\* parse_contact_sensor asks for 7.
THEOREM ContactPanicsExactly ==
    ASSUME NEW f \in Frame
    PROVE  ContactFate(f) = "panic"
           <=> /\ LongEnough(f) /\ f.preamble # None /\ Start(f) + 7 <= Size(f)
               /\ \/ Size(f) < Start(f) + 22
                  \/ Size(f) = Start(f) + 22 /\ f.object # None
<1>1. CASE f.preamble = None
  BY <1>1 DEF ContactFate
<1>2. CASE f.preamble # None
  <2>1. f.chars \in Nat /\ f.preamble \in Nat
    BY <1>2 DEF Frame
  <2>2. Size(f) \in Nat /\ Start(f) \in Nat
    <3>1. f.preamble + 2 \in Nat
      BY <2>1
    <3> QED
      BY <2>1, <3>1, HalfFacts DEF Size, Start
  <2>3. ASSUME Start(f) + 7 <= Size(f)
        PROVE  ContactFails(f) <=> \/ Size(f) < Start(f) + 22
                                   \/ Size(f) = Start(f) + 22 /\ f.object # None
    BY <2>2, <2>3 DEF ContactFails, DeviceTypeFails, AppNonceFails, EncryptedFails,
                      CounterFails, PlainFails, EncryptedSize, SliceFails
  <2> QED
    BY <1>2, <2>2, <2>3 DEF ContactFate
<1> QED
  BY <1>1, <1>2

\* A contact's advertisement whose preamble is at its usual place, in the first
\* 16 characters, cannot stop the bridge: the 58 characters its caller asks for
\* are enough.
THEOREM EarlyPreambleIsSafe ==
    ASSUME NEW f \in Frame, f.preamble # None => f.preamble <= 15
    PROVE  ContactFate(f) # "panic"
<1> SUFFICES ASSUME ContactFate(f) = "panic" PROVE FALSE
  OBVIOUS
<1>1. /\ LongEnough(f) /\ f.preamble # None
      /\ Size(f) <= Start(f) + 22
      /\ f.chars \in Nat /\ f.preamble \in Nat
  <2>1. f.chars \in Nat /\ f.preamble \in Nat \cup {None}
    BY DEF Frame
  <2>2. /\ LongEnough(f) /\ f.preamble # None
        /\ Size(f) < Start(f) + 22 \/ Size(f) = Start(f) + 22
    BY ContactPanicsExactly
  <2>3. f.preamble \in Nat
    BY <2>1, <2>2
  <2>4. f.preamble + 2 \in Nat
    BY <2>3
  <2>5. Size(f) \in Nat /\ Start(f) \in Nat
    BY <2>1, <2>4, HalfFacts DEF Size, Start
  <2> QED
    BY <2>1, <2>2, <2>3, <2>5
<1>2. f.preamble + 2 \in Nat /\ f.preamble + 2 <= 17
  BY <1>1
<1>3. Start(f) \in Nat /\ Start(f) <= 8
  BY <1>2, HalfFacts DEF Start
<1>4. Size(f) >= 31
  BY <1>1, HalfFacts DEF Size, LongEnough
<1>5. Size(f) \in Nat
  BY <1>1, HalfFacts DEF Size
<1> QED
  BY <1>1, <1>3, <1>4, <1>5

\* parse_atc leaves its slices exactly when nothing stands before the preamble,
\* when the frame is shifted by half a byte, or when the length byte names one
\* byte more than there is: decrypt_aes_ccm compares it with <= (line 173).
THEOREM AtcPanicsExactly ==
    ASSUME NEW f \in Frame, f.preamble # None => f.preamble <= f.chars
    PROVE  AtcFate(f) = "panic"
           <=> /\ f.preamble # None
               /\ \/ f.preamble < 2
                  \/ (f.chars - f.preamble) % 2 = 1
                  \/ f.length = AtcSize(f) /\ 8 < AtcSize(f) /\ AtcSize(f) < 256
<1>1. CASE f.preamble = None
  BY <1>1 DEF AtcFate
<1>2. CASE f.preamble # None
  <2>1. f.chars \in Nat /\ f.preamble \in Nat /\ f.length \in Nat
    BY <1>2 DEF Frame
  <2>2. AtcSize(f) \in Nat
    <3>1. f.chars - f.preamble + 2 \in Nat
      BY <1>2, <2>1
    <3> QED
      BY <3>1, HalfFacts DEF AtcSize
  <2>3. AtcAccepted(f) /\ SliceFails(0, f.length + 1, AtcSize(f))
        <=> f.length = AtcSize(f) /\ 8 < AtcSize(f) /\ AtcSize(f) < 256
    <3> DEFINE n == AtcSize(f)
    <3> HIDE DEF n
    <3>1. n \in Nat
      BY <2>2 DEF n
    <3>2. n % 256 \in Nat /\ n % 256 <= n /\ n % 256 < 256 /\ (n < 256 => n % 256 = n)
      BY <3>1
    <3>3. (n % 256 > 8 /\ f.length <= n % 256 /\ f.length > 7 /\ f.length + 1 > n)
          <=> f.length = n /\ 8 < n /\ n < 256
      BY <2>1, <3>1, <3>2
    <3>4. SliceFails(0, f.length + 1, n) <=> f.length + 1 > n
      BY <2>1, <3>1 DEF SliceFails
    <3> QED
      BY <3>3, <3>4 DEF AtcAccepted, n
  <2> QED
    BY <1>2, <2>3 DEF AtcFate, AtcFails
<1> QED
  BY <1>1, <1>2

-----------------------------------------------------------------------------
(***************************************************************************)
(* What stops the main loop                                                *)
(***************************************************************************)

AllFrames == ContactFrame \cup AtcFrame
Msg == [n : Nat, relay : Relay, frame : AllFrames]

\* The messages in the queues and in the channel.
ChannelInv ==
    /\ moves \in Nat
    /\ queue \in [Relay -> Seq(Msg)]
    /\ updates \in Seq(Msg)
    /\ last \in [n : Nat, relay : Relay \cup {None}]
    /\ newest \in [n : Nat, relay : Relay \cup {None}]

\* Sending moves the messages that are kept by k places, 0 or 1, and puts the
\* new one behind them.
LEMMA SentFacts ==
    ASSUME updates \in Seq(Msg), NEW m \in Msg, updates' = Sent(updates, m)
    PROVE  /\ updates' \in Seq(Msg)
           /\ \E k \in {0, 1} :
              /\ Len(updates') = Len(updates) - k + 1
              /\ updates'[Len(updates')] = m
              /\ \A i \in 1..(Len(updates) - k) : updates'[i] = updates[i + k]
<1>1. CASE Overwrites(updates)
  <2>1. Len(updates) = Capacity /\ Capacity \in Nat \ {0}
    BY <1>1, BroadcastAssumption DEF Overwrites
  <2>2. updates # <<>>
    BY <2>1
  <2>3. /\ Tail(updates) \in Seq(Msg)
        /\ Len(Tail(updates)) = Len(updates) - 1
        /\ \A i \in 1..(Len(updates) - 1) : Tail(updates)[i] = updates[i + 1]
    BY <2>2
  <2>4. updates' = Append(Tail(updates), m)
    BY <1>1 DEF Sent
  <2>5. /\ updates' \in Seq(Msg)
        /\ Len(updates') = Len(updates) - 1 + 1
        /\ updates'[Len(updates')] = m
        /\ \A i \in 1..(Len(updates) - 1) : updates'[i] = updates[i + 1]
    BY <2>3, <2>4
  <2> QED
    BY <2>5
<1>2. CASE ~Overwrites(updates)
  <2>1. updates' = Append(updates, m)
    BY <1>2 DEF Sent
  <2>2. /\ updates' \in Seq(Msg)
        /\ Len(updates') = Len(updates) - 0 + 1
        /\ updates'[Len(updates')] = m
        /\ \A i \in 1..(Len(updates) - 0) : updates'[i] = updates[i + 0]
    BY <2>1
  <2> QED
    BY <2>2
<1> QED
  BY <1>1, <1>2

LEMMA TakenFacts ==
    ASSUME updates \in Seq(Msg), updates # <<>>
    PROVE  /\ Head(updates) = updates[1] /\ Head(updates) \in Msg
           /\ Tail(updates) \in Seq(Msg)
           /\ Len(updates) \in Nat \ {0}
           /\ Len(Tail(updates)) = Len(updates) - 1
           /\ \A i \in 1..(Len(updates) - 1) : Tail(updates)[i] = updates[i + 1]
OBVIOUS

LEMMA QueueFacts ==
    ASSUME queue \in [Relay -> Seq(Msg)], NEW r \in Relay, queue[r] # <<>>,
           queue' = [queue EXCEPT ![r] = Tail(@)]
    PROVE  /\ queue' \in [Relay -> Seq(Msg)]
           /\ Head(queue[r]) = queue[r][1] /\ Head(queue[r]) \in Msg
           /\ Len(queue[r]) \in Nat \ {0}
           /\ Len(queue'[r]) = Len(queue[r]) - 1
           /\ \A i \in 1..(Len(queue[r]) - 1) : queue'[r][i] = queue[r][i + 1]
           /\ \A q \in Relay : q # r => queue'[q] = queue[q]
<1>1. queue[r] \in Seq(Msg)
  OBVIOUS
<1>2. /\ Head(queue[r]) = queue[r][1] /\ Head(queue[r]) \in Msg
      /\ Tail(queue[r]) \in Seq(Msg)
      /\ Len(queue[r]) \in Nat \ {0}
      /\ Len(Tail(queue[r])) = Len(queue[r]) - 1
      /\ \A i \in 1..(Len(queue[r]) - 1) : Tail(queue[r])[i] = queue[r][i + 1]
  BY <1>1
<1>3. queue'[r] = Tail(queue[r]) /\ \A q \in Relay : q # r => queue'[q] = queue[q]
  OBVIOUS
<1>4. queue' \in [Relay -> Seq(Msg)]
  BY <1>2
<1> QED
  BY <1>2, <1>3, <1>4

LEMMA ChannelStep ==
    ASSUME ChannelInv, [Next]_vars
    PROVE  ChannelInv'
<1> USE DEF ChannelInv
<1>1. CASE ContactMoves
  BY <1>1 DEF ContactMoves
<1>2. ASSUME NEW r \in Relay, NEW f \in AllFrames, Heard(r, f)
      PROVE  ChannelInv'
  <2>1. [n |-> moves, relay |-> r, frame |-> f] \in Msg
    BY DEF Msg
  <2>2. queue' \in [Relay -> Seq(Msg)]
    BY <1>2, <2>1 DEF Heard
  <2> QED
    BY <1>2, <2>2 DEF Heard
<1>3. ASSUME NEW r \in Relay, Relayed(r)
      PROVE  ChannelInv'
  <2>1. queue' \in [Relay -> Seq(Msg)] /\ Head(queue[r]) \in Msg
    BY <1>3, QueueFacts DEF Relayed
  <2>2. updates' \in Seq(Msg)
    BY <1>3, <2>1, SentFacts DEF Relayed
  <2> QED
    BY <1>3, <2>1, <2>2 DEF Relayed
<1>4. CASE HandleBleUpdateMessage
  <2>1. Head(updates) \in Msg /\ updates' \in Seq(Msg)
    BY <1>4, TakenFacts DEF HandleBleUpdateMessage
  <2>2. Head(updates).n \in Nat /\ Head(updates).relay \in Relay
    BY <2>1 DEF Msg
  <2>3. /\ last' \in [n : Nat, relay : Relay \cup {None}]
        /\ newest' \in [n : Nat, relay : Relay \cup {None}]
    BY <1>4, <2>2 DEF HandleBleUpdateMessage, ContactUpdate
  <2> QED
    BY <1>4, <2>1, <2>3 DEF HandleBleUpdateMessage
<1>5. CASE UpdateActuatorConnection
  BY <1>5 DEF UpdateActuatorConnection
<1>6. CASE Crash
  BY <1>6 DEF Crash
<1>7. CASE Replumb
  BY <1>7 DEF Replumb
<1>8. CASE UNCHANGED vars
  BY <1>8 DEF vars
<1> QED
  BY <1>1, <1>2, <1>3, <1>4, <1>5, <1>6, <1>7, <1>8 DEF Next, AllFrames

LEMMA ChannelInit == Init => ChannelInv
BY DEF Init, ChannelInv

\* A contact's advertisement that stops the loop ends too soon after its preamble.
LEMMA LatePanics ==
    ASSUME NEW f \in Frame, f.chars % 2 = 0, ContactFate(f) = "panic"
    PROVE  Late(f)
<1>1. f.preamble # None /\ Size(f) <= Start(f) + 22
  <2>1. /\ f.preamble # None
        /\ Size(f) < Start(f) + 22 \/ Size(f) = Start(f) + 22
    BY ContactPanicsExactly
  <2>2. f.chars \in Nat /\ f.preamble \in Nat /\ f.preamble + 2 \in Nat
    BY <2>1 DEF Frame
  <2>3. Size(f) \in Nat /\ Start(f) \in Nat
    BY <2>2, HalfFacts DEF Size, Start
  <2> QED
    BY <2>1, <2>3
<1>2. f.preamble > 15
  BY <1>1, EarlyPreambleIsSafe DEF Frame
<1>3. f.chars - f.preamble <= 42
  <2>1. f.chars \in Nat /\ f.preamble \in Nat /\ f.preamble + 2 \in Nat
    BY <1>1 DEF Frame
  <2>2. f.chars = 2 * (f.chars \div 2) /\ f.chars \div 2 \in Nat
    BY <2>1
  <2>3. 2 * ((f.preamble + 2) \div 2) <= f.preamble + 2 /\ (f.preamble + 2) \div 2 \in Nat
    BY <2>1, HalfFacts
  <2> QED
    BY <1>1, <2>1, <2>2, <2>3 DEF Size, Start
<1> QED
  BY <1>1, <1>2, <1>3 DEF Late

\* A thermometer's advertisement that stops the loop is cut or shifted.
LEMMA CutPanics ==
    ASSUME NEW f \in Frame, f.preamble # None => f.preamble + 6 <= f.chars,
           AtcFate(f) = "panic"
    PROVE  Cut(f)
<1>1. f.preamble # None
  BY DEF AtcFate
<1>2. f.chars \in Nat /\ f.preamble \in Nat /\ f.preamble <= f.chars
  BY <1>1 DEF Frame
<1>3. \/ f.preamble < 2
      \/ (f.chars - f.preamble) % 2 = 1
      \/ f.length = AtcSize(f)
  BY <1>2, AtcPanicsExactly
<1>4. ASSUME f.length = AtcSize(f), (f.chars - f.preamble) % 2 # 1
      PROVE  2 * f.length = f.chars - f.preamble + 2
  <2>1. PICK n \in Nat : n = f.chars - f.preamble
    BY <1>2
  <2>2. n % 2 # 1 => n + 2 = 2 * ((n + 2) \div 2)
    OBVIOUS
  <2> QED
    BY <1>4, <2>1, <2>2 DEF AtcSize
<1> QED
  BY <1>1, <1>3, <1>4 DEF Cut

\* Whatever advertisements there are, and in whatever order they reach the bridge,
\* one stops the main loop only when it is a contact's whose preamble comes so late
\* that its slices do not fit, or a thermometer's that is shifted by half a
\* byte or cut at its first or by exactly its last byte.
THEOREM StoppedOnlyByDamaged == Spec => StopsOnlyOnDamaged
<1>1. ASSUME NEW m \in Msg, Fate(m) = "panic"
      PROVE  Damaged(m)
  <2>1. /\ m.frame \in Frame /\ m.frame.chars % 2 = 0
        /\ m.frame.preamble # None => m.frame.preamble + 6 <= m.frame.chars
    BY FrameAssumption DEF Msg, AllFrames
  <2>2. CASE m.frame \in ContactFrame
    BY <1>1, <2>1, <2>2, LatePanics DEF Fate, Damaged
  <2>3. CASE m.frame \notin ContactFrame
    BY <1>1, <2>1, <2>3, CutPanics DEF Fate, Damaged
  <2> QED
    BY <2>2, <2>3
<1>2. ASSUME ChannelInv, [Next]_vars, pc' = "panicked", pc # "panicked"
      PROVE  Damaged(Head(updates))
  <2>1. CASE HandleBleUpdateMessage
    <3>1. Head(updates) \in Msg
      BY <1>2, <2>1, TakenFacts DEF HandleBleUpdateMessage, ChannelInv
    <3>2. Fate(Head(updates)) = "panic"
      BY <1>2, <2>1 DEF HandleBleUpdateMessage, ContactUpdate
    <3> QED
      BY <1>1, <3>1, <3>2
  <2>2. ContactMoves \/ Replumb => pc' = pc
    BY DEF ContactMoves, Replumb
  <2>3. \A r \in Relay : Relayed(r) => pc' = pc
    BY DEF Relayed
  <2>4. \A r \in Relay : \A f \in AllFrames : Heard(r, f) => pc' = pc
    BY DEF Heard
  <2>5. UpdateActuatorConnection \/ Crash => pc' = "idle"
    BY DEF UpdateActuatorConnection, Crash
  <2>6. UNCHANGED vars => pc' = pc
    BY DEF vars
  <2> QED
    BY <1>2, <2>1, <2>2, <2>3, <2>4, <2>5, <2>6 DEF Next, AllFrames
<1>3. ChannelInv /\ [Next]_vars => [pc' = "panicked" => pc = "panicked" \/ Damaged(Head(updates))]_vars
  BY <1>2
<1> QED
  BY <1>3, ChannelInit, ChannelStep, PTL DEF Spec, StopsOnlyOnDamaged

-----------------------------------------------------------------------------
(***************************************************************************)
(* The window sensor                                                       *)
(***************************************************************************)

\* The sensor may differ from the contact only while the second write is due.
SensorInv == pc # "connecting" /\ connected /\ ~behind => sensor = status

\* The window sensor shows what the contact's topic says except for the two
\* gaps: a connection made, or a crash between the two writes, since the
\* contact's topic was last written.
THEOREM SensorFollowing == Spec => []SensorFollows
<1> USE DEF SensorInv
<1>1. Init => SensorInv
  BY DEF Init
<1>2. ASSUME SensorInv, [Next]_vars
      PROVE  SensorInv'
  <2>1. CASE ContactMoves
    BY <1>2, <2>1 DEF ContactMoves
  <2>2. ASSUME NEW r \in Relay, Relayed(r) \/ \E f \in AllFrames : Heard(r, f)
        PROVE  SensorInv'
    BY <1>2, <2>2 DEF Relayed, Heard
  <2>3. CASE HandleBleUpdateMessage
    BY <1>2, <2>3 DEF HandleBleUpdateMessage, ContactUpdate
  <2>4. CASE UpdateActuatorConnection
    BY <2>4 DEF UpdateActuatorConnection, Mirrored
  <2>5. CASE Crash
    BY <1>2, <2>5 DEF Crash
  <2>6. CASE Replumb
    BY <2>6 DEF Replumb
  <2>7. CASE UNCHANGED vars
    BY <1>2, <2>7 DEF vars
  <2> QED
    BY <1>2, <2>1, <2>2, <2>3, <2>4, <2>5, <2>6, <2>7 DEF Next, AllFrames
<1>3. SensorInv => SensorFollows
  BY DEF SensorFollows
<1>4. SensorInv /\ [Next]_vars => SensorInv'
  BY <1>2
<1> QED
  BY <1>1, <1>3, <1>4, PTL DEF Spec

-----------------------------------------------------------------------------
(***************************************************************************)
(* Advertisements out of order                                             *)
(***************************************************************************)

\* The order of advertisements on the way through one ESP32, from the contact
\* to the main loop.
QueueOrder ==
    \A r \in Relay : \A i \in 1..Len(queue[r]) :
        /\ queue[r][i].relay = r
        /\ queue[r][i].n <= moves
        /\ \A j \in 1..Len(queue[r]) : i < j => queue[r][i].n <= queue[r][j].n

UpdatesOrder ==
    \A i \in 1..Len(updates) :
        /\ updates[i].n <= moves
        /\ \A j \in 1..Len(updates) :
              i < j /\ updates[i].relay = updates[j].relay => updates[i].n <= updates[j].n
        /\ \A j \in 1..Len(queue[updates[i].relay]) :
              updates[i].n <= queue[updates[i].relay][j].n

\* What is still to come through the ESP32 of the newest advertisement.
NewestOrder ==
    /\ newest.n <= moves
    /\ \A i \in 1..Len(updates) : updates[i].relay = newest.relay => newest.n <= updates[i].n
    /\ newest.relay \in Relay =>
          \A j \in 1..Len(queue[newest.relay]) : newest.n <= queue[newest.relay][j].n

OrderInv ==
    ChannelInv /\ QueueOrder /\ UpdatesOrder /\ NewestOrder /\ StaleOnlyByOtherRelay

LEMMA OrderMoves == ASSUME OrderInv, ContactMoves PROVE OrderInv'
<1>1. moves' = moves + 1 /\ UNCHANGED <<queue, updates, status, last, newest>>
  BY DEF ContactMoves
<1>2. ChannelInv'
  BY <1>1 DEF OrderInv, ChannelInv
<1>3. \A n \in Nat : n <= moves => n <= moves'
  BY <1>1 DEF OrderInv, ChannelInv
<1>4. /\ \A r \in Relay : \A i \in 1..Len(queue[r]) : queue[r][i].n \in Nat
      /\ \A i \in 1..Len(updates) : updates[i].n \in Nat
      /\ newest.n \in Nat
  <2>1. /\ \A r \in Relay : \A i \in 1..Len(queue[r]) : queue[r][i] \in Msg
        /\ \A i \in 1..Len(updates) : updates[i] \in Msg
    BY DEF OrderInv, ChannelInv
  <2> QED
    BY <2>1 DEF OrderInv, ChannelInv, Msg
<1>5. QueueOrder'
  BY <1>1, <1>3, <1>4 DEF OrderInv, QueueOrder
<1>7. UpdatesOrder'
  BY <1>1, <1>3, <1>4 DEF OrderInv, UpdatesOrder
<1>6. NewestOrder'
  BY <1>1, <1>3, <1>4 DEF OrderInv, NewestOrder
<1> QED
  BY <1>1, <1>2, <1>5, <1>6, <1>7 DEF OrderInv, StaleOnlyByOtherRelay

LEMMA OrderHeard ==
    ASSUME OrderInv, NEW r \in Relay, NEW f \in AllFrames, Heard(r, f)
    PROVE  OrderInv'
<1> DEFINE m == [n |-> moves, relay |-> r, frame |-> f]
<1>1. ChannelInv /\ m \in Msg /\ m.n = moves /\ m.relay = r
  BY DEF OrderInv, ChannelInv, Msg
<1>2. /\ queue' = [queue EXCEPT ![r] = Append(@, m)]
      /\ UNCHANGED <<moves, updates, status, last, newest>>
  BY DEF Heard
<1> HIDE DEF m
<1>3. queue[r] \in Seq(Msg) /\ queue'[r] = Append(queue[r], m)
  BY <1>1, <1>2 DEF ChannelInv
<1>4. /\ Len(queue[r]) \in Nat
      /\ Len(queue'[r]) = Len(queue[r]) + 1
      /\ queue'[r][Len(queue[r]) + 1] = m
      /\ \A i \in 1..Len(queue[r]) : queue'[r][i] = queue[r][i]
      /\ queue'[r] \in Seq(Msg)
  BY <1>1, <1>3
<1>5. \A q \in Relay : q # r => queue'[q] = queue[q]
  BY <1>1, <1>2 DEF ChannelInv
<1>6. ChannelInv'
  BY <1>1, <1>2, <1>4 DEF ChannelInv
<1>7. \A q \in Relay : \A i \in 1..Len(queue'[q]) :
         \/ i \in 1..Len(queue[q]) /\ queue'[q][i] = queue[q][i]
         \/ q = r /\ i = Len(queue[r]) + 1 /\ queue'[q][i] = m
  BY <1>4, <1>5
<1>8. QueueOrder'
  <2> SUFFICES ASSUME NEW q \in Relay, NEW i \in 1..Len(queue'[q])
               PROVE  /\ queue'[q][i].relay = q
                      /\ queue'[q][i].n <= moves
                      /\ \A j \in 1..Len(queue'[q]) :
                            i < j => queue'[q][i].n <= queue'[q][j].n
    BY <1>2 DEF QueueOrder
  <2>1. queue[q] \in Seq(Msg) /\ Len(queue[q]) \in Nat
    BY <1>1 DEF ChannelInv
  <2>2. CASE i \in 1..Len(queue[q]) /\ queue'[q][i] = queue[q][i]
    BY <1>1, <1>7, <2>1, <2>2 DEF OrderInv, QueueOrder
  <2>3. CASE q = r /\ i = Len(queue[r]) + 1 /\ queue'[q][i] = m
    BY <1>1, <1>4, <2>1, <2>3 DEF ChannelInv
  <2> QED
    BY <1>7, <2>2, <2>3
<1>9. UpdatesOrder'
  <2> SUFFICES ASSUME NEW i \in 1..Len(updates)
               PROVE  \A j \in 1..Len(queue'[updates[i].relay]) :
                         updates[i].n <= queue'[updates[i].relay][j].n
    BY <1>2 DEF OrderInv, UpdatesOrder
  <2>1. updates[i].relay \in Relay /\ updates[i].n <= moves
    <3>1. updates[i] \in Msg
      BY <1>1 DEF ChannelInv
    <3> QED
      BY <3>1 DEF OrderInv, UpdatesOrder, Msg
  <2>2. ASSUME NEW j \in 1..Len(queue'[updates[i].relay])
        PROVE  updates[i].n <= queue'[updates[i].relay][j].n
    <3>1. \/ /\ j \in 1..Len(queue[updates[i].relay])
             /\ queue'[updates[i].relay][j] = queue[updates[i].relay][j]
          \/ queue'[updates[i].relay][j] = m
      BY <1>7, <2>1, <2>2
    <3> QED
      BY <1>1, <2>1, <3>1 DEF OrderInv, UpdatesOrder
  <2> QED
    BY <2>2
<1>10. NewestOrder'
  BY <1>1, <1>2, <1>7 DEF OrderInv, NewestOrder
<1> QED
  BY <1>2, <1>6, <1>8, <1>9, <1>10 DEF OrderInv, StaleOnlyByOtherRelay

LEMMA OrderRelayed ==
    ASSUME OrderInv, NEW r \in Relay, Relayed(r)
    PROVE  OrderInv'
<1> DEFINE m == Head(queue[r])
<1>1. /\ ChannelInv /\ ChannelInv'
      /\ queue[r] # <<>>
      /\ queue' = [queue EXCEPT ![r] = Tail(@)]
      /\ updates' = Sent(updates, m)
      /\ UNCHANGED <<moves, status, last, newest>>
  <2>1. [Next]_vars
    BY DEF Next
  <2> QED
    BY <2>1, ChannelStep DEF OrderInv, Relayed
<1>2. /\ m = queue[r][1] /\ m \in Msg
      /\ Len(queue[r]) \in Nat \ {0}
      /\ Len(queue'[r]) = Len(queue[r]) - 1
      /\ \A i \in 1..(Len(queue[r]) - 1) : queue'[r][i] = queue[r][i + 1]
      /\ \A q \in Relay : q # r => queue'[q] = queue[q]
  BY <1>1, QueueFacts DEF ChannelInv
<1> HIDE DEF m
<1>3. PICK k \in {0, 1} :
         /\ Len(updates') = Len(updates) - k + 1
         /\ updates'[Len(updates')] = m
         /\ \A i \in 1..(Len(updates) - k) : updates'[i] = updates[i + k]
  BY <1>1, <1>2, SentFacts DEF ChannelInv
<1>4. Len(updates) \in Nat /\ Len(updates') \in Nat
  BY <1>1 DEF ChannelInv
<1>5. \A q \in Relay : \A i \in 1..Len(queue'[q]) :
         \E d \in {0, 1} : /\ i + d \in 1..Len(queue[q])
                           /\ queue'[q][i] = queue[q][i + d]
                           /\ q = r <=> d = 1
  <2> SUFFICES ASSUME NEW q \in Relay, NEW i \in 1..Len(queue'[q])
               PROVE  \E d \in {0, 1} : /\ i + d \in 1..Len(queue[q])
                                        /\ queue'[q][i] = queue[q][i + d]
                                        /\ q = r <=> d = 1
    OBVIOUS
  <2>1. CASE q = r
    <3>1. i \in 1..(Len(queue[r]) - 1)
      BY <1>2, <2>1
    <3>2. i + 1 \in 1..Len(queue[q]) /\ queue'[q][i] = queue[q][i + 1]
      BY <1>2, <2>1, <3>1
    <3> QED
      BY <2>1, <3>2
  <2>2. CASE q # r
    <3>1. queue'[q] = queue[q] /\ i + 0 = i
      BY <1>2, <2>2
    <3> QED
      BY <2>2, <3>1
  <2> QED
    BY <2>1, <2>2
<1>6. \A i \in 1..Len(updates') :
         \/ i + k \in 1..Len(updates) /\ updates'[i] = updates[i + k] /\ i < Len(updates')
         \/ i = Len(updates') /\ updates'[i] = m
  BY <1>3, <1>4
<1>7. m.relay = r /\ m.n <= moves /\ m.n \in Nat
  BY <1>2 DEF OrderInv, QueueOrder, Msg
<1>8. \A j \in 1..Len(queue'[r]) : m.n <= queue'[r][j].n
  <2> SUFFICES ASSUME NEW j \in 1..Len(queue'[r])
               PROVE  m.n <= queue'[r][j].n
    OBVIOUS
  <2>1. j + 1 \in 1..Len(queue[r]) /\ queue'[r][j] = queue[r][j + 1]
        /\ 1 \in 1..Len(queue[r]) /\ 1 < j + 1
    BY <1>2
  <2> QED
    BY <1>2, <2>1 DEF OrderInv, QueueOrder
<1>9. QueueOrder'
  <2> SUFFICES ASSUME NEW q \in Relay, NEW i \in 1..Len(queue'[q])
               PROVE  /\ queue'[q][i].relay = q
                      /\ queue'[q][i].n <= moves
                      /\ \A j \in 1..Len(queue'[q]) :
                            i < j => queue'[q][i].n <= queue'[q][j].n
    BY <1>1 DEF QueueOrder
  <2>1. PICK d \in {0, 1} : /\ i + d \in 1..Len(queue[q])
                            /\ queue'[q][i] = queue[q][i + d]
                            /\ q = r <=> d = 1
    BY <1>5
  <2>2. ASSUME NEW j \in 1..Len(queue'[q]), i < j
        PROVE  queue'[q][i].n <= queue'[q][j].n
    <3>1. j + d \in 1..Len(queue[q]) /\ queue'[q][j] = queue[q][j + d]
      BY <1>5, <2>1
    <3>2. i + d < j + d
      BY <2>2
    <3> QED
      BY <2>1, <3>1, <3>2 DEF OrderInv, QueueOrder
  <2> QED
    BY <2>1, <2>2 DEF OrderInv, QueueOrder
<1>10. ASSUME NEW i \in 1..Len(updates), updates[i].relay = r
       PROVE  updates[i].n <= m.n
  <2>1. 1 \in 1..Len(queue[r])
    BY <1>2
  <2> QED
    BY <1>2, <1>10, <2>1 DEF OrderInv, UpdatesOrder
<1>11. UpdatesOrder'
  <2> SUFFICES ASSUME NEW i \in 1..Len(updates')
               PROVE  /\ updates'[i].n <= moves
                      /\ \A j \in 1..Len(updates') :
                            i < j /\ updates'[i].relay = updates'[j].relay
                                  => updates'[i].n <= updates'[j].n
                      /\ \A j \in 1..Len(queue'[updates'[i].relay]) :
                            updates'[i].n <= queue'[updates'[i].relay][j].n
    BY <1>1 DEF UpdatesOrder
  <2>1. CASE i = Len(updates') /\ updates'[i] = m
    BY <1>4, <1>7, <1>8, <2>1
  <2>2. CASE i + k \in 1..Len(updates) /\ updates'[i] = updates[i + k] /\ i < Len(updates')
    <3>1. updates'[i].n <= moves /\ updates'[i].relay \in Relay
      <4>1. updates[i + k] \in Msg
        BY <1>1, <2>2 DEF ChannelInv
      <4> QED
        BY <2>2, <4>1 DEF OrderInv, UpdatesOrder, Msg
    <3>2. ASSUME NEW j \in 1..Len(updates'), i < j, updates'[i].relay = updates'[j].relay
          PROVE  updates'[i].n <= updates'[j].n
      <4>1. CASE j = Len(updates') /\ updates'[j] = m
        BY <1>7, <1>10, <2>2, <3>2, <4>1
      <4>2. CASE j + k \in 1..Len(updates) /\ updates'[j] = updates[j + k]
        <5>1. i + k < j + k
          BY <3>2
        <5> QED
          BY <2>2, <3>2, <4>2, <5>1 DEF OrderInv, UpdatesOrder
      <4> QED
        BY <1>6, <4>1, <4>2
    <3>3. ASSUME NEW j \in 1..Len(queue'[updates'[i].relay])
          PROVE  updates'[i].n <= queue'[updates'[i].relay][j].n
      <4>1. PICK d \in {0, 1} :
               /\ j + d \in 1..Len(queue[updates'[i].relay])
               /\ queue'[updates'[i].relay][j] = queue[updates'[i].relay][j + d]
        BY <1>5, <3>1
      <4> QED
        BY <2>2, <4>1 DEF OrderInv, UpdatesOrder
    <3> QED
      BY <3>1, <3>2, <3>3
  <2> QED
    BY <1>6, <2>1, <2>2
<1>12. NewestOrder'
  <2>1. newest.n <= moves
    BY DEF OrderInv, NewestOrder
  <2>2. ASSUME NEW i \in 1..Len(updates'), updates'[i].relay = newest.relay
        PROVE  newest.n <= updates'[i].n
    <3>1. CASE i = Len(updates') /\ updates'[i] = m
      <4>1. newest.relay = r /\ 1 \in 1..Len(queue[r])
        BY <1>2, <1>7, <2>2, <3>1
      <4> QED
        BY <1>2, <3>1, <4>1 DEF OrderInv, NewestOrder
    <3>2. CASE i + k \in 1..Len(updates) /\ updates'[i] = updates[i + k]
      BY <2>2, <3>2 DEF OrderInv, NewestOrder
    <3> QED
      BY <1>6, <3>1, <3>2
  <2>3. ASSUME newest.relay \in Relay, NEW j \in 1..Len(queue'[newest.relay])
        PROVE  newest.n <= queue'[newest.relay][j].n
    <3>1. PICK d \in {0, 1} : /\ j + d \in 1..Len(queue[newest.relay])
                              /\ queue'[newest.relay][j] = queue[newest.relay][j + d]
      BY <1>5, <2>3
    <3> QED
      BY <2>3, <3>1 DEF OrderInv, NewestOrder
  <2> QED
    BY <1>1, <2>1, <2>2, <2>3 DEF NewestOrder
<1> QED
  BY <1>1, <1>9, <1>11, <1>12 DEF OrderInv, StaleOnlyByOtherRelay

LEMMA OrderHandled == ASSUME OrderInv, HandleBleUpdateMessage PROVE OrderInv'
<1> DEFINE m == Head(updates)
<1>1. /\ ChannelInv /\ ChannelInv'
      /\ updates # <<>> /\ updates' = Tail(updates)
      /\ UNCHANGED <<moves, queue>>
  <2>1. [Next]_vars
    BY DEF Next
  <2> QED
    BY <2>1, ChannelStep DEF OrderInv, HandleBleUpdateMessage
<1>2. /\ m = updates[1] /\ m \in Msg
      /\ Len(updates) \in Nat \ {0}
      /\ Len(updates') = Len(updates) - 1
      /\ \A i \in 1..(Len(updates) - 1) : updates'[i] = updates[i + 1]
  BY <1>1, TakenFacts DEF ChannelInv
<1>3. \/ UNCHANGED <<status, last, newest>>
      \/ ContactUpdate(m)
  BY DEF HandleBleUpdateMessage
<1> HIDE DEF m
<1>4. \A i \in 1..Len(updates') : /\ i + 1 \in 1..Len(updates)
                                  /\ updates'[i] = updates[i + 1]
  BY <1>2
<1>5. QueueOrder'
  BY <1>1 DEF OrderInv, QueueOrder
<1>6. UpdatesOrder'
  <2> SUFFICES ASSUME NEW i \in 1..Len(updates')
               PROVE  /\ updates'[i].n <= moves
                      /\ \A j \in 1..Len(updates') :
                            i < j /\ updates'[i].relay = updates'[j].relay
                                  => updates'[i].n <= updates'[j].n
                      /\ \A j \in 1..Len(queue[updates'[i].relay]) :
                            updates'[i].n <= queue[updates'[i].relay][j].n
    BY <1>1 DEF UpdatesOrder
  <2>1. /\ i + 1 \in 1..Len(updates)
        /\ updates'[i] = updates[i + 1]
    BY <1>4
  <2>2. ASSUME NEW j \in 1..Len(updates'), i < j, updates'[i].relay = updates'[j].relay
        PROVE  updates'[i].n <= updates'[j].n
    <3>1. j + 1 \in 1..Len(updates) /\ updates'[j] = updates[j + 1] /\ i + 1 < j + 1
      BY <1>4, <2>2
    <3> QED
      BY <2>1, <2>2, <3>1 DEF OrderInv, UpdatesOrder
  <2> QED
    BY <2>1, <2>2 DEF OrderInv, UpdatesOrder
<1>7. /\ m.n \in Nat /\ m.relay \in Relay /\ m.n <= moves
      /\ newest.n \in Nat
      /\ \A i \in 1..Len(updates') : updates'[i].relay = m.relay => m.n <= updates'[i].n
      /\ \A j \in 1..Len(queue[m.relay]) : m.n <= queue[m.relay][j].n
      /\ m.relay = newest.relay => newest.n <= m.n
  <2>1. 1 \in 1..Len(updates)
    BY <1>2
  <2>2. ASSUME NEW i \in 1..Len(updates'), updates'[i].relay = m.relay
        PROVE  m.n <= updates'[i].n
    <3>1. i + 1 \in 1..Len(updates) /\ updates'[i] = updates[i + 1] /\ 1 < i + 1
      BY <1>4
    <3> QED
      BY <1>2, <2>1, <2>2, <3>1 DEF OrderInv, UpdatesOrder
  <2> QED
    BY <1>1, <1>2, <2>1, <2>2
       DEF OrderInv, UpdatesOrder, NewestOrder, ChannelInv, Msg
<1>8. CASE UNCHANGED <<status, last, newest>>
  <2>1. NewestOrder'
    BY <1>1, <1>4, <1>8 DEF OrderInv, NewestOrder
  <2> QED
    BY <1>1, <1>5, <1>6, <1>8, <2>1 DEF OrderInv, StaleOnlyByOtherRelay
<1>9. CASE ContactUpdate(m)
  <2>1. /\ last' = [n |-> m.n, relay |-> m.relay]
        /\ newest' = IF m.n >= newest.n THEN last' ELSE newest
        /\ status' = State(m.n)
    BY <1>9 DEF ContactUpdate
  <2>2. CASE m.n >= newest.n
    <3>1. newest'.n = m.n /\ newest'.relay = m.relay /\ last'.n = m.n
      BY <2>1, <2>2
    <3>2. NewestOrder'
      BY <1>1, <1>7, <3>1 DEF NewestOrder
    <3>3. StaleOnlyByOtherRelay'
      BY <1>7, <2>1, <3>1 DEF StaleOnlyByOtherRelay, State
    <3> QED
      BY <1>1, <1>5, <1>6, <3>2, <3>3 DEF OrderInv
  <2>3. CASE ~(m.n >= newest.n)
    <3>1. newest' = newest /\ last'.n = m.n /\ last'.relay = m.relay
      BY <2>1, <2>3
    <3>2. m.relay # newest.relay
      BY <1>7, <2>3
    <3>3. NewestOrder'
      BY <1>1, <1>4, <3>1 DEF OrderInv, NewestOrder
    <3>4. StaleOnlyByOtherRelay'
      BY <2>1, <3>1, <3>2 DEF StaleOnlyByOtherRelay, State
    <3> QED
      BY <1>1, <1>5, <1>6, <3>3, <3>4 DEF OrderInv
  <2> QED
    BY <2>2, <2>3
<1> QED
  BY <1>3, <1>8, <1>9

LEMMA OrderCrashed == ASSUME OrderInv, Crash PROVE OrderInv'
<1>1. /\ \A r \in Relay : queue'[r] = <<>>
      /\ updates' = <<>>
      /\ UNCHANGED <<moves, status, last, newest>>
  BY DEF Crash
<1>2. ChannelInv'
  <2>1. [Next]_vars
    BY DEF Next
  <2> QED
    BY <2>1, ChannelStep DEF OrderInv
<1>3. QueueOrder' /\ UpdatesOrder'
  BY <1>1 DEF QueueOrder, UpdatesOrder
<1>4. NewestOrder'
  BY <1>1 DEF OrderInv, NewestOrder
<1> QED
  BY <1>1, <1>2, <1>3, <1>4 DEF OrderInv, StaleOnlyByOtherRelay

\* The contact's topic is set back only by an advertisement that took longer
\* through another ESP32: no crash, no full channel and no repetition does it.
THEOREM StaleByOtherRelay == Spec => []StaleOnlyByOtherRelay
<1>1. Init => OrderInv
  <2> SUFFICES ASSUME Init PROVE OrderInv
    OBVIOUS
  <2>1. ChannelInv
    BY ChannelInit
  <2> QED
    BY <2>1 DEF Init, OrderInv, QueueOrder, UpdatesOrder, NewestOrder, StaleOnlyByOtherRelay
<1>2. ASSUME OrderInv, [Next]_vars
      PROVE  OrderInv'
  <2>1. CASE UNCHANGED <<moves, queue, updates, status, last, newest>>
    BY <1>2, <2>1 DEF OrderInv, ChannelInv, QueueOrder, UpdatesOrder, NewestOrder,
                      StaleOnlyByOtherRelay
  <2>2. CASE UpdateActuatorConnection \/ Replumb \/ UNCHANGED vars
    BY <2>1, <2>2 DEF UpdateActuatorConnection, Replumb, vars
  <2> QED
    BY <1>2, <2>2, OrderMoves, OrderHeard, OrderRelayed, OrderHandled, OrderCrashed
       DEF Next, AllFrames
<1>3. OrderInv => StaleOnlyByOtherRelay
  BY DEF OrderInv
<1>4. OrderInv /\ [Next]_vars => OrderInv'
  BY <1>2
<1> QED
  BY <1>1, <1>3, <1>4, PTL DEF Spec

-----------------------------------------------------------------------------
(***************************************************************************)
(* Types and bounds                                                        *)
(***************************************************************************)

\* A channel of any kind of messages holds at most Capacity of them.
LEMMA SentKeepsCapacity ==
    ASSUME NEW X, NEW c \in Seq(X), Len(c) <= Capacity, NEW m \in X
    PROVE  Sent(c, m) \in Seq(X) /\ Len(Sent(c, m)) <= Capacity
<1>1. Capacity \in Nat \ {0} /\ Len(c) \in Nat
  BY BroadcastAssumption
<1>2. CASE Overwrites(c)
  <2>1. Len(c) = Capacity
    BY <1>2 DEF Overwrites
  <2>2. c # <<>>
    BY <1>1, <2>1
  <2>3. Tail(c) \in Seq(X) /\ Len(Tail(c)) = Len(c) - 1
    BY <2>2
  <2>4. Append(Tail(c), m) \in Seq(X) /\ Len(Append(Tail(c), m)) = Len(c) - 1 + 1
    BY <2>3
  <2> QED
    BY <1>1, <1>2, <2>1, <2>4 DEF Sent
<1>3. CASE ~Overwrites(c)
  <2>1. Len(c) # Capacity
    BY <1>3 DEF Overwrites
  <2>2. Append(c, m) \in Seq(X) /\ Len(Append(c, m)) = Len(c) + 1
    OBVIOUS
  <2> QED
    BY <1>1, <1>3, <2>1, <2>2 DEF Sent
<1> QED
  BY <1>2, <1>3

\* TypeOK leaves open which function queue is.
TypeInv == queue \in [Relay -> Seq(Advert)] /\ TypeOK

LEMMA TypesHeard ==
    ASSUME TypeInv, NEW r \in Relay, NEW f \in AllFrames, Heard(r, f)
    PROVE  TypeInv'
<1> DEFINE m == [n |-> moves, relay |-> r, frame |-> f]
<1>1. m \in Advert
  BY DEF Advert, AllFrames, TypeInv, TypeOK
<1>2. queue' = [queue EXCEPT ![r] = Append(queue[r], m)]
  BY DEF Heard
<1> HIDE DEF m
<1>3. queue[r] \in Seq(Advert) /\ Len(queue[r]) < MaxQueue /\ Len(queue[r]) \in Nat
  BY DEF TypeInv, Heard
<1>4. /\ Append(queue[r], m) \in Seq(Advert)
      /\ Len(Append(queue[r], m)) = Len(queue[r]) + 1
  BY <1>1, <1>3
<1>5. /\ queue' \in [Relay -> Seq(Advert)]
      /\ \A q \in Relay : queue'[q] = IF q = r THEN Append(queue[r], m) ELSE queue[q]
  BY <1>2, <1>4 DEF TypeInv
<1>6. \A q \in Relay : queue'[q] \in Seq(Advert) /\ Len(queue'[q]) <= MaxQueue
  BY <1>3, <1>4, <1>5, BoundsAssumption DEF TypeInv, TypeOK
<1> QED
  BY <1>5, <1>6 DEF TypeInv, TypeOK, Heard

LEMMA TypesRelayed ==
    ASSUME TypeInv, NEW r \in Relay, Relayed(r)
    PROVE  TypeInv'
<1>1. queue[r] \in Seq(Advert) /\ queue[r] # <<>> /\ Len(queue[r]) <= MaxQueue
  BY DEF TypeInv, TypeOK, Relayed
<1>2. /\ Head(queue[r]) \in Advert /\ Tail(queue[r]) \in Seq(Advert)
      /\ Len(Tail(queue[r])) = Len(queue[r]) - 1 /\ Len(queue[r]) \in Nat
  BY <1>1
<1>3. updates' \in Seq(Advert) /\ Len(updates') <= Capacity
  BY <1>2, SentKeepsCapacity DEF TypeInv, TypeOK, Relayed
<1>4. queue' = [queue EXCEPT ![r] = Tail(queue[r])]
  BY DEF Relayed
<1>5. /\ queue' \in [Relay -> Seq(Advert)]
      /\ \A q \in Relay : queue'[q] = IF q = r THEN Tail(queue[r]) ELSE queue[q]
  BY <1>2, <1>4 DEF TypeInv
<1>6. \A q \in Relay : queue'[q] \in Seq(Advert) /\ Len(queue'[q]) <= MaxQueue
  BY <1>1, <1>2, <1>5, BoundsAssumption DEF TypeInv, TypeOK
<1> QED
  BY <1>3, <1>5, <1>6 DEF TypeInv, TypeOK, Relayed

LEMMA TypesHandled ==
    ASSUME TypeInv, HandleBleUpdateMessage
    PROVE  TypeInv'
<1> DEFINE m == Head(updates)
<1>1. updates \in Seq(Advert) /\ updates # <<>> /\ Len(updates) <= Capacity
  BY DEF TypeInv, TypeOK, HandleBleUpdateMessage
<1>2. /\ m \in Advert /\ Tail(updates) \in Seq(Advert)
      /\ Len(Tail(updates)) = Len(updates) - 1 /\ Len(updates) \in Nat
  BY <1>1
<1>3. updates' \in Seq(Advert) /\ Len(updates') <= Capacity
  <2>1. updates' = Tail(updates) /\ Capacity \in Nat
    BY BroadcastAssumption DEF HandleBleUpdateMessage
  <2> QED
    BY <1>1, <1>2, <2>1
<1>4. UNCHANGED <<moves, queue, sensor, connected, faults>>
  BY DEF HandleBleUpdateMessage
<1>5. \/ Decoded(m) /\ ContactUpdate(m)
      \/ UNCHANGED <<pc, status, last, newest, behind>>
      \/ pc' = "panicked" /\ UNCHANGED <<status, last, newest, behind>>
  BY DEF HandleBleUpdateMessage
<1>6. /\ m.n \in 0..MaxMoves /\ m.relay \in Relay
  BY <1>2 DEF Advert
<1> HIDE DEF m
<1>7. CASE ContactUpdate(m)
  <2>1. /\ last' \in [n: 0..MaxMoves, relay: Relay \cup {None}]
        /\ newest' = last' \/ newest' = newest
    BY <1>6, <1>7 DEF ContactUpdate
  <2>2. newest' \in [n: 0..MaxMoves, relay: Relay \cup {None}]
    BY <2>1 DEF TypeInv, TypeOK
  <2>3. /\ status' \in {"open", "closed", "unset"}
        /\ pc' \in {"idle", "connecting", "panicked"}
        /\ behind' \in BOOLEAN
    BY <1>7 DEF ContactUpdate, State, TypeInv, TypeOK
  <2> QED
    BY <1>3, <1>4, <2>1, <2>2, <2>3 DEF TypeInv, TypeOK
<1>8. CASE ~ContactUpdate(m)
  BY <1>3, <1>4, <1>5, <1>8 DEF TypeInv, TypeOK
<1> QED
  BY <1>7, <1>8

LEMMA TypesCrashed ==
    ASSUME TypeInv, Crash
    PROVE  TypeInv'
<1>1. /\ queue' \in [Relay -> Seq(Advert)]
      /\ \A r \in Relay : queue'[r] = <<>> /\ Len(queue'[r]) = 0
  BY DEF Crash
<1>2. updates' \in Seq(Advert) /\ Len(updates') <= Capacity
  BY BroadcastAssumption DEF Crash
<1>3. faults' \in 0..MaxFaults /\ pc' = "idle"
  BY BoundsAssumption DEF Crash, TypeInv, TypeOK
<1>4. behind' \in BOOLEAN
  BY Zenon DEF Crash, TypeInv, TypeOK
<1>5. UNCHANGED <<moves, status, sensor, connected, last, newest>>
  BY DEF Crash
<1>6. \A r \in Relay : queue'[r] \in Seq(Advert) /\ Len(queue'[r]) <= MaxQueue
  BY <1>1, BoundsAssumption
<1> QED
  BY <1>1, <1>2, <1>3, <1>4, <1>5, <1>6 DEF TypeInv, TypeOK

LEMMA TypesOtherSteps ==
    ASSUME TypeInv,
           ContactMoves \/ UpdateActuatorConnection \/ Replumb \/ UNCHANGED vars
    PROVE  TypeInv'
<1> USE BoundsAssumption DEF TypeInv, TypeOK
<1>1. CASE ContactMoves
  BY <1>1 DEF ContactMoves
<1>2. CASE UpdateActuatorConnection
  BY <1>2 DEF UpdateActuatorConnection, Mirrored
<1>3. CASE Replumb
  BY <1>3 DEF Replumb
<1>4. CASE UNCHANGED vars
  BY <1>4 DEF vars
<1> QED
  BY <1>1, <1>2, <1>3, <1>4

\* Every reachable state has the types and bounds the module declares: the
\* channel never holds more than its capacity, an ESP32 never more than it keeps,
\* and the topics are set to nothing but open and closed.
THEOREM ContactTypes == Spec => []TypeOK
<1>1. Init => TypeInv
  <2> SUFFICES ASSUME Init
               PROVE  TypeInv
    OBVIOUS
  <2>1. queue \in [Relay -> Seq(Advert)] /\ \A r \in Relay : Len(queue[r]) = 0
    BY DEF Init
  <2>2. updates \in Seq(Advert) /\ Len(updates) = 0
    BY DEF Init
  <2> QED
    BY <2>1, <2>2, BoundsAssumption, BroadcastAssumption DEF Init, TypeInv, TypeOK
<1>2. TypeInv /\ [Next]_vars => TypeInv'
  BY TypesHeard, TypesRelayed, TypesHandled, TypesCrashed, TypesOtherSteps
     DEF Next, AllFrames
<1>3. TypeInv => TypeOK
  BY DEF TypeInv
<1> QED
  BY <1>1, <1>2, <1>3, PTL DEF Spec
=============================================================================
