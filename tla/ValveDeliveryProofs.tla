------------------------ MODULE ValveDeliveryProofs -------------------------
(***************************************************************************)
(* Proofs about ValveDelivery for every set of valves, actuators and       *)
(* signal strengths, every bound on attempts and every channel capacity.   *)
(***************************************************************************)
EXTENDS ValveDelivery, ValveCommandsProofs

-----------------------------------------------------------------------------
Message == Report \cup Beacon

\* The part of the invariant that says what channel, sockets and air hold.
ChannelInv ==
    /\ updates \in Seq(Message)
    /\ Len(updates) <= Capacity
    /\ sockets \in [Session -> Seq(Report)]
    /\ position \in [Valve -> State]
    /\ transit \subseteq Order
    /\ carrier \in [Valve -> Session \cup {None}]
    /\ lost \subseteq Valve
    /\ late \subseteq Valve
    /\ foreign \subseteq Valve
    /\ goal \in [Valve -> State \cup {None}]
    /\ \A v \in Valve : Pending(v) => valve_commands[v].desired_state \in State

\* The last report of a valve in a socket says where the valve is.
LastHeldTrue(s, v) ==
    \E i \in HeldOf(s, v) : /\ \A j \in HeldOf(s, v) : j <= i
                            /\ sockets[s][i].payload = position[v]

\* So does the newest report in the channel.
NewestTrue(v) ==
    \A i \in ReportsOf(v) :
        (\A j \in ReportsOf(v) : j <= i) => updates[i].payload = position[v]

\* The report of the last move is in the socket carrier names, or it is the
\* newest in the channel, or it was handled.
TopicInv ==
    \A v \in Valve :
        /\ v \notin foreign => status[v] \in State
        /\ carrier[v] # None => LastHeldTrue(carrier[v], v)
        /\ carrier[v] = None /\ v \notin lost \cup late =>
              /\ NewestTrue(v)
              /\ v \notin foreign /\ ReportsOf(v) = {} => status[v] = position[v]

\* While valve v has a goal, every order under way asks for it, and whatever says
\* that it is reached is right.
GoalInv ==
    \A v \in Valve : goal[v] # None =>
        /\ \A o \in transit : o.valve = v => o.value = goal[v]
        /\ Pending(v) => valve_commands[v].desired_state = goal[v]
        /\ Said(v, goal[v]) \/ status[v] = goal[v] => position[v] = goal[v]

DInv == IInv /\ ChannelInv /\ TopicInv /\ GoalInv

-----------------------------------------------------------------------------
(***************************************************************************)
(* The channel                                                             *)
(***************************************************************************)

LEMMA MessageFacts ==
    ASSUME NEW m \in Message
    PROVE  /\ m.valve \in Valve
           /\ m.payload \in State => m \in Report
           /\ m.payload \notin State => /\ m \in Beacon
                                        /\ m.payload = "adv"
                                        /\ m.actuator \in Actuator
                                        /\ m.rssi \in Rssi
BY DEF Message, Report, Beacon, State

\* Taking the first message moves every other one up by one place.
LEMMA ReportsAfterTaking ==
    ASSUME ChannelInv, updates # <<>>, updates' = Tail(updates), NEW v \in Valve
    PROVE  /\ Head(updates) = updates[1]
           /\ Head(updates) \in Message
           /\ Len(updates) \in Nat \ {0}
           /\ updates' \in Seq(Message)
           /\ Len(updates') <= Capacity
           /\ ReportsOf(v)' = {i \in 1..(Len(updates) - 1) : i + 1 \in ReportsOf(v)}
           /\ \A i \in ReportsOf(v)' : updates'[i] = updates[i + 1]
<1>1. /\ updates \in Seq(Message)
      /\ Len(updates) \in Nat \ {0}
      /\ Len(updates) <= Capacity
      /\ Capacity \in Nat
  BY BroadcastAssumption DEF ChannelInv
<1>2. /\ Head(updates) = updates[1]
      /\ Head(updates) \in Message
      /\ updates' \in Seq(Message)
      /\ Len(updates') = Len(updates) - 1
      /\ \A i \in 1..(Len(updates) - 1) : updates'[i] = updates[i + 1]
  BY <1>1
<1>3. \A i \in 1..(Len(updates) - 1) : i + 1 \in 1..Len(updates)
  BY <1>1
<1> QED
  BY <1>1, <1>2, <1>3 DEF ReportsOf

\* Sending moves the messages that are kept by k places, 0 or 1, and puts the
\* new one behind them.
LEMMA SentFacts ==
    ASSUME ChannelInv, NEW m \in Message, updates' = Sent(updates, m)
    PROVE  \E k \in {0, 1} :
              /\ k = 1 <=> Overwrites(updates)
              /\ k <= Len(updates)
              /\ updates' \in Seq(Message)
              /\ Len(updates') = Len(updates) - k + 1
              /\ Len(updates') <= Capacity
              /\ updates'[Len(updates')] = m
              /\ \A i \in 1..(Len(updates) - k) : updates'[i] = updates[i + k]
<1> USE BroadcastAssumption
<1>1. updates \in Seq(Message) /\ Len(updates) <= Capacity /\ Len(updates) \in Nat
  BY DEF ChannelInv
<1>2. CASE Overwrites(updates)
  <2>1. updates # <<>> /\ Len(updates) >= 1
    BY <1>1, <1>2 DEF Overwrites
  <2>2. /\ Tail(updates) \in Seq(Message)
        /\ Len(Tail(updates)) = Len(updates) - 1
        /\ \A i \in 1..(Len(updates) - 1) : Tail(updates)[i] = updates[i + 1]
    BY <1>1, <2>1
  <2>3. updates' = Append(Tail(updates), m)
    BY <1>2 DEF Sent
  <2>4. /\ updates' \in Seq(Message)
        /\ Len(updates') = Len(updates)
        /\ updates'[Len(updates)] = m
        /\ \A i \in 1..(Len(updates) - 1) : updates'[i] = Tail(updates)[i]
    BY <1>1, <2>2, <2>3
  <2> QED
    BY <1>1, <1>2, <2>1, <2>2, <2>4
<1>3. CASE ~Overwrites(updates)
  <2>1. updates' = Append(updates, m)
    BY <1>3 DEF Sent
  <2>2. Len(updates) # Capacity
    BY <1>3 DEF Overwrites
  <2>3. /\ updates' \in Seq(Message)
        /\ Len(updates') = Len(updates) + 1
        /\ updates'[Len(updates) + 1] = m
        /\ \A i \in 1..Len(updates) : updates'[i] = updates[i]
    BY <1>1, <2>1
  <2> QED
    BY <1>1, <1>3, <2>2, <2>3
<1> QED
  BY <1>2, <1>3

LEMMA ReportsAfterSending ==
    ASSUME ChannelInv, NEW m \in Message, updates' = Sent(updates, m), NEW v \in Valve
    PROVE  \E k \in {0, 1} :
              /\ k = 1 <=> Overwrites(updates)
              /\ \A i \in ReportsOf(v)' :
                    /\ i \in Nat /\ i <= Len(updates')
                    /\ i # Len(updates') => i + k \in ReportsOf(v) /\ updates'[i] = updates[i + k]
                    /\ i = Len(updates') => m.valve = v /\ m.payload \in State /\ updates'[i] = m
              /\ \A i \in ReportsOf(v) : i > k => i - k \in ReportsOf(v)' /\ i - k # Len(updates')
              /\ m.valve = v /\ m.payload \in State => Len(updates') \in ReportsOf(v)'
<1>1. PICK k \in {0, 1} :
              /\ k = 1 <=> Overwrites(updates)
              /\ k <= Len(updates)
              /\ updates' \in Seq(Message)
              /\ Len(updates') = Len(updates) - k + 1
              /\ updates'[Len(updates')] = m
              /\ \A i \in 1..(Len(updates) - k) : updates'[i] = updates[i + k]
  BY SentFacts
<1>2. Len(updates) \in Nat /\ Len(updates') \in Nat
  BY <1>1 DEF ChannelInv
<1>3. ASSUME NEW i \in ReportsOf(v)'
      PROVE  /\ i \in Nat /\ i <= Len(updates')
             /\ i # Len(updates') => i + k \in ReportsOf(v) /\ updates'[i] = updates[i + k]
             /\ i = Len(updates') => m.valve = v /\ m.payload \in State /\ updates'[i] = m
  <2>1. i \in 1..Len(updates') /\ updates'[i].valve = v /\ updates'[i].payload \in State
    BY <1>3 DEF ReportsOf
  <2>2. CASE i = Len(updates')
    BY <1>1, <1>2, <2>1, <2>2
  <2>3. CASE i # Len(updates')
    <3>1. i \in 1..(Len(updates) - k) /\ i + k \in 1..Len(updates)
      BY <1>1, <1>2, <2>1, <2>3
    <3> QED
      BY <1>1, <1>2, <2>1, <2>3, <3>1 DEF ReportsOf
  <2> QED
    BY <2>2, <2>3
<1>4. ASSUME NEW i \in ReportsOf(v), i > k
      PROVE  i - k \in ReportsOf(v)' /\ i - k # Len(updates')
  <2>1. i \in 1..Len(updates) /\ updates[i].valve = v /\ updates[i].payload \in State
    BY DEF ReportsOf
  <2>2. /\ i - k \in 1..(Len(updates) - k)
        /\ i - k \in 1..Len(updates')
        /\ i - k # Len(updates')
        /\ (i - k) + k = i
    BY <1>1, <1>2, <1>4, <2>1
  <2> QED
    BY <1>1, <2>1, <2>2 DEF ReportsOf
<1>5. ASSUME m.valve = v, m.payload \in State
      PROVE  Len(updates') \in ReportsOf(v)'
  BY <1>1, <1>2, <1>5 DEF ReportsOf
<1> QED
  BY <1>1, <1>3, <1>4, <1>5

-----------------------------------------------------------------------------
(***************************************************************************)
(* The way up: what is published, what the main loop takes                 *)
(***************************************************************************)

\* A report that is published is the newest of its valve.
LEMMA PublishedIsNewest ==
    ASSUME ChannelInv, NEW m \in Message, Published(m), m.payload \in State
    PROVE  /\ ReportsOf(m.valve)' # {}
           /\ \A i \in ReportsOf(m.valve)' :
                 (\A j \in ReportsOf(m.valve)' : j <= i) => updates'[i].payload = m.payload
<1> DEFINE v == m.valve
<1>1. updates' = Sent(updates, m) /\ v \in Valve
  BY MessageFacts DEF Published
<1>2. /\ Len(updates') \in ReportsOf(v)'
      /\ \A i \in ReportsOf(v)' : /\ i \in Nat /\ i <= Len(updates')
                                  /\ i = Len(updates') => updates'[i] = m
  BY <1>1, ReportsAfterSending
<1>3. Len(updates') \in Nat
  BY <1>2
<1> QED
  BY <1>2, <1>3

\* A message that is no report of a valve leaves its newest report the newest,
\* or makes the valve one of those whose report is lost.
LEMMA PublishingKeepsNewest ==
    ASSUME ChannelInv, NEW m \in Message, Published(m), position' = position,
           NEW v \in Valve, ~(m.valve = v /\ m.payload \in State),
           carrier[v] = None, v \notin lost'
    PROVE  /\ v \notin lost
           /\ NewestTrue(v) => NewestTrue(v)'
           /\ ReportsOf(v)' = {} => ReportsOf(v) = {}
<1>1. updates' = Sent(updates, m)
  BY DEF Published
<1>2. PICK k \in {0, 1} :
              /\ k = 1 <=> Overwrites(updates)
              /\ \A i \in ReportsOf(v)' :
                    /\ i \in Nat /\ i <= Len(updates')
                    /\ i # Len(updates') => i + k \in ReportsOf(v) /\ updates'[i] = updates[i + k]
                    /\ i = Len(updates') => m.valve = v /\ m.payload \in State /\ updates'[i] = m
              /\ \A i \in ReportsOf(v) : i > k => i - k \in ReportsOf(v)' /\ i - k # Len(updates')
  BY <1>1, ReportsAfterSending
<1>3. \A i \in ReportsOf(v) : i \in 1..Len(updates) /\ i \in Nat /\ i >= 1
  <2>1. Len(updates) \in Nat
    BY DEF ChannelInv
  <2> QED
    BY <2>1 DEF ReportsOf
<1>4. v \notin lost /\ ~(Overwrites(updates) /\ ReportsOf(v) = {1})
  BY DEF Published, LostBySending
<1>5. \A i \in ReportsOf(v)' : i \in Nat /\ i + k \in ReportsOf(v) /\ updates'[i] = updates[i + k]
  BY <1>2
<1>6. ASSUME NewestTrue(v), NEW i \in ReportsOf(v)', \A j \in ReportsOf(v)' : j <= i
      PROVE  updates'[i].payload = position'[v]
  <2>1. ASSUME NEW j \in ReportsOf(v)
        PROVE  j <= i + k
    <3>1. CASE j > k
      BY <1>2, <1>3, <1>6, <3>1
    <3>2. CASE ~(j > k)
      BY <1>2, <1>3, <3>2
    <3> QED
      BY <3>1, <3>2
  <2> QED
    BY <1>5, <1>6, <2>1 DEF NewestTrue
<1>7. ASSUME ReportsOf(v)' = {}
      PROVE  ReportsOf(v) = {}
  <2>1. \A i \in ReportsOf(v) : i <= k /\ i = 1 /\ k = 1
    BY <1>2, <1>3, <1>7
  <2>2. ReportsOf(v) # {} => ReportsOf(v) = {1} /\ k = 1
    BY <2>1
  <2> QED
    BY <1>2, <1>4, <2>2
<1>8. NewestTrue(v) => NewestTrue(v)'
  BY <1>6 DEF NewestTrue
<1> QED
  BY <1>4, <1>7, <1>8

\* Of the reports in the channel each is an old one or the one published.
LEMMA PublishedReports ==
    ASSUME ChannelInv, NEW m \in Message, Published(m), NEW v \in Valve
    PROVE  \A i \in ReportsOf(v)' :
              \/ m.valve = v /\ m.payload \in State /\ updates'[i] = m
              \/ \E j \in ReportsOf(v) : updates'[i] = updates[j]
<1>1. updates' = Sent(updates, m)
  BY DEF Published
<1> QED
  BY <1>1, ReportsAfterSending

\* The channel keeps its messages and its size.
LEMMA PublishingKeepsChannel ==
    ASSUME ChannelInv, NEW m \in Message, Published(m)
    PROVE  /\ updates' \in Seq(Message)
           /\ Len(updates') <= Capacity
           /\ lost' \subseteq Valve
<1>1. updates' = Sent(updates, m)
  BY DEF Published
<1> QED
  BY <1>1, SentFacts DEF Published, LostBySending, ChannelInv

-----------------------------------------------------------------------------
(***************************************************************************)
(* One lemma per action                                                    *)
(***************************************************************************)

-----------------------------------------------------------------------------
(***************************************************************************)
(* The sockets                                                             *)
(***************************************************************************)

LEMMA ReportFacts ==
    ASSUME NEW m \in Report
    PROVE  m \in Message /\ m.valve \in Valve /\ m.payload \in State
BY DEF Report, Message

LEMMA HeldFacts ==
    ASSUME ChannelInv, NEW s \in Session, NEW v \in Valve
    PROVE  /\ sockets[s] \in Seq(Report)
           /\ Len(sockets[s]) \in Nat
           /\ \A i \in HeldOf(s, v) : i \in Nat /\ i >= 1 /\ i <= Len(sockets[s])
BY DEF ChannelInv, HeldOf

\* Reading the first report moves every other one up by one place.
LEMMA HeldAfterReading ==
    ASSUME ChannelInv, NEW s \in Session, sockets[s] # <<>>,
           sockets' = [sockets EXCEPT ![s] = Tail(@)], NEW v \in Valve
    PROVE  /\ sockets' \in [Session -> Seq(Report)]
           /\ Head(sockets[s]) = sockets[s][1]
           /\ Head(sockets[s]) \in Report
           /\ 1 \in HeldOf(s, v) <=> Head(sockets[s]).valve = v
           /\ \A i \in HeldOf(s, v)' : /\ i + 1 \in HeldOf(s, v)
                                       /\ sockets'[s][i] = sockets[s][i + 1]
           /\ \A i \in HeldOf(s, v) : i # 1 => /\ i - 1 \in HeldOf(s, v)'
                                               /\ sockets'[s][i - 1] = sockets[s][i]
           /\ \A t \in Session \ {s} : sockets'[t] = sockets[t] /\ HeldOf(t, v)' = HeldOf(t, v)
<1> DEFINE q == sockets[s]
<1>1. /\ q \in Seq(Report)
      /\ Len(q) \in Nat \ {0}
      /\ sockets \in [Session -> Seq(Report)]
  BY DEF ChannelInv
<1>2. /\ Head(q) = q[1]
      /\ Head(q) \in Report
      /\ Tail(q) \in Seq(Report)
      /\ Len(Tail(q)) = Len(q) - 1
      /\ \A i \in 1..(Len(q) - 1) : Tail(q)[i] = q[i + 1]
  BY <1>1
<1>3. /\ sockets'[s] = Tail(q)
      /\ \A t \in Session \ {s} : sockets'[t] = sockets[t]
      /\ sockets' \in [Session -> Seq(Report)]
  BY <1>1, <1>2
<1>4. ASSUME NEW i \in HeldOf(s, v)'
      PROVE  i + 1 \in HeldOf(s, v) /\ sockets'[s][i] = q[i + 1]
  <2>1. i \in 1..(Len(q) - 1) /\ sockets'[s][i].valve = v
    BY <1>2, <1>3, <1>4 DEF HeldOf
  <2>2. i + 1 \in 1..Len(q)
    BY <1>1, <2>1
  <2> QED
    BY <1>2, <1>3, <2>1, <2>2 DEF HeldOf
<1>5. ASSUME NEW i \in HeldOf(s, v), i # 1
      PROVE  i - 1 \in HeldOf(s, v)' /\ sockets'[s][i - 1] = q[i]
  <2>1. i \in 1..Len(q) /\ q[i].valve = v
    BY DEF HeldOf
  <2>2. i - 1 \in 1..(Len(q) - 1) /\ (i - 1) + 1 = i
    BY <1>1, <1>5, <2>1
  <2> QED
    BY <1>2, <1>3, <2>1, <2>2 DEF HeldOf
<1>6. 1 \in HeldOf(s, v) <=> Head(q).valve = v
  BY <1>1, <1>2 DEF HeldOf
<1>7. \A t \in Session \ {s} : HeldOf(t, v)' = HeldOf(t, v)
  BY <1>3 DEF HeldOf
<1> QED
  BY <1>2, <1>3, <1>4, <1>5, <1>6, <1>7

\* A report that is sent is the last one of its socket.
LEMMA HeldAfterReport ==
    ASSUME ChannelInv, NEW s \in Session, NEW m \in Report,
           sockets' = [sockets EXCEPT ![s] = Append(@, m)], NEW v \in Valve
    PROVE  /\ sockets' \in [Session -> Seq(Report)]
           /\ \A i \in HeldOf(s, v)' :
                 \/ i \in HeldOf(s, v) /\ sockets'[s][i] = sockets[s][i]
                 \/ m.valve = v /\ sockets'[s][i] = m
           /\ \A i \in HeldOf(s, v) : i \in HeldOf(s, v)' /\ sockets'[s][i] = sockets[s][i]
           /\ m.valve = v => \E i \in HeldOf(s, v)' : /\ \A j \in HeldOf(s, v)' : j <= i
                                                      /\ sockets'[s][i] = m
           /\ \A t \in Session \ {s} : sockets'[t] = sockets[t] /\ HeldOf(t, v)' = HeldOf(t, v)
<1> DEFINE q == sockets[s]
           n == Len(q) + 1
<1>1. q \in Seq(Report) /\ Len(q) \in Nat /\ sockets \in [Session -> Seq(Report)]
  BY DEF ChannelInv
<1>2. /\ Append(q, m) \in Seq(Report)
      /\ Len(Append(q, m)) = n
      /\ Append(q, m)[n] = m
      /\ \A i \in 1..Len(q) : Append(q, m)[i] = q[i]
  BY <1>1
<1>3. /\ sockets'[s] = Append(q, m)
      /\ \A t \in Session \ {s} : sockets'[t] = sockets[t]
      /\ sockets' \in [Session -> Seq(Report)]
  BY <1>1, <1>2
<1>4. ASSUME NEW i \in HeldOf(s, v)'
      PROVE  /\ i \in 1..n
             /\ i = n => m.valve = v /\ sockets'[s][i] = m
             /\ i # n => i \in HeldOf(s, v) /\ sockets'[s][i] = q[i]
  <2>1. i \in 1..n /\ sockets'[s][i].valve = v
    BY <1>2, <1>3, <1>4 DEF HeldOf
  <2>2. i # n => i \in 1..Len(q)
    BY <1>1, <2>1
  <2> QED
    BY <1>2, <1>3, <2>1, <2>2 DEF HeldOf
<1>5. ASSUME NEW i \in HeldOf(s, v)
      PROVE  i \in HeldOf(s, v)' /\ sockets'[s][i] = q[i]
  <2>1. i \in 1..Len(q) /\ i \in 1..n /\ q[i].valve = v
    BY <1>1 DEF HeldOf
  <2> QED
    BY <1>2, <1>3, <2>1 DEF HeldOf
<1>6. ASSUME m.valve = v
      PROVE  n \in HeldOf(s, v)' /\ sockets'[s][n] = m
  <2>1. n \in 1..n
    BY <1>1
  <2> QED
    BY <1>2, <1>3, <1>6, <2>1 DEF HeldOf
<1>7. \A j \in HeldOf(s, v)' : j <= n
  BY <1>1, <1>4
<1>8. \A t \in Session \ {s} : HeldOf(t, v)' = HeldOf(t, v)
  BY <1>3 DEF HeldOf
<1> QED
  BY <1>3, <1>4, <1>5, <1>6, <1>7, <1>8

\* What stays the same when channel and sockets do.
LEMMA SameReports ==
    ASSUME UNCHANGED <<updates, sockets>>, NEW v \in Valve
    PROVE  /\ ReportsOf(v)' = ReportsOf(v)
           /\ \A s \in Session : HeldOf(s, v)' = HeldOf(s, v)
           /\ \A d : Said(v, d)' <=> Said(v, d)
<1>1. ReportsOf(v)' = ReportsOf(v) /\ \A s \in Session : HeldOf(s, v)' = HeldOf(s, v)
  BY DEF ReportsOf, HeldOf
<1> QED
  BY <1>1 DEF Said

LEMMA SameTopic ==
    ASSUME TopicInv, UNCHANGED <<updates, sockets, position, status, carrier, lost, late, foreign>>
    PROVE  TopicInv'
<1>1. \A v \in Valve : /\ ReportsOf(v)' = ReportsOf(v)
                       /\ \A s \in Session : HeldOf(s, v)' = HeldOf(s, v)
                       /\ HeldOf(carrier[v], v)' = HeldOf(carrier[v], v)
  BY DEF ReportsOf, HeldOf
<1> QED
  BY <1>1 DEF TopicInv, LastHeldTrue, NewestTrue

-----------------------------------------------------------------------------
(***************************************************************************)
(* One lemma per action                                                    *)
(***************************************************************************)

LEMMA InitDInv == DeliveryInit => DInv
<1> SUFFICES ASSUME DeliveryInit PROVE DInv
  OBVIOUS
<1>1. IInv
  BY InitIInv DEF DeliveryInit
<1>2. updates = <<>> /\ Len(updates) = 0 /\ updates \in Seq(Message)
  BY DEF DeliveryInit
<1>3. \A v \in Valve : ReportsOf(v) = {} /\ ~Pending(v)
  <2>1. 1..Len(updates) = {}
    BY <1>2
  <2>2. \A v \in Valve : ReportsOf(v) = {}
    BY <2>1 DEF ReportsOf
  <2> QED
    BY <2>2 DEF DeliveryInit, Init, Pending
<1>4. sockets \in [Session -> Seq(Report)]
  <2>1. <<>> \in Seq(Report)
    OBVIOUS
  <2> QED
    BY <2>1 DEF DeliveryInit
<1>5. \A v \in Valve : carrier[v] = None /\ goal[v] = None
  BY DEF DeliveryInit
<1>6. ChannelInv
  BY <1>2, <1>3, <1>4, BroadcastAssumption DEF DeliveryInit, ChannelInv
<1>7. TopicInv
  BY <1>3, <1>5 DEF DeliveryInit, TopicInv, NewestTrue
<1>8. GoalInv
  BY <1>5 DEF GoalInv
<1> QED
  BY <1>1, <1>6, <1>7, <1>8 DEF DInv

\* An order to a valve with a known actuator is well formed.
LEMMA OrderType ==
    ASSUME IInv, NEW v \in Valve, Routed(v), NEW d \in State
    PROVE  OrderFor(v, d) \in Order /\ OrderFor(v, d).valve = v /\ OrderFor(v, d).value = d
BY DEF IInv, TypeOK, Routed, BestActuator, OrderFor, Order

\* A command becomes the goal unless it is contested or misled, and then none is.
LEMMA AcceptPreservesD ==
    ASSUME DInv, NEW v \in Valve, NEW d \in State, AcceptCommand(v, d)
    PROVE  ChannelInv' /\ TopicInv' /\ GoalInv'
<1>1. /\ HandleValveCommand(v, d)
      /\ UNCHANGED <<position, updates, sockets, carrier, lost, late, foreign, status>>
  BY DEF AcceptCommand, HandleValveCommand
<1>2. \A w \in Valve : \A x : Said(w, x)' <=> Said(w, x)
  BY <1>1, SameReports
<1>3. TopicInv'
  BY <1>1, SameTopic DEF DInv
<1>4. CASE shelly_plus_actuators = {}
  <2>1. valve_commands' = valve_commands /\ transit' = transit /\ goal' = goal
    BY <1>1, <1>4 DEF AcceptCommand, HandleValveCommand
  <2> QED
    BY <1>1, <1>2, <1>3, <2>1 DEF DInv, ChannelInv, GoalInv, Pending
<1>5. CASE shelly_plus_actuators # {}
  <2> DEFINE c == [desired_state |-> d, attempts |-> FirstAttempts(v)]
             g == IF Contested(v, d) \/ Misled(v, d) THEN None ELSE d
  <2>1. /\ valve_commands' = [valve_commands EXCEPT ![v] = c]
        /\ transit' = IF Routed(v) THEN transit \cup {OrderFor(v, d)} ELSE transit
        /\ goal' = [goal EXCEPT ![v] = g]
    BY <1>1, <1>5 DEF AcceptCommand, HandleValveCommand
  <2>2. c.desired_state = d
    OBVIOUS
  <2>3. \A w \in Valve :
            /\ w # v => valve_commands'[w] = valve_commands[w] /\ goal'[w] = goal[w]
            /\ w = v => valve_commands'[w].desired_state = d /\ goal'[w] = g
    BY <2>1, <2>2 DEF DInv, IInv, TypeOK, ChannelInv
  <2>4. \A o \in transit' : o \in transit \/ (o = OrderFor(v, d) /\ Routed(v))
    BY <2>1
  <2>5. ChannelInv'
    <3>1. transit' \subseteq Order
      BY <2>4, OrderType DEF DInv, ChannelInv
    <3>2. goal' \in [Valve -> State \cup {None}]
      BY <2>1 DEF DInv, ChannelInv
    <3>3. \A w \in Valve : Pending(w)' => valve_commands'[w].desired_state \in State
      BY <2>3 DEF DInv, ChannelInv, Pending
    <3> QED
      BY <1>1, <3>1, <3>2, <3>3 DEF DInv, ChannelInv
  <2>6. GoalInv'
    <3> SUFFICES ASSUME NEW w \in Valve, goal'[w] # None
                 PROVE  /\ \A o \in transit' : o.valve = w => o.value = goal'[w]
                        /\ Pending(w)' => valve_commands'[w].desired_state = goal'[w]
                        /\ Said(w, goal[w])' \/ status'[w] = goal'[w] =>
                              position'[w] = goal'[w]
      BY DEF GoalInv
    <3>1. CASE w = v
      <4>1. ~Contested(v, d) /\ ~Misled(v, d) /\ goal'[w] = d
        BY <2>3, <3>1
      <4>2. \A o \in transit' : o.valve = w => o.value = goal'[w]
        BY <2>4, <3>1, <4>1, OrderType DEF Contested, DInv
      <4>3. Said(w, d)' \/ status'[w] = d => position'[w] = d
        BY <1>1, <1>2, <3>1, <4>1 DEF Misled
      <4> QED
        BY <2>3, <3>1, <4>1, <4>2, <4>3
    <3>2. CASE w # v
      <4>1. \A o \in transit' : o.valve = w => o \in transit
        BY <2>4, <3>2, OrderType DEF DInv
      <4> QED
        BY <1>1, <1>2, <2>3, <3>2, <4>1 DEF DInv, GoalInv, Pending
    <3> QED
      BY <3>1, <3>2
  <2> QED
    BY <1>3, <2>5, <2>6
<1> QED
  BY <1>4, <1>5

\* The timer repeats the desired state of a pending command and nothing else.
LEMMA CheckPreservesD ==
    ASSUME DInv, CheckCommands
    PROVE  ChannelInv' /\ TopicInv' /\ GoalInv'
<1>1. /\ UNCHANGED <<position, updates, sockets, carrier, lost, late, foreign, goal, status>>
      /\ transit' = transit \cup ResentOrders
      /\ valve_commands' = [w \in Valve |-> Checked(w)]
  BY DEF CheckCommands, CheckRadiatorValveCommands
<1>2. \A w \in Valve : \A x : Said(w, x)' <=> Said(w, x)
  BY <1>1, SameReports
<1>3. \A o \in transit' : \/ o \in transit
                          \/ \E w \in Valve : /\ Resent(w)
                                              /\ o = OrderFor(w, valve_commands[w].desired_state)
  BY <1>1 DEF ResentOrders
<1>4. \A w \in Valve : Resent(w) => Routed(w) /\ Pending(w)
                                    /\ valve_commands[w].desired_state \in State
  BY DEF Resent, Waiting, DInv, ChannelInv
<1>5. ASSUME NEW o \in transit'
      PROVE  /\ o \in Order
             /\ \/ o \in transit
                \/ /\ Pending(o.valve)
                   /\ o.value = valve_commands[o.valve].desired_state
  BY <1>3, <1>4, OrderType DEF DInv, ChannelInv
<1>6. ASSUME NEW w \in Valve, Pending(w)'
      PROVE  Pending(w) /\ valve_commands'[w].desired_state = valve_commands[w].desired_state
  <2>1. valve_commands'[w] = Checked(w) /\ Checked(w) # None
    BY <1>1, <1>6 DEF Pending
  <2>2. Pending(w) /\ valve_commands[w] \in ValveData
    BY <2>1, CheckedEntry, EntryTypes DEF DInv, IInv
  <2>3. CASE Resent(w)
    <3>1. Checked(w) = [valve_commands[w] EXCEPT !.attempts = @ + 1]
      BY <2>3 DEF Checked
    <3> QED
      BY <2>1, <2>2, <3>1 DEF ValveData
  <2>4. CASE ~Resent(w)
    BY <2>1, <2>2, <2>4, CheckedEntry DEF DInv
  <2> QED
    BY <2>3, <2>4
<1>7. TopicInv'
  BY <1>1, SameTopic DEF DInv
<1>8. ChannelInv'
  BY <1>1, <1>5, <1>6 DEF DInv, ChannelInv
<1>9. GoalInv'
  BY <1>1, <1>2, <1>5, <1>6 DEF DInv, GoalInv
<1> QED
  BY <1>7, <1>8, <1>9

\* A lost order takes nothing with it.
LEMMA LossPreservesD ==
    ASSUME DInv, NEW o \in transit, OrderLost(o)
    PROVE  ChannelInv' /\ TopicInv' /\ GoalInv'
<1>1. /\ UNCHANGED <<position, updates, sockets, carrier, lost, late, foreign, goal, status,
                     valve_commands>>
      /\ transit' \subseteq transit
  BY DEF OrderLost, vars
<1>2. \A w \in Valve : /\ Pending(w)' = Pending(w)
                       /\ \A x : Said(w, x)' <=> Said(w, x)
  BY <1>1, SameReports DEF Pending
<1>3. TopicInv'
  BY <1>1, SameTopic DEF DInv
<1> QED
  BY <1>1, <1>2, <1>3 DEF DInv, ChannelInv, GoalInv

\* An order that is carried out moves the valve to where the goal is, if there is
\* one, and its report is the last in its socket.
LEMMA CarryOutPreservesD ==
    ASSUME DInv, NEW o \in transit, NEW again \in BOOLEAN,
           NEW s \in SessionsOf(o.actuator) \cup {None}, CarryOut(o, again, s)
    PROVE  ChannelInv' /\ TopicInv' /\ GoalInv'
<1> DEFINE m == [valve |-> o.valve, payload |-> o.value]
<1>1. /\ UNCHANGED <<updates, foreign, goal, status, valve_commands>>
      /\ position' = [position EXCEPT ![o.valve] = o.value]
      /\ carrier' = [carrier EXCEPT ![o.valve] = s]
      /\ transit' \subseteq transit
      /\ late' = late \ {o.valve}
  BY DEF CarryOut, vars
<1>2. /\ o.valve \in Valve
      /\ o.value \in State
      /\ m \in Report
      /\ m.valve = o.valve
      /\ m.payload = o.value
      /\ position \in [Valve -> State]
      /\ carrier \in [Valve -> Session \cup {None}]
      /\ s \in Session \cup {None}
      /\ None \notin Session
  BY DeliveryAssumption DEF DInv, ChannelInv, Order, Report, SessionsOf
<1>3. \A w \in Valve : /\ Pending(w)' = Pending(w)
                       /\ ReportsOf(w)' = ReportsOf(w)
                       /\ w # o.valve => position'[w] = position[w] /\ carrier'[w] = carrier[w]
  BY <1>1, <1>2 DEF Pending, ReportsOf
<1>4. position'[o.valve] = o.value /\ carrier'[o.valve] = s
  BY <1>1, <1>2
<1>5. \/ s = None /\ lost' = lost \cup {o.valve} /\ sockets' = sockets
      \/ s \in Session /\ lost' = lost \ {o.valve} /\ sockets' = [sockets EXCEPT ![s] = Append(@, m)]
  BY <1>2 DEF CarryOut
<1> HIDE DEF m
<1>6. ASSUME NEW t \in Session, NEW w \in Valve
      PROVE  /\ sockets' \in [Session -> Seq(Report)]
             /\ \A i \in HeldOf(t, w)' :
                   \/ i \in HeldOf(t, w) /\ sockets'[t][i] = sockets[t][i]
                   \/ o.valve = w /\ sockets'[t][i].payload = o.value
             /\ \A i \in HeldOf(t, w) : i \in HeldOf(t, w)' /\ sockets'[t][i] = sockets[t][i]
             /\ o.valve = w /\ t = s =>
                   \E i \in HeldOf(t, w)' : /\ \A j \in HeldOf(t, w)' : j <= i
                                            /\ sockets'[t][i].payload = o.value
  <2>1. CASE s = None
    BY <1>2, <1>5, <2>1 DEF DInv, ChannelInv, HeldOf
  <2>2. CASE s \in Session
    <3>1. sockets' = [sockets EXCEPT ![s] = Append(@, m)] /\ ChannelInv
      BY <1>2, <1>5, <2>2 DEF DInv
    <3>2. /\ sockets' \in [Session -> Seq(Report)]
          /\ \A i \in HeldOf(s, w)' :
                \/ i \in HeldOf(s, w) /\ sockets'[s][i] = sockets[s][i]
                \/ m.valve = w /\ sockets'[s][i] = m
          /\ \A i \in HeldOf(s, w) : i \in HeldOf(s, w)' /\ sockets'[s][i] = sockets[s][i]
          /\ m.valve = w => \E i \in HeldOf(s, w)' : /\ \A j \in HeldOf(s, w)' : j <= i
                                                     /\ sockets'[s][i] = m
          /\ \A u \in Session \ {s} : sockets'[u] = sockets[u] /\ HeldOf(u, w)' = HeldOf(u, w)
      BY <1>2, <2>2, <3>1, HeldAfterReport
    <3>3. CASE t = s
      BY <1>2, <3>2, <3>3
    <3>4. CASE t # s
      BY <3>2, <3>4
    <3> QED
      BY <3>3, <3>4
  <2> QED
    BY <1>2, <2>1, <2>2
<1>7. sockets' \in [Session -> Seq(Report)]
  BY <1>2, <1>5, <1>6 DEF DInv, ChannelInv
<1>8. lost' \subseteq Valve /\ \A w \in Valve : w # o.valve => (w \in lost' <=> w \in lost)
  BY <1>2, <1>5 DEF DInv, ChannelInv
<1>9. ChannelInv'
  BY <1>1, <1>2, <1>3, <1>7, <1>8 DEF DInv, ChannelInv
<1>10. TopicInv'
  <2> SUFFICES ASSUME NEW w \in Valve
               PROVE  /\ w \notin foreign' => status'[w] \in State
                      /\ carrier'[w] # None => LastHeldTrue(carrier[w], w)'
                      /\ carrier'[w] = None /\ w \notin lost' \cup late' =>
                            /\ NewestTrue(w)'
                            /\ w \notin foreign' /\ ReportsOf(w)' = {} => status'[w] = position'[w]
    BY DEF TopicInv
  <2>1. CASE w = o.valve
    <3>1. carrier'[w] = None => w \in lost'
      BY <1>2, <1>4, <1>5, <2>1
    <3>2. carrier'[w] # None => LastHeldTrue(carrier[w], w)'
      BY <1>2, <1>4, <1>6, <2>1 DEF LastHeldTrue
    <3> QED
      BY <1>1, <3>1, <3>2 DEF DInv, TopicInv
  <2>2. CASE w # o.valve
    <3>1. ASSUME carrier[w] # None
          PROVE  LastHeldTrue(carrier[w], w)'
      <4>1. carrier[w] \in Session /\ LastHeldTrue(carrier[w], w)
        BY <1>2, <3>1 DEF DInv, TopicInv
      <4> QED
        BY <1>3, <1>6, <2>2, <4>1 DEF LastHeldTrue
    <3>2. NewestTrue(w) => NewestTrue(w)'
      BY <1>1, <1>3, <2>2 DEF NewestTrue
    <3>3. w \in late' <=> w \in late
      BY <1>1, <2>2
    <3> QED
      BY <1>1, <1>3, <1>8, <2>2, <3>1, <3>2, <3>3 DEF DInv, TopicInv
  <2> QED
    BY <2>1, <2>2
<1>11. GoalInv'
  <2> SUFFICES ASSUME NEW w \in Valve, goal'[w] # None
               PROVE  /\ \A p \in transit' : p.valve = w => p.value = goal'[w]
                      /\ Pending(w)' => valve_commands'[w].desired_state = goal'[w]
                      /\ Said(w, goal[w])' \/ status'[w] = goal'[w] => position'[w] = goal'[w]
    BY DEF GoalInv
  <2>1. /\ \A p \in transit : p.valve = w => p.value = goal[w]
        /\ Pending(w) => valve_commands[w].desired_state = goal[w]
        /\ Said(w, goal[w]) \/ status[w] = goal[w] => position[w] = goal[w]
    BY <1>1 DEF DInv, GoalInv
  <2>2. CASE w = o.valve
    BY <1>1, <1>3, <1>4, <2>1, <2>2
  <2>3. CASE w # o.valve
    <3>1. Said(w, goal[w])' => Said(w, goal[w])
      BY <1>1, <1>3, <1>6, <2>3 DEF Said
    <3> QED
      BY <1>1, <1>3, <2>1, <2>3, <3>1
  <2> QED
    BY <2>2, <2>3
<1> QED
  BY <1>9, <1>10, <1>11

\* A hand takes a valve from its goal, and no report tells of it.
LEMMA TurningPreservesD ==
    ASSUME DInv, NEW v \in Valve, NEW d \in State, TurnedByHand(v, d)
    PROVE  ChannelInv' /\ TopicInv' /\ GoalInv'
<1>1. /\ UNCHANGED <<transit, sockets, updates, foreign, status, valve_commands>>
      /\ position' = [position EXCEPT ![v] = d]
      /\ carrier' = [carrier EXCEPT ![v] = None]
      /\ late' = late \ {v}
      /\ lost' = lost \cup {v}
      /\ goal' = [goal EXCEPT ![v] = None]
  BY DEF TurnedByHand, vars
<1>2. /\ carrier'[v] = None /\ goal'[v] = None /\ v \in lost'
      /\ \A w \in Valve \ {v} : /\ position'[w] = position[w]
                                /\ carrier'[w] = carrier[w]
                                /\ goal'[w] = goal[w]
                                /\ w \in lost' <=> w \in lost
                                /\ w \in late' <=> w \in late
  BY <1>1 DEF DInv, ChannelInv
<1>3. \A w \in Valve : /\ Pending(w)' = Pending(w)
                       /\ ReportsOf(w)' = ReportsOf(w)
                       /\ \A x : Said(w, x)' <=> Said(w, x)
  BY <1>1, SameReports DEF Pending
<1>4. ChannelInv'
  BY <1>1, <1>3 DEF DInv, ChannelInv
<1>5. ASSUME NEW w \in Valve \ {v}
      PROVE  /\ carrier'[w] # None => LastHeldTrue(carrier[w], w)'
             /\ NewestTrue(w) => NewestTrue(w)'
  BY <1>1, <1>2, <1>3 DEF DInv, TopicInv, LastHeldTrue, NewestTrue, HeldOf
<1>6. TopicInv'
  BY <1>1, <1>2, <1>3, <1>5 DEF DInv, TopicInv
<1>7. GoalInv'
  BY <1>1, <1>2, <1>3 DEF DInv, GoalInv
<1> QED
  BY <1>4, <1>6, <1>7

\* A message that is published says of the valves nothing that was not said, and
\* of what it does not report the topics stay right.
LEMMA PublishingKeepsTopic ==
    ASSUME DInv, NEW m \in Message, Published(m), NEW v \in Valve,
           ~(m.valve = v /\ m.payload \in State),
           UNCHANGED <<position, status, foreign>>,
           carrier'[v] = carrier[v], v \in late' <=> v \in late,
           carrier[v] # None => LastHeldTrue(carrier[v], v)'
    PROVE  /\ v \notin foreign' => status'[v] \in State
           /\ carrier'[v] # None => LastHeldTrue(carrier[v], v)'
           /\ carrier'[v] = None /\ v \notin lost' \cup late' =>
                 /\ NewestTrue(v)'
                 /\ v \notin foreign' /\ ReportsOf(v)' = {} => status'[v] = position'[v]
<1>1. ChannelInv /\ TopicInv
  BY DEF DInv
<1>2. ASSUME carrier[v] = None, v \notin lost'
      PROVE  /\ v \notin lost
             /\ NewestTrue(v) => NewestTrue(v)'
             /\ ReportsOf(v)' = {} => ReportsOf(v) = {}
  BY <1>1, <1>2, PublishingKeepsNewest
<1>3. carrier'[v] # None => LastHeldTrue(carrier[v], v)'
  OBVIOUS
<1> QED
  BY <1>1, <1>2, <1>3 DEF TopicInv

\* A report that leaves its socket is the newest of its valve in the channel; it
\* is true if it is the one of the last move, and late if that one went before.
LEMMA ReadingPreservesD ==
    ASSUME DInv, NEW s \in Session, ReportRelayed(s)
    PROVE  ChannelInv' /\ TopicInv' /\ GoalInv'
<1> DEFINE m == Head(sockets[s])
           w == m.valve
<1>1. /\ sockets[s] # <<>>
      /\ sockets' = [sockets EXCEPT ![s] = Tail(@)]
      /\ Published(m)
      /\ late' = IF carrier[w] = None THEN late \cup {w} ELSE late
      /\ carrier' = IF carrier[w] = s /\ HeldOf(s, w) = {1}
                    THEN [carrier EXCEPT ![w] = None] ELSE carrier
      /\ UNCHANGED <<position, transit, foreign, goal, status, valve_commands>>
  BY DEF ReportRelayed, vars
<1>2. ASSUME NEW v \in Valve
      PROVE  /\ sockets' \in [Session -> Seq(Report)]
             /\ m = sockets[s][1]
             /\ m \in Report
             /\ 1 \in HeldOf(s, v) <=> w = v
             /\ \A i \in HeldOf(s, v)' : /\ i + 1 \in HeldOf(s, v)
                                         /\ sockets'[s][i] = sockets[s][i + 1]
             /\ \A i \in HeldOf(s, v) : i # 1 => /\ i - 1 \in HeldOf(s, v)'
                                                 /\ sockets'[s][i - 1] = sockets[s][i]
             /\ \A t \in Session \ {s} :
                   sockets'[t] = sockets[t] /\ HeldOf(t, v)' = HeldOf(t, v)
  BY <1>1, HeldAfterReading DEF DInv
<1>3. /\ m \in Report /\ m \in Message /\ w \in Valve /\ m.payload \in State
      /\ sockets' \in [Session -> Seq(Report)]
  <2>1. sockets[s] \in Seq(Report)
    BY HeldFacts DEF DInv, ChannelInv
  <2>2. m \in Report
    BY <1>1, <2>1
  <2>3. m \in Message /\ w \in Valve /\ m.payload \in State
    BY <2>2, ReportFacts
  <2> QED
    BY <1>2, <2>2, <2>3
<1> HIDE DEF m
<1>4. carrier \in [Valve -> Session \cup {None}] /\ None \notin Session
  BY DeliveryAssumption DEF DInv, ChannelInv
<1>5. \A v \in Valve : Pending(v)' = Pending(v)
  BY <1>1 DEF Pending
<1>6. ChannelInv'
  <2>1. carrier' \in [Valve -> Session \cup {None}] /\ late' \subseteq Valve
    BY <1>1, <1>3, <1>4 DEF DInv, ChannelInv
  <2>2. updates' \in Seq(Message) /\ Len(updates') <= Capacity /\ lost' \subseteq Valve
    BY <1>1, <1>3, PublishingKeepsChannel DEF DInv
  <2> QED
    BY <1>1, <1>3, <1>5, <2>1, <2>2 DEF DInv, ChannelInv
<1>7. ASSUME NEW v \in Valve, carrier[v] # None, ~(v = w /\ carrier[w] = s /\ HeldOf(s, w) = {1})
      PROVE  LastHeldTrue(carrier[v], v)'
  <2>1. LastHeldTrue(carrier[v], v) /\ carrier[v] \in Session /\ carrier'[v] = carrier[v]
    BY <1>1, <1>3, <1>4, <1>7 DEF DInv, TopicInv
  <2>2. PICK i \in HeldOf(carrier[v], v) : /\ \A j \in HeldOf(carrier[v], v) : j <= i
                                           /\ sockets[carrier[v]][i].payload = position[v]
    BY <2>1 DEF LastHeldTrue
  <2>3. CASE carrier[v] # s
    BY <1>1, <1>2, <2>1, <2>2, <2>3 DEF LastHeldTrue
  <2>4. CASE carrier[v] = s
    <3>1. \A j \in HeldOf(s, v) : j \in Nat /\ j >= 1
      BY HeldFacts DEF DInv
    <3>2. i # 1
      <4>1. ASSUME i = 1
            PROVE  HeldOf(s, v) = {1} /\ v = w
        <5>1. 1 \in HeldOf(s, v) /\ \A j \in HeldOf(s, v) : j = 1
          BY <2>2, <2>4, <3>1, <4>1
        <5>2. HeldOf(s, v) = {1}
          BY <5>1
        <5> QED
          BY <1>2, <5>1, <5>2
      <4> QED
        BY <1>7, <2>4, <4>1
    <3>3. /\ i - 1 \in HeldOf(s, v)'
          /\ sockets'[s][i - 1].payload = position[v]
          /\ \A j \in HeldOf(s, v)' : j + 1 \in HeldOf(s, v)
      BY <1>2, <2>2, <2>4, <3>2
    <3>4. \A j \in HeldOf(s, v)' : j <= i - 1
      <4>1. \A j \in HeldOf(s, v)' : j \in Int
        BY DEF HeldOf
      <4> QED
        BY <2>2, <2>4, <3>1, <3>3, <4>1
    <3> QED
      BY <1>1, <2>1, <2>4, <3>3, <3>4 DEF LastHeldTrue
  <2> QED
    BY <2>3, <2>4
<1>8. TopicInv'
  <2> SUFFICES ASSUME NEW v \in Valve
               PROVE  /\ v \notin foreign' => status'[v] \in State
                      /\ carrier'[v] # None => LastHeldTrue(carrier[v], v)'
                      /\ carrier'[v] = None /\ v \notin lost' \cup late' =>
                            /\ NewestTrue(v)'
                            /\ v \notin foreign' /\ ReportsOf(v)' = {} => status'[v] = position'[v]
    BY DEF TopicInv
  <2>1. CASE v # w
    <3>1. carrier'[v] = carrier[v] /\ (v \in late' <=> v \in late)
      BY <1>1, <1>3, <1>4, <2>1
    <3> QED
      BY <1>1, <1>3, <1>7, <2>1, <3>1, PublishingKeepsTopic
  <2>2. CASE v = w
    <3>1. v \notin foreign' => status'[v] \in State
      BY <1>1 DEF DInv, TopicInv
    <3>2. /\ ReportsOf(v)' # {}
          /\ \A i \in ReportsOf(v)' :
                 (\A j \in ReportsOf(v)' : j <= i) => updates'[i].payload = m.payload
      BY <1>1, <1>3, <2>2, PublishedIsNewest DEF DInv
    <3>3. CASE carrier[w] = None
      BY <1>1, <1>4, <2>2, <3>1, <3>3
    <3>4. CASE carrier[w] = s /\ HeldOf(s, w) = {1}
      <4>1. m.payload = position[w]
        BY <1>2, <1>3, <1>4, <3>4 DEF DInv, TopicInv, LastHeldTrue
      <4>2. carrier'[v] = None /\ NewestTrue(v)'
        BY <1>1, <1>3, <1>4, <2>2, <3>2, <3>4, <4>1 DEF NewestTrue
      <4> QED
        BY <3>1, <3>2, <4>2
    <3>5. CASE carrier[w] # None /\ ~(carrier[w] = s /\ HeldOf(s, w) = {1})
      BY <1>1, <1>7, <2>2, <3>1, <3>5
    <3> QED
      BY <3>3, <3>4, <3>5
  <2> QED
    BY <2>1, <2>2
<1>9. GoalInv'
  <2> SUFFICES ASSUME NEW v \in Valve, goal[v] # None
               PROVE  Said(v, goal[v])' => Said(v, goal[v])
    BY <1>1, <1>5 DEF DInv, GoalInv
  <2>1. \A i \in ReportsOf(v)' : \/ w = v /\ updates'[i] = m
                                 \/ \E j \in ReportsOf(v) : updates'[i] = updates[j]
    BY <1>1, <1>3, PublishedReports DEF DInv
  <2>2. w = v => m = sockets[s][1] /\ 1 \in HeldOf(s, v)
    BY <1>2
  <2>3. \A t \in Session : \A i \in HeldOf(t, v)' :
            \E j \in HeldOf(t, v) : sockets'[t][i] = sockets[t][j]
    BY <1>2
  <2> QED
    BY <1>1, <2>1, <2>2, <2>3 DEF Said
<1> QED
  BY <1>6, <1>8, <1>9

\* With a session go the reports it has not read.
LEMMA EndingPreservesD ==
    ASSUME DInv, NEW s \in Session, SessionEnds(s)
    PROVE  ChannelInv' /\ TopicInv' /\ GoalInv'
<1>1. /\ sockets' = [sockets EXCEPT ![s] = <<>>]
      /\ carrier' = [v \in Valve |-> IF carrier[v] = s THEN None ELSE carrier[v]]
      /\ lost' = lost \cup {v \in Valve : carrier[v] = s}
      /\ UNCHANGED <<position, transit, updates, late, foreign, goal, status, valve_commands>>
  BY DEF SessionEnds, vars
<1>2. /\ carrier \in [Valve -> Session \cup {None}]
      /\ None \notin Session
      /\ sockets' \in [Session -> Seq(Report)]
      /\ sockets'[s] = <<>>
      /\ \A t \in Session \ {s} : sockets'[t] = sockets[t]
  <2>1. <<>> \in Seq(Report)
    OBVIOUS
  <2> QED
    BY <1>1, <2>1, DeliveryAssumption DEF DInv, ChannelInv
<1>3. \A v \in Valve : /\ Pending(v)' = Pending(v)
                       /\ ReportsOf(v)' = ReportsOf(v)
                       /\ HeldOf(s, v)' = {}
                       /\ \A t \in Session \ {s} : HeldOf(t, v)' = HeldOf(t, v)
  BY <1>1, <1>2 DEF Pending, ReportsOf, HeldOf
<1>4. ChannelInv'
  BY <1>1, <1>2, <1>3 DEF DInv, ChannelInv
<1>5. TopicInv'
  <2> SUFFICES ASSUME NEW v \in Valve
               PROVE  /\ carrier'[v] # None => LastHeldTrue(carrier[v], v)'
                      /\ carrier'[v] = None /\ v \notin lost' \cup late' =>
                            NewestTrue(v)' /\ carrier[v] = None /\ v \notin lost
    BY <1>1, <1>3 DEF DInv, TopicInv
  <2>1. ASSUME carrier'[v] # None
        PROVE  LastHeldTrue(carrier[v], v)'
    <3>1. carrier'[v] = carrier[v] /\ carrier[v] \in Session \ {s}
      BY <1>1, <1>2, <2>1
    <3>2. LastHeldTrue(carrier[v], v)
      BY <1>2, <3>1 DEF DInv, TopicInv
    <3> QED
      BY <1>1, <1>2, <1>3, <3>1, <3>2 DEF LastHeldTrue
  <2>2. ASSUME carrier'[v] = None, v \notin lost' \cup late'
        PROVE  NewestTrue(v)' /\ carrier[v] = None /\ v \notin lost
    <3>1. carrier[v] = None /\ v \notin lost \cup late
      BY <1>1, <2>2
    <3> QED
      BY <1>1, <1>3, <3>1 DEF DInv, TopicInv, NewestTrue
  <2> QED
    BY <2>1, <2>2
<1>6. GoalInv'
  <2>1. \A v \in Valve : Said(v, goal[v])' => Said(v, goal[v])
    BY <1>1, <1>2, <1>3 DEF Said
  <2> QED
    BY <1>1, <1>3, <2>1 DEF DInv, GoalInv
<1> QED
  BY <1>4, <1>5, <1>6

\* A beacon takes a place in the channel and moves no valve.
LEMMA RelayPreservesD ==
    ASSUME DInv, NEW m \in Beacon, BeaconRelayed(m)
    PROVE  ChannelInv' /\ TopicInv' /\ GoalInv'
<1>1. /\ UNCHANGED <<position, transit, sockets, carrier, late, foreign, goal, status,
                     valve_commands>>
      /\ Published(m)
  BY DEF BeaconRelayed, vars
<1>2. m \in Message /\ m.payload \notin State
  BY DEF Message, Beacon, State
<1>3. \A v \in Valve : /\ Pending(v)' = Pending(v)
                       /\ \A s \in Session : HeldOf(s, v)' = HeldOf(s, v)
  BY <1>1 DEF Pending, HeldOf
<1>4. ChannelInv'
  BY <1>1, <1>2, <1>3, PublishingKeepsChannel DEF DInv, ChannelInv
<1>5. ASSUME NEW v \in Valve, carrier[v] # None
      PROVE  LastHeldTrue(carrier[v], v)'
  <2>1. LastHeldTrue(carrier[v], v) /\ carrier[v] \in Session
    BY <1>5 DEF DInv, TopicInv, ChannelInv
  <2> QED
    BY <1>1, <1>3, <2>1 DEF LastHeldTrue
<1>6. TopicInv'
  <2>1. ASSUME NEW v \in Valve
        PROVE  /\ v \notin foreign' => status'[v] \in State
               /\ carrier'[v] # None => LastHeldTrue(carrier[v], v)'
               /\ carrier'[v] = None /\ v \notin lost' \cup late' =>
                     /\ NewestTrue(v)'
                     /\ v \notin foreign' /\ ReportsOf(v)' = {} => status'[v] = position'[v]
    BY <1>1, <1>2, <1>5, PublishingKeepsTopic
  <2> QED
    BY <2>1 DEF TopicInv
<1>7. GoalInv'
  <2>1. \A v \in Valve : \A i \in ReportsOf(v)' : \E j \in ReportsOf(v) : updates'[i] = updates[j]
    BY <1>1, <1>2, PublishedReports DEF DInv
  <2>2. \A v \in Valve : Said(v, goal[v])' => Said(v, goal[v])
    BY <1>1, <1>3, <2>1 DEF Said
  <2> QED
    BY <1>1, <1>3, <2>2 DEF DInv, GoalInv
<1> QED
  BY <1>4, <1>6, <1>7

\* Report i is the newest of valve v.
Newest(v, i) == \A j \in ReportsOf(v) : j <= i

\* Handling a report makes the topic what the report says.
LEMMA HandlingPreservesD ==
    ASSUME DInv, HandleBleUpdateMessage
    PROVE  [Next]_vars /\ ChannelInv' /\ TopicInv' /\ GoalInv'
<1> DEFINE m == Head(updates)
<1>1. /\ updates # <<>>
      /\ updates' = Tail(updates)
      /\ HandleReport(m) \/ HandleBeacon(m) \/ UnknownValve(m)
      /\ foreign' = IF m.payload \in State /\ status[m.valve] # "absent"
                    THEN foreign \ {m.valve} ELSE foreign
      /\ UNCHANGED <<transit, position, sockets, carrier, lost, late, goal>>
  BY DEF HandleBleUpdateMessage
<1>2. \A w \in Valve :
           /\ ReportsOf(w)' = {i \in 1..(Len(updates) - 1) : i + 1 \in ReportsOf(w)}
           /\ \A i \in ReportsOf(w)' : updates'[i] = updates[i + 1]
  BY <1>1, ReportsAfterTaking DEF DInv
<1>3. /\ Len(updates) \in Nat \ {0}
      /\ m \in Message
      /\ m = updates[1]
      /\ m.valve \in Valve
      /\ updates' \in Seq(Message)
      /\ Len(updates') <= Capacity
  <2>1. m.valve \in Valve => /\ Len(updates) \in Nat \ {0}
                             /\ m \in Message
                             /\ m = updates[1]
                             /\ updates' \in Seq(Message)
                             /\ Len(updates') <= Capacity
    BY <1>1, ReportsAfterTaking DEF DInv
  <2>2. m \in Message
    BY <1>1 DEF DInv, ChannelInv
  <2> QED
    BY <2>1, <2>2, MessageFacts
<1>4. [Next]_vars
  BY <1>1, <1>3, MessageFacts DEF HandleReport, HandleBeacon, UnknownValve, Next, State
<1>5. valve_commands' = valve_commands
  BY <1>1 DEF HandleReport, HandleBeacon, UnknownValve, HandleBleValveUpdate,
              UpdateBestActuator, vars
<1>6. ASSUME NEW w \in Valve
      PROVE  /\ \A i \in ReportsOf(w)' : i + 1 \in ReportsOf(w) /\ updates'[i] = updates[i + 1]
             /\ \A j \in ReportsOf(w) : j = 1 \/ j - 1 \in ReportsOf(w)'
             /\ \A i \in ReportsOf(w)' : Newest(w, i)' => Newest(w, i + 1)
             /\ 1 \in ReportsOf(w) <=> m.valve = w /\ m.payload \in State
             /\ ReportsOf(w)' = {} /\ 1 \in ReportsOf(w) => Newest(w, 1)
  <2>1. \A j \in ReportsOf(w) : j \in 1..Len(updates)
    BY DEF ReportsOf
  <2>2. \A i \in ReportsOf(w)' : i + 1 \in ReportsOf(w) /\ updates'[i] = updates[i + 1] /\ i \in Nat
    BY <1>2
  <2>3. ASSUME NEW j \in ReportsOf(w), j # 1
        PROVE  j - 1 \in ReportsOf(w)'
    <3>1. j - 1 \in 1..(Len(updates) - 1) /\ (j - 1) + 1 = j
      BY <1>3, <2>1, <2>3
    <3> QED
      BY <1>2, <3>1
  <2>4. \A i \in ReportsOf(w)' : Newest(w, i)' => Newest(w, i + 1)
    BY <2>1, <2>2, <2>3 DEF Newest
  <2>5. 1 \in ReportsOf(w) <=> m.valve = w /\ m.payload \in State
    BY <1>3 DEF ReportsOf
  <2>6. ReportsOf(w)' = {} /\ 1 \in ReportsOf(w) => Newest(w, 1)
    BY <2>3 DEF Newest
  <2> QED
    BY <2>2, <2>3, <2>4, <2>5, <2>6
<1>7. ChannelInv'
  BY <1>1, <1>3, <1>5 DEF DInv, ChannelInv, Pending
<1>8. ASSUME m.payload \in State, status[m.valve] # "absent"
      PROVE  /\ status' = [status EXCEPT ![m.valve] = m.payload]
             /\ foreign' = foreign \ {m.valve}
  BY <1>1, <1>8 DEF HandleReport, HandleBeacon, UnknownValve, HandleBleValveUpdate, State
<1>9. ASSUME ~(m.payload \in State /\ status[m.valve] # "absent")
      PROVE  status' = status /\ foreign' = foreign
  BY <1>1, <1>9 DEF HandleReport, HandleBeacon, UnknownValve, HandleBleValveUpdate,
                    UpdateBestActuator, vars
<1>10. status \in [Valve -> Status]
  BY DEF DInv, IInv, TypeOK
<1>11. \A w \in Valve : \A s \in Session : HeldOf(s, w)' = HeldOf(s, w)
  BY <1>1 DEF HeldOf
<1>12. TopicInv'
  <2> SUFFICES ASSUME NEW w \in Valve
               PROVE  /\ w \notin foreign' => status'[w] \in State
                      /\ carrier'[w] # None => LastHeldTrue(carrier[w], w)'
                      /\ carrier'[w] = None /\ w \notin lost' \cup late' =>
                            /\ NewestTrue(w)'
                            /\ w \notin foreign' /\ ReportsOf(w)' = {} => status'[w] = position'[w]
    BY DEF TopicInv
  <2>1. ASSUME carrier'[w] # None
        PROVE  LastHeldTrue(carrier[w], w)'
    <3>1. LastHeldTrue(carrier[w], w) /\ carrier[w] \in Session
      BY <1>1, <2>1 DEF DInv, TopicInv, ChannelInv
    <3> QED
      BY <1>1, <1>11, <3>1 DEF LastHeldTrue
  <2>2. NewestTrue(w) => NewestTrue(w)'
    <3> SUFFICES ASSUME NewestTrue(w), NEW i \in ReportsOf(w)', Newest(w, i)'
                 PROVE  updates'[i].payload = position'[w]
      BY DEF NewestTrue, Newest
    <3>1. i + 1 \in ReportsOf(w) /\ Newest(w, i + 1) /\ updates'[i] = updates[i + 1]
      BY <1>6
    <3> QED
      BY <1>1, <3>1 DEF NewestTrue, Newest
  <2>3. CASE m.payload \in State /\ status[m.valve] # "absent" /\ m.valve = w
    <3>1. status'[w] = m.payload
      BY <1>8, <1>10, <2>3
    <3>2. NewestTrue(w) /\ ReportsOf(w)' = {} => m.payload = position[w]
      BY <1>3, <1>6, <2>3 DEF NewestTrue, Newest
    <3> QED
      BY <1>1, <2>1, <2>2, <2>3, <3>1, <3>2 DEF DInv, TopicInv
  <2>4. CASE m.payload \in State /\ status[m.valve] = "absent" /\ m.valve = w
    BY <1>1, <1>9, <2>1, <2>2, <2>4 DEF DInv, TopicInv, State
  <2>5. CASE ~(m.payload \in State /\ m.valve = w)
    <3>1. status'[w] = status[w] /\ (w \in foreign' <=> w \in foreign)
      BY <1>3, <1>8, <1>9, <1>10, <2>5
    <3>2. ReportsOf(w)' = {} => ReportsOf(w) = {}
      BY <1>6, <2>5
    <3> QED
      BY <1>1, <2>1, <2>2, <3>1, <3>2 DEF DInv, TopicInv
  <2> QED
    BY <2>3, <2>4, <2>5
<1>13. GoalInv'
  <2> SUFFICES ASSUME NEW w \in Valve, goal[w] # None
               PROVE  Said(w, goal[w])' \/ status'[w] = goal[w] =>
                          Said(w, goal[w]) \/ status[w] = goal[w]
    BY <1>1, <1>5 DEF DInv, GoalInv, Pending
  <2>1. Said(w, goal[w])' => Said(w, goal[w])
    <3>1. \A i \in ReportsOf(w)' : i + 1 \in ReportsOf(w) /\ updates'[i] = updates[i + 1]
      BY <1>6
    <3>2. \A t \in Session : sockets'[t] = sockets[t] /\ HeldOf(t, w)' = HeldOf(t, w)
      BY <1>1, <1>11
    <3> QED
      BY <1>1, <3>1, <3>2 DEF Said
  <2>2. status'[w] = status[w] \/ (1 \in ReportsOf(w) /\ status'[w] = updates[1].payload)
    BY <1>3, <1>6, <1>8, <1>9, <1>10
  <2> QED
    BY <2>1, <2>2 DEF Said
<1> QED
  BY <1>4, <1>7, <1>12, <1>13

\* What other nodes write is nobody's report, and ends a goal it belies.
LEMMA WritingPreservesD ==
    ASSUME DInv, NEW v \in Valve, NEW s \in Status, WrittenElsewhere(v, s)
    PROVE  ChannelInv' /\ TopicInv' /\ GoalInv'
<1>1. /\ UNCHANGED <<transit, position, sockets, updates, carrier, lost, late, valve_commands>>
      /\ status' = [status EXCEPT ![v] = s]
      /\ foreign' = foreign \cup {v}
      /\ goal' = IF s = goal[v] /\ position[v] # s THEN [goal EXCEPT ![v] = None] ELSE goal
  BY DEF WrittenElsewhere, TopicWritten
<1>2. \A w \in Valve : /\ Pending(w)' = Pending(w)
                       /\ ReportsOf(w)' = ReportsOf(w)
                       /\ \A t \in Session : HeldOf(t, w)' = HeldOf(t, w)
                       /\ \A x : Said(w, x)' <=> Said(w, x)
  BY <1>1, SameReports DEF Pending
<1>3. \A w \in Valve \ {v} : /\ status'[w] = status[w]
                             /\ goal'[w] = goal[w]
                             /\ w \in foreign' <=> w \in foreign
  BY <1>1 DEF DInv, ChannelInv, IInv, TypeOK
<1>4. /\ goal'[v] = None \/ (goal'[v] = goal[v] /\ (goal[v] = s => position[v] = s))
      /\ status'[v] = s
      /\ v \in foreign'
  BY <1>1 DEF DInv, ChannelInv, IInv, TypeOK
<1>5. ChannelInv'
  <2>1. goal' \in [Valve -> State \cup {None}]
    BY <1>1 DEF DInv, ChannelInv
  <2> QED
    BY <1>1, <1>2, <2>1 DEF DInv, ChannelInv
<1>6. ASSUME NEW w \in Valve
      PROVE  /\ carrier'[w] # None => LastHeldTrue(carrier[w], w)'
             /\ NewestTrue(w) => NewestTrue(w)'
  <2>1. carrier[w] # None => LastHeldTrue(carrier[w], w) /\ carrier[w] \in Session
    BY DEF DInv, TopicInv, ChannelInv
  <2> QED
    BY <1>1, <1>2, <2>1 DEF LastHeldTrue, NewestTrue
<1>7. TopicInv'
  BY <1>1, <1>2, <1>3, <1>4, <1>6 DEF DInv, TopicInv
<1>8. GoalInv'
  <2> SUFFICES ASSUME NEW w \in Valve, goal'[w] # None
               PROVE  /\ \A o \in transit' : o.valve = w => o.value = goal'[w]
                      /\ Pending(w)' => valve_commands'[w].desired_state = goal'[w]
                      /\ Said(w, goal[w])' \/ status'[w] = goal'[w] => position'[w] = goal'[w]
    BY DEF GoalInv
  <2>1. goal'[w] = goal[w] /\ (Said(w, goal[w])' => Said(w, goal[w]))
    <3>1. goal'[w] = goal[w]
      BY <1>3, <1>4
    <3> QED
      BY <1>1, <1>2, <3>1 DEF Said
  <2> QED
    BY <1>1, <1>2, <1>3, <1>4, <2>1 DEF DInv, GoalInv
<1> QED
  BY <1>5, <1>7, <1>8

\* The steps that concern the queue alone.
LEMMA QueueOnlyPreservesD ==
    ASSUME DInv, QueueOnly, UNCHANGED <<status, valve_commands>>
    PROVE  ChannelInv' /\ TopicInv' /\ GoalInv'
<1>1. \A w \in Valve : Pending(w)' = Pending(w) /\ \A x : Said(w, x)' <=> Said(w, x)
  BY SameReports DEF Pending, QueueOnly
<1>2. TopicInv'
  BY SameTopic DEF DInv, QueueOnly
<1> QED
  BY <1>1, <1>2 DEF DInv, ChannelInv, GoalInv, QueueOnly

-----------------------------------------------------------------------------
(***************************************************************************)
(* Results                                                                 *)
(***************************************************************************)

LEMMA NextDInv == DInv /\ [DeliveryNext]_deliveryVars => [Next]_vars /\ DInv'
<1> SUFFICES ASSUME DInv, [DeliveryNext]_deliveryVars
             PROVE  [Next]_vars /\ ChannelInv' /\ TopicInv' /\ GoalInv'
  BY NextIInv DEF DInv
<1>1. CASE CheckCommands
  BY <1>1, CheckPreservesD DEF CheckCommands, Next
<1>2. CASE HandleBleUpdateMessage
  BY <1>2, HandlingPreservesD
<1>3. ASSUME NEW v \in Valve, NEW d \in State, AcceptCommand(v, d)
      PROVE  [Next]_vars /\ ChannelInv' /\ TopicInv' /\ GoalInv'
  <2>1. [Next]_vars
    BY <1>3 DEF AcceptCommand, Next, State, Desired
  <2> QED
    BY <1>3, <2>1, AcceptPreservesD
<1>4. ASSUME NEW v \in Valve, NEW s \in Status, WrittenElsewhere(v, s)
      PROVE  [Next]_vars /\ ChannelInv' /\ TopicInv' /\ GoalInv'
  BY <1>4, WritingPreservesD DEF WrittenElsewhere, Next
<1>5. ASSUME NEW v \in Valve, BestActuatorAges(v), QueueOnly
      PROVE  [Next]_vars /\ ChannelInv' /\ TopicInv' /\ GoalInv'
  BY <1>5, QueueOnlyPreservesD DEF BestActuatorAges, Next
<1>6. ASSUME NEW a \in Actuator, HandleCredMessage(a), QueueOnly
      PROVE  [Next]_vars /\ ChannelInv' /\ TopicInv' /\ GoalInv'
  BY <1>6, QueueOnlyPreservesD DEF HandleCredMessage, Next
<1>7. ASSUME NEW o \in transit, OrderLost(o)
      PROVE  [Next]_vars /\ ChannelInv' /\ TopicInv' /\ GoalInv'
  BY <1>7, LossPreservesD DEF OrderLost
<1>8. ASSUME NEW o \in transit, NEW again \in BOOLEAN,
             NEW s \in SessionsOf(o.actuator) \cup {None}, CarryOut(o, again, s)
      PROVE  [Next]_vars /\ ChannelInv' /\ TopicInv' /\ GoalInv'
  BY <1>8, CarryOutPreservesD DEF CarryOut
<1>9. ASSUME NEW m \in Beacon, BeaconRelayed(m)
      PROVE  [Next]_vars /\ ChannelInv' /\ TopicInv' /\ GoalInv'
  BY <1>9, RelayPreservesD DEF BeaconRelayed
<1>10. ASSUME NEW v \in Valve, NEW d \in State, TurnedByHand(v, d)
       PROVE  [Next]_vars /\ ChannelInv' /\ TopicInv' /\ GoalInv'
  BY <1>10, TurningPreservesD DEF TurnedByHand
<1>11. ASSUME NEW s \in Session, ReportRelayed(s)
       PROVE  [Next]_vars /\ ChannelInv' /\ TopicInv' /\ GoalInv'
  BY <1>11, ReadingPreservesD DEF ReportRelayed
<1>12. ASSUME NEW s \in Session, SessionEnds(s)
       PROVE  [Next]_vars /\ ChannelInv' /\ TopicInv' /\ GoalInv'
  BY <1>12, EndingPreservesD DEF SessionEnds
<1>13. CASE UNCHANGED deliveryVars
  BY <1>13, QueueOnlyPreservesD DEF deliveryVars, vars, QueueOnly
<1> QED
  BY <1>1, <1>2, <1>3, <1>4, <1>5, <1>6, <1>7, <1>8, <1>9, <1>10, <1>11, <1>12, <1>13
     DEF DeliveryNext

LEMMA SpecDInv == DeliverySpec => []DInv
BY InitDInv, NextDInv, PTL DEF DeliverySpec

\* Whatever the air and the channel do, the queue inside the composition runs
\* as ValveCommands says: every theorem about its Spec holds here.
THEOREM QueueInDelivery == DeliverySpec => Spec
<1>1. DeliveryInit => Init
  BY DEF DeliveryInit
<1>2. DInv /\ [DeliveryNext]_deliveryVars => [Next]_vars
  BY NextDInv
<1> QED
  BY <1>1, <1>2, SpecDInv, PTL DEF DeliverySpec, Spec

\* Orders, reports and the window of the channel keep their types.
THEOREM DeliveryTypes == DeliverySpec => []DeliveryTypeOK
<1>1. DInv => DeliveryTypeOK
  BY DEF DInv, ChannelInv, DeliveryTypeOK, IInv, Message
<1> QED
  BY <1>1, SpecDInv, PTL

\* Through any number of sessions that hold reports and let them overtake each
\* other, a topic is right once the report of the last move was handled, unless
\* that report was lost, an earlier one came late, or another node wrote the topic.
THEOREM TopicTrue == DeliverySpec => []TopicIsTrue
<1>1. DInv => TopicIsTrue
  BY DEF DInv, TopicInv, TopicIsTrue
<1> QED
  BY <1>1, SpecDInv, PTL

\* An order that was accepted neither contested nor misled is taken as done only
\* when the valve has moved.
THEOREM DoneIsMoved == DeliverySpec => []DoneMeansMoved
<1>1. DInv => DoneMeansMoved
  BY DEF DInv, GoalInv, DoneMeansMoved
<1> QED
  BY <1>1, SpecDInv, PTL
=============================================================================
