------------------------ MODULE DeviceControlProofs -------------------------
(***************************************************************************)
(* Proofs about DeviceControl for every set of kinds, sources, channels    *)
(* and wishes, every channel capacity, and any number of users' steps and  *)
(* failures.                                                               *)
(***************************************************************************)
EXTENDS DeviceControl, WellFoundedInduction, TLAPS

-----------------------------------------------------------------------------
(***************************************************************************)
(* The parser and the mirror                                               *)
(***************************************************************************)

LEMMA KindsAreDistinct ==
    ASSUME NEW s
    PROVE  /\ s \in Switches => /\ s \notin Shutters /\ s \notin Detectors \cup Openings
                                /\ s # "domo_rgbw_light" /\ s # "domo_light_dimmable"
           /\ s \in Shutters => /\ s \notin Switches /\ s \notin Detectors \cup Openings
                                /\ s # "domo_rgbw_light" /\ s # "domo_light_dimmable"
BY DEF Switches, Shutters, Detectors, Openings

LEMMA MirrorFields ==
    ASSUME NEW s, NEW k, NEW c
    PROVE  DOMAIN Mirror(s, k, c) \subseteq Fields(s)
<1> USE DEF Mirror, Fields
<1>1. CASE s \in Shutters
  <2>1. Mirror(s, k, c) = [f \in {"shutter_status"} |-> Shutter]
    BY <1>1, KindsAreDistinct
  <2>2. Fields(s) = {"shutter_status"}
    BY <1>1, KindsAreDistinct
  <2> QED
    BY <2>1, <2>2
<1>2. CASE s = "domo_rgbw_light"
  BY <1>2 DEF Shutters, Switches, Detectors, Openings
<1>3. CASE s \notin Shutters /\ s # "domo_rgbw_light"
  <2>1. Fields(s) = {"status"}
    BY <1>3
  <2>2. DOMAIN Mirror(s, k, c) \in {{"status"}, {}}
    BY <1>3
  <2> QED
    BY <2>1, <2>2
<1> QED
  BY <1>1, <1>2, <1>3

\* A dimmable light connected to a channel that no LED has.
RedLight(s, k, c) == s = "domo_light_dimmable" /\ k = "shelly_rgbw" /\ c \notin 1..4

\* On every kind of actuator and every channel, a command sets exactly the
\* properties that the source mirrors, and each to what is asked of its field: the
\* functions of command_parser.rs and get_topic_from_actuator_topic, written
\* apart, are inverse to each other.  The one case in which they disagree is a
\* dimmable light on a channel that no LED has: the parser turns the red LED, and
\* the light mirrors nothing.
THEOREM ParserMatchesMirror ==
    ASSUME NEW s, NEW k, NEW c, CommandFor(s) # "none",
           NEW wish \in [Fields(s) -> Value]
    PROVE  IF RedLight(s, k, c)
           THEN /\ Parsed(CommandFor(s), k, c, wish) = [p \in {Led("r")} |-> wish["status"]]
                /\ DOMAIN Mirror(s, k, c) = {}
           ELSE /\ DOMAIN Parsed(CommandFor(s), k, c, wish) = RangeOf(Mirror(s, k, c))
                /\ \A f \in DOMAIN Mirror(s, k, c) :
                      Parsed(CommandFor(s), k, c, wish)[Mirror(s, k, c)[f]] = wish[f]
                /\ \A p \in DOMAIN Parsed(CommandFor(s), k, c, wish) :
                      Parsed(CommandFor(s), k, c, wish)[p] \in Value
<1> DEFINE M == Mirror(s, k, c)
           P == Parsed(CommandFor(s), k, c, wish)
<1>0. CASE RedLight(s, k, c)
  <2>1. /\ CommandFor(s) = "dim_command" /\ P = DimCommand(k, c, wish)
        /\ M = [f \in {} |-> Dimmer]
    BY <1>0 DEF RedLight, Parsed, CommandFor, Mirror, Switches, Shutters, Detectors, Openings
  <2>2. P = [p \in {Led("r")} |-> wish["status"]]
    BY <1>0, <2>1 DEF RedLight, DimCommand, LedChannel
  <2> QED
    BY <1>0, <2>1, <2>2
<1> SUFFICES ASSUME ~RedLight(s, k, c)
             PROVE  /\ DOMAIN P = RangeOf(M)
                    /\ \A f \in DOMAIN M : P[M[f]] = wish[f]
                    /\ \A p \in DOMAIN P : P[p] \in Value
  BY <1>0
<1>1. CASE s \in Switches
  <2>1. M = [f \in {"status"} |-> Output(c)]
    BY <1>1, KindsAreDistinct DEF Mirror
  <2>2. CommandFor(s) = "turn_command"
    BY <1>1, KindsAreDistinct DEF CommandFor
  <2>3. P = [p \in {Output(c)} |-> wish["status"]]
    BY <2>2 DEF Parsed, TurnCommand
  <2>4. Fields(s) = {"status"}
    BY <1>1, KindsAreDistinct DEF Fields
  <2> QED
    BY <2>1, <2>3, <2>4 DEF RangeOf
<1>2. CASE s \in Shutters
  <2>1. M = [f \in {"shutter_status"} |-> Shutter]
    BY <1>2, KindsAreDistinct DEF Mirror
  <2>2. CommandFor(s) = "shutter_command"
    BY <1>2, KindsAreDistinct DEF CommandFor
  <2>3. P = [p \in {Shutter} |-> wish["shutter_status"]]
    BY <2>2 DEF Parsed, ShutterCommand
  <2>4. Fields(s) = {"shutter_status"}
    BY <1>2, KindsAreDistinct DEF Fields
  <2> QED
    BY <2>1, <2>3, <2>4 DEF RangeOf
<1>3. CASE s = "domo_rgbw_light"
  <2>1. /\ M = [f \in Colours |-> Led(f)]
        /\ P = [p \in {Led(f) : f \in Colours} |-> wish[p[2]]]
        /\ Fields(s) = Colours
    BY <1>3 DEF Mirror, Parsed, CommandFor, RgbwCommand, Fields, Switches, Shutters,
                Detectors, Openings
  <2>2. \A f : Led(f)[2] = f
    BY DEF Led
  <2>3. DOMAIN P = RangeOf(M)
    BY <2>1 DEF RangeOf
  <2> HIDE DEF M, P
  <2>4. \A f \in DOMAIN M : M[f] \in DOMAIN P /\ P[M[f]] = wish[f]
    BY <2>1, <2>2
  <2> QED
    BY <2>1, <2>2, <2>3, <2>4
<1>4. CASE s = "domo_light_dimmable"
  <2>1. /\ CommandFor(s) = "dim_command" /\ P = DimCommand(k, c, wish)
        /\ Fields(s) = {"status"}
    BY <1>4 DEF Parsed, CommandFor, Fields, Switches, Shutters
  <2>2. CASE k = "shelly_dimmer"
    <3>1. /\ M = [f \in {"status"} |-> Dimmer]
          /\ P = [p \in {Dimmer} |-> wish["status"]]
      BY <1>4, <2>1, <2>2 DEF Mirror, DimCommand, Switches, Shutters, Detectors, Openings
    <3> QED
      BY <2>1, <3>1 DEF RangeOf
  <2>3. CASE k = "shelly_rgbw" /\ c \in 1..4
    <3>1. /\ M = [f \in {"status"} |-> Led(Colour(c))]
          /\ P = [p \in {Led(Colour(c))} |-> wish["status"]]
      BY <1>4, <2>1, <2>3
         DEF Mirror, DimCommand, LedChannel, Switches, Shutters, Detectors, Openings
    <3> QED
      BY <2>1, <3>1 DEF RangeOf
  <2>4. CASE ~(k = "shelly_dimmer") /\ ~(k = "shelly_rgbw" /\ c \in 1..4)
    <3>1. DOMAIN M = {}
      BY <1>4, <2>4 DEF Mirror, Switches, Shutters, Detectors, Openings
    <3>2. k # "shelly_rgbw"
      BY <1>4, <2>4 DEF RedLight
    <3>3. DOMAIN P = {}
      BY <2>1, <2>4, <3>2 DEF DimCommand
    <3> QED
      BY <3>1, <3>3 DEF RangeOf
  <2> QED
    BY <2>2, <2>3, <2>4
<1> QED
  BY <1>1, <1>2, <1>3, <1>4 DEF CommandFor

-----------------------------------------------------------------------------
(***************************************************************************)
(* Types                                                                   *)
(***************************************************************************)

OrderSet(k) ==
    {Order(Nothing, m) : m \in Mode \cup {None}}
    \cup {Order(sets, None) :
            sets \in UNION {[D -> Value] : D \in (SUBSET Properties(k)) \ {{}}}}

OwnReport(k) == [values  : [Properties(k) -> Value], mode : Mode,
                 updated : (SUBSET Everything(k)) \ {{}}, behind : SUBSET Everything(k)]

Message(k) == OwnReport(k) \cup {Noise}

Connected(k, f) ==
    /\ f \in [Source -> Channel \cup {NoLed, None}]
    /\ \A s \in Source : f[s] \in Sockets(s, k) \cup {None}

TypeInv ==
    /\ kind \in Kind
    /\ device \in [Properties(kind) -> Value]
    /\ mode \in Mode
    /\ linked \in BOOLEAN
    /\ orders \in Seq(OrderSet(kind)) /\ Len(orders) <= MaxOrders
    /\ updates \in Seq(Message(kind))
    /\ kind \in Esp32 => Len(updates) <= Capacity
    /\ topic \in [values : [Properties(kind) -> Value], mode : Mode]
    /\ Connected(kind, conn)
    /\ \A s \in Source : source[s] \in [Fields(s) -> Value \cup {None}]
    /\ gap \subseteq Everything(kind)
    /\ missed \subseteq Everything(kind)
    /\ current \subseteq Source
    /\ skipped \subseteq current

LEMMA PropertyFacts ==
    ASSUME NEW k
    PROVE  /\ ModeProperty \notin Properties(k)
           /\ Beacon \notin Everything(k)
           /\ ModeProperty \in Everything(k)
<1>1. \A p \in Properties(k) :
         p[1] \in {"output", "input", "rgbw_status", "shutter_status", "dimmer_status"}
  <2> USE DEF Properties, Output, Input, Led, Shutter, Dimmer
  <2>1. CASE k = "shelly_rgbw"
    BY <2>1
  <2>2. CASE k = "shelly_dimmer"
    BY <2>2
  <2>3. CASE k # "shelly_rgbw" /\ k # "shelly_dimmer"
    BY <2>3
  <2> QED
    BY <2>1, <2>2, <2>3
<1>2. /\ ModeProperty[1] = "mode" /\ Beacon[1] = "beacon_adv"
  BY DEF ModeProperty, Beacon
<1> QED
  BY <1>1, <1>2 DEF Everything

\* Every report is about something.
LEMMA UpdatedFacts ==
    ASSUME NEW o \in OrderSet(kind)
    PROVE  UpdatedBy(o) \in (SUBSET Everything(kind)) \ {{}}
<1>0. DOMAIN Nothing = {}
  BY DEF Nothing
<1>1. CASE o = Order(Nothing, None)
  BY <1>1, PropertyFacts DEF UpdatedBy
<1>2. CASE o # Order(Nothing, None)
  <2>1. UpdatedBy(o) = DOMAIN o.sets \cup (IF o.mode # None THEN {ModeProperty} ELSE {})
    BY <1>2 DEF UpdatedBy
  <2>2. ASSUME NEW m \in Mode, o = Order(Nothing, m)
        PROVE  UpdatedBy(o) = {ModeProperty}
    <3>1. o.sets = Nothing /\ o.mode = m /\ m # None
      BY <1>2, <2>2 DEF Order
    <3> QED
      BY <1>0, <2>1, <3>1
  <2>3. ASSUME NEW D \in (SUBSET Properties(kind)) \ {{}}, NEW sets \in [D -> Value],
               o = Order(sets, None)
        PROVE  UpdatedBy(o) = D
    <3>1. o.sets = sets /\ o.mode = None
      BY <2>3 DEF Order
    <3> QED
      BY <2>1, <3>1
  <2>4. \/ \E m \in Mode : o = Order(Nothing, m)
        \/ \E D \in (SUBSET Properties(kind)) \ {{}} : \E sets \in [D -> Value] :
              o = Order(sets, None)
    BY <1>2 DEF OrderSet
  <2> QED
    BY <2>2, <2>3, <2>4 DEF Everything
<1> QED
  BY <1>1, <1>2

LEMMA NoiseFacts ==
    ASSUME NEW k
    PROVE  /\ Noise.updated = {} /\ Noise.behind = {}
           /\ \A m \in OwnReport(k) : m # Noise
BY DEF Noise, OwnReport

LEMMA CalculatedMode == \A k : \A sources : CalculateMode(k, sources) \in Mode
BY DEF CalculateMode, Mode

\* What an order carried out makes of the device.
LEMMA ExecuteFacts ==
    ASSUME TypeInv, Execute
    PROVE  /\ orders \in Seq(OrderSet(kind)) /\ orders # <<>>
           /\ Head(orders) \in OrderSet(kind)
           /\ orders' \in Seq(OrderSet(kind)) /\ Len(orders') <= MaxOrders
           /\ device' \in [Properties(kind) -> Value] /\ mode' \in Mode
           /\ \A p \in Properties(kind) :
                 p \notin UpdatedBy(Head(orders)) => device'[p] = device[p]
           /\ ModeProperty \notin UpdatedBy(Head(orders)) => mode' = mode
<1> DEFINE o == Head(orders)
<1>1. /\ orders \in Seq(OrderSet(kind)) /\ orders # <<>> /\ Len(orders) <= MaxOrders
      /\ orders' = Tail(orders) /\ MaxOrders \in Nat
  BY OrdersAssumption DEF TypeInv, Execute
<1>2. /\ o \in OrderSet(kind)
      /\ orders' \in Seq(OrderSet(kind)) /\ Len(orders') <= MaxOrders
  BY <1>1
<1>3. /\ device' = [p \in Properties(kind) |->
                       IF p \in DOMAIN o.sets THEN o.sets[p] ELSE device[p]]
      /\ mode' = IF o.mode # None THEN o.mode ELSE mode
      /\ device \in [Properties(kind) -> Value] /\ mode \in Mode
  BY DEF Execute, TypeInv
<1> HIDE DEF o
<1>4. /\ o.mode \in Mode \cup {None}
      /\ \/ DOMAIN o.sets = {}
         \/ DOMAIN o.sets \subseteq Properties(kind) /\ \A p \in DOMAIN o.sets : o.sets[p] \in Value
  BY <1>2 DEF OrderSet, Order, Nothing
<1>5. /\ o # Order(Nothing, None) =>
            UpdatedBy(o) = DOMAIN o.sets \cup (IF o.mode # None THEN {ModeProperty} ELSE {})
      /\ o = Order(Nothing, None) => DOMAIN o.sets = {} /\ o.mode = None
  BY DEF UpdatedBy, Order, Nothing
<1>6. /\ device' \in [Properties(kind) -> Value] /\ mode' \in Mode
  BY <1>3, <1>4
<1>7. /\ \A p \in Properties(kind) : p \notin UpdatedBy(o) => device'[p] = device[p]
      /\ ModeProperty \notin UpdatedBy(o) => mode' = mode
  BY <1>3, <1>5
<1> QED
  BY <1>1, <1>2, <1>6, <1>7 DEF o

-----------------------------------------------------------------------------
(***************************************************************************)
(* From the topic to the device                                            *)
(***************************************************************************)

End == Len(updates) + 1

\* Where the status is written down: in the topic, in the reports under way,
\* and in the device.
Points == {0, End} \cup OwnReports(updates)

At(i, p) ==
    LET r == IF i = 0 THEN topic
             ELSE IF i \in 1..Len(updates) THEN updates[i]
             ELSE [values |-> device, mode |-> mode]
    IN  IF p = ModeProperty THEN r.mode ELSE r.values[p]

\* The updates known of at a point.
U(i) == IF i \in 1..Len(updates) THEN updates[i].updated \cup updates[i].behind ELSE gap

\* What differs between two points was updated in between.
Explained ==
    \A i \in Points : \A j \in Points : i < j =>
        \A p \in Everything(kind) :
            At(i, p) # At(j, p) => \E h \in (i + 1)..j : p \in U(h)

\* Sending moves the reports that are kept by k places, 0 or 1, and puts m
\* behind them; what a report knew that is overwritten, a later point knows.
Shifted(k, m) ==
    /\ k \in {0, 1} /\ k <= Len(updates)
    /\ Len(updates') = Len(updates) - k + 1
    /\ \A i \in 1..(Len(updates) - k) :
          /\ updates'[i].values = updates[i + k].values
          /\ updates'[i].mode = updates[i + k].mode
          /\ updates'[i] = Noise <=> updates[i + k] = Noise
          /\ U(i + k) \subseteq U(i)'
    /\ updates'[Len(updates')].values = m.values
    /\ updates'[Len(updates')].mode = m.mode
    /\ updates'[Len(updates')] = Noise <=> m = Noise
    /\ \A e : e = Len(updates') => m.updated \cup m.behind \subseteq U(e)'
    /\ k = 1 => \A j \in Points' : j # 0 => \E f \in 1..j : U(1) \subseteq U(f)'

\* What is sent is another device's, or the newest status of this one, and
\* names or carries every update since the report before it.
Newest(m) ==
    \/ m = Noise /\ UNCHANGED <<device, mode>> /\ gap \subseteq gap'
    \/ /\ m \in OwnReport(kind)
       /\ m.values = device' /\ m.mode = mode' /\ m.behind = gap
       /\ \A p \in Properties(kind) : p \notin m.updated => device'[p] = device[p]
       /\ ModeProperty \notin m.updated => mode' = mode

LEMMA LengthFacts ==
    ASSUME TypeInv
    PROVE  /\ Len(updates) \in Nat
           /\ \A i \in 1..Len(updates) : updates[i] \in Message(kind)
           /\ Points \subseteq 0..End
           /\ \A i \in Points : i \in Nat
BY DEF TypeInv, Points, End, OwnReports

LEMMA ExplainedAfterSending ==
    ASSUME TypeInv, TypeInv', Explained, UNCHANGED <<kind, topic>>,
           NEW k, NEW m, Shifted(k, m), Newest(m)
    PROVE  Explained'
<1>0. PICK n \in Nat : n = Len(updates) - k
  <2>1. k \in {0, 1} /\ k <= Len(updates)
    BY DEF Shifted
  <2>2. Len(updates) - k \in Nat
    BY <2>1, LengthFacts
  <2> QED
    BY <2>2
<1>1. /\ Len(updates) \in Nat /\ Len(updates') = n + 1 /\ n \in Nat /\ k \in {0, 1}
      /\ Len(updates) = n + k
      /\ End = n + k + 1 /\ End' = n + 2
  BY <1>0, LengthFacts DEF Shifted, End
<1>2. \A i \in 1..n : /\ updates'[i].values = updates[i + k].values
                      /\ updates'[i].mode = updates[i + k].mode
                      /\ updates'[i] = Noise <=> updates[i + k] = Noise
                      /\ U(i + k) \subseteq U(i)'
  BY <1>0 DEF Shifted
<1>3. /\ updates'[n + 1].values = m.values /\ updates'[n + 1].mode = m.mode
      /\ updates'[n + 1] = Noise <=> m = Noise
      /\ m.updated \cup m.behind \subseteq U(n + 1)'
  BY <1>1 DEF Shifted
\* A point before the last two was a point before.
<1>4. ASSUME NEW i \in Points', i <= n
      PROVE  \E q \in Points : /\ q <= n + k
                               /\ q = IF i = 0 THEN 0 ELSE i + k
                               /\ \A p : At(i, p)' = At(q, p)
  <2>1. CASE i = 0
    <3>1. \A p : At(i, p)' = At(0, p)
      BY <2>1 DEF At
    <3> QED
      BY <1>1, <2>1, <3>1 DEF Points
  <2>2. CASE i # 0
    <3>1. i \in 1..n
      BY <1>1, <1>4, <2>2, LengthFacts DEF Points, OwnReports
    <3>2. i \in 1..Len(updates') /\ i + k \in 1..Len(updates)
      BY <1>1, <3>1
    <3>3. updates'[i] # Noise
      BY <1>1, <1>4, <3>1, <3>2 DEF Points, OwnReports, End
    <3>4. i + k \in Points
      BY <1>2, <3>1, <3>2, <3>3 DEF Points, OwnReports
    <3>5. \A p : At(i, p)' = At(i + k, p)
      BY <1>2, <3>1, <3>2 DEF At
    <3> QED
      BY <1>1, <2>2, <3>1, <3>4, <3>5
  <2> QED
    BY <2>1, <2>2
\* What was known at a point is known at the one it becomes.
<1>5. ASSUME NEW i \in Nat, NEW q, q = (IF i = 0 THEN 0 ELSE i + k),
             NEW j \in Points', i < j,
             NEW h \in (q + 1)..(n + k), h <= j + k, NEW p, p \in U(h)
      PROVE  \E g \in (i + 1)..j : p \in U(g)'
  <2>1. j \in Nat /\ h \in Nat
    BY <1>1, <1>5 DEF Points, End, OwnReports
  <2>2. CASE k = 1 /\ h = 1
    <3>1. i = 0 /\ j # 0
      BY <1>5, <2>1, <2>2
    <3>2. PICK f \in 1..j : U(1) \subseteq U(f)'
      BY <1>5, <2>2, <3>1 DEF Shifted
    <3> QED
      BY <1>5, <2>2, <3>1, <3>2
  <2>3. CASE ~(k = 1 /\ h = 1)
    <3>1. h - k \in 1..n /\ h - k \in (i + 1)..j /\ (h - k) + k = h
      BY <1>1, <1>5, <2>1, <2>3
    <3>2. U(h) \subseteq U(h - k)'
      BY <1>2, <3>1
    <3> QED
      BY <1>5, <3>1, <3>2
  <2> QED
    BY <2>2, <2>3
<1>6. SUFFICES ASSUME NEW i \in Points', NEW j \in Points', i < j,
                      NEW p \in Everything(kind), At(i, p)' # At(j, p)'
               PROVE  \E h \in (i + 1)..j : p \in U(h)'
  BY DEF Explained
<1>7. i \in Nat /\ j \in Nat /\ j <= n + 2
  BY <1>1 DEF Points, End, OwnReports
<1>8. U(n + 2)' = gap' /\ U(n + k + 1) = gap
  BY <1>1 DEF U
<1>9. \A q : q = n + 2 => At(q, p)' = IF p = ModeProperty THEN mode' ELSE device'[p]
  BY <1>1 DEF At
<1>10. At(n + k + 1, p) = IF p = ModeProperty THEN mode ELSE device[p]
  BY <1>1 DEF At
<1>11. CASE j <= n
  <2>1. i <= n
    BY <1>1, <1>6, <1>7, <1>11
  <2>2. PICK a \in Points : /\ a <= n + k /\ a = IF i = 0 THEN 0 ELSE i + k
                            /\ \A x : At(i, x)' = At(a, x)
    BY <1>4, <2>1
  <2>3. PICK b \in Points : /\ b <= n + k /\ b = IF j = 0 THEN 0 ELSE j + k
                            /\ \A x : At(j, x)' = At(b, x)
    BY <1>4, <1>11
  <2>4. a < b /\ b = j + k
    BY <1>1, <1>6, <1>7, <2>2, <2>3
  <2>5. PICK h \in (a + 1)..b : p \in U(h)
    BY <1>6, <2>2, <2>3, <2>4 DEF Explained
  <2>6. h \in (a + 1)..(n + k) /\ h <= j + k
    BY <1>1, <1>7, <2>2, <2>3, <2>4, <2>5
  <2> QED
    BY <1>5, <1>6, <1>7, <2>2, <2>5, <2>6
<1>12. CASE j > n /\ i <= n
  <2>1. PICK a \in Points : /\ a <= n + k /\ a = IF i = 0 THEN 0 ELSE i + k
                            /\ \A x : At(i, x)' = At(a, x)
    BY <1>4, <1>12
  <2>2. n + k + 1 \in Points /\ a < n + k + 1
    BY <1>1, <1>7, <2>1 DEF Points
  <2>3. ASSUME At(a, p) # At(n + k + 1, p)
        PROVE  \/ p \in gap
               \/ \E h \in (i + 1)..j : p \in U(h)'
    <3>1. PICK h \in (a + 1)..(n + k + 1) : p \in U(h)
      BY <2>1, <2>2, <2>3 DEF Explained
    <3>2. CASE h = n + k + 1
      BY <1>8, <3>1, <3>2
    <3>3. CASE h # n + k + 1
      <4>1. h \in (a + 1)..(n + k) /\ h <= j + k
        BY <1>1, <1>7, <1>12, <2>1, <3>1, <3>3
      <4> QED
        BY <1>5, <1>6, <1>7, <2>1, <3>1, <4>1
    <3> QED
      BY <3>2, <3>3
  <2>4. CASE m = Noise
    <3>1. j = n + 2
      <4>1. updates'[n + 1] = Noise
        BY <1>3, <2>4
      <4>2. n + 1 \notin Points'
        BY <1>1, <4>1 DEF Points, OwnReports, End
      <4> QED
        BY <1>1, <1>7, <1>12, <4>2
    <3>2. UNCHANGED <<device, mode>> /\ gap \subseteq gap'
      BY <2>4, NoiseFacts DEF Newest
    <3>3. At(a, p) # At(n + k + 1, p)
      BY <1>6, <1>9, <1>10, <2>1, <3>1, <3>2
    <3> QED
      BY <1>1, <1>7, <1>8, <1>12, <2>3, <3>1, <3>2, <3>3
  <2>5. CASE m # Noise
    <3>1. /\ m.values = device' /\ m.mode = mode' /\ m.behind = gap
          /\ \A x \in Properties(kind) : x \notin m.updated => device'[x] = device[x]
          /\ ModeProperty \notin m.updated => mode' = mode
      BY <2>5 DEF Newest
    <3>2. n + 1 \in (i + 1)..j
      BY <1>1, <1>7, <1>12
    <3>3. CASE p \in m.updated \cup gap
      BY <1>3, <3>1, <3>2, <3>3
    <3>4. CASE p \notin m.updated \cup gap
      <4>1. At(j, p)' = IF p = ModeProperty THEN mode' ELSE device'[p]
        <5>1. CASE j = n + 1
          <6>1. n + 1 \in 1..Len(updates') /\ n + 1 # 0
            BY <1>1
          <6> QED
            BY <1>3, <3>1, <5>1, <6>1 DEF At
        <5>2. CASE j = n + 2
          BY <1>9, <5>2
        <5> QED
          BY <1>1, <1>7, <1>12, <5>1, <5>2
      <4>2. At(j, p)' = At(n + k + 1, p)
        BY <1>10, <3>1, <3>4, <4>1 DEF Everything
      <4> QED
        BY <1>6, <2>1, <2>3, <3>4, <4>2
    <3> QED
      BY <3>3, <3>4
  <2> QED
    BY <2>4, <2>5
<1>13. CASE i > n
  <2>1. i = n + 1 /\ j = n + 2
    BY <1>1, <1>6, <1>7, <1>13
  <2>2. n + 1 \in 1..Len(updates') /\ n + 1 # 0
    BY <1>1
  <2>3. updates'[n + 1] # Noise
    BY <1>1, <2>1, <2>2 DEF Points, OwnReports, End
  <2>4. m.values = device' /\ m.mode = mode'
    BY <1>3, <2>3 DEF Newest
  <2>5. At(i, p)' = IF p = ModeProperty THEN mode' ELSE device'[p]
    BY <1>3, <2>1, <2>2, <2>4 DEF At
  <2> QED
    BY <1>6, <1>9, <2>1, <2>5
<1> QED
  BY <1>1, <1>7, <1>11, <1>12, <1>13

-----------------------------------------------------------------------------
(***************************************************************************)
(* Sending                                                                 *)
(***************************************************************************)

LEMMA LeastNumber ==
    ASSUME NEW T \in SUBSET Nat, T # {}
    PROVE  \E x \in T : \A y \in T : x <= y
<1> DEFINE Less == {q \in Nat \X Nat : q[1] < q[2]}
<1>1. IsWellFoundedOn(Less, Nat)
  <2>1. OpToRel(<, Nat) = Less
    BY DEF OpToRel
  <2> QED
    BY <2>1, NatLessThanWellFounded
<1> HIDE DEF Less
<1>2. PICK x \in T : \A y \in T : ~(<<y, x>> \in Less)
  BY <1>1, WFMin
<1>3. \A y \in Nat : y < x => <<y, x>> \in Less
  BY DEF Less
<1>4. ASSUME NEW y \in T
      PROVE  x <= y
  <2>1. x \in Nat /\ y \in Nat
    OBVIOUS
  <2>2. ~(y < x)
    BY <1>2, <1>3, <2>1
  <2> QED
    BY <2>1, <2>2
<1> QED
  BY <1>4

LEMMA KeptFacts ==
    ASSUME TypeInv, NEW m \in Message(kind)
    PROVE  /\ Sent(updates, m) \in Seq(Message(kind))
           /\ Overwrites(updates) => /\ Len(updates) >= 1
                                     /\ Head(updates) = updates[1]
                                     /\ UpdatesIn(<<Head(updates)>>) = U(1)
           /\ Len(updates) <= Capacity => Len(Sent(updates, m)) <= Capacity
           /\ \E k \in {0, 1} :
                 /\ k = 1 <=> Overwrites(updates)
                 /\ k <= Len(updates)
                 /\ Len(Sent(updates, m)) = Len(updates) - k + 1
                 /\ Sent(updates, m)[Len(updates) - k + 1] = m
                 /\ \A i \in 1..(Len(updates) - k) : Sent(updates, m)[i] = updates[i + k]
<1>1. updates \in Seq(Message(kind)) /\ Len(updates) \in Nat /\ Capacity \in Nat \ {0}
  BY BroadcastAssumption DEF TypeInv
<1>2. CASE Overwrites(updates)
  <2>1. Len(updates) = Capacity /\ Len(updates) >= 1 /\ updates # <<>>
    BY <1>1, <1>2 DEF Overwrites
  <2>2. /\ Tail(updates) \in Seq(Message(kind))
        /\ Len(Tail(updates)) = Len(updates) - 1
        /\ \A i \in 1..(Len(updates) - 1) : Tail(updates)[i] = updates[i + 1]
        /\ Head(updates) = updates[1]
    BY <1>1, <2>1
  <2>3. Sent(updates, m) = Append(Tail(updates), m)
    BY <1>2 DEF Sent
  <2>4. /\ Sent(updates, m) \in Seq(Message(kind))
        /\ Len(Sent(updates, m)) = Len(updates) - 1 + 1
        /\ Sent(updates, m)[Len(updates) - 1 + 1] = m
        /\ \A i \in 1..(Len(updates) - 1) : Sent(updates, m)[i] = updates[i + 1]
    BY <1>1, <2>2, <2>3
  <2>5. UpdatesIn(<<Head(updates)>>) = U(1)
    <3>1. Len(<<Head(updates)>>) = 1 /\ <<Head(updates)>>[1] = updates[1]
      BY <2>2
    <3>2. UpdatesIn(<<Head(updates)>>) = updates[1].behind \cup updates[1].updated
      BY <3>1 DEF UpdatesIn
    <3>3. 1 \in 1..Len(updates)
      BY <1>1, <2>1
    <3> QED
      BY <3>2, <3>3 DEF U
  <2> QED
    BY <1>1, <1>2, <2>1, <2>2, <2>4, <2>5
<1>3. CASE ~Overwrites(updates)
  <2>1. Sent(updates, m) = Append(updates, m) /\ Len(updates) # Capacity
    BY <1>3 DEF Sent, Overwrites
  <2>2. /\ Sent(updates, m) \in Seq(Message(kind))
        /\ Len(Sent(updates, m)) = Len(updates) - 0 + 1
        /\ Sent(updates, m)[Len(updates) - 0 + 1] = m
        /\ \A i \in 1..(Len(updates) - 0) : Sent(updates, m)[i] = updates[i + 0]
    BY <1>1, <2>1
  <2> QED
    BY <1>1, <1>3, <2>1, <2>2
<1> QED
  BY <1>2, <1>3

LEMMA MessageFacts ==
    ASSUME NEW m \in Message(kind)
    PROVE  /\ m.updated \subseteq Everything(kind) /\ m.behind \subseteq Everything(kind)
           /\ m # Noise => m \in OwnReport(kind)
           /\ m = Noise => m.updated \cup m.behind = {}
BY NoiseFacts DEF Message, OwnReport

LEMMA Replaced ==
    ASSUME NEW S, NEW s \in Seq(S), NEW f \in 1..Len(s), NEW r \in S,
           NEW t, t = [s EXCEPT ![f] = r]
    PROVE  /\ t \in Seq(S) /\ Len(t) = Len(s)
           /\ \A i \in 1..Len(s) : i # f => t[i] = s[i]
           /\ t[f] = r
OBVIOUS

LEMMA SendFacts ==
    ASSUME TypeInv, kind' = kind, NEW m \in Message(kind), SendOnChannel(m)
    PROVE  /\ updates' \in Seq(Message(kind))
           /\ Len(updates) <= Capacity => Len(updates') <= Capacity
           /\ gap' \subseteq Everything(kind)
           /\ m = Noise => gap \subseteq gap'
           /\ m # Noise => gap' = {}
           /\ \E k \in {0, 1} : Shifted(k, m)
<1> DEFINE kept    == Sent(updates, m)
           carried == IF Overwrites(updates) THEN UpdatesIn(<<Head(updates)>>) ELSE {}
           own     == OwnReports(kept)
           first   == CHOOSE i \in own : \A j \in own : i <= j
           left    == IF m = Noise THEN gap ELSE {}
<1>1. IF own = {}
      THEN updates' = kept /\ gap' = left \cup carried
      ELSE updates' = [kept EXCEPT ![first].behind = @ \cup carried] /\ gap' = left
  BY DEF SendOnChannel
<1>2. /\ kept \in Seq(Message(kind)) /\ Len(kept) \in Nat
      /\ Len(updates) <= Capacity => Len(kept) <= Capacity
      /\ Len(updates) \in Nat
  BY KeptFacts, LengthFacts
<1>3. PICK k \in {0, 1} :
         /\ k = 1 <=> Overwrites(updates)
         /\ k <= Len(updates)
         /\ Len(kept) = Len(updates) - k + 1
         /\ kept[Len(updates) - k + 1] = m
         /\ \A i \in 1..(Len(updates) - k) : kept[i] = updates[i + k]
  BY KeptFacts
<1>4. /\ k = 1 => carried = U(1) /\ 1 \in 1..Len(updates)
      /\ k = 0 => carried = {}
  <2>1. Overwrites(updates) => Len(updates) >= 1 /\ UpdatesIn(<<Head(updates)>>) = U(1)
    BY KeptFacts
  <2> QED
    BY <1>2, <1>3, <2>1
<1>5. \A i \in 1..Len(updates) : U(i) = updates[i].updated \cup updates[i].behind
  BY DEF U
<1>6. carried \subseteq Everything(kind) /\ left \subseteq Everything(kind)
  <2>1. \A i \in 1..Len(updates) : U(i) \subseteq Everything(kind)
    BY <1>5, LengthFacts, MessageFacts
  <2>2. gap \subseteq Everything(kind)
    BY DEF TypeInv
  <2> QED
    BY <1>3, <1>4, <2>1, <2>2
<1>7. own \subseteq 1..Len(kept) /\ \A i \in 1..Len(kept) : i \in own <=> kept[i] # Noise
  BY DEF OwnReports
<1> HIDE DEF kept, carried, own, left
<1>8. CASE own = {}
  <2>1. updates' = kept /\ gap' = left \cup carried
    BY <1>1, <1>8
  <2>2. m = Noise /\ gap \subseteq gap'
    <3>1. Len(kept) \in 1..Len(kept) /\ kept[Len(kept)] = m
      BY <1>2, <1>3
    <3> QED
      BY <1>7, <1>8, <2>1, <3>1 DEF left
  <2>3. \A i \in 1..Len(updates') : U(i)' = kept[i].updated \cup kept[i].behind
    BY <2>1 DEF U
  <2>4. ASSUME NEW i \in 1..(Len(updates) - k)
        PROVE  U(i + k) \subseteq U(i)'
    <3>1. /\ i \in 1..Len(updates') /\ i + k \in 1..Len(updates)
          /\ kept[i] = updates[i + k]
      BY <1>2, <1>3, <2>1
    <3> QED
      BY <1>5, <2>3, <3>1
  <2>5. ASSUME NEW j \in Points', j # 0, k = 1
        PROVE  \E f \in 1..j : U(1) \subseteq U(f)'
    <3>1. OwnReports(updates') = {}
      BY <1>8, <2>1 DEF own
    <3>2. j = Len(kept) + 1 /\ j \in 1..j /\ j \notin 1..Len(updates')
      BY <1>2, <2>1, <2>5, <3>1 DEF Points, End
    <3>3. U(j)' = gap'
      BY <3>2 DEF U
    <3> QED
      BY <1>4, <2>1, <2>5, <3>2, <3>3
  <2>6. m.updated \cup m.behind = {}
    BY <2>2, NoiseFacts
  <2>7. Shifted(k, m)
    BY <1>2, <1>3, <2>1, <2>4, <2>5, <2>6 DEF Shifted
  <2> QED
    BY <1>2, <1>6, <2>1, <2>2, <2>7
<1>9. CASE own # {}
  <2>1. updates' = [kept EXCEPT ![first].behind = @ \cup carried] /\ gap' = left
    BY <1>1, <1>9
  <2>2. PICK f \in 1..Len(kept) : f = first /\ f \in own /\ \A j \in own : f <= j
    <3>1. own \in SUBSET Nat
      BY <1>2, <1>7
    <3>2. \E i \in own : \A j \in own : i <= j
      BY <1>9, <3>1, LeastNumber
    <3> QED
      BY <1>7, <3>2
  <2> HIDE DEF first
  <2>3. kept[f] # Noise
    BY <1>7, <2>2
  <2>4. /\ updates' \in Seq(Message(kind)) /\ Len(updates') = Len(kept)
        /\ \A i \in 1..Len(kept) : i # f => updates'[i] = kept[i]
        /\ updates'[f].values = kept[f].values /\ updates'[f].mode = kept[f].mode
        /\ updates'[f].updated = kept[f].updated
        /\ updates'[f].behind = kept[f].behind \cup carried
        /\ updates'[f] # Noise
    <3>1. PICK r : r = [kept[f] EXCEPT !.behind = @ \cup carried]
      OBVIOUS
    <3>2. updates' = [kept EXCEPT ![f] = r]
      BY <2>1, <2>2, <3>1
    <3>3. kept \in Seq(Message(kind)) /\ kept[f] \in OwnReport(kind)
      BY <1>2, <2>3, MessageFacts
    <3>4. /\ r \in Message(kind) /\ r # Noise
          /\ r.values = kept[f].values /\ r.mode = kept[f].mode
          /\ r.updated = kept[f].updated /\ r.behind = kept[f].behind \cup carried
      <4>1. /\ r \in OwnReport(kind)
            /\ r.values = kept[f].values /\ r.mode = kept[f].mode
            /\ r.updated = kept[f].updated /\ r.behind = kept[f].behind \cup carried
        BY <1>6, <3>1, <3>3 DEF OwnReport
      <4> QED
        BY <4>1, NoiseFacts DEF Message
    <3>5. /\ updates' \in Seq(Message(kind)) /\ Len(updates') = Len(kept)
          /\ \A i \in 1..Len(kept) : i # f => updates'[i] = kept[i]
          /\ updates'[f] = r
      <4>1. /\ kept \in Seq(Message(kind)) /\ r \in Message(kind)
            /\ f \in 1..Len(kept)
        BY <1>2, <3>4
      <4> QED
        BY <3>2, <4>1, Replaced
    <3> QED
      BY <3>4, <3>5
  <2>5. \A i \in 1..Len(kept) :
           /\ updates'[i].values = kept[i].values /\ updates'[i].mode = kept[i].mode
           /\ updates'[i] = Noise <=> kept[i] = Noise
           /\ kept[i].updated \cup kept[i].behind \subseteq U(i)'
    BY <2>3, <2>4 DEF U
  <2>6. carried \subseteq U(f)'
    BY <2>4 DEF U
  <2>7. \A i \in 1..(Len(updates) - k) :
           /\ updates'[i].values = updates[i + k].values
           /\ updates'[i].mode = updates[i + k].mode
           /\ updates'[i] = Noise <=> updates[i + k] = Noise
           /\ U(i + k) \subseteq U(i)'
    <3> SUFFICES ASSUME NEW i \in 1..(Len(updates) - k)
                 PROVE  /\ updates'[i].values = updates[i + k].values
                        /\ updates'[i].mode = updates[i + k].mode
                        /\ updates'[i] = Noise <=> updates[i + k] = Noise
                        /\ U(i + k) \subseteq U(i)'
      OBVIOUS
    <3>1. i \in 1..Len(kept) /\ i + k \in 1..Len(updates) /\ kept[i] = updates[i + k]
      BY <1>2, <1>3
    <3>2. U(i + k) = kept[i].updated \cup kept[i].behind
      BY <1>5, <3>1
    <3> QED
      BY <2>5, <3>1, <3>2
  <2>8. ASSUME NEW j \in Points', j # 0, k = 1
        PROVE  \E e \in 1..j : U(1) \subseteq U(e)'
    <3>1. f <= j /\ j \in Nat
      <4>1. CASE j = Len(updates') + 1
        BY <1>2, <2>4, <4>1
      <4>2. CASE j \in OwnReports(updates')
        <5>1. j \in 1..Len(kept) /\ updates'[j] # Noise
          BY <2>4, <4>2 DEF OwnReports
        <5>2. j \in own
          BY <1>7, <2>5, <5>1
        <5> QED
          BY <2>2, <5>1, <5>2
      <4> QED
        BY <2>8, <4>1, <4>2 DEF Points, End
    <3>2. f \in 1..j
      BY <2>2, <3>1
    <3> QED
      BY <1>4, <2>6, <2>8, <3>2
  <2>9. Shifted(k, m)
    <3>1. Len(kept) \in 1..Len(kept) /\ kept[Len(kept)] = m
      BY <1>2, <1>3
    <3>2. /\ updates'[Len(updates')].values = m.values
          /\ updates'[Len(updates')].mode = m.mode
          /\ updates'[Len(updates')] = Noise <=> m = Noise
          /\ \A e : e = Len(updates') => m.updated \cup m.behind \subseteq U(e)'
      BY <2>4, <2>5, <3>1
    <3> QED
      BY <1>2, <1>3, <2>4, <2>7, <2>8, <3>2 DEF Shifted
  <2>10. m = Noise => gap \subseteq gap'
    BY <2>1 DEF left
  <2>11. m # Noise => gap' = {}
    BY <2>1 DEF left
  <2> QED
    BY <1>2, <1>6, <2>1, <2>4, <2>9, <2>10, <2>11
<1> QED
  BY <1>8, <1>9

\* A report is lost, and its updates are noted in gap, or it is sent.
LEMMA ReportFacts ==
    ASSUME TypeInv, kind' = kind,
           device' \in [Properties(kind) -> Value], mode' \in Mode,
           NEW updated \in (SUBSET Everything(kind)) \ {{}}, Report(updated)
    PROVE  /\ updates' \in Seq(Message(kind))
           /\ kind \in Esp32 => Len(updates') <= Capacity
           /\ gap' \subseteq Everything(kind)
           /\ \/ updates' = updates /\ gap' = gap \cup updated
              \/ \E k \in {0, 1} : \E m \in OwnReport(kind) :
                    /\ m.values = device' /\ m.mode = mode'
                    /\ m.updated = updated /\ m.behind = gap
                    /\ Shifted(k, m)
<1>1. PICK m : m = [values |-> device', mode |-> mode', updated |-> updated, behind |-> gap]
  OBVIOUS
<1>2. /\ m \in OwnReport(kind)
      /\ m.values = device' /\ m.mode = mode' /\ m.updated = updated /\ m.behind = gap
  BY <1>1 DEF OwnReport, TypeInv
<1>3. m \in Message(kind) /\ m # Noise
  BY <1>2, NoiseFacts DEF Message
<1>4. /\ updates \in Seq(Message(kind)) /\ Len(updates) \in Nat
      /\ kind \in Esp32 => Len(updates) <= Capacity
      /\ gap \subseteq Everything(kind)
  BY DEF TypeInv
<1>5. CASE ~linked
  BY <1>4, <1>5 DEF Report
<1>6. CASE linked /\ kind \notin Esp32
  <2>1. updates' = Append(updates, m) /\ gap' = {}
    BY <1>1, <1>6 DEF Report
  <2>2. /\ updates' \in Seq(Message(kind)) /\ Len(updates') = Len(updates) + 1
        /\ updates'[Len(updates) + 1] = m
        /\ \A i \in 1..Len(updates) : updates'[i] = updates[i]
    BY <1>3, <1>4, <2>1
  <2>3. Shifted(0, m)
    <3>1. \A i \in 1..Len(updates) : U(i) \subseteq U(i)'
      BY <1>4, <2>2 DEF U
    <3>2. \A e : e = Len(updates') => m.updated \cup m.behind \subseteq U(e)'
      BY <1>4, <2>2 DEF U
    <3>3. Len(updates) - 0 = Len(updates) /\ \A i \in Nat : i + 0 = i
      BY <1>4
    <3> QED
      BY <1>3, <1>4, <2>2, <3>1, <3>2, <3>3 DEF Shifted
  <2> QED
    BY <1>2, <1>6, <2>1, <2>2, <2>3
<1>7. CASE linked /\ kind \in Esp32
  <2>1. PICK beacon \in SUBSET {Beacon} :
           IF Forwarded(updated \cup beacon)
           THEN SendOnChannel(m)
           ELSE UNCHANGED <<updates, gap>>
    BY <1>1, <1>7 DEF Report
  <2>2. Forwarded(updated \cup beacon)
    BY PropertyFacts DEF Forwarded
  <2>3. SendOnChannel(m)
    BY <2>1, <2>2
  <2> QED
    BY <1>2, <1>3, <1>4, <1>7, <2>3, SendFacts
<1> QED
  BY <1>5, <1>6, <1>7 DEF TypeInv

-----------------------------------------------------------------------------
(***************************************************************************)
(* The steps that keep the types                                           *)
(***************************************************************************)

LEMMA OrderTyped ==
    /\ Order(Nothing, None) \in OrderSet(kind)
    /\ Order(Nothing, Calculated) \in OrderSet(kind)
BY CalculatedMode DEF OrderSet, Calculated

\* What a source is connected to is a property of the actuator, but for a light
\* on a channel that no LED has.
LEMMA SocketFacts ==
    ASSUME NEW s, NEW k, NEW c \in Sockets(s, k)
    PROVE  /\ RangeOf(Mirror(s, k, c)) \subseteq Properties(k)
           /\ \A f \in DOMAIN Mirror(s, k, c) : Mirror(s, k, c)[f] \in Properties(k)
           /\ DOMAIN Mirror(s, k, c) = {} <=> RedLight(s, k, c)
           /\ c \in Channel \cup {NoLed}
<1>1. CASE c \in Channel /\ DOMAIN Mirror(s, k, c) # {}
                        /\ RangeOf(Mirror(s, k, c)) \subseteq Properties(k)
  <2>1. RedLight(s, k, c) => DOMAIN Mirror(s, k, c) = {}
    BY DEF RedLight, Mirror, Switches, Shutters, Detectors, Openings
  <2> QED
    BY <1>1, <2>1 DEF RangeOf
<1>2. CASE c = NoLed /\ s = "domo_light_dimmable" /\ k = "shelly_rgbw"
  <2>1. RedLight(s, k, c)
    BY <1>2 DEF RedLight, NoLed
  <2>2. DOMAIN Mirror(s, k, c) = {}
    BY <2>1 DEF RedLight, Mirror, Switches, Shutters, Detectors, Openings
  <2> QED
    BY <1>2, <2>1, <2>2 DEF RangeOf
<1> QED
  BY <1>1, <1>2 DEF Sockets

\* A command that can be read asks each field of the source for a value.
LEMMA AskedTyped ==
    ASSUME NEW s \in Source, NEW wish \in Wish,
           DOMAIN AsRead(CommandFor(s), wish) = Fields(s)
    PROVE  AsRead(CommandFor(s), wish) \in [Fields(s) -> Value]
<1>1. CASE AsRead(CommandFor(s), wish) = wish
  BY <1>1, WishAssumption
<1>2. CASE AsRead(CommandFor(s), wish) = [f \in {"status"} |-> 0]
  BY <1>2 DEF Value
<1> QED
  BY <1>1, <1>2 DEF AsRead

LEMMA CommandTyped ==
    ASSUME TypeInv, NEW s \in Driven, NEW asked \in [Fields(s) -> Value]
    PROVE  Order(Parsed(CommandFor(s), kind, conn[s], asked), None) \in OrderSet(kind)
<1>1. CommandFor(s) # "none" /\ conn[s] \in Sockets(s, kind)
  BY DEF Driven, TypeInv, Connected
<1>2. PICK c : c = conn[s]
  OBVIOUS
<1>3. PICK P : P = Parsed(CommandFor(s), kind, c, asked)
  OBVIOUS
<1>4. CASE RedLight(s, kind, c)
  <2>1. P = [p \in {Led("r")} |-> asked["status"]]
    BY <1>1, <1>3, <1>4, ParserMatchesMirror
  <2>2. Fields(s) = {"status"} /\ Led("r") \in Properties(kind)
    BY <1>4 DEF RedLight, Fields, Shutters, Properties, Colours
  <2>3. {Led("r")} \in (SUBSET Properties(kind)) \ {{}} /\ P \in [{Led("r")} -> Value]
    BY <2>1, <2>2
  <2> QED
    BY <1>2, <1>3, <2>3 DEF OrderSet
<1>5. CASE ~RedLight(s, kind, c)
  <2>1. /\ DOMAIN P = RangeOf(Mirror(s, kind, c))
        /\ \A p \in DOMAIN P : P[p] \in Value
    BY <1>1, <1>3, <1>5, ParserMatchesMirror
  <2>2. RangeOf(Mirror(s, kind, c)) \in (SUBSET Properties(kind)) \ {{}}
    <3>1. /\ RangeOf(Mirror(s, kind, c)) \subseteq Properties(kind)
          /\ DOMAIN Mirror(s, kind, c) # {}
      BY <1>1, <1>2, <1>5, SocketFacts
    <3> QED
      BY <3>1 DEF RangeOf
  <2>3. P = [q \in DOMAIN P |-> P[q]]
    BY <1>1, <1>3 DEF Parsed, TurnCommand, ShutterCommand, DimCommand, RgbwCommand, CommandFor
  <2>4. P \in [DOMAIN P -> Value]
    BY <2>1, <2>3
  <2> QED
    BY <1>2, <1>3, <2>1, <2>2, <2>4 DEF OrderSet
<1> QED
  BY <1>4, <1>5

LEMMA RawTyped ==
    ASSUME NEW o \in RawOrders
    PROVE  /\ o \in OrderSet(kind)
           /\ o.mode # None => DOMAIN o.sets = {}
<1>1. CASE \E m \in Mode : o = Order(Nothing, m)
  BY <1>1 DEF OrderSet, Order, Nothing
<1>2. ASSUME NEW q \in Properties(kind), NEW x \in Value, o = Raw(q, x)
      PROVE  o \in OrderSet(kind) /\ o.mode = None
  <2>1. o = Order([y \in {q} |-> x], None)
    BY <1>2 DEF Raw, Parsed
  <2>2. {q} \in (SUBSET Properties(kind)) \ {{}} /\ [y \in {q} |-> x] \in [{q} -> Value]
    OBVIOUS
  <2> QED
    BY <2>1, <2>2 DEF OrderSet, Order
<1> QED
  BY <1>1, <1>2 DEF RawOrders

LEMMA CopiedTyped ==
    ASSUME TypeInv, NEW s \in Source, conn[s] # None, NEW m \in OwnReport(kind)
    PROVE  Copied(s, m) \in [Fields(s) -> Value \cup {None}]
<1>1. conn[s] \in Sockets(s, kind)
  BY DEF TypeInv, Connected
<1>2. \A f \in DOMAIN MirrorOf(s) : MirrorOf(s)[f] \in Properties(kind)
  BY <1>1, SocketFacts DEF MirrorOf
<1>3. m.values \in [Properties(kind) -> Value]
  BY DEF OwnReport
<1>4. source[s] \in [Fields(s) -> Value \cup {None}]
  BY DEF TypeInv
<1> QED
  BY <1>2, <1>3, <1>4 DEF Copied

LEMMA HandleTyped ==
    ASSUME TypeInv, kind' = kind, NEW m \in OwnReport(kind),
           NEW written \in SUBSET Takers(m), Handle(m, written)
    PROVE  /\ topic' \in [values : [Properties(kind) -> Value], mode : Mode]
           /\ \A s \in Source : source'[s] \in [Fields(s) -> Value \cup {None}]
           /\ missed' \subseteq Everything(kind)
           /\ current' \subseteq Source /\ skipped' \subseteq current'
<1>1. topic' \in [values : [Properties(kind) -> Value], mode : Mode]
  BY DEF Handle, TopicOf, OwnReport
<1>2. ASSUME NEW s \in Source
      PROVE  source'[s] \in [Fields(s) -> Value \cup {None}]
  <2>1. s \in written => Copied(s, m) \in [Fields(s) -> Value \cup {None}]
    BY CopiedTyped DEF Takers
  <2> QED
    BY <2>1 DEF Handle, TypeInv
<1>3. missed' \subseteq Everything(kind)
  BY DEF Handle, TypeInv, OwnReport
<1>4. current' \subseteq Source /\ skipped' \subseteq current'
  BY DEF Handle, TypeInv, Takers
<1> QED
  BY <1>1, <1>2, <1>3, <1>4

LEMMA UpdatesInTyped ==
    ASSUME NEW ms \in Seq(Message(kind))
    PROVE  UpdatesIn(ms) \subseteq Everything(kind)
BY MessageFacts DEF UpdatesIn

LEMMA TakenTyped ==
    ASSUME TypeInv, updates # <<>>
    PROVE  /\ Head(updates) = updates[1] /\ Head(updates) \in Message(kind)
           /\ Tail(updates) \in Seq(Message(kind))
           /\ Len(updates) \in Nat \ {0} /\ Len(Tail(updates)) = Len(updates) - 1
           /\ \A i \in 1..(Len(updates) - 1) : Tail(updates)[i] = updates[i + 1]
BY DEF TypeInv

LEMMA StreamTyped ==
    ASSUME TypeInv, StreamDropped
    PROVE  /\ updates' \in Seq(Message(kind))
           /\ kind \in Esp32 => Len(updates') <= Capacity
           /\ gap' \subseteq Everything(kind)
<1>1. updates \in Seq(Message(kind)) /\ gap \subseteq Everything(kind) /\ Capacity \in Nat
  BY BroadcastAssumption DEF TypeInv
<1>2. UpdatesIn(updates) \subseteq Everything(kind)
  BY <1>1, UpdatesInTyped
<1>3. <<>> \in Seq(Message(kind)) /\ Len(<<>>) = 0
  OBVIOUS
<1> QED
  BY <1>1, <1>2, <1>3 DEF StreamDropped, TypeInv

LEMMA TypesInitially == Init => TypeInv
<1> SUFFICES ASSUME Init PROVE TypeInv
  OBVIOUS
<1>1. /\ kind \in Kind /\ linked = FALSE /\ orders = <<>> /\ updates = <<>>
      /\ gap = Everything(kind) /\ missed = {} /\ current = {} /\ skipped = {}
      /\ conn \in [Source -> Channel \cup {NoLed, None}]
      /\ \A s \in Source : conn[s] \in Sockets(s, kind) \cup {None}
  BY DEF Init
<1>2. mode \in Mode
  <2>1. 0 \in Mode /\ CalculateMode(kind, {}) \in Mode
    BY CalculatedMode DEF Mode
  <2> QED
    BY <2>1 DEF Init
<1>3. /\ device \in [Properties(kind) -> Value]
      /\ topic \in [values : [Properties(kind) -> Value], mode : Mode]
  BY <1>2 DEF Init, Value
<1>4. \A s \in Source : source[s] \in [Fields(s) -> Value \cup {None}]
  BY DEF Init
<1>5. /\ <<>> \in Seq(OrderSet(kind)) /\ <<>> \in Seq(Message(kind)) /\ Len(<<>>) = 0
      /\ MaxOrders \in Nat /\ Capacity \in Nat
  BY OrdersAssumption, BroadcastAssumption
<1>6. /\ orders \in Seq(OrderSet(kind)) /\ Len(orders) <= MaxOrders
      /\ updates \in Seq(Message(kind)) /\ Len(updates) <= Capacity
  BY <1>1, <1>5
<1>7. linked \in BOOLEAN
  BY <1>1
<1>8. Connected(kind, conn)
  BY <1>1 DEF Connected
<1> QED
  BY <1>1, <1>2, <1>3, <1>4, <1>6, <1>7, <1>8 DEF TypeInv

LEMMA OrderedTyped ==
    ASSUME TypeInv, NEW o \in OrderSet(kind), Ordered(o)
    PROVE  orders' \in Seq(OrderSet(kind)) /\ Len(orders') <= MaxOrders
<1>1. /\ orders \in Seq(OrderSet(kind)) /\ Len(orders) <= MaxOrders /\ MaxOrders \in Nat
      /\ orders' = IF Arrives THEN Append(orders, o) ELSE orders
  BY OrdersAssumption DEF TypeInv, Ordered
<1> QED
  BY <1>1 DEF Arrives

LEMMA StoppingTyped ==
    ASSUME TypeInv, NEW ms \in Seq(Message(kind)), BridgeStops(ms)
    PROVE  /\ updates' \in Seq(Message(kind)) /\ (kind \in Esp32 => Len(updates') <= Capacity)
           /\ gap' \subseteq Everything(kind) /\ linked' \in BOOLEAN
<1>1. updates' = <<>> /\ gap' = gap \cup UpdatesIn(ms) /\ linked' = FALSE
  BY DEF BridgeStops
<1>2. <<>> \in Seq(Message(kind)) /\ Len(<<>>) = 0 /\ Capacity \in Nat
  BY BroadcastAssumption
<1>3. gap' \subseteq Everything(kind)
  BY <1>1, UpdatesInTyped DEF TypeInv
<1>4. updates' \in Seq(Message(kind)) /\ Len(updates') <= Capacity
  BY <1>1, <1>2
<1>5. linked' \in BOOLEAN
  BY <1>1
<1> QED
  BY <1>3, <1>4, <1>5

LEMMA TypesStep ==
    ASSUME TypeInv, [Next]_vars
    PROVE  TypeInv'
<1>0. /\ kind \in Kind /\ linked \in BOOLEAN /\ MaxOrders \in Nat \ {0}
      /\ orders \in Seq(OrderSet(kind)) /\ Len(orders) <= MaxOrders
      /\ Order(Nothing, None) \in OrderSet(kind)
      /\ Order(Nothing, Calculated) \in OrderSet(kind)
  BY OrdersAssumption, OrderTyped DEF TypeInv
<1>1. ASSUME NEW o \in OrderSet(kind), Ordered(o),
             UNCHANGED <<deviceVars, linked, updates, dhtVars, conn, gap>>
      PROVE  TypeInv'
  BY <1>1, OrderedTyped DEF TypeInv, deviceVars, dhtVars
<1>12. ASSUME NEW s \in Source, NEW wish \in Wish, UserCommand(s, wish)
       PROVE  TypeInv'
  <2>1. PICK asked : asked = AsRead(CommandFor(s), wish)
    OBVIOUS
  <2>2. asked \in [Fields(s) -> Value] /\ s \in Driven
    BY <1>12, <2>1, AskedTyped DEF UserCommand
  <2>3. PICK o : o = Order(Parsed(CommandFor(s), kind, conn[s], asked), None)
    OBVIOUS
  <2>4. o \in OrderSet(kind)
    BY <2>2, <2>3, CommandTyped
  <2>5. Ordered(o) /\ UNCHANGED <<deviceVars, linked, updates, dhtVars, conn, gap>>
    BY <1>12, <2>1, <2>3 DEF UserCommand
  <2> QED
    BY <1>1, <2>4, <2>5
<1>13. ASSUME NEW o \in RawOrders, RawCommand(o)
       PROVE  TypeInv'
  BY <1>1, <1>13, RawTyped DEF RawCommand
<1>14. ASSUME NEW s \in Source, NEW wish \in Wish, UnreadableCommand(s, wish)
       PROVE  TypeInv'
  <2>1. BridgeStops(updates) /\ UNCHANGED <<deviceVars, orders, dhtVars, conn>>
    BY <1>14 DEF UnreadableCommand
  <2>2. updates \in Seq(Message(kind))
    BY DEF TypeInv
  <2> QED
    BY <2>1, <2>2, StoppingTyped DEF TypeInv, deviceVars, dhtVars
<1>2. ASSUME NEW s \in Source, NEW c \in Sockets(s, kind) \cup {None}, Replumb(s, c)
      PROVE  TypeInv'
  <2>1. /\ conn' = [conn EXCEPT ![s] = c]
        /\ current' = current \ {s} /\ skipped' = skipped \ {s}
        /\ UNCHANGED <<deviceVars, linked, orders, updates, topic, source, missed, gap>>
    BY <1>2 DEF Replumb
  <2>2. c \in Channel \cup {NoLed, None}
    BY SocketFacts
  <2>3. Connected(kind, conn')
    BY <2>1, <2>2 DEF TypeInv, Connected
  <2> QED
    BY <2>1, <2>3 DEF TypeInv, deviceVars
<1>3. ASSUME NEW p \in Properties(kind), LocalChange(p)
      PROVE  TypeInv'
  <2>1. /\ device' = [device EXCEPT ![p] = 1 - @] /\ mode' = mode /\ Report({p})
        /\ UNCHANGED <<kind, linked, orders, dhtVars, conn>>
    BY <1>3 DEF LocalChange
  <2>2. device' \in [Properties(kind) -> Value] /\ mode' \in Mode
    BY <2>1 DEF TypeInv, Value
  <2>3. {p} \in (SUBSET Everything(kind)) \ {{}}
    BY DEF Everything
  <2>4. /\ updates' \in Seq(Message(kind)) /\ (kind \in Esp32 => Len(updates') <= Capacity)
        /\ gap' \subseteq Everything(kind)
    BY <2>1, <2>2, <2>3, ReportFacts
  <2> QED
    BY <2>1, <2>2, <2>4 DEF TypeInv, dhtVars
<1>4. CASE OtherDeviceReports
  <2>1. /\ SendOnChannel(Noise) /\ kind \in Esp32
        /\ UNCHANGED <<deviceVars, linked, orders, dhtVars, conn>>
    BY <1>4 DEF OtherDeviceReports
  <2>2. Noise \in Message(kind) /\ kind' = kind /\ Len(updates) <= Capacity
    BY <2>1 DEF Message, deviceVars, TypeInv
  <2>3. /\ updates' \in Seq(Message(kind)) /\ Len(updates') <= Capacity
        /\ gap' \subseteq Everything(kind)
    BY <2>1, <2>2, SendFacts
  <2> QED
    BY <2>1, <2>3 DEF TypeInv, deviceVars, dhtVars
<1>5. CASE HandleUpdate
  <2>1. /\ updates # <<>> /\ updates' = Tail(updates)
        /\ UNCHANGED <<deviceVars, linked, orders, conn, gap>>
    BY <1>5 DEF HandleUpdate
  <2>2. /\ updates' \in Seq(Message(kind)) /\ (kind \in Esp32 => Len(updates') <= Capacity)
    BY <2>1, TakenTyped, BroadcastAssumption DEF TypeInv
  <2>3. /\ topic' \in [values : [Properties(kind) -> Value], mode : Mode]
        /\ \A s \in Source : source'[s] \in [Fields(s) -> Value \cup {None}]
        /\ missed' \subseteq Everything(kind)
        /\ current' \subseteq Source /\ skipped' \subseteq current'
    <3>1. CASE Head(updates) = Noise
      BY <1>5, <3>1 DEF HandleUpdate, dhtVars, TypeInv
    <3>2. CASE Head(updates) # Noise
      <4>1. Head(updates) \in OwnReport(kind)
        BY <2>1, <3>2, TakenTyped, MessageFacts
      <4>2. Handle(Head(updates), Takers(Head(updates)))
        BY <1>5, <3>2 DEF HandleUpdate
      <4>3. kind' = kind
        BY <2>1 DEF deviceVars
      <4> QED
        BY <4>1, <4>2, <4>3, HandleTyped
    <3> QED
      BY <3>1, <3>2
  <2> QED
    BY <2>1, <2>2, <2>3 DEF TypeInv, deviceVars
<1>6. CASE Execute
  <2>1. /\ Report(UpdatedBy(Head(orders)))
        /\ UNCHANGED <<kind, linked, dhtVars, conn>>
    BY <1>6 DEF Execute
  <2>2. /\ Head(orders) \in OrderSet(kind)
        /\ orders' \in Seq(OrderSet(kind)) /\ Len(orders') <= MaxOrders
        /\ device' \in [Properties(kind) -> Value] /\ mode' \in Mode
    BY <1>6, ExecuteFacts
  <2>3. UpdatedBy(Head(orders)) \in (SUBSET Everything(kind)) \ {{}}
    BY <2>2, UpdatedFacts
  <2>4. /\ updates' \in Seq(Message(kind)) /\ (kind \in Esp32 => Len(updates') <= Capacity)
        /\ gap' \subseteq Everything(kind)
    BY <2>1, <2>2, <2>3, ReportFacts
  <2> QED
    BY <2>1, <2>2, <2>4 DEF TypeInv, dhtVars
<1>7. CASE Crash
  <2>1. /\ updates # <<>> /\ Head(updates) # Noise
        /\ BridgeStops(Tail(updates))
        /\ UNCHANGED <<deviceVars, orders, conn>>
    BY <1>7 DEF Crash
  <2>2. PICK written \in SUBSET Takers(Head(updates)) : Handle(Head(updates), written)
    BY <1>7 DEF Crash
  <2>3. Head(updates) \in OwnReport(kind) /\ kind' = kind
    BY <2>1, TakenTyped, MessageFacts DEF deviceVars
  <2>4. /\ topic' \in [values : [Properties(kind) -> Value], mode : Mode]
        /\ \A s \in Source : source'[s] \in [Fields(s) -> Value \cup {None}]
        /\ missed' \subseteq Everything(kind)
        /\ current' \subseteq Source /\ skipped' \subseteq current'
    BY <2>2, <2>3, HandleTyped
  <2>5. /\ updates' \in Seq(Message(kind)) /\ (kind \in Esp32 => Len(updates') <= Capacity)
        /\ gap' \subseteq Everything(kind) /\ linked' \in BOOLEAN
    BY <2>1, TakenTyped, StoppingTyped
  <2> QED
    BY <2>1, <2>4, <2>5 DEF TypeInv, deviceVars
<1>8. CASE LinkFails
  BY <1>8 DEF LinkFails, TypeInv, deviceVars, dhtVars
<1>9. CASE Reconnect
  <2>1. /\ orders' = <<Order(Nothing, None)>> /\ linked' = TRUE /\ StreamDropped
        /\ UNCHANGED <<deviceVars, dhtVars, conn>>
    BY <1>9 DEF Reconnect, FirstOrders
  <2>2. orders' \in Seq(OrderSet(kind)) /\ Len(orders') <= MaxOrders
    BY <1>0, <2>1
  <2> QED
    BY <2>1, <2>2, StreamTyped DEF TypeInv, deviceVars, dhtVars
<1>10. CASE ModeCheck
  <2>1. /\ Ordered(Order(Nothing, Calculated))
        /\ linked' = (kind \in Esp32) /\ StreamDropped
        /\ UNCHANGED <<deviceVars, dhtVars, conn>>
    BY <1>10 DEF ModeCheck
  <2>2. orders' \in Seq(OrderSet(kind)) /\ Len(orders') <= MaxOrders
    BY <1>0, <2>1, OrderedTyped
  <2>3. linked' \in BOOLEAN
    BY <2>1
  <2> QED
    BY <2>1, <2>2, <2>3, StreamTyped DEF TypeInv, deviceVars, dhtVars
<1>11. CASE UNCHANGED vars
  BY <1>11 DEF vars, TypeInv, deviceVars, dhtVars
<1> QED
  BY <1>1, <1>2, <1>3, <1>4, <1>5, <1>6, <1>7, <1>8, <1>9, <1>10, <1>11,
     <1>12, <1>13, <1>14 DEF Next

\* The types of the state, for any kind of actuator and any commands; orders and
\* an ESP32's unread reports stay within their bounds.
THEOREM DeviceTypes == Spec => []TypeOK
<1>1. TypeInv => TypeOK
  BY DEF TypeInv, TypeOK, Connected
<1>2. TypeInv /\ [Next]_vars => TypeInv'
  BY TypesStep
<1> QED
  BY <1>1, <1>2, TypesInitially, PTL DEF Spec

-----------------------------------------------------------------------------
(***************************************************************************)
(* The steps that keep the chain of reports                                *)
(***************************************************************************)

LEMMA ExplainedInitially == Init => Explained
<1> SUFFICES ASSUME Init PROVE Explained
  OBVIOUS
<1>1. updates = <<>> /\ Len(updates) = 0 /\ gap = Everything(kind)
  BY DEF Init
<1>2. Points = {0, 1} /\ U(1) = Everything(kind)
  BY <1>1 DEF Points, End, OwnReports, U
<1>3. 1 \in (0 + 1)..1
  OBVIOUS
<1> QED
  BY <1>2, <1>3 DEF Explained

\* Nothing is left between the topic and the device but what gap names.
LEMMA ExplainedWhenEmpty ==
    ASSUME TypeInv, updates' = <<>>,
           \A p \in Everything(kind) : At(0, p)' # At(1, p)' => p \in gap',
           kind' = kind
    PROVE  Explained'
<1>1. Len(updates') = 0
  OBVIOUS
<1>2. Points' = {0, 1} /\ U(1)' = gap'
  BY <1>1 DEF Points, End, OwnReports, U
<1>3. 1 \in (0 + 1)..1
  OBVIOUS
<1> QED
  BY <1>2, <1>3 DEF Explained

LEMMA ExplainedAfterReport ==
    ASSUME TypeInv, TypeInv', Explained, UNCHANGED <<kind, topic>>,
           NEW updated \in (SUBSET Everything(kind)) \ {{}}, Report(updated),
           \A p \in Properties(kind) : p \notin updated => device'[p] = device[p],
           ModeProperty \notin updated => mode' = mode
    PROVE  Explained'
<1>1. device' \in [Properties(kind) -> Value] /\ mode' \in Mode
  BY DEF TypeInv
<1>2. CASE updates' = updates /\ gap' = gap \cup updated
  <2>1. /\ Len(updates) \in Nat /\ Points' = Points
        /\ \A i \in Points : i \in 0..End
    BY <1>2, LengthFacts DEF Points, End, OwnReports
  <2>2. \A h : U(h) \subseteq U(h)'
    BY <1>2 DEF U
  <2>3. \A i \in Points : i # End => \A p : At(i, p)' = At(i, p)
    BY <1>2, <2>1 DEF At, Points, OwnReports, End
  <2>4. \A p \in Everything(kind) : \A e : e = End /\ p \notin updated => At(e, p)' = At(e, p)
    BY <1>2, <2>1 DEF At, End, Everything
  <2>5. \A e : e = End => updated \subseteq U(e)'
    BY <1>2, <2>1 DEF U, End
  <2>6. SUFFICES ASSUME NEW i \in Points, NEW j \in Points, i < j,
                        NEW p \in Everything(kind), At(i, p)' # At(j, p)'
                 PROVE  \E h \in (i + 1)..j : p \in U(h)'
    BY <2>1 DEF Explained
  <2>7. i # End /\ i \in Nat /\ j \in Nat
    BY <2>1, <2>6 DEF End
  <2>8. CASE j = End /\ p \in updated
    <3>1. j \in (i + 1)..j
      BY <2>6, <2>7
    <3> QED
      BY <2>5, <2>8, <3>1
  <2>9. CASE ~(j = End /\ p \in updated)
    <3>1. At(i, p) # At(j, p)
      BY <2>3, <2>4, <2>6, <2>7, <2>9
    <3> QED
      BY <2>2, <2>6, <3>1 DEF Explained
  <2> QED
    BY <2>8, <2>9
<1>3. CASE \E k \in {0, 1} : \E m \in OwnReport(kind) :
              /\ m.values = device' /\ m.mode = mode'
              /\ m.updated = updated /\ m.behind = gap
              /\ Shifted(k, m)
  <2>1. PICK k \in {0, 1}, m \in OwnReport(kind) :
              /\ m.values = device' /\ m.mode = mode'
              /\ m.updated = updated /\ m.behind = gap
              /\ Shifted(k, m)
    BY <1>3
  <2>2. Newest(m)
    BY <2>1 DEF Newest
  <2> QED
    BY <2>1, <2>2, ExplainedAfterSending
<1> QED
  BY <1>1, <1>2, <1>3, ReportFacts

LEMMA ExplainedAfterTaking ==
    ASSUME TypeInv, Explained, updates # <<>>, updates' = Tail(updates),
           UNCHANGED <<deviceVars, gap>>,
           IF updates[1] = Noise THEN topic' = topic ELSE topic' = TopicOf(updates[1])
    PROVE  Explained'
<1>1. PICK n \in Nat : n = Len(updates) - 1
  <2>1. Len(updates) \in Nat \ {0}
    BY TakenTyped
  <2>2. Len(updates) - 1 \in Nat
    BY <2>1
  <2> QED
    BY <2>2
<1>2. /\ Len(updates) = n + 1 /\ Len(updates') = n
      /\ End = n + 2 /\ End' = n + 1
      /\ \A i \in 1..n : updates'[i] = updates[i + 1]
  <2>1. /\ Len(updates) \in Nat \ {0} /\ Len(updates') = Len(updates) - 1
        /\ \A i \in 1..(Len(updates) - 1) : updates'[i] = updates[i + 1]
    BY TakenTyped
  <2> QED
    BY <1>1, <2>1 DEF End
<1>3. UNCHANGED <<kind, device, mode, gap>>
  BY DEF deviceVars
<1>4. ASSUME NEW h \in 1..(n + 1)
      PROVE  U(h)' = U(h + 1)
  <2>1. CASE h = n + 1
    <3>1. h \notin 1..Len(updates') /\ h + 1 \notin 1..Len(updates)
      BY <1>1, <1>2, <2>1
    <3> QED
      BY <1>3, <3>1 DEF U
  <2>2. CASE h # n + 1
    <3>1. h \in 1..Len(updates') /\ h + 1 \in 1..Len(updates) /\ updates'[h] = updates[h + 1]
      BY <1>1, <1>2, <2>2
    <3> QED
      BY <3>1 DEF U
  <2> QED
    BY <2>1, <2>2
<1>5. ASSUME NEW i \in Points', i # 0
      PROVE  i \in 1..(n + 1) /\ i + 1 \in Points /\ \A p : At(i, p)' = At(i + 1, p)
  <2>1. CASE i = n + 1
    BY <1>1, <1>2, <1>3, <2>1 DEF Points, At
  <2>2. CASE i \in OwnReports(updates')
    <3>1. /\ i \in 1..n /\ updates'[i] # Noise /\ updates[i + 1] # Noise
          /\ i + 1 \in 1..Len(updates)
      BY <1>1, <1>2, <2>2 DEF OwnReports
    <3>2. i + 1 \in Points
      BY <3>1 DEF Points, OwnReports
    <3>3. \A p : At(i, p)' = At(i + 1, p)
      BY <1>1, <1>2, <3>1 DEF At
    <3> QED
      BY <1>1, <3>1, <3>2, <3>3
  <2> QED
    BY <1>2, <1>5, <2>1, <2>2 DEF Points
<1>6. PICK z \in {0, 1} : /\ z \in Points /\ \A p : At(0, p)' = At(z, p)
                          /\ z = 0 => U(1) = {}
  <2>1. 1 \in 1..Len(updates)
    BY <1>1, <1>2
  <2>2. CASE updates[1] = Noise
    <3>1. U(1) = {}
      BY <2>1, <2>2, NoiseFacts DEF U
    <3>2. \A p : At(0, p)' = At(0, p)
      BY <2>2 DEF At
    <3> QED
      BY <3>1, <3>2 DEF Points
  <2>3. CASE updates[1] # Noise
    <3>1. 1 \in Points
      BY <2>1, <2>3 DEF Points, OwnReports
    <3>2. \A p : At(0, p)' = At(1, p)
      BY <2>1, <2>3 DEF At, TopicOf
    <3> QED
      BY <3>1, <3>2
  <2> QED
    BY <2>2, <2>3
<1>7. SUFFICES ASSUME NEW i \in Points', NEW j \in Points', i < j,
                      NEW p \in Everything(kind), At(i, p)' # At(j, p)'
               PROVE  \E h \in (i + 1)..j : p \in U(h)'
  BY <1>3 DEF Explained
<1>8. i \in Nat /\ j \in Nat /\ j # 0
  BY <1>1, <1>2, <1>5, <1>7
<1>9. PICK a \in Points : /\ a \in Nat /\ a < j + 1
                          /\ a = IF i = 0 THEN z ELSE i + 1
                          /\ At(i, p)' = At(a, p)
  <2>1. CASE i = 0
    <3>1. z \in Points /\ z \in Nat /\ z < j + 1 /\ At(i, p)' = At(z, p)
      BY <1>6, <1>8, <2>1
    <3> QED
      BY <2>1, <3>1
  <2>2. CASE i # 0
    <3>1. i + 1 \in Points /\ i + 1 \in Nat /\ i + 1 < j + 1 /\ At(i, p)' = At(i + 1, p)
      BY <1>5, <1>7, <1>8, <2>2
    <3> QED
      BY <2>2, <3>1
  <2> QED
    BY <2>1, <2>2
<1>10. /\ j + 1 \in Points /\ At(j, p)' = At(j + 1, p) /\ j <= n + 1
  BY <1>1, <1>5, <1>8
<1>11. PICK h \in (a + 1)..(j + 1) : p \in U(h)
  BY <1>7, <1>9, <1>10 DEF Explained
<1>12. h >= 2
  BY <1>6, <1>8, <1>9, <1>11
<1>13. /\ h - 1 \in 1..(n + 1) /\ (h - 1) + 1 = h /\ h - 1 \in (i + 1)..j
  BY <1>1, <1>6, <1>8, <1>9, <1>10, <1>11, <1>12
<1> QED
  BY <1>4, <1>11, <1>13

\* What crosses over when all reports under way are dropped.
LEMMA ExplainedAcross ==
    ASSUME TypeInv, Explained, NEW i \in Points, i < End,
           NEW p \in Everything(kind), At(i, p) # At(End, p)
    PROVE  \/ p \in gap
           \/ \E h \in (i + 1)..Len(updates) : p \in updates[h].updated \cup updates[h].behind
<1>1. End \in Points /\ i \in Nat /\ Len(updates) \in Nat
  BY LengthFacts DEF Points
<1>2. PICK h \in (i + 1)..End : p \in U(h)
  BY <1>1 DEF Explained
<1>3. CASE h = End
  BY <1>1, <1>2, <1>3 DEF U, End
<1>4. CASE h # End
  <2>1. h \in (i + 1)..Len(updates) /\ h \in 1..Len(updates)
    BY <1>1, <1>2, <1>4 DEF End
  <2> QED
    BY <1>2, <2>1 DEF U
<1> QED
  BY <1>3, <1>4

LEMMA ExplainedAfterCrash == ASSUME TypeInv, Explained, Crash PROVE Explained'
<1>1. /\ updates # <<>> /\ Head(updates) # Noise /\ updates' = <<>>
      /\ gap' = gap \cup UpdatesIn(Tail(updates))
      /\ topic' = TopicOf(Head(updates))
      /\ UNCHANGED <<kind, device, mode>>
  BY DEF Crash, BridgeStops, Handle, deviceVars
<1>2. /\ Head(updates) = updates[1] /\ Len(updates) \in Nat \ {0}
      /\ Len(Tail(updates)) = Len(updates) - 1
      /\ \A i \in 1..(Len(updates) - 1) : Tail(updates)[i] = updates[i + 1]
  BY <1>1, TakenTyped
<1>3. 1 \in Points /\ 1 < End
  BY <1>1, <1>2 DEF Points, OwnReports, End
<1>4. ASSUME NEW p \in Everything(kind), At(0, p)' # At(1, p)'
      PROVE  p \in gap'
  <2>1. At(0, p)' = At(1, p)
    BY <1>1, <1>2 DEF At, TopicOf
  <2>2. \A e : e = End => At(1, p)' = At(e, p)
    BY <1>1, <1>2 DEF At, End
  <2>3. CASE \E h \in 2..Len(updates) : p \in updates[h].updated \cup updates[h].behind
    <3>1. PICK h \in 2..Len(updates) : p \in updates[h].updated \cup updates[h].behind
      BY <2>3
    <3>2. h - 1 \in 1..(Len(updates) - 1) /\ (h - 1) + 1 = h
      BY <1>2, <3>1
    <3>3. h - 1 \in 1..Len(Tail(updates)) /\ Tail(updates)[h - 1] = updates[h]
      BY <1>2, <3>2
    <3>4. p \in UpdatesIn(Tail(updates))
      BY <3>1, <3>3 DEF UpdatesIn
    <3> QED
      BY <1>1, <3>4
  <2> QED
    BY <1>1, <1>3, <1>4, <2>1, <2>2, <2>3, ExplainedAcross
<1> QED
  BY <1>1, <1>4, ExplainedWhenEmpty

LEMMA ExplainedWhenDropped ==
    ASSUME TypeInv, Explained, updates' = <<>>, gap' = gap \cup UpdatesIn(updates),
           UNCHANGED <<deviceVars, topic>>
    PROVE  Explained'
<1>1. UNCHANGED <<kind, device, mode, topic>>
  BY DEF deviceVars
<1>2. ASSUME NEW p \in Everything(kind), At(0, p)' # At(1, p)'
      PROVE  p \in gap'
  <2>1. 0 \in Points /\ 0 < End
    BY LengthFacts DEF Points, End
  <2>2. At(0, p)' = At(0, p)
    BY <1>1 DEF At
  <2>3. \A e : e = End => At(1, p)' = At(e, p)
    BY <1>1, LengthFacts DEF At, End
  <2>4. (\E h \in (0 + 1)..Len(updates) : p \in updates[h].updated \cup updates[h].behind)
        => p \in UpdatesIn(updates)
    BY DEF UpdatesIn
  <2> QED
    BY <1>2, <2>1, <2>2, <2>3, <2>4, ExplainedAcross
<1> QED
  BY <1>1, <1>2, ExplainedWhenEmpty

LEMMA ExplainedAfterDropping ==
    ASSUME TypeInv, Explained, StreamDropped, UNCHANGED <<deviceVars, topic>>
    PROVE  Explained'
<1>1. CASE kind \in Esp32
  <2>1. UNCHANGED <<kind, device, mode, topic, updates, gap>>
    BY <1>1 DEF StreamDropped, deviceVars
  <2> QED
    BY <2>1 DEF Explained, Points, At, U, End, OwnReports
<1>2. CASE kind \notin Esp32
  BY <1>2, ExplainedWhenDropped DEF StreamDropped
<1> QED
  BY <1>1, <1>2

LEMMA ExplainedStep ==
    ASSUME TypeInv, Explained, [Next]_vars
    PROVE  Explained'
<1>0. TypeInv'
  BY TypesStep
<1>1. CASE UNCHANGED <<kind, device, mode, updates, topic, gap>>
  BY <1>1 DEF Explained, Points, At, U, End, OwnReports
<1>2. ASSUME NEW s \in Source,
             \/ \E wish \in Wish : UserCommand(s, wish)
             \/ \E c \in Sockets(s, kind) \cup {None} : Replumb(s, c)
      PROVE  Explained'
  BY <1>1, <1>2 DEF UserCommand, Replumb, deviceVars, dhtVars
<1>11. ASSUME NEW o \in RawOrders, RawCommand(o)
       PROVE  Explained'
  BY <1>1, <1>11 DEF RawCommand, deviceVars, dhtVars
<1>12. ASSUME NEW s \in Source, NEW wish \in Wish, UnreadableCommand(s, wish)
       PROVE  Explained'
  BY <1>12, ExplainedWhenDropped DEF UnreadableCommand, BridgeStops, dhtVars
<1>3. ASSUME NEW p \in Properties(kind), LocalChange(p)
      PROVE  Explained'
  <2>1. /\ device' = [device EXCEPT ![p] = 1 - @] /\ mode' = mode /\ Report({p})
        /\ UNCHANGED <<kind, topic>>
    BY <1>3 DEF LocalChange, dhtVars
  <2>2. {p} \in (SUBSET Everything(kind)) \ {{}}
    BY DEF Everything
  <2>3. \A q \in Properties(kind) : q \notin {p} => device'[q] = device[q]
    BY <2>1 DEF TypeInv
  <2> QED
    BY <1>0, <2>1, <2>2, <2>3, ExplainedAfterReport
<1>4. CASE OtherDeviceReports
  <2>1. /\ SendOnChannel(Noise) /\ Noise \in Message(kind)
        /\ UNCHANGED <<kind, device, mode, topic>>
    BY <1>4 DEF OtherDeviceReports, deviceVars, dhtVars, Message
  <2>2. /\ gap \subseteq gap'
        /\ \E k \in {0, 1} : Shifted(k, Noise)
    BY <2>1, SendFacts
  <2>3. Newest(Noise)
    BY <2>1, <2>2 DEF Newest
  <2> QED
    BY <1>0, <2>1, <2>2, <2>3, ExplainedAfterSending
<1>5. CASE HandleUpdate
  <2>1. /\ updates # <<>> /\ updates' = Tail(updates)
        /\ UNCHANGED <<deviceVars, gap>>
    BY <1>5 DEF HandleUpdate
  <2>2. Head(updates) = updates[1]
    BY <2>1, TakenTyped
  <2>3. IF updates[1] = Noise THEN topic' = topic ELSE topic' = TopicOf(updates[1])
    BY <1>5, <2>2 DEF HandleUpdate, Handle, dhtVars
  <2> QED
    BY <2>1, <2>3, ExplainedAfterTaking
<1>6. CASE Execute
  <2>1. Report(UpdatedBy(Head(orders))) /\ UNCHANGED <<kind, topic>>
    BY <1>6 DEF Execute, dhtVars
  <2>2. UpdatedBy(Head(orders)) \in (SUBSET Everything(kind)) \ {{}}
    BY <1>6, ExecuteFacts, UpdatedFacts
  <2>3. /\ \A p \in Properties(kind) :
              p \notin UpdatedBy(Head(orders)) => device'[p] = device[p]
        /\ ModeProperty \notin UpdatedBy(Head(orders)) => mode' = mode
    BY <1>6, ExecuteFacts
  <2> QED
    BY <1>0, <2>1, <2>2, <2>3, ExplainedAfterReport
<1>7. CASE Crash
  BY <1>7, ExplainedAfterCrash
<1>8. CASE LinkFails
  BY <1>1, <1>8 DEF LinkFails, deviceVars, dhtVars
<1>9. CASE Reconnect \/ ModeCheck
  <2>1. StreamDropped /\ UNCHANGED <<deviceVars, topic>>
    BY <1>9 DEF Reconnect, ModeCheck, dhtVars
  <2> QED
    BY <2>1, ExplainedAfterDropping
<1>10. CASE UNCHANGED vars
  BY <1>1, <1>10 DEF vars, deviceVars, dhtVars
<1> QED
  BY <1>2, <1>3, <1>4, <1>5, <1>6, <1>7, <1>8, <1>9, <1>10,
     <1>11, <1>12 DEF Next

\* The topic of an actuator is right when no report is ahead and the newest one
\* was not lost, whatever the channel's capacity and whoever else uses it, and
\* however often links, streams and the bridge fail.
THEOREM TopicTrue == Spec => []TopicIsTrue
<1>1. TypeInv /\ Explained => TopicIsTrue
  <2> SUFFICES ASSUME TypeInv, Explained, Quiet
               PROVE  topic = [values |-> device, mode |-> mode]
    BY DEF TopicIsTrue
  <2>1. OwnReports(updates) = {} /\ gap = {} /\ Len(updates) \in Nat
    BY LengthFacts DEF Quiet
  <2>2. 0 \in Points /\ 0 < End
    BY <2>1 DEF Points, End
  <2>3. \A h \in (0 + 1)..Len(updates) : updates[h].updated \cup updates[h].behind = {}
    BY <2>1, NoiseFacts DEF OwnReports
  <2>4. \A p \in Everything(kind) : At(0, p) = At(End, p)
    BY <2>1, <2>2, <2>3, ExplainedAcross
  <2>5. \A p \in Properties(kind) : topic.values[p] = device[p]
    BY <2>1, <2>4, PropertyFacts DEF At, End, Everything
  <2>6. topic.mode = mode
    <3>1. At(0, ModeProperty) = topic.mode
      BY DEF At
    <3>2. At(End, ModeProperty) = mode
      BY <2>1 DEF At, End
    <3> QED
      BY <2>4, <3>1, <3>2, PropertyFacts
  <2>7. /\ topic \in [values : [Properties(kind) -> Value], mode : Mode]
        /\ device \in [Properties(kind) -> Value]
    BY DEF TypeInv
  <2>8. topic.values = device
    BY <2>5, <2>7
  <2> QED
    BY <2>6, <2>7, <2>8
<1>2. Init => TypeInv /\ Explained
  BY TypesInitially, ExplainedInitially
<1>3. TypeInv /\ Explained /\ [Next]_vars => (TypeInv /\ Explained)'
  BY TypesStep, ExplainedStep
<1> QED
  BY <1>1, <1>2, <1>3, PTL DEF Spec

-----------------------------------------------------------------------------
(***************************************************************************)
(* Sources                                                                 *)
(***************************************************************************)

LEMMA MirrorAfterHandling ==
    ASSUME TypeInv, Explained, SourceMirrorsTopic, updates # <<>>, Head(updates) # Noise,
           NEW written \in SUBSET Takers(Head(updates)), Handle(Head(updates), written),
           UNCHANGED <<kind, conn>>
    PROVE  SourceMirrorsTopic'
<1>1. PICK m : m = Head(updates)
  OBVIOUS
<1>2. /\ m = updates[1] /\ m \in OwnReport(kind) /\ 1 \in 1..Len(updates)
      /\ Len(updates) \in Nat
  BY <1>1, TakenTyped, MessageFacts
<1>3. /\ topic'.values = m.values
      /\ source' = [s \in Source |-> IF s \in written THEN Copied(s, m) ELSE source[s]]
      /\ missed' = (missed \cup m.behind) \ m.updated
      /\ current' = current \cup Takers(m)
      /\ skipped' = (skipped \cup Takers(m)) \ written
      /\ written \subseteq Takers(m) /\ Takers(m) \subseteq Source
  BY <1>1 DEF Handle, TopicOf, Takers
<1>4. SUFFICES ASSUME NEW s \in current' \ skipped', conn[s] # None, NEW f \in DOMAIN MirrorOf(s)
               PROVE  \/ source'[s][f] = topic'.values[MirrorOf(s)[f]]
                      \/ s \in Detectors /\ MirrorOf(s)[f] \in missed'
  BY DEF SourceMirrorsTopic, MirrorOf
<1>5. s \in Source
  BY <1>3, <1>4 DEF TypeInv
<1>6. f \in Fields(s)
  BY MirrorFields DEF MirrorOf
<1>7. CASE s \in written
  BY <1>3, <1>5, <1>6, <1>7 DEF Copied
<1>8. CASE s \notin written
  <2>1. s \in current \ skipped /\ s \notin Takers(m) /\ source'[s] = source[s]
    BY <1>3, <1>4, <1>5, <1>8
  <2>2. s \in Detectors /\ Input(conn[s]) \notin m.updated
    BY <1>4, <1>5, <2>1 DEF Takers, Takes
  <2>3. MirrorOf(s)[f] = Input(conn[s]) /\ MirrorOf(s)[f] \in Properties(kind)
    <3>1. conn[s] \in Sockets(s, kind)
      BY <1>4, <1>5 DEF TypeInv, Connected
    <3>2. MirrorOf(s)[f] \in Properties(kind)
      BY <3>1, SocketFacts DEF MirrorOf
    <3>3. MirrorOf(s) = [e \in {"status"} |-> Input(conn[s])]
      BY <2>2 DEF MirrorOf, Mirror, Switches, Shutters, Detectors
    <3> QED
      BY <3>2, <3>3
  <2>4. \/ source[s][f] = topic.values[MirrorOf(s)[f]]
        \/ MirrorOf(s)[f] \in missed
    BY <1>4, <2>1 DEF SourceMirrorsTopic
  <2>5. PICK p \in Properties(kind) : p = MirrorOf(s)[f]
    BY <2>3
  <2>6. CASE topic.values[p] # m.values[p]
    <3>1. 0 \in Points /\ 1 \in Points
      BY <1>1, <1>2 DEF Points, OwnReports
    <3>2. p # ModeProperty /\ p \in Everything(kind)
      BY PropertyFacts DEF Everything
    <3>3. At(0, p) = topic.values[p] /\ At(1, p) = m.values[p]
      BY <1>2, <3>2 DEF At
    <3>4. PICK h \in (0 + 1)..1 : p \in U(h)
      BY <2>6, <3>1, <3>2, <3>3 DEF Explained
    <3>5. p \in m.updated \cup m.behind
      <4>1. h = 1
        BY <3>4
      <4> QED
        BY <1>2, <3>4, <4>1 DEF U
    <3> QED
      BY <1>3, <2>2, <2>3, <2>5, <3>5
  <2>7. CASE topic.values[p] = m.values[p]
    BY <1>3, <2>1, <2>2, <2>3, <2>4, <2>5, <2>7
  <2> QED
    BY <2>6, <2>7
<1> QED
  BY <1>7, <1>8

\* A source that took a report since it was connected shows what its actuator's
\* topic shows, for any number of actuators' reports, commands and failures, with
\* the two exceptions that the property names: a source that a crash left unwritten,
\* until it is written again (CrashesAreRepaired), and a detector whose report
\* was lost.
THEOREM SourcesMirror == Spec => []SourceMirrorsTopic
<1>1. Init => SourceMirrorsTopic
  BY DEF Init, SourceMirrorsTopic
<1>2. ASSUME TypeInv, Explained, SourceMirrorsTopic, [Next]_vars
      PROVE  SourceMirrorsTopic'
  <2>1. CASE UNCHANGED <<kind, conn, source, topic, missed, current, skipped>>
    BY <1>2, <2>1 DEF SourceMirrorsTopic, MirrorOf
  <2>2. ASSUME NEW s \in Source, NEW c \in Sockets(s, kind) \cup {None}, Replumb(s, c)
        PROVE  SourceMirrorsTopic'
    <3>1. /\ conn' = [conn EXCEPT ![s] = c]
          /\ current' = current \ {s} /\ skipped' = skipped \ {s}
          /\ UNCHANGED <<kind, topic, source, missed>>
      BY <2>2 DEF Replumb, deviceVars
    <3>2. \A q \in current' \ skipped' : q \in current \ skipped /\ conn'[q] = conn[q]
      BY <1>2, <3>1 DEF TypeInv, Connected
    <3> QED
      BY <1>2, <3>1, <3>2 DEF SourceMirrorsTopic, MirrorOf
  <2>3. CASE HandleUpdate
    <3>1. CASE Head(updates) = Noise
      BY <2>1, <2>3, <3>1 DEF HandleUpdate, deviceVars, dhtVars
    <3>2. CASE Head(updates) # Noise
      BY <1>2, <2>3, <3>2, MirrorAfterHandling DEF HandleUpdate, deviceVars
    <3> QED
      BY <3>1, <3>2
  <2>4. CASE Crash
    BY <1>2, <2>4, MirrorAfterHandling DEF Crash, deviceVars
  <2>5. CASE UNCHANGED <<kind, conn, dhtVars>>
    BY <2>1, <2>5 DEF dhtVars
  <2>6. ASSUME \/ \E s \in Source : \E wish \in Wish :
                     UserCommand(s, wish) \/ UnreadableCommand(s, wish)
               \/ \E o \in RawOrders : RawCommand(o)
               \/ \E p \in Properties(kind) : LocalChange(p)
               \/ OtherDeviceReports \/ Execute \/ LinkFails \/ Reconnect \/ ModeCheck
               \/ UNCHANGED vars
        PROVE  UNCHANGED <<kind, conn, dhtVars>>
    <3>1. UNCHANGED vars => UNCHANGED <<kind, conn, dhtVars>>
      BY DEF vars, deviceVars
    <3> QED
      BY <2>6, <3>1 DEF UserCommand, UnreadableCommand, RawCommand, LocalChange, OtherDeviceReports, Execute, LinkFails,
                        Reconnect, ModeCheck, deviceVars
  <2> QED
    BY <1>2, <2>2, <2>3, <2>4, <2>5, <2>6 DEF Next
<1>3. Init => TypeInv /\ Explained /\ SourceMirrorsTopic
  BY <1>1, TypesInitially, ExplainedInitially
<1>4. TypeInv /\ Explained /\ SourceMirrorsTopic /\ [Next]_vars
      => (TypeInv /\ Explained /\ SourceMirrorsTopic)'
  BY <1>2, TypesStep, ExplainedStep
<1> QED
  BY <1>3, <1>4, PTL DEF Spec

-----------------------------------------------------------------------------
(***************************************************************************)
(* Repair after a crash                                                    *)
(***************************************************************************)

\* The updates that a report still to be handled names, or will name.
Known == gap \cup UpdatesIn(updates)

Asked(o) == \E i \in 1..Len(orders) : orders[i] = o

\* A source that a crash left unwritten is still to be written, unless it is a
\* detector whose report was lost.
Repair ==
    \A s \in skipped : conn[s] # None =>
        \/ ~linked
        \/ Asked(Order(Nothing, None))
        \/ IF s \in Detectors THEN Input(conn[s]) \in missed \cup Known ELSE Known # {}

LEMMA KnownFacts ==
    ASSUME TypeInv
    PROVE  \A p : p \in Known <=> \E h \in 1..End : p \in U(h)
<1>0. Len(updates) \in Nat /\ End = Len(updates) + 1
  BY LengthFacts DEF End
<1>1. \A h \in 1..Len(updates) : U(h) = updates[h].updated \cup updates[h].behind
  BY DEF U
<1>2. \A h : h = End => U(h) = gap
  BY <1>0 DEF U
<1>3. \A p : p \in UpdatesIn(updates) <=> \E h \in 1..Len(updates) : p \in U(h)
  BY <1>1 DEF UpdatesIn
<1>4. End \in 1..End /\ \A h \in 1..End : h = End \/ h \in 1..Len(updates)
  BY <1>0
<1>5. \A h \in 1..Len(updates) : h \in 1..End
  BY <1>0
<1> QED
  BY <1>2, <1>3, <1>4, <1>5 DEF Known

\* Own reports are the ones that know of updates.
LEMMA KnownReports ==
    ASSUME TypeInv
    PROVE  Known # {} <=> OwnReports(updates) # {} \/ gap # {}
<1>1. \A i \in 1..Len(updates) : updates[i] \in Message(kind)
  BY LengthFacts
<1>2. \A i \in 1..Len(updates) :
         updates[i] = Noise <=> updates[i].updated \cup updates[i].behind = {}
  BY <1>1, NoiseFacts DEF Message, OwnReport
<1>3. UpdatesIn(updates) # {} <=> \E i \in 1..Len(updates) : updates[i] # Noise
  <2>1. \A p : p \in UpdatesIn(updates) <=>
               \E i \in 1..Len(updates) : p \in updates[i].updated \cup updates[i].behind
    BY DEF UpdatesIn
  <2> QED
    BY <1>2, <2>1
<1>4. OwnReports(updates) # {} <=> \E i \in 1..Len(updates) : updates[i] # Noise
  BY DEF OwnReports
<1> QED
  BY <1>3, <1>4 DEF Known

LEMMA KnownAfterSending ==
    ASSUME TypeInv, TypeInv', NEW k, NEW m, Shifted(k, m), gap \subseteq gap' \cup m.behind
    PROVE  Known \cup m.updated \subseteq Known'
<1>1. /\ k \in {0, 1} /\ k <= Len(updates)
      /\ Len(updates') = Len(updates) - k + 1
      /\ Len(updates) \in Nat /\ Len(updates') \in Nat
      /\ End = Len(updates) + 1 /\ End' = Len(updates') + 1
  BY LengthFacts DEF Shifted, End
<1>2. \A p : p \in Known' <=> \E h \in 1..End' : p \in U(h)'
  <2>1. (\A p : p \in Known <=> \E h \in 1..End : p \in U(h))'
    BY KnownFacts, PTL
  <2> QED
    BY <2>1
<1>3. m.updated \cup m.behind \subseteq Known'
  <2>1. Len(updates') \in 1..End'
    BY <1>1
  <2> QED
    BY <1>2, <2>1 DEF Shifted
<1>4. gap' \subseteq Known'
  BY DEF Known
<1>5. ASSUME NEW h \in 1..End, NEW p \in U(h)
      PROVE  p \in Known'
  <2>1. CASE h = End
    BY <1>1, <1>3, <1>4, <1>5, <2>1 DEF U
  <2>2. CASE h # End /\ k = 1 /\ h = 1
    <3>1. End' \in Points' /\ End' # 0
      BY <1>1 DEF Points
    <3>2. \E f \in 1..End' : U(1) \subseteq U(f)'
      BY <2>2, <3>1 DEF Shifted
    <3> QED
      BY <1>2, <1>5, <2>2, <3>2
  <2>3. CASE h # End /\ ~(k = 1 /\ h = 1)
    <3>1. h - k \in 1..(Len(updates) - k) /\ (h - k) + k = h /\ h - k \in 1..End'
      BY <1>1, <2>3
    <3>2. U((h - k) + k) \subseteq U(h - k)'
      BY <3>1 DEF Shifted
    <3> QED
      BY <1>2, <1>5, <3>1, <3>2
  <2> QED
    BY <2>1, <2>2, <2>3
<1> QED
  BY <1>3, <1>5, KnownFacts

LEMMA KnownAfterReport ==
    ASSUME TypeInv, TypeInv', kind' = kind,
           NEW updated \in (SUBSET Everything(kind)) \ {{}}, Report(updated)
    PROVE  Known \cup updated \subseteq Known'
<1>1. device' \in [Properties(kind) -> Value] /\ mode' \in Mode
  BY DEF TypeInv
<1>2. CASE updates' = updates /\ gap' = gap \cup updated
  BY <1>2 DEF Known
<1>3. ASSUME NEW k, NEW m, m.updated = updated, m.behind = gap, Shifted(k, m)
      PROVE  Known \cup updated \subseteq Known'
  BY <1>3, KnownAfterSending
<1> QED
  BY <1>1, <1>2, <1>3, ReportFacts

LEMMA KnownAfterTaking ==
    ASSUME TypeInv, updates # <<>>, updates' = Tail(updates), gap' = gap
    PROVE  Known \subseteq Known' \cup updates[1].updated \cup updates[1].behind
<1>1. /\ Len(updates) \in Nat \ {0} /\ Len(updates') = Len(updates) - 1
      /\ \A i \in 1..(Len(updates) - 1) : updates'[i] = updates[i + 1]
  BY TakenTyped
<1>2. ASSUME NEW i \in 2..Len(updates)
      PROVE  updates[i].updated \cup updates[i].behind \subseteq UpdatesIn(updates')
  <2>1. i - 1 \in 1..Len(updates') /\ i - 1 \in 1..(Len(updates) - 1) /\ (i - 1) + 1 = i
    BY <1>1
  <2>2. updates'[i - 1] = updates[i]
    BY <1>1, <2>1
  <2>3. ASSUME NEW j \in 1..Len(updates'), NEW p,
               p \in updates'[j].updated \cup updates'[j].behind
        PROVE  p \in UpdatesIn(updates')
    BY <2>3 DEF UpdatesIn
  <2> QED
    BY <2>1, <2>2, <2>3
<1>3. ASSUME NEW i \in 1..Len(updates)
      PROVE  updates[i].updated \cup updates[i].behind
             \subseteq UpdatesIn(updates') \cup updates[1].updated \cup updates[1].behind
  <2>1. i = 1 \/ i \in 2..Len(updates)
    BY <1>1
  <2> QED
    BY <1>2, <2>1
<1> QED
  BY <1>3 DEF Known, UpdatesIn

\* The device has an input where a detector is connected.
LEMMA InputKnown ==
    ASSUME TypeInv, NEW s \in Source, conn[s] # None, s \in Detectors
    PROVE  Input(conn[s]) \in Everything(kind)
<1>1. conn[s] \in Sockets(s, kind)
  BY DEF TypeInv, Connected
<1>2. Mirror(s, kind, conn[s]) = [f \in {"status"} |-> Input(conn[s])]
  BY DEF Mirror, Switches, Shutters, Detectors
<1>3. Mirror(s, kind, conn[s])["status"] \in Properties(kind)
  BY <1>1, <1>2, SocketFacts
<1> QED
  BY <1>2, <1>3 DEF Everything

\* A step that leaves the sources alone, forgets no update and takes back no
\* request for the status.
LEMMA RepairKept ==
    ASSUME Repair, UNCHANGED <<conn, linked, missed, skipped>>, Known \subseteq Known',
           Asked(Order(Nothing, None)) => Asked(Order(Nothing, None))'
    PROVE  Repair'
BY DEF Repair

LEMMA RepairStep ==
    ASSUME TypeInv, Repair, [Next]_vars
    PROVE  Repair'
<1>0. TypeInv'
  BY TypesStep
<1>1. CASE ~linked'
  BY <1>1 DEF Repair
<1>2. ASSUME NEW o, Ordered(o)
      PROVE  \A a : Asked(a) => Asked(a)'
  <2>1. orders \in Seq(OrderSet(kind)) /\ (orders' = orders \/ orders' = Append(orders, o))
    BY <1>2 DEF TypeInv, Ordered
  <2>2. CASE orders' = orders
    BY <2>2 DEF Asked
  <2>3. CASE orders' = Append(orders, o)
    <3>1. /\ Len(orders) \in Nat /\ Len(orders') = Len(orders) + 1
          /\ \A i \in 1..Len(orders) : orders'[i] = orders[i]
      BY <2>1, <2>3
    <3>2. \A i \in 1..Len(orders) : i \in 1..Len(orders')
      BY <3>1
    <3> QED
      BY <3>1, <3>2 DEF Asked
  <2> QED
    BY <2>1, <2>2, <2>3
<1>3. ASSUME NEW o, Ordered(o), UNCHANGED <<linked, updates, dhtVars, conn, gap>>
      PROVE  Repair'
  <2>1. Known' = Known /\ UNCHANGED <<conn, linked, missed, skipped>>
    BY <1>3 DEF Known, dhtVars
  <2> QED
    BY <1>2, <1>3, <2>1, RepairKept
<1>4. ASSUME NEW s \in Source, NEW wish \in Wish, UserCommand(s, wish)
      PROVE  Repair'
  BY <1>3, <1>4 DEF UserCommand
<1>5. ASSUME NEW o \in RawOrders, RawCommand(o)
      PROVE  Repair'
  BY <1>3, <1>5 DEF RawCommand
<1>6. ASSUME \/ \E s \in Source : \E wish \in Wish : UnreadableCommand(s, wish)
             \/ Crash \/ LinkFails
      PROVE  Repair'
  BY <1>1, <1>6 DEF UnreadableCommand, Crash, BridgeStops, LinkFails
<1>7. ASSUME NEW s \in Source, NEW c \in Sockets(s, kind) \cup {None}, Replumb(s, c)
      PROVE  Repair'
  <2>1. /\ conn' = [conn EXCEPT ![s] = c] /\ skipped' = skipped \ {s}
        /\ UNCHANGED <<linked, orders, updates, missed, gap>>
    BY <1>7 DEF Replumb
  <2>2. \A q \in skipped' : q \in skipped /\ conn'[q] = conn[q]
    BY <2>1 DEF TypeInv, Connected
  <2>3. Known' = Known /\ \A a : Asked(a)' <=> Asked(a)
    BY <2>1 DEF Known, Asked
  <2> QED
    BY <2>1, <2>2, <2>3 DEF Repair
<1>8. ASSUME NEW p \in Properties(kind), LocalChange(p)
      PROVE  Repair'
  <2>1. Report({p}) /\ UNCHANGED <<kind, linked, orders, dhtVars, conn>>
    BY <1>8 DEF LocalChange
  <2>2. {p} \in (SUBSET Everything(kind)) \ {{}}
    BY DEF Everything
  <2>3. Known \subseteq Known' /\ UNCHANGED <<conn, linked, missed, skipped>>
    BY <1>0, <2>1, <2>2, KnownAfterReport DEF dhtVars
  <2>4. Asked(Order(Nothing, None)) => Asked(Order(Nothing, None))'
    BY <2>1 DEF Asked
  <2> QED
    BY <2>3, <2>4, RepairKept
<1>9. CASE OtherDeviceReports
  <2>1. SendOnChannel(Noise) /\ UNCHANGED <<kind, linked, orders, dhtVars, conn>>
    BY <1>9 DEF OtherDeviceReports, deviceVars
  <2>2. gap \subseteq gap' /\ \E k \in {0, 1} : Shifted(k, Noise)
    BY <2>1, SendFacts DEF Message
  <2>3. Known \subseteq Known' /\ UNCHANGED <<conn, linked, missed, skipped>>
    BY <1>0, <2>1, <2>2, KnownAfterSending DEF dhtVars
  <2>4. Asked(Order(Nothing, None)) => Asked(Order(Nothing, None))'
    BY <2>1 DEF Asked
  <2> QED
    BY <2>3, <2>4, RepairKept
<1>10. CASE HandleUpdate
  <2>1. /\ updates # <<>> /\ updates' = Tail(updates) /\ Head(updates) = updates[1]
        /\ UNCHANGED <<linked, orders, conn, gap>>
    BY <1>10, TakenTyped DEF HandleUpdate
  <2>2. Known \subseteq Known' \cup updates[1].updated \cup updates[1].behind
    BY <2>1, KnownAfterTaking
  <2>3. \A a : Asked(a)' <=> Asked(a)
    BY <2>1 DEF Asked
  <2>4. CASE updates[1] = Noise
    <3>1. UNCHANGED <<missed, skipped>>
      BY <1>10, <2>1, <2>4 DEF HandleUpdate, dhtVars
    <3>2. Known \subseteq Known'
      BY <2>2, <2>4, NoiseFacts
    <3> QED
      BY <2>1, <2>3, <3>1, <3>2, RepairKept
  <2>5. CASE updates[1] # Noise
    <3>1. Handle(updates[1], Takers(updates[1]))
      BY <1>10, <2>1, <2>5 DEF HandleUpdate
    <3>2. /\ missed' = (missed \cup updates[1].behind) \ updates[1].updated
          /\ skipped' \subseteq skipped \ Takers(updates[1])
      BY <3>1 DEF Handle
    <3>3. ASSUME NEW s \in skipped', conn[s] # None
          PROVE  s \in skipped /\ s \in Detectors /\ Input(conn[s]) \notin updates[1].updated
      BY <3>2, <3>3 DEF TypeInv, Takers, Takes
    <3> QED
      BY <2>1, <2>2, <2>3, <3>2, <3>3 DEF Repair
  <2> QED
    BY <2>4, <2>5
<1>11. CASE Execute
  <2>1. /\ Report(UpdatedBy(Head(orders))) /\ orders' = Tail(orders)
        /\ UNCHANGED <<kind, linked, dhtVars, conn>>
    BY <1>11 DEF Execute
  <2>2. UpdatedBy(Head(orders)) \in (SUBSET Everything(kind)) \ {{}}
    BY <1>11, ExecuteFacts, UpdatedFacts
  <2>3. Known \cup UpdatedBy(Head(orders)) \subseteq Known'
    BY <1>0, <2>1, <2>2, KnownAfterReport
  <2>4. UNCHANGED <<conn, linked, missed, skipped>>
    BY <2>1 DEF dhtVars
  <2>5. /\ Len(orders) \in Nat \ {0} /\ Len(orders') = Len(orders) - 1
        /\ Head(orders) = orders[1]
        /\ \A i \in 1..(Len(orders) - 1) : orders'[i] = orders[i + 1]
    BY <1>11, <2>1, ExecuteFacts
  <2>6. CASE Head(orders) = Order(Nothing, None)
    <3>1. Everything(kind) \subseteq Known'
      BY <2>3, <2>6 DEF UpdatedBy
    <3>2. Known' # {}
      BY <3>1, PropertyFacts
    <3>3. ASSUME NEW s \in skipped, conn[s] # None
          PROVE  IF s \in Detectors THEN Input(conn[s]) \in Known' ELSE Known' # {}
      <4>1. s \in Source
        BY DEF TypeInv
      <4> QED
        BY <3>1, <3>2, <3>3, <4>1, InputKnown
    <3>4. \A s \in skipped' : conn'[s] # None =>
             IF s \in Detectors THEN Input(conn'[s]) \in missed' \cup Known' ELSE Known' # {}
      BY <2>4, <3>3
    <3> QED
      BY <3>4 DEF Repair
  <2>7. CASE Head(orders) # Order(Nothing, None)
    <3>1. ASSUME NEW i \in 1..Len(orders), orders[i] = Order(Nothing, None)
          PROVE  Asked(Order(Nothing, None))'
      <4>1. i - 1 \in 1..Len(orders') /\ i - 1 \in 1..(Len(orders) - 1) /\ (i - 1) + 1 = i
        BY <2>5, <2>7, <3>1
      <4>2. orders'[i - 1] = Order(Nothing, None)
        BY <2>5, <3>1, <4>1
      <4> QED
        BY <4>1, <4>2 DEF Asked
    <3>2. Asked(Order(Nothing, None)) => Asked(Order(Nothing, None))'
      BY <3>1 DEF Asked
    <3> QED
      BY <2>3, <2>4, <3>2, RepairKept
  <2> QED
    BY <2>6, <2>7
<1>12. CASE Reconnect
  <2>1. Asked(Order(Nothing, None))'
    BY <1>12 DEF Reconnect, FirstOrders, Asked
  <2> QED
    BY <2>1 DEF Repair
<1>13. CASE ModeCheck
  <2>1. CASE kind \in Esp32
    <3>1. linked' = linked /\ UNCHANGED <<updates, gap, dhtVars, conn>>
      BY <1>13, <2>1 DEF ModeCheck, StreamDropped
    <3> QED
      BY <1>3, <1>13, <3>1 DEF ModeCheck
  <2>2. CASE kind \notin Esp32
    BY <1>1, <1>13, <2>2 DEF ModeCheck
  <2> QED
    BY <2>1, <2>2
<1>14. CASE UNCHANGED vars
  <2>1. UNCHANGED <<conn, linked, missed, skipped, updates, gap, orders>>
    BY <1>14 DEF vars, dhtVars
  <2> QED
    BY <2>1, RepairKept DEF Known, Asked
<1> QED
  BY <1>4, <1>5, <1>6, <1>7, <1>8, <1>9, <1>10, <1>11, <1>12, <1>13, <1>14 DEF Next

\* What a crash in the middle of the writes left unwritten is written by a report
\* still to come, because a new link asks for the status first: it is forgotten
\* in no order of later commands, reports, failures and crashes.
THEOREM CrashesAreRepaired == Spec => []CrashIsRepaired
<1>1. ASSUME TypeInv, Repair
      PROVE  CrashIsRepaired
  <2>1. SUFFICES ASSUME NEW s \in skipped, conn[s] # None, linked,
                        ~Asked(Order(Nothing, None))
                 PROVE  \/ \E i \in OwnReports(updates) : Takes(s, conn[s], updates[i].updated)
                        \/ IF s \in Detectors
                           THEN Input(conn[s]) \in gap \cup missed \cup UpdatesIn(updates)
                           ELSE gap # {}
    BY DEF CrashIsRepaired, Asked, RangeOf
  <2>2. CASE s \in Detectors
    BY <1>1, <2>1, <2>2 DEF Repair, Known
  <2>3. CASE s \notin Detectors
    <3>1. Known # {}
      BY <1>1, <2>1, <2>3 DEF Repair
    <3> QED
      BY <1>1, <2>3, <3>1, KnownReports DEF Takes
  <2> QED
    BY <2>2, <2>3
<1>2. Init => TypeInv /\ Repair
  <2>1. Init => Repair
    BY DEF Init, Repair
  <2> QED
    BY <2>1, TypesInitially
<1>3. TypeInv /\ Repair /\ [Next]_vars => (TypeInv /\ Repair)'
  BY TypesStep, RepairStep
<1> QED
  BY <1>1, <1>2, <1>3, PTL DEF Spec

-----------------------------------------------------------------------------
(***************************************************************************)
(* Commands                                                                *)
(***************************************************************************)

Sets(o, p) == p \in DOMAIN o.sets

\* The last order under way that sets p gives it value v; if none does, p has it.
Becomes(p, v) ==
    /\ \A i \in 1..Len(orders) :
          /\ Sets(orders[i], p)
          /\ \A j \in (i + 1)..Len(orders) : ~Sets(orders[j], p)
          => orders[i].sets[p] = v
    /\ (\A i \in 1..Len(orders) : ~Sets(orders[i], p)) => device[p] = v

GoalInv ==
    /\ goal = [s \in Source |-> goal[s]]
    /\ \A s \in Source : goal[s] # None =>
          /\ conn[s] # None /\ CommandFor(s) # "none"
          /\ goal[s] \in [Fields(s) -> Value]
          /\ \A f \in DOMAIN MirrorOf(s) : Becomes(MirrorOf(s)[f], goal[s][f])

LEMMA MirrorIsWhole ==
    ASSUME NEW s, NEW k, NEW c, DOMAIN Mirror(s, k, c) # {}
    PROVE  DOMAIN Mirror(s, k, c) = Fields(s)
<1>2. CASE s \in Shutters
  <2>1. Mirror(s, k, c) = [f \in {"shutter_status"} |-> Shutter]
    BY <1>2, KindsAreDistinct DEF Mirror
  <2>2. Fields(s) = {"shutter_status"}
    BY <1>2, KindsAreDistinct DEF Fields
  <2> QED
    BY <2>1, <2>2
<1>3. CASE s = "domo_rgbw_light"
  BY <1>3 DEF Mirror, Fields, Shutters, Switches, Detectors, Openings
<1>4. CASE s \notin Shutters /\ s # "domo_rgbw_light"
  <2>1. Fields(s) = {"status"}
    BY <1>4 DEF Fields
  <2>2. DOMAIN Mirror(s, k, c) \subseteq {"status"}
    BY <2>1, MirrorFields
  <2> QED
    BY <2>1, <2>2
<1> QED
  BY <1>2, <1>3, <1>4

\* A source without a goal after ps were touched, or one that does not mirror them.
LEMMA GoalsLeft ==
    ASSUME GoalInv, NEW ps, NEW s \in Source, WithoutGoals(ps)[s] # None
    PROVE  /\ WithoutGoals(ps)[s] = goal[s] /\ goal[s] # None
           /\ \A f \in DOMAIN MirrorOf(s) : MirrorOf(s)[f] \notin ps
BY DEF GoalInv, WithoutGoals, RangeOf

LEMMA AppendedOrder ==
    ASSUME TypeInv, NEW o \in OrderSet(kind), orders' = Append(orders, o),
           device' = device, NEW p, NEW v,
           IF Sets(o, p) THEN o.sets[p] = v ELSE Becomes(p, v)
    PROVE  Becomes(p, v)'
<1>1. /\ Len(orders) \in Nat /\ Len(orders') = Len(orders) + 1
      /\ orders'[Len(orders) + 1] = o
      /\ \A i \in 1..Len(orders) : orders'[i] = orders[i]
  BY DEF TypeInv
<1>2. CASE Sets(o, p)
  <2>1. ASSUME NEW i \in 1..Len(orders'), \A j \in (i + 1)..Len(orders') : ~Sets(orders'[j], p)
        PROVE  orders'[i] = o
    <3>1. i = Len(orders')
      BY <1>1, <1>2, <2>1
    <3> QED
      BY <1>1, <3>1
  <2>2. Len(orders') \in 1..Len(orders') /\ Sets(orders'[Len(orders')], p)
    BY <1>1, <1>2
  <2> QED
    BY <1>2, <2>1, <2>2 DEF Becomes
<1>3. CASE ~Sets(o, p)
  <2>1. ASSUME NEW i \in 1..Len(orders'), Sets(orders'[i], p),
               \A j \in (i + 1)..Len(orders') : ~Sets(orders'[j], p)
        PROVE  orders'[i].sets[p] = v
    <3>1. i \in 1..Len(orders)
      BY <1>1, <1>3, <2>1
    <3>2. \A j \in (i + 1)..Len(orders) : ~Sets(orders[j], p)
      BY <1>1, <2>1, <3>1
    <3> QED
      BY <1>1, <1>3, <2>1, <3>1, <3>2 DEF Becomes
  <2>2. (\A i \in 1..Len(orders') : ~Sets(orders'[i], p)) => device'[p] = v
    BY <1>1, <1>3 DEF Becomes
  <2> QED
    BY <2>1, <2>2 DEF Becomes
<1> QED
  BY <1>2, <1>3

LEMMA ExecutedOrder ==
    ASSUME TypeInv, Execute, NEW p \in Properties(kind), NEW v, Becomes(p, v)
    PROVE  Becomes(p, v)'
<1>1. /\ orders \in Seq(OrderSet(kind)) /\ orders # <<>> /\ orders' = Tail(orders)
      /\ device' = [q \in Properties(kind) |->
                       IF q \in DOMAIN Head(orders).sets THEN Head(orders).sets[q] ELSE device[q]]
  BY DEF TypeInv, Execute
<1>2. /\ Len(orders) \in Nat \ {0} /\ Len(orders') = Len(orders) - 1
      /\ Head(orders) = orders[1]
      /\ \A i \in 1..(Len(orders) - 1) : orders'[i] = orders[i + 1]
  BY <1>1
<1>3. device'[p] = IF Sets(orders[1], p) THEN orders[1].sets[p] ELSE device[p]
  BY <1>1, <1>2 DEF Sets
<1>4. ASSUME NEW i \in 1..Len(orders'), Sets(orders'[i], p),
             \A j \in (i + 1)..Len(orders') : ~Sets(orders'[j], p)
      PROVE  orders'[i].sets[p] = v
  <2>1. i + 1 \in 1..Len(orders) /\ orders'[i] = orders[i + 1]
    BY <1>2
  <2>2. ASSUME NEW j \in ((i + 1) + 1)..Len(orders)
        PROVE  ~Sets(orders[j], p)
    <3>1. j - 1 \in (i + 1)..Len(orders') /\ j - 1 \in 1..(Len(orders) - 1) /\ (j - 1) + 1 = j
      BY <1>2
    <3>2. orders'[j - 1] = orders[j]
      BY <1>2, <3>1
    <3> QED
      BY <1>4, <3>1, <3>2
  <2> QED
    BY <1>4, <2>1, <2>2 DEF Becomes
<1>5. ASSUME \A i \in 1..Len(orders') : ~Sets(orders'[i], p)
      PROVE  device'[p] = v
  <2>1. ASSUME NEW j \in 2..Len(orders)
        PROVE  ~Sets(orders[j], p)
    <3>1. j - 1 \in 1..Len(orders') /\ j - 1 \in 1..(Len(orders) - 1) /\ (j - 1) + 1 = j
      BY <1>2
    <3>2. orders'[j - 1] = orders[j]
      BY <1>2, <3>1
    <3> QED
      BY <1>5, <3>1, <3>2
  <2>2. CASE Sets(orders[1], p)
    <3>1. 1 \in 1..Len(orders) /\ \A j \in (1 + 1)..Len(orders) : ~Sets(orders[j], p)
      BY <1>2, <2>1
    <3> QED
      BY <1>3, <2>2, <3>1 DEF Becomes
  <2>3. CASE ~Sets(orders[1], p)
    <3>1. \A j \in 1..Len(orders) : j = 1 \/ j \in 2..Len(orders)
      BY <1>2
    <3>2. \A j \in 1..Len(orders) : ~Sets(orders[j], p)
      BY <2>1, <2>3, <3>1
    <3> QED
      BY <1>3, <2>3, <3>2 DEF Becomes
  <2> QED
    BY <2>2, <2>3
<1> QED
  BY <1>4, <1>5 DEF Becomes

\* Goals that are left keep their promise when what they are about does.
LEMMA GoalsKept ==
    ASSUME GoalInv, UNCHANGED <<kind, conn>>, goal' = [s \in Source |-> goal'[s]],
           \A s \in Source : goal'[s] # None =>
              /\ goal'[s] = goal[s]
              /\ \A f \in DOMAIN MirrorOf(s) : Becomes(MirrorOf(s)[f], goal[s][f])'
    PROVE  GoalInv'
BY DEF GoalInv, MirrorOf

LEMMA GoalsStep ==
    ASSUME TypeInv, GoalInv, [Next]_vars
    PROVE  GoalInv'
<1>0. /\ goal = [s \in Source |-> goal[s]]
      /\ orders \in Seq(OrderSet(kind)) /\ Len(orders) \in Nat
      /\ device \in [Properties(kind) -> Value]
      /\ \A s \in Source : conn[s] # None => conn[s] \in Sockets(s, kind)
  BY DEF GoalInv, TypeInv, Connected
<1>1. \A s \in Source : conn[s] # None =>
         \A f \in DOMAIN MirrorOf(s) : MirrorOf(s)[f] \in Properties(kind)
  BY <1>0, SocketFacts DEF MirrorOf
<1>2. ASSUME NEW s \in Source, NEW wish \in Wish, UserCommand(s, wish)
      PROVE  GoalInv'
  <2>0. PICK asked : asked = AsRead(CommandFor(s), wish)
    OBVIOUS
  <2>1. PICK sets : sets = Parsed(CommandFor(s), kind, conn[s], asked)
    OBVIOUS
  <2>2. PICK o : o = Order(sets, None)
    OBVIOUS
  <2>3. /\ orders' = IF Arrives THEN Append(orders, o) ELSE orders
        /\ goal' = [WithoutGoals(DOMAIN sets) EXCEPT ![s] = IF Arrives THEN asked ELSE None]
        /\ UNCHANGED <<kind, device, conn>>
        /\ s \in Driven /\ asked \in [Fields(s) -> Value]
    BY <1>2, <2>0, <2>1, <2>2, AskedTyped DEF UserCommand, Ordered, deviceVars
  <2>4. /\ o \in OrderSet(kind) /\ o.sets = sets
    BY <2>1, <2>2, <2>3, CommandTyped DEF Order
  <2>5. /\ goal' = [q \in Source |-> goal'[q]]
        /\ goal'[s] = IF Arrives THEN asked ELSE None
        /\ \A q \in Source : q # s => goal'[q] = WithoutGoals(DOMAIN sets)[q]
    BY <2>3 DEF WithoutGoals
  <2>6. ASSUME NEW q \in Source, q # s, goal'[q] # None
        PROVE  /\ goal'[q] = goal[q] /\ goal[q] # None
               /\ \A f \in DOMAIN MirrorOf(q) : Becomes(MirrorOf(q)[f], goal[q][f])'
    <3>1. /\ goal'[q] = goal[q] /\ goal[q] # None
          /\ \A f \in DOMAIN MirrorOf(q) : MirrorOf(q)[f] \notin DOMAIN sets
      BY <2>5, <2>6, GoalsLeft
    <3>2. ASSUME NEW f \in DOMAIN MirrorOf(q)
          PROVE  Becomes(MirrorOf(q)[f], goal[q][f])'
      <4>1. PICK p, v : p = MirrorOf(q)[f] /\ v = goal[q][f]
        OBVIOUS
      <4>2. Becomes(p, v) /\ ~Sets(o, p)
        BY <2>4, <3>1, <4>1 DEF GoalInv, Sets
      <4>3. Becomes(p, v)'
        <5>1. CASE Arrives
          BY <2>3, <2>4, <4>2, <5>1, AppendedOrder
        <5>2. CASE ~Arrives
          BY <2>3, <4>2, <5>2 DEF Becomes
        <5> QED
          BY <5>1, <5>2
      <4>4. p = MirrorOf(q)[f]' /\ v = (goal[q][f])'
        BY <2>3, <3>1, <4>1 DEF MirrorOf
      <4> QED
        BY <4>1, <4>3, <4>4 DEF Becomes
    <3> QED
      BY <3>1, <3>2
  <2>7. ASSUME Arrives
        PROVE  /\ conn[s] # None /\ CommandFor(s) # "none"
               /\ goal'[s] \in [Fields(s) -> Value]
               /\ \A f \in DOMAIN MirrorOf(s) :
                     \A p, v : p = MirrorOf(s)[f] /\ v = asked[f] => Becomes(p, v)'
    <3>1. conn[s] \in Sockets(s, kind) /\ conn[s] # None /\ CommandFor(s) # "none"
      BY <1>0, <2>3 DEF Driven
    <3>3. ASSUME NEW f \in DOMAIN MirrorOf(s)
          PROVE  MirrorOf(s)[f] \in DOMAIN sets /\ sets[MirrorOf(s)[f]] = asked[f]
      <4>1. PICK M : M = Mirror(s, kind, conn[s])
        OBVIOUS
      <4>2. ~RedLight(s, kind, conn[s])
        BY <3>1, <3>3, SocketFacts DEF MirrorOf
      <4>3. DOMAIN sets = RangeOf(M) /\ \A e \in DOMAIN M : sets[M[e]] = asked[e]
        BY <2>1, <2>3, <3>1, <4>1, <4>2, ParserMatchesMirror
      <4> QED
        BY <3>3, <4>1, <4>3 DEF MirrorOf, RangeOf
    <3>4. \A f \in DOMAIN MirrorOf(s) :
             Sets(o, MirrorOf(s)[f]) /\ o.sets[MirrorOf(s)[f]] = asked[f]
      BY <2>4, <3>3 DEF Sets
    <3>5. orders' = Append(orders, o) /\ device' = device
      BY <2>3, <2>7
    <3>6. ASSUME NEW f \in DOMAIN MirrorOf(s), NEW p, NEW v, p = MirrorOf(s)[f], v = asked[f]
          PROVE  Becomes(p, v)'
      BY <2>4, <3>4, <3>5, <3>6, AppendedOrder
    <3> QED
      BY <2>3, <2>5, <2>7, <3>1, <3>6
  <2> QED
    BY <2>3, <2>5, <2>6, <2>7 DEF GoalInv, MirrorOf
<1>3. ASSUME NEW s \in Source, NEW c \in Sockets(s, kind) \cup {None}, Replumb(s, c)
      PROVE  GoalInv'
  <2>1. /\ UNCHANGED <<kind, device, orders>>
        /\ goal' = [q \in Source |-> goal'[q]] /\ goal'[s] = None
        /\ \A q \in Source : q # s => goal'[q] = goal[q]
    BY <1>0, <1>3 DEF Replumb, deviceVars
  <2>2. \A q \in Source : q # s => conn'[q] = conn[q]
    BY <1>3 DEF Replumb, TypeInv, Connected
  <2>3. ASSUME NEW q \in Source, goal'[q] # None
        PROVE  /\ goal'[q] = goal[q] /\ goal[q] # None /\ MirrorOf(q)' = MirrorOf(q)
               /\ conn'[q] = conn[q]
    BY <2>1, <2>2, <2>3 DEF MirrorOf
  <2> QED
    BY <2>1, <2>3 DEF GoalInv, Becomes
<1>4. ASSUME NEW p \in Properties(kind), LocalChange(p)
      PROVE  GoalInv'
  <2>1. /\ UNCHANGED <<kind, conn, orders>> /\ goal' = WithoutGoals({p})
        /\ \A q \in Properties(kind) \ {p} : device'[q] = device[q]
    BY <1>0, <1>4 DEF LocalChange
  <2>2. goal' = [q \in Source |-> goal'[q]]
    BY <2>1 DEF WithoutGoals
  <2>3. ASSUME NEW q \in Source, goal'[q] # None
        PROVE  /\ goal'[q] = goal[q] /\ goal[q] # None
               /\ \A f \in DOMAIN MirrorOf(q) : MirrorOf(q)[f] \in Properties(kind) \ {p}
    <3>1. /\ goal'[q] = goal[q] /\ goal[q] # None
          /\ \A f \in DOMAIN MirrorOf(q) : MirrorOf(q)[f] \notin {p}
      BY <2>1, <2>3, GoalsLeft
    <3>2. conn[q] # None
      BY <3>1 DEF GoalInv
    <3> QED
      BY <1>1, <3>1, <3>2
  <2>4. ASSUME NEW q \in Source, goal'[q] # None, NEW f \in DOMAIN MirrorOf(q)
        PROVE  Becomes(MirrorOf(q)[f], goal[q][f])'
    <3>1. PICK r, v : r = MirrorOf(q)[f] /\ v = goal[q][f]
      OBVIOUS
    <3>2. Becomes(r, v) /\ device'[r] = device[r]
      BY <2>1, <2>3, <2>4, <3>1 DEF GoalInv
    <3>3. Becomes(r, v)'
      BY <2>1, <3>2 DEF Becomes
    <3>4. r = MirrorOf(q)[f]' /\ v = (goal[q][f])'
      BY <2>1, <2>3, <2>4, <3>1 DEF MirrorOf
    <3> QED
      BY <3>3, <3>4 DEF Becomes
  <2> QED
    BY <2>1, <2>2, <2>3, <2>4, GoalsKept
<1>5. CASE Execute
  <2>1. UNCHANGED <<kind, conn, goal>>
    BY <1>5 DEF Execute
  <2>2. ASSUME NEW q \in Source, goal'[q] # None, NEW f \in DOMAIN MirrorOf(q)
        PROVE  Becomes(MirrorOf(q)[f], goal[q][f])'
    <3>1. PICK r, v : r = MirrorOf(q)[f] /\ v = goal[q][f]
      OBVIOUS
    <3>2. goal[q] # None /\ conn[q] # None
      BY <2>1, <2>2 DEF GoalInv
    <3>3. Becomes(r, v) /\ r \in Properties(kind)
      BY <1>1, <3>1, <3>2 DEF GoalInv
    <3>4. Becomes(r, v)'
      BY <1>5, <3>3, ExecutedOrder
    <3>5. r = MirrorOf(q)[f]' /\ v = (goal[q][f])'
      BY <2>1, <3>1 DEF MirrorOf
    <3> QED
      BY <3>4, <3>5 DEF Becomes
  <2> QED
    BY <1>0, <2>1, <2>2, GoalsKept
<1>6. CASE Reconnect
  <2> DEFINE ps == UNION {DOMAIN orders[i].sets : i \in 1..Len(orders)}
  <2>1. /\ UNCHANGED <<kind, device, conn>> /\ goal' = WithoutGoals(ps)
        /\ orders' = <<Order(Nothing, None)>>
    BY <1>6 DEF Reconnect, FirstOrders, deviceVars
  <2>2. goal' = [q \in Source |-> goal'[q]]
    BY <2>1 DEF WithoutGoals
  <2>3. /\ Len(orders') = 1 /\ \A i \in 1..Len(orders') : orders'[i] = Order(Nothing, None)
    BY <2>1
  <2>4. \A p : ~Sets(Order(Nothing, None), p)
    BY DEF Sets, Order, Nothing
  <2>5. \A p : (\A i \in 1..Len(orders) : ~Sets(orders[i], p)) <=> p \notin ps
    BY DEF Sets
  <2>6. ASSUME NEW q \in Source, goal'[q] # None
        PROVE  /\ goal'[q] = goal[q] /\ goal[q] # None
               /\ \A f \in DOMAIN MirrorOf(q) : MirrorOf(q)[f] \notin ps
    BY <2>1, <2>6, GoalsLeft
  <2> HIDE DEF ps
  <2>7. ASSUME NEW q \in Source, goal'[q] # None, NEW f \in DOMAIN MirrorOf(q)
        PROVE  Becomes(MirrorOf(q)[f], goal[q][f])'
    <3>1. PICK r, v : r = MirrorOf(q)[f] /\ v = goal[q][f]
      OBVIOUS
    <3>2. Becomes(r, v) /\ r \notin ps
      BY <2>6, <2>7, <3>1 DEF GoalInv
    <3>3. device[r] = v
      BY <2>5, <3>2 DEF Becomes
    <3>4. Becomes(r, v)'
      BY <2>1, <2>3, <2>4, <3>3 DEF Becomes
    <3>5. r = MirrorOf(q)[f]' /\ v = (goal[q][f])'
      BY <2>1, <2>6, <2>7, <3>1 DEF MirrorOf
    <3> QED
      BY <3>4, <3>5 DEF Becomes
  <2> QED
    BY <2>1, <2>2, <2>6, <2>7, GoalsKept
<1>7. CASE ModeCheck
  <2>1. UNCHANGED <<kind, device, conn, goal>>
    BY <1>7 DEF ModeCheck, deviceVars
  <2>2. CASE orders' = orders
    BY <2>1, <2>2 DEF GoalInv, Becomes, MirrorOf
  <2>3. CASE orders' = Append(orders, Order(Nothing, Calculated))
    <3>1. PICK o : o = Order(Nothing, Calculated)
      OBVIOUS
    <3>2. o \in OrderSet(kind) /\ \A p : ~Sets(o, p)
      BY <3>1, OrderTyped DEF Sets, Order, Nothing
    <3>3. ASSUME NEW q \in Source, goal'[q] # None, NEW f \in DOMAIN MirrorOf(q)
          PROVE  Becomes(MirrorOf(q)[f], goal[q][f])'
      <4>1. PICK r, v : r = MirrorOf(q)[f] /\ v = goal[q][f]
        OBVIOUS
      <4>2. Becomes(r, v)
        BY <2>1, <3>3, <4>1 DEF GoalInv
      <4>3. Becomes(r, v)'
        BY <2>1, <2>3, <3>1, <3>2, <4>2, AppendedOrder
      <4>4. r = MirrorOf(q)[f]' /\ v = (goal[q][f])'
        BY <2>1, <4>1 DEF MirrorOf
      <4> QED
        BY <4>3, <4>4 DEF Becomes
    <3> QED
      BY <1>0, <2>1, <3>3, GoalsKept
  <2> QED
    BY <1>7, <2>2, <2>3 DEF ModeCheck, Ordered
<1>10. ASSUME NEW o \in RawOrders, RawCommand(o)
       PROVE  GoalInv'
  <2>1. /\ UNCHANGED <<kind, device, conn>> /\ goal' = WithoutGoals(DOMAIN o.sets)
        /\ orders' = IF Arrives THEN Append(orders, o) ELSE orders
        /\ o \in OrderSet(kind)
    BY <1>10, RawTyped DEF RawCommand, Ordered, deviceVars
  <2>2. goal' = [q \in Source |-> goal'[q]]
    BY <2>1 DEF WithoutGoals
  <2>3. ASSUME NEW q \in Source, goal'[q] # None
        PROVE  /\ goal'[q] = goal[q] /\ goal[q] # None
               /\ \A f \in DOMAIN MirrorOf(q) : MirrorOf(q)[f] \notin DOMAIN o.sets
    BY <2>1, <2>3, GoalsLeft
  <2>4. ASSUME NEW q \in Source, goal'[q] # None, NEW f \in DOMAIN MirrorOf(q)
        PROVE  Becomes(MirrorOf(q)[f], goal[q][f])'
    <3>1. PICK x, v : x = MirrorOf(q)[f] /\ v = goal[q][f]
      OBVIOUS
    <3>2. Becomes(x, v) /\ ~Sets(o, x)
      BY <2>3, <2>4, <3>1 DEF GoalInv, Sets
    <3>3. Becomes(x, v)'
      <4>1. CASE Arrives
        BY <2>1, <3>2, <4>1, AppendedOrder
      <4>2. CASE ~Arrives
        BY <2>1, <3>2, <4>2 DEF Becomes
      <4> QED
        BY <4>1, <4>2
    <3>4. x = MirrorOf(q)[f]' /\ v = (goal[q][f])'
      BY <2>1, <2>3, <2>4, <3>1 DEF MirrorOf
    <3> QED
      BY <3>3, <3>4 DEF Becomes
  <2> QED
    BY <2>1, <2>2, <2>3, <2>4, GoalsKept
<1>8. CASE UNCHANGED <<kind, device, orders, goal, conn>>
  BY <1>8 DEF GoalInv, Becomes, MirrorOf
<1>9. ASSUME \/ OtherDeviceReports \/ HandleUpdate \/ Crash \/ LinkFails \/ UNCHANGED vars
             \/ \E s \in Source : \E wish \in Wish : UnreadableCommand(s, wish)
      PROVE  UNCHANGED <<kind, device, orders, goal, conn>>
  BY <1>9 DEF UnreadableCommand, OtherDeviceReports, HandleUpdate, Crash, LinkFails, vars, deviceVars
<1> QED
  BY <1>2, <1>3, <1>4, <1>5, <1>6, <1>7, <1>8, <1>9, <1>10 DEF Next

LEMMA CommandsAreNoDetectors ==
    ASSUME NEW s, CommandFor(s) # "none"
    PROVE  s \notin Detectors
BY DEF CommandFor, Switches, Shutters, Detectors

LEMMA GoalsInitially ==
    ASSUME Init
    PROVE  GoalInv
BY DEF Init, GoalInv

\* What a command that arrived asked of a source is what the source shows once
\* its orders are carried out and its reports handled, for every number of
\* commands, orders and reports under way at once.
THEOREM CommandsComeBack == Spec => []CommandComesBack
<1>1. ASSUME TypeInv, TopicIsTrue, SourceMirrorsTopic, CrashIsRepaired, GoalInv
      PROVE  CommandComesBack
  <2>1. SUFFICES ASSUME NEW s \in current, goal[s] # None, orders = <<>>, Quiet,
                        DOMAIN MirrorOf(s) # {}, linked \/ s \notin skipped
                 PROVE  source[s] = goal[s]
    BY DEF CommandComesBack
  <2>2. /\ s \in Source /\ conn[s] # None /\ conn[s] \in Sockets(s, kind)
        /\ s \notin Detectors /\ goal[s] \in [Fields(s) -> Value]
    BY <1>1, <2>1, CommandsAreNoDetectors DEF TypeInv, Connected, GoalInv
  <2>3. /\ source[s] = [f \in Fields(s) |-> source[s][f]]
        /\ DOMAIN MirrorOf(s) = Fields(s)
    BY <1>1, <2>1, <2>2, MirrorIsWhole DEF TypeInv, MirrorOf
  <2>6. s \notin skipped
    BY <1>1, <2>1, <2>2 DEF CrashIsRepaired, Quiet, RangeOf
  <2>4. ASSUME NEW f \in Fields(s)
        PROVE  source[s][f] = goal[s][f]
    <3>1. source[s][f] = topic.values[MirrorOf(s)[f]]
      BY <1>1, <2>1, <2>2, <2>3, <2>6 DEF SourceMirrorsTopic
    <3>2. topic.values = device
      BY <1>1, <2>1 DEF TopicIsTrue
    <3>3. device[MirrorOf(s)[f]] = goal[s][f]
      BY <1>1, <2>1, <2>2, <2>3 DEF GoalInv, Becomes
    <3> QED
      BY <3>1, <3>2, <3>3
  <2> QED
    BY <2>2, <2>3, <2>4
<1>2. Init => TypeInv /\ GoalInv
  BY TypesInitially, GoalsInitially
<1>3. TypeInv /\ GoalInv /\ [Next]_vars => (TypeInv /\ GoalInv)'
  BY TypesStep, GoalsStep
<1> QED
  BY <1>1, <1>2, <1>3, TopicTrue, SourcesMirror, CrashesAreRepaired, PTL DEF Spec
=============================================================================
