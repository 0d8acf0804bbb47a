----------------------- MODULE BroadcastChannelProofs ------------------------
(***************************************************************************)
(* The two forms of BroadcastChannel are the same channel: what one        *)
(* receiver has not read and can still read is a part of the log, and      *)
(* sending and reading do to it what they do to the log and the position.  *)
(***************************************************************************)
EXTENDS BroadcastChannel, SequenceTheorems, TLAPS

\* Messages the receiver is past, or that are no longer retained for it.
Past(log, pos) == IF Lagged(log, pos) THEN Len(log) - Capacity ELSE pos

\* What a receiver at pos will read from the log.
Unread(log, pos) == [i \in 1..Len(log) - Past(log, pos) |-> log[Past(log, pos) + i]]

LEMMA UnreadFacts ==
    ASSUME NEW X, NEW log \in Seq(X), NEW pos \in 0..Len(log)
    PROVE  /\ Past(log, pos) \in pos..Len(log)
           /\ Unread(log, pos) \in Seq(X)
           /\ Len(Unread(log, pos)) = Len(log) - Past(log, pos)
           /\ Len(Unread(log, pos)) <= Capacity
           /\ \A i \in 1..Len(log) - Past(log, pos) :
                 Unread(log, pos)[i] = log[Past(log, pos) + i]
<1> DEFINE p == Past(log, pos)
           n == Len(log) - p
           u == Unread(log, pos)
<1>1. Len(log) \in Nat /\ Capacity \in Nat \ {0}
  BY LenProperties, BroadcastAssumption
<1>2. p \in pos..Len(log) /\ n \in Nat /\ n <= Capacity
  BY <1>1 DEF Past, Lagged
<1> HIDE DEF p
<1>3. u = [i \in 1..n |-> log[p + i]]
  BY DEF Unread, p
<1>4. \A i \in 1..n : p + i \in 1..Len(log)
  BY <1>1, <1>2
<1>5. \A i \in 1..n : log[p + i] \in X
  BY <1>4, ElementOfSeq
<1> HIDE DEF u, n
<1>6. u \in Seq(X) /\ Len(u) = n
  BY <1>2, <1>3, <1>5
<1> QED
  BY <1>2, <1>3, <1>6 DEF p, n, u

\* Both forms of the channel have the same messages to read, and the same room.
THEOREM SameToRead ==
    ASSUME NEW X, NEW log \in Seq(X), NEW pos \in 0..Len(log)
    PROVE  /\ Readable(log, pos) <=> Unread(log, pos) # <<>>
           /\ Overwrites(Unread(log, pos)) <=> pos + Capacity <= Len(log)
<1> DEFINE u == Unread(log, pos)
           p == Past(log, pos)
<1>1. Len(log) \in Nat /\ Capacity \in Nat \ {0}
  BY LenProperties, BroadcastAssumption
<1>2. u \in Seq(X) /\ Len(u) = Len(log) - p
  BY UnreadFacts
<1>3. u # <<>> <=> Len(u) # 0
  BY <1>2, EmptySeq
<1>4. p = IF pos + Capacity < Len(log) THEN Len(log) - Capacity ELSE pos
  BY DEF Past, Lagged
<1> HIDE DEF u, p
<1>5. u # <<>> <=> pos < Len(log)
  BY <1>1, <1>2, <1>3, <1>4
<1>6. Len(u) = Capacity <=> pos + Capacity <= Len(log)
  BY <1>1, <1>2, <1>4
<1> QED
  BY <1>5, <1>6 DEF Readable, Overwrites, u

\* A message sent to the log is sent to what each of its receivers can read: the
\* one that is overwritten for it is the oldest it retains.
THEOREM SentToBoth ==
    ASSUME NEW X, NEW log \in Seq(X), NEW pos \in 0..Len(log), NEW m \in X
    PROVE  Unread(Append(log, m), pos) = Sent(Unread(log, pos), m)
<1> DEFINE L == Append(log, m)
           u == Unread(log, pos)
           v == Unread(L, pos)
           p == Past(log, pos)
           q == Past(L, pos)
<1>1. /\ Len(log) \in Nat /\ Capacity \in Nat \ {0}
      /\ L \in Seq(X) /\ Len(L) = Len(log) + 1
      /\ \A i \in 1..Len(log) : L[i] = log[i]
      /\ L[Len(log) + 1] = m
  BY LenProperties, AppendProperties, BroadcastAssumption
<1> HIDE DEF L
<1>2. pos \in 0..Len(L)
  BY <1>1
<1>3. /\ u \in Seq(X) /\ Len(u) = Len(log) - p /\ p \in pos..Len(log)
      /\ \A i \in 1..Len(log) - p : u[i] = log[p + i]
  BY UnreadFacts
<1>4. /\ v \in Seq(X) /\ Len(v) = Len(L) - q /\ q \in pos..Len(L)
      /\ \A i \in 1..Len(L) - q : v[i] = L[q + i]
  BY <1>1, <1>2, UnreadFacts
<1>5. Overwrites(u) <=> pos + Capacity <= Len(log)
  BY SameToRead
<1>6. /\ p = IF pos + Capacity < Len(log) THEN Len(log) - Capacity ELSE pos
      /\ q = IF pos + Capacity < Len(log) + 1 THEN Len(log) + 1 - Capacity ELSE pos
  BY <1>1 DEF Past, Lagged
<1> HIDE DEF u, v, p, q
<1>7. CASE Overwrites(u)
  <2>1. q = p + 1 /\ Len(u) = Capacity
    BY <1>1, <1>3, <1>5, <1>6, <1>7 DEF Overwrites
  <2>2. u # <<>>
    BY <1>1, <1>3, <2>1, EmptySeq
  <2>3. /\ Tail(u) \in Seq(X) /\ Len(Tail(u)) = Len(u) - 1
        /\ \A i \in 1..Len(u) - 1 : Tail(u)[i] = u[i + 1]
    BY <1>3, <2>2
  <2> DEFINE t == Tail(u)
             w == Append(t, m)
  <2>4. /\ w \in Seq(X) /\ Len(w) = Len(t) + 1
        /\ \A i \in 1..Len(t) : w[i] = t[i]
        /\ w[Len(t) + 1] = m
        /\ Len(t) = Len(u) - 1
        /\ \A i \in 1..Len(u) - 1 : t[i] = u[i + 1]
    BY <2>3, AppendProperties
  <2> HIDE DEF w, t
  <2>5. Len(v) = Len(w) /\ Len(t) = Len(log) - p - 1 /\ Len(v) = Len(log) - p
    <3>1. p \in Int /\ Len(log) \in Int
      BY <1>1, <1>3
    <3>2. Len(v) = Len(log) + 1 - (p + 1)
      BY <1>1, <1>4, <2>1
    <3>3. Len(u) = Len(log) - p
      BY <1>3
    <3>4. Len(t) = Len(u) - 1 /\ Len(w) = Len(t) + 1
      BY <2>4
    <3> QED
      BY <3>1, <3>2, <3>3, <3>4
  <2>6. ASSUME NEW i \in 1..Len(v)
        PROVE  v[i] = w[i]
    <3>1. CASE i = Len(v)
      <4>1. v[i] = L[q + i] /\ q + i = Len(log) + 1
        BY <1>1, <1>3, <1>4, <2>1, <2>5, <3>1
      <4>2. i = Len(t) + 1
        BY <1>1, <1>3, <2>5, <3>1
      <4> QED
        BY <1>1, <2>4, <4>1, <4>2
    <3>2. CASE i # Len(v)
      <4>1. i \in 1..Len(t) /\ i \in 1..Len(u) - 1 /\ i + 1 \in 1..Len(log) - p
        BY <1>1, <1>3, <2>4, <2>5, <3>2
      <4>2. w[i] = u[i + 1]
        BY <2>4, <4>1
      <4>3. u[i + 1] = log[p + (i + 1)]
        BY <1>3, <4>1
      <4>4. q + i = p + (i + 1) /\ q + i \in 1..Len(log) /\ i \in 1..Len(L) - q
        BY <1>1, <1>3, <1>4, <2>1, <4>1
      <4>5. v[i] = L[q + i] /\ L[q + i] = log[q + i]
        BY <1>1, <1>4, <4>4
      <4> QED
        BY <4>2, <4>3, <4>4, <4>5
    <3> QED
      BY <3>1, <3>2
  <2>7. v = w
    BY <1>4, <2>4, <2>5, <2>6, SeqEqual
  <2> QED
    BY <1>7, <2>7 DEF Sent, w, t, u, v, L
<1>8. CASE ~Overwrites(u)
  <2>1. q = p
    BY <1>1, <1>5, <1>6, <1>8
  <2> DEFINE w == Append(u, m)
  <2>2. /\ w \in Seq(X) /\ Len(w) = Len(u) + 1
        /\ \A i \in 1..Len(u) : w[i] = u[i]
        /\ w[Len(u) + 1] = m
    BY <1>3, AppendProperties
  <2> HIDE DEF w
  <2>3. Len(v) = Len(w) /\ Len(v) = Len(log) - p + 1
    BY <1>1, <1>3, <1>4, <2>1, <2>2
  <2>4. ASSUME NEW i \in 1..Len(v)
        PROVE  v[i] = w[i]
    <3>1. CASE i = Len(v)
      <4>1. v[i] = L[q + i] /\ q + i = Len(log) + 1 /\ i = Len(u) + 1
        BY <1>1, <1>3, <1>4, <2>1, <2>3, <3>1
      <4> QED
        BY <1>1, <2>2, <4>1
    <3>2. CASE i # Len(v)
      <4>1. i \in 1..Len(u) /\ i \in 1..Len(log) - p /\ p + i \in 1..Len(log)
            /\ i \in 1..Len(L) - q
        BY <1>1, <1>3, <1>4, <2>3, <3>2
      <4> QED
        BY <1>1, <1>3, <1>4, <2>1, <2>2, <4>1
    <3> QED
      BY <3>1, <3>2
  <2>5. v = w
    BY <1>4, <2>2, <2>3, <2>4, SeqEqual
  <2> QED
    BY <1>8, <2>5 DEF Sent, w, u, v, L
<1> QED
  BY <1>7, <1>8

\* A receiver that lags gets an error, which changes nothing in what it will
\* read, so a reader may ignore it; otherwise it takes the first of what is
\* there to read.
THEOREM ReadFromBoth ==
    ASSUME NEW X, NEW log \in Seq(X), NEW pos \in 0..Len(log), Readable(log, pos)
    PROVE  /\ AfterRecv(log, pos) \in 0..Len(log)
           /\ Lagged(log, pos) =>
                 /\ ~Lagged(log, AfterRecv(log, pos))
                 /\ Unread(log, AfterRecv(log, pos)) = Unread(log, pos)
           /\ ~Lagged(log, pos) =>
                 /\ Head(Unread(log, pos)) = log[pos + 1]
                 /\ Unread(log, AfterRecv(log, pos)) = Tail(Unread(log, pos))
<1> DEFINE next == AfterRecv(log, pos)
           u == Unread(log, pos)
           v == Unread(log, next)
           p == Past(log, pos)
           q == Past(log, next)
<1>1. Len(log) \in Nat /\ Capacity \in Nat \ {0} /\ pos < Len(log)
  BY LenProperties, BroadcastAssumption DEF Readable
<1>2. next \in 0..Len(log)
  BY <1>1 DEF AfterRecv, Lagged
<1>3. CASE Lagged(log, pos)
  <2>1. next = Len(log) - Capacity /\ p = next
    BY <1>3 DEF AfterRecv, Past
  <2>2. ~Lagged(log, next)
    BY <1>1, <1>2, <2>1 DEF Lagged
  <2>3. q = p
    BY <2>1, <2>2 DEF Past
  <2> HIDE DEF next
  <2>4. v = u
    BY <2>3 DEF Unread
  <2> QED
    BY <1>2, <1>3, <2>2, <2>4 DEF next
<1>4. CASE ~Lagged(log, pos)
  <2>1. next = pos + 1 /\ p = pos
    BY <1>4 DEF AfterRecv, Past
  <2>2. q = pos + 1
    BY <1>1, <1>2, <1>4, <2>1 DEF Lagged, Past
  <2>3. /\ u \in Seq(X) /\ Len(u) = Len(log) - p
        /\ \A i \in 1..Len(log) - p : u[i] = log[p + i]
    BY UnreadFacts
  <2> HIDE DEF next
  <2>4. /\ v \in Seq(X) /\ Len(v) = Len(log) - q
        /\ \A i \in 1..Len(log) - q : v[i] = log[q + i]
    BY <1>2, UnreadFacts
  <2>5. u # <<>>
    BY SameToRead
  <2> HIDE DEF u, v, p, q
  <2> DEFINE t == Tail(u)
  <2>6. /\ Head(u) = u[1] /\ t \in Seq(X) /\ Len(t) = Len(u) - 1
        /\ \A i \in 1..Len(u) - 1 : t[i] = u[i + 1]
    BY <2>3, <2>5
  <2> HIDE DEF t
  <2>7. Len(v) = Len(log) - pos - 1 /\ Len(t) = Len(v)
    BY <1>1, <2>1, <2>2, <2>3, <2>4, <2>6
  <2>8. ASSUME NEW i \in 1..Len(v)
        PROVE  v[i] = t[i]
    <3>1. i \in 1..Len(u) - 1 /\ i + 1 \in 1..Len(log) - p /\ i \in 1..Len(log) - q
      BY <1>1, <2>1, <2>2, <2>3, <2>7
    <3>2. q + i = p + (i + 1)
      BY <1>1, <2>1, <2>2, <3>1
    <3> QED
      BY <2>3, <2>4, <2>6, <3>1, <3>2
  <2>9. v = t
    BY <2>4, <2>6, <2>7, <2>8, SeqEqual
  <2>10. Head(u) = log[pos + 1]
    <3>1. 1 \in 1..Len(log) - p
      BY <1>1, <2>1
    <3> QED
      BY <2>1, <2>3, <2>6, <3>1
  <2> QED
    BY <1>2, <1>4, <2>9, <2>10 DEF t, u, v, next
<1> QED
  BY <1>3, <1>4
=============================================================================
