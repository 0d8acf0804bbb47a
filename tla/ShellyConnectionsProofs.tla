---------------------- MODULE ShellyConnectionsProofs -----------------------
(***************************************************************************)
(* Proofs about ShellyConnections, for every set of addresses and every    *)
(* number of devices a mode check finds in the wrong mode.                 *)
(***************************************************************************)
EXTENDS ShellyConnections, FiniteSetTheorems, SequenceTheorems,
        WellFoundedInduction, TLAPS

-----------------------------------------------------------------------------
(***************************************************************************)
(* Counting upwards: loops over a list are recursive functions, and what   *)
(* they compute is shown by the least number at which it would fail.       *)
(***************************************************************************)

LEMMA LeastNumber ==
    ASSUME NEW T \in SUBSET Nat, T # {}
    PROVE  \E m \in T : \A k \in T : m <= k
<1>1. PICK m \in T : \A k \in T : ~ (<<k, m>> \in OpToRel(<, Nat))
  BY NatLessThanWellFounded, WFMin
<1>2. OpToRel(<, Nat) = {ss \in Nat \X Nat : ss[1] < ss[2]}
  BY Zenon DEF OpToRel
<1>3. \A k \in T : ~ (<<k, m>> \in {ss \in Nat \X Nat : ss[1] < ss[2]})
  BY <1>1, <1>2, Zenon
<1>4. \A k \in T : ~ (k < m)
  BY <1>3
<1> QED
  BY <1>4

LEMMA CountingUp ==
    ASSUME NEW n \in Nat, NEW T, 0 \in T,
           \A k \in 1..n : k - 1 \in T => k \in T
    PROVE  0..n \subseteq T
<1> SUFFICES ASSUME NEW x \in (0..n) \ T
             PROVE  FALSE
  OBVIOUS
<1>1. PICK m \in (0..n) \ T : \A k \in (0..n) \ T : m <= k
  <2>1. (0..n) \ T \in SUBSET Nat /\ (0..n) \ T # {}
    OBVIOUS
  <2> QED
    BY <2>1, LeastNumber
<1>2. m \in 1..n /\ m - 1 \in 0..n
  BY <1>1
<1>3. m - 1 \in T
  BY <1>1, <1>2
<1> QED
  BY <1>1, <1>2, <1>3

\* A loop that starts with a and makes the step g n times has a run.
LEMMA LoopRuns ==
    ASSUME NEW X, NEW a \in X, NEW n \in Nat, NEW g \in [X \X (1..n) -> X]
    PROVE  \E f \in [0..n -> X] : /\ f[0] = a
                                  /\ \A k \in 1..n : f[k] = g[<<f[k - 1], k>>]
<1> DEFINE Run(m, f) == /\ f \in [0..m -> X]
                        /\ f[0] = a
                        /\ \A k \in 1..m : f[k] = g[<<f[k - 1], k>>]
           T == {m \in 0..n : \E f : Run(m, f)}
<1>1. 0 \in T
  <2>1. Run(0, [k \in 0..0 |-> a])
    OBVIOUS
  <2> HIDE DEF Run
  <2> QED
    BY <2>1
<1>2. ASSUME NEW k \in 1..n, k - 1 \in T
      PROVE  k \in T
  <2>1. PICK f : Run(k - 1, f)
    BY <1>2
  <2> DEFINE f2 == [i \in 0..k |-> IF i = k THEN g[<<f[k - 1], k>>] ELSE f[i]]
  <2>2. f[k - 1] \in X /\ g[<<f[k - 1], k>>] \in X
    BY <2>1
  <2>3. f2 \in [0..k -> X] /\ f2[0] = a
    BY <2>1, <2>2
  <2>4. ASSUME NEW i \in 1..k
        PROVE  f2[i] = g[<<f2[i - 1], i>>]
    <3>1. CASE i = k
      BY <2>1, <3>1
    <3>2. CASE i # k
      BY <2>1, <3>2
    <3> QED
      BY <3>1, <3>2
  <2>5. Run(k, f2)
    BY <2>3, <2>4
  <2> HIDE DEF Run, f2
  <2> QED
    BY <2>5
<1>3. n \in T
  <2> HIDE DEF T
  <2>1. 0..n \subseteq T
    BY <1>1, <1>2, CountingUp
  <2> QED
    BY <2>1
<1> QED
  BY <1>3

-----------------------------------------------------------------------------
(***************************************************************************)
(* The indices a mode check collects                                       *)
(***************************************************************************)

\* s lists the members of W up to n in ascending order.
Lists(s, n, W) ==
    /\ s \in Seq(Nat)
    /\ \A i, j \in 1..Len(s) : i < j => s[i] < s[j]
    /\ \A j \in 1..Len(s) : s[j] \in 1..n /\ s[j] \in W
    /\ \A i \in 1..n : i \in W => \E j \in 1..Len(s) : s[j] = i

LEMMA ListsNone == ASSUME NEW W PROVE Lists(<<>>, 0, W)
BY DEF Lists

LEMMA ListsOneMore ==
    ASSUME NEW n \in Nat \ {0}, NEW W, NEW s, Lists(s, n - 1, W)
    PROVE  Lists(IF n \in W THEN Append(s, n) ELSE s, n, W)
<1>1. /\ s \in Seq(Nat) /\ Len(s) \in Nat
      /\ \A i, j \in 1..Len(s) : i < j => s[i] < s[j]
      /\ \A j \in 1..Len(s) : s[j] \in 1..n - 1 /\ s[j] \in W
      /\ \A i \in 1..n - 1 : i \in W => \E j \in 1..Len(s) : s[j] = i
  BY LenProperties DEF Lists
<1>2. CASE n \in W
  <2> DEFINE t == Append(s, n)
             m == Len(s)
  <2>1. /\ t \in Seq(Nat) /\ Len(t) = m + 1 /\ t[m + 1] = n
        /\ \A i \in 1..m : t[i] = s[i]
    BY <1>1, AppendProperties
  <2>2. m \in Nat /\ n \in Nat
    BY <1>1
  <2> HIDE DEF t, m
  <2>3. \A j \in 1..m : t[j] \in 1..n - 1 /\ t[j] \in W
    BY <1>1, <2>1 DEF m
  <2>4. \A j \in 1..m + 1 : j \in 1..m \/ j = m + 1
    BY <2>2
  <2>5. \A j \in 1..m + 1 : t[j] \in 1..n /\ t[j] \in W
    BY <1>2, <2>1, <2>2, <2>3, <2>4
  <2>6. ASSUME NEW i \in 1..m + 1, NEW j \in 1..m + 1, i < j
        PROVE  t[i] < t[j]
    <3>1. i \in 1..m
      BY <2>2, <2>6
    <3>2. CASE j = m + 1
      BY <2>1, <2>2, <2>3, <3>1, <3>2
    <3>3. CASE j \in 1..m
      BY <1>1, <2>1, <2>6, <3>1, <3>3 DEF m
    <3> QED
      BY <2>4, <3>2, <3>3
  <2>7. ASSUME NEW i \in 1..n, i \in W
        PROVE  \E j \in 1..m + 1 : t[j] = i
    <3>1. CASE i = n
      BY <2>1, <2>2, <3>1
    <3>2. CASE i # n
      <4>1. PICK j \in 1..m : s[j] = i
        BY <1>1, <2>2, <2>7, <3>2 DEF m
      <4> QED
        BY <2>1, <2>2, <4>1
    <3> QED
      BY <3>1, <3>2
  <2>8. Lists(t, n, W)
    BY <2>1, <2>5, <2>6, <2>7 DEF Lists
  <2> QED
    BY <1>2, <2>8 DEF t
<1>3. CASE n \notin W
  <2>1. \A i \in 1..n : i \in W => i \in 1..n - 1
    BY <1>3
  <2>2. \A j \in 1..Len(s) : s[j] \in 1..n /\ s[j] \in W
    BY <1>1
  <2>3. Lists(s, n, W)
    BY <1>1, <2>1, <2>2 DEF Lists
  <2> QED
    BY <1>3, <2>3
<1> QED
  BY <1>2, <1>3

\* The loop that collects the members of W up to n.
CollectLoop(ids, n, W) ==
    ids = [k \in 0..n |-> IF k = 0 THEN <<>>
                          ELSE IF k \in W THEN Append(ids[k - 1], k)
                          ELSE ids[k - 1]]

LEMMA CollectLoopLists ==
    ASSUME NEW n \in Nat, NEW W, NEW ids, CollectLoop(ids, n, W)
    PROVE  Lists(ids[n], n, W)
<1> DEFINE T == {k \in 0..n : Lists(ids[k], k, W)}
<1>1. 0 \in T
  <2>1. ids[0] = <<>>
    BY DEF CollectLoop
  <2> QED
    BY <2>1, ListsNone
<1>2. ASSUME NEW k \in 1..n, k - 1 \in T
      PROVE  k \in T
  <2>1. ids[k] = IF k \in W THEN Append(ids[k - 1], k) ELSE ids[k - 1]
    <3> DEFINE run == [i \in 0..n |-> IF i = 0 THEN <<>>
                                      ELSE IF i \in W THEN Append(ids[i - 1], i)
                                      ELSE ids[i - 1]]
    <3>1. run[k] = IF k \in W THEN Append(ids[k - 1], k) ELSE ids[k - 1]
      OBVIOUS
    <3>2. ids = run
      BY Zenon DEF CollectLoop
    <3> HIDE DEF run
    <3> QED
      BY <3>1, <3>2
  <2>2. Lists(ids[k - 1], k - 1, W) /\ k \in Nat \ {0}
    BY <1>2
  <2>3. Lists(ids[k], k, W)
    BY <2>1, <2>2, ListsOneMore
  <2> QED
    BY <2>3
<1> HIDE DEF T
<1>3. 0..n \subseteq T
  BY <1>1, <1>2, CountingUp
<1>4. n \in T
  BY <1>3
<1> QED
  BY <1>4 DEF T

LEMMA CollectLoopRuns ==
    ASSUME NEW n \in Nat, NEW W
    PROVE  \E ids : CollectLoop(ids, n, W)
<1> DEFINE g == [p \in Seq(Nat) \X (1..n) |-> IF p[2] \in W THEN Append(p[1], p[2]) ELSE p[1]]
<1>1. g \in [Seq(Nat) \X (1..n) -> Seq(Nat)]
  <2>1. ASSUME NEW p \in Seq(Nat) \X (1..n)
        PROVE  (IF p[2] \in W THEN Append(p[1], p[2]) ELSE p[1]) \in Seq(Nat)
    BY AppendProperties
  <2> QED
    BY <2>1
<1>2. ASSUME NEW s \in Seq(Nat), NEW k \in 1..n
      PROVE  g[<<s, k>>] = IF k \in W THEN Append(s, k) ELSE s
  OBVIOUS
<1> HIDE DEF g
<1>3. <<>> \in Seq(Nat)
  OBVIOUS
<1>4. PICK f \in [0..n -> Seq(Nat)] : /\ f[0] = <<>>
                                      /\ \A k \in 1..n : f[k] = g[<<f[k - 1], k>>]
  <2> DEFINE X == Seq(Nat)
             none == <<>>
  <2>1. g \in [X \X (1..n) -> X] /\ none \in X
    BY <1>1, <1>3
  <2> HIDE DEF X, none
  <2>2. \E f \in [0..n -> X] : /\ f[0] = none
                               /\ \A k \in 1..n : f[k] = g[<<f[k - 1], k>>]
    BY <2>1, LoopRuns
  <2> QED
    BY <2>2 DEF X, none
<1>5. ASSUME NEW k \in 0..n
      PROVE  f[k] = IF k = 0 THEN <<>>
                    ELSE IF k \in W THEN Append(f[k - 1], k)
                    ELSE f[k - 1]
  <2>1. CASE k = 0
    BY <1>4, <2>1
  <2>2. CASE k # 0
    <3>1. k \in 1..n /\ k - 1 \in 0..n
      BY <2>2
    <3>2. f[k - 1] \in Seq(Nat)
      BY <3>1
    <3> QED
      BY <1>2, <1>4, <2>2, <3>1, <3>2
  <2> QED
    BY <2>1, <2>2
<1>6. CollectLoop(f, n, W)
  <2>1. f = [k \in 0..n |-> f[k]]
    OBVIOUS
  <2> QED
    BY <1>5, <2>1 DEF CollectLoop
<1> QED
  BY <1>6

\* What a mode check collects: the indices of the devices in the wrong mode,
\* in ascending order.
LEMMA CollectsTheWrong ==
    ASSUME NEW wrong, Len(shelly_list) \in Nat
    PROVE  Lists(ToRemove(wrong), Len(shelly_list),
                 {i \in Indices : AddressOf(shelly_list[i]) \in wrong})
<1> DEFINE n == Len(shelly_list)
           W == {i \in Indices : AddressOf(shelly_list[i]) \in wrong}
           Run(ids) == ids = [k \in 0..n |->
                                IF k = 0 THEN <<>>
                                ELSE IF AddressOf(shelly_list[k]) \in wrong
                                     THEN Append(ids[k - 1], k)
                                ELSE ids[k - 1]]
           c == CHOOSE ids : Run(ids)
<1>1. \A k \in 1..n : k \in W <=> AddressOf(shelly_list[k]) \in wrong
  BY DEF Indices
<1>2. \A ids : Run(ids) <=> CollectLoop(ids, n, W)
  <2> TAKE ids
  <2>1. \A k \in 0..n : (IF k = 0 THEN <<>>
                         ELSE IF AddressOf(shelly_list[k]) \in wrong
                              THEN Append(ids[k - 1], k)
                         ELSE ids[k - 1])
                      = (IF k = 0 THEN <<>>
                         ELSE IF k \in W THEN Append(ids[k - 1], k)
                         ELSE ids[k - 1])
    <3> TAKE k \in 0..n
    <3>1. CASE k = 0
      BY <3>1
    <3>2. CASE k # 0
      <4>1. k \in 1..n
        BY <3>2
      <4> HIDE DEF W
      <4> QED
        BY <1>1, <3>2, <4>1
    <3> QED
      BY <3>1, <3>2
  <2> HIDE DEF W
  <2> DEFINE a == [k \in 0..n |-> IF k = 0 THEN <<>>
                                  ELSE IF AddressOf(shelly_list[k]) \in wrong
                                       THEN Append(ids[k - 1], k)
                                  ELSE ids[k - 1]]
             b == [k \in 0..n |-> IF k = 0 THEN <<>>
                                  ELSE IF k \in W THEN Append(ids[k - 1], k)
                                  ELSE ids[k - 1]]
  <2>2. a = b
    BY <2>1
  <2>3. Run(ids) <=> ids = a
    BY Zenon
  <2>4. CollectLoop(ids, n, W) <=> ids = b
    BY Zenon DEF CollectLoop
  <2> HIDE DEF a, b, Run
  <2> QED
    BY <2>2, <2>3, <2>4
<1>3. ToRemove(wrong) = c[n]
  BY Zenon DEF ToRemove
<1> HIDE DEF Run, W, n
<1>4. n \in Nat
  BY DEF n
<1>5. \E ids : Run(ids)
  BY <1>2, <1>4, CollectLoopRuns
<1>6. Run(c)
  BY <1>5, Zenon
<1> HIDE DEF c
<1>7. Lists(c[n], n, W)
  BY <1>2, <1>4, <1>6, CollectLoopLists
<1> QED
  BY <1>3, <1>7 DEF W, n

-----------------------------------------------------------------------------
(***************************************************************************)
(* What is left when the entries it collected are removed one by one       *)
(***************************************************************************)

LEMMA RemoveAtProperties ==
    ASSUME NEW S, NEW s \in Seq(S), NEW i \in 1..Len(s)
    PROVE  /\ RemoveAt(s, i) \in Seq(S)
           /\ Len(RemoveAt(s, i)) = Len(s) - 1
           /\ \A j \in 1..Len(s) - 1 : RemoveAt(s, i)[j] = IF j < i THEN s[j] ELSE s[j + 1]
<1> DEFINE a == SubSeq(s, 1, i - 1)
           b == SubSeq(s, i + 1, Len(s))
<1>1. Len(s) \in Nat /\ \A j \in 1..Len(s) : s[j] \in S
  BY LenProperties, ElementOfSeq
<1>2. /\ a \in Seq(S) /\ Len(a) = i - 1
      /\ \A j \in 1..i - 1 : a[j] = s[j]
  BY <1>1, SubSeqProperties
<1>3. /\ b \in Seq(S) /\ Len(b) = Len(s) - i
      /\ \A j \in 1..Len(s) - i : b[j] = s[i + j]
  <2>1. \A j \in i + 1..Len(s) : s[j] \in S
    BY <1>1
  <2>2. /\ b \in Seq(S)
        /\ Len(b) = IF i + 1 <= Len(s) THEN Len(s) - (i + 1) + 1 ELSE 0
        /\ \A j \in 1..Len(s) - (i + 1) + 1 : b[j] = s[i + 1 + j - 1]
    BY <1>1, <2>1, SubSeqProperties
  <2> HIDE DEF b
  <2> QED
    BY <1>1, <2>2
<1> HIDE DEF a, b
<1>4. /\ a \o b \in Seq(S) /\ Len(a \o b) = Len(s) - 1
      /\ \A j \in 1..Len(s) - 1 : (a \o b)[j] = IF j <= i - 1 THEN a[j] ELSE b[j - (i - 1)]
  <2>1. /\ a \o b \in Seq(S)
        /\ Len(a \o b) = Len(a) + Len(b)
        /\ \A j \in 1..Len(a) + Len(b) : (a \o b)[j] = IF j <= Len(a) THEN a[j]
                                                      ELSE b[j - Len(a)]
    BY <1>2, <1>3, ConcatProperties
  <2>2. Len(a) + Len(b) = Len(s) - 1
    BY <1>1, <1>2, <1>3
  <2> QED
    BY <1>2, <2>1, <2>2
<1>5. RemoveAt(s, i) = a \o b
  BY DEF RemoveAt, a, b
<1>6. ASSUME NEW j \in 1..Len(s) - 1
      PROVE  (a \o b)[j] = IF j < i THEN s[j] ELSE s[j + 1]
  <2>1. CASE j < i
    BY <1>1, <1>2, <1>4, <2>1
  <2>2. CASE ~(j < i)
    <3>1. j - (i - 1) \in 1..Len(s) - i /\ i + (j - (i - 1)) = j + 1
      BY <1>1, <2>2
    <3> QED
      BY <1>1, <1>3, <1>4, <2>2, <3>1
  <2> QED
    BY <2>1, <2>2
<1> QED
  BY <1>4, <1>5, <1>6

\* The entry of the original list that removal number j takes out: the list
\* has lost j - 1 entries by then, all of them ahead of it.
Hit(ids, j) == ids[j] + (j - 1)

\* l is list after k removals; h says where its entries were.
Left(l, h, list, ids, k) ==
    /\ l \in Seq(Entry)
    /\ Len(l) = Len(list) - k
    /\ h \in [1..Len(list) - k -> 1..Len(list)]
    /\ \A i \in 1..Len(list) - k : l[i] = list[h[i]]
    /\ \A i, j \in 1..Len(list) - k : i < j => h[i] < h[j]
    /\ \A i \in 1..Len(list) - k : \A j \in 1..k : h[i] # Hit(ids, j)
    /\ \A x \in 1..Len(list) : (\A j \in 1..k : x # Hit(ids, j)) =>
          \E i \in 1..Len(list) - k : h[i] = x
    /\ \A i \in 1..Len(list) - k : (k > 0 => i >= ids[k]) => h[i] = i + k

\* Ascending indices, each within the list it is removed from.
Removable(list, ids) ==
    /\ list \in Seq(Entry)
    /\ ids \in Seq(Nat)
    /\ \A i, j \in 1..Len(ids) : i < j => ids[i] < ids[j]
    /\ \A k \in 1..Len(ids) : ids[k] \in 1..Len(list) - (k - 1)

LEMMA LeftAtFirst ==
    ASSUME NEW list, NEW ids, Removable(list, ids)
    PROVE  \E h : Left(list, h, list, ids, 0)
<1>1. Left(list, [i \in 1..Len(list) |-> i], list, ids, 0)
  BY LenProperties DEF Removable, Left
<1> QED
  BY <1>1

LEMMA LeftAfterOne ==
    ASSUME NEW list, NEW ids, Removable(list, ids),
           NEW k \in 1..Len(ids), NEW l, NEW h, Left(l, h, list, ids, k - 1)
    PROVE  /\ ids[k] \in 1..Len(l)
           /\ \E g : Left(RemoveAt(l, ids[k]), g, list, ids, k)
<1> DEFINE L == Len(list)
           p == ids[k]
           r == RemoveAt(l, p)
           g == [i \in 1..L - k |-> IF i < p THEN h[i] ELSE h[i + 1]]
<1>1. /\ L \in Nat /\ k \in Nat \ {0} /\ p \in 1..L - (k - 1)
      /\ k > 1 => p > ids[k - 1] /\ ids[k - 1] \in Nat
  BY LenProperties, ElementOfSeq DEF Removable
<1>2. /\ l \in Seq(Entry)
      /\ Len(l) = L - (k - 1)
      /\ h \in [1..L - (k - 1) -> 1..L]
      /\ \A i \in 1..L - (k - 1) : l[i] = list[h[i]]
      /\ \A i, j \in 1..L - (k - 1) : i < j => h[i] < h[j]
      /\ \A i \in 1..L - (k - 1) : \A j \in 1..k - 1 : h[i] # Hit(ids, j)
      /\ \A x \in 1..L : (\A j \in 1..k - 1 : x # Hit(ids, j)) =>
            \E i \in 1..L - (k - 1) : h[i] = x
      /\ \A i \in 1..L - (k - 1) : (k - 1 > 0 => i >= ids[k - 1]) => h[i] = i + (k - 1)
  BY DEF Left
<1>3. p \in 1..Len(l)
  BY <1>1, <1>2
<1>4. /\ r \in Seq(Entry)
      /\ Len(r) = L - k
      /\ \A j \in 1..L - k : r[j] = IF j < p THEN l[j] ELSE l[j + 1]
  <2>1. Len(l) - 1 = L - k
    BY <1>1, <1>2
  <2>2. l \in Seq(Entry)
    BY <1>2
  <2> HIDE DEF L, p, g
  <2>3. /\ r \in Seq(Entry)
        /\ Len(r) = Len(l) - 1
        /\ \A j \in 1..Len(l) - 1 : r[j] = IF j < p THEN l[j] ELSE l[j + 1]
    BY <1>3, <2>2, RemoveAtProperties
  <2> HIDE DEF r
  <2> QED
    BY <2>1, <2>3
<1> HIDE DEF r, L, p
<1>5. \A i \in 1..L - k : i \in 1..L - (k - 1) /\ i + 1 \in 1..L - (k - 1)
  BY <1>1
<1>6. /\ g \in [1..L - k -> 1..L]
      /\ \A i \in 1..L - k : g[i] = IF i < p THEN h[i] ELSE h[i + 1]
  BY <1>1, <1>2, <1>5
<1> HIDE DEF g
<1>7. h[p] = p + (k - 1) /\ p \in 1..L - (k - 1) /\ Hit(ids, k) = h[p]
  <2>1. k - 1 > 0 => p >= ids[k - 1]
    BY <1>1
  <2>2. h[p] = p + (k - 1)
    BY <1>1, <1>2, <2>1
  <2> QED
    BY <1>1, <2>2 DEF Hit, p
<1>8. ASSUME NEW i \in 1..L - k
      PROVE  r[i] = list[g[i]]
  BY <1>2, <1>4, <1>5, <1>6
<1>9. ASSUME NEW i \in 1..L - k, NEW j \in 1..L - k, i < j
      PROVE  g[i] < g[j]
  <2> DEFINE u == IF i < p THEN i ELSE i + 1
             v == IF j < p THEN j ELSE j + 1
  <2>1. u \in 1..L - (k - 1) /\ v \in 1..L - (k - 1) /\ u < v
    BY <1>1, <1>5, <1>9
  <2>2. g[i] = h[u] /\ g[j] = h[v]
    BY <1>6
  <2> HIDE DEF u, v
  <2> QED
    BY <1>2, <2>1, <2>2
<1>10. ASSUME NEW i \in 1..L - k, NEW j \in 1..k
       PROVE  g[i] # Hit(ids, j)
  <2>1. CASE j = k
    <3>1. CASE i < p
      BY <1>1, <1>2, <1>5, <1>6, <1>7, <2>1, <3>1
    <3>2. CASE ~(i < p)
      <4>1. p < i + 1
        BY <1>1, <3>2
      <4> QED
        BY <1>1, <1>2, <1>5, <1>6, <1>7, <2>1, <3>2, <4>1
    <3> QED
      BY <3>1, <3>2
  <2>2. CASE j # k
    <3>1. j \in 1..k - 1
      BY <1>1, <2>2
    <3> QED
      BY <1>2, <1>5, <1>6, <3>1
  <2> QED
    BY <2>1, <2>2
<1>11. ASSUME NEW x \in 1..L, \A j \in 1..k : x # Hit(ids, j)
       PROVE  \E i \in 1..L - k : g[i] = x
  <2>1. \A j \in 1..k - 1 : j \in 1..k
    BY <1>1
  <2>2. PICK i \in 1..L - (k - 1) : h[i] = x
    BY <1>2, <1>11, <2>1
  <2>3. i # p
    BY <1>1, <1>7, <1>11, <2>2
  <2>4. CASE i < p
    <3>1. i \in 1..L - k
      BY <1>1, <2>4
    <3> QED
      BY <1>6, <2>2, <2>4, <3>1
  <2>5. CASE i > p
    <3>1. i - 1 \in 1..L - k /\ ~(i - 1 < p) /\ (i - 1) + 1 = i
      BY <1>1, <2>5
    <3>2. g[i - 1] = h[i]
      BY <1>6, <3>1
    <3> QED
      BY <2>2, <3>1, <3>2
  <2> QED
    BY <1>1, <2>3, <2>4, <2>5
<1>12. ASSUME NEW i \in 1..L - k, i >= p
       PROVE  g[i] = i + k
  <2>1. g[i] = h[i + 1] /\ i + 1 \in 1..L - (k - 1)
    BY <1>1, <1>5, <1>6, <1>12
  <2>2. k - 1 > 0 => i + 1 >= ids[k - 1]
    BY <1>1, <1>12
  <2> QED
    BY <1>1, <1>2, <2>1, <2>2
<1>13. Left(r, g, list, ids, k)
  BY <1>1, <1>4, <1>6, <1>8, <1>9, <1>10, <1>11, <1>12 DEF Left, L, p
<1> QED
  BY <1>3, <1>13 DEF r, p

\* The loop of Removed.
RemoveLoop(left, list, ids) ==
    left = [k \in 0..Len(ids) |->
              IF k = 0 THEN list ELSE RemoveAt(left[k - 1], ids[k])]

LEMMA RemoveLoopLeaves ==
    ASSUME NEW list, NEW ids, Removable(list, ids), NEW left, RemoveLoop(left, list, ids)
    PROVE  \E h : Left(left[Len(ids)], h, list, ids, Len(ids))
<1> DEFINE n == Len(ids)
           T == {k \in 0..n : \E h : Left(left[k], h, list, ids, k)}
<1>1. n \in Nat
  BY LenProperties DEF Removable
<1>2. 0 \in T
  <2>1. left[0] = list
    BY <1>1 DEF RemoveLoop
  <2> QED
    BY <1>1, <2>1, LeftAtFirst
<1>3. ASSUME NEW k \in 1..n, k - 1 \in T
      PROVE  k \in T
  <2>1. left[k] = RemoveAt(left[k - 1], ids[k])
    <3> DEFINE run == [i \in 0..n |-> IF i = 0 THEN list ELSE RemoveAt(left[i - 1], ids[i])]
    <3>1. run[k] = RemoveAt(left[k - 1], ids[k])
      BY <1>1
    <3>2. left = run
      BY Zenon DEF RemoveLoop
    <3> HIDE DEF run
    <3> QED
      BY <3>1, <3>2
  <2>2. PICK h : Left(left[k - 1], h, list, ids, k - 1)
    BY <1>3
  <2>3. \E g : Left(left[k], g, list, ids, k)
    BY <2>1, <2>2, LeftAfterOne
  <2> QED
    BY <1>1, <2>3
<1> HIDE DEF T, n
<1>4. 0..n \subseteq T
  BY <1>1, <1>2, <1>3, CountingUp
<1>5. n \in T
  BY <1>1, <1>4
<1> QED
  BY <1>5 DEF T, n

LEMMA RemoveLoopRuns ==
    ASSUME NEW list, NEW ids, Removable(list, ids)
    PROVE  \E left : RemoveLoop(left, list, ids)
<1> DEFINE n == Len(ids)
           X == Seq(Entry)
           g == [p \in X \X (1..n) |->
                   IF ids[p[2]] \in 1..Len(p[1]) THEN RemoveAt(p[1], ids[p[2]]) ELSE p[1]]
<1>1. n \in Nat /\ list \in X
  BY LenProperties DEF Removable
<1>2. g \in [X \X (1..n) -> X]
  <2>1. ASSUME NEW p \in X \X (1..n)
        PROVE  (IF ids[p[2]] \in 1..Len(p[1]) THEN RemoveAt(p[1], ids[p[2]]) ELSE p[1]) \in X
    BY RemoveAtProperties
  <2> QED
    BY <2>1
<1>3. ASSUME NEW l \in X, NEW k \in 1..n, ids[k] \in 1..Len(l)
      PROVE  g[<<l, k>>] = RemoveAt(l, ids[k])
  BY <1>3
<1> HIDE DEF g, X
<1>4. PICK f \in [0..n -> X] : /\ f[0] = list
                               /\ \A k \in 1..n : f[k] = g[<<f[k - 1], k>>]
  <2> HIDE DEF n
  <2> QED
    BY <1>1, <1>2, LoopRuns
<1> DEFINE T == {k \in 0..n : \E h : Left(f[k], h, list, ids, k)}
<1>5. 0 \in T
  BY <1>1, <1>4, LeftAtFirst
<1>6. ASSUME NEW k \in 1..n, k - 1 \in T
      PROVE  k \in T /\ f[k] = RemoveAt(f[k - 1], ids[k])
  <2>1. PICK h : Left(f[k - 1], h, list, ids, k - 1)
    BY <1>6
  <2>2. /\ ids[k] \in 1..Len(f[k - 1])
        /\ \E e : Left(RemoveAt(f[k - 1], ids[k]), e, list, ids, k)
    BY <2>1, LeftAfterOne
  <2>3. f[k - 1] \in X
    BY <1>1
  <2>4. f[k] = RemoveAt(f[k - 1], ids[k])
    BY <1>3, <1>4, <2>2, <2>3
  <2> QED
    BY <1>1, <2>2, <2>4
<1>7. 0..n \subseteq T
  <2> HIDE DEF T, n
  <2> QED
    BY <1>1, <1>5, <1>6, CountingUp
<1>8. ASSUME NEW k \in 0..n
      PROVE  f[k] = IF k = 0 THEN list ELSE RemoveAt(f[k - 1], ids[k])
  <2>1. CASE k = 0
    BY <1>4, <2>1
  <2>2. CASE k # 0
    <3>1. k \in 1..n /\ k - 1 \in 0..n
      BY <1>1, <2>2
    <3>2. k - 1 \in T
      BY <1>7, <3>1
    <3> HIDE DEF T
    <3> QED
      BY <1>6, <2>2, <3>1, <3>2
  <2> QED
    BY <2>1, <2>2
<1>9. RemoveLoop(f, list, ids)
  <2>1. f = [k \in 0..n |-> f[k]]
    OBVIOUS
  <2> QED
    BY <1>8, <2>1 DEF RemoveLoop
<1> QED
  BY <1>9

\* What is left of a list when removable indices are removed one by one: the
\* list without the entries they hit, in the old order.
LEMMA RemovedLeaves ==
    ASSUME NEW list, NEW ids, Removable(list, ids)
    PROVE  \E h : Left(Removed(list, ids), h, list, ids, Len(ids))
<1> DEFINE c == CHOOSE left : RemoveLoop(left, list, ids)
<1>1. RemoveLoop(c, list, ids)
  <2>1. \E left : RemoveLoop(left, list, ids)
    BY RemoveLoopRuns
  <2> QED
    BY <2>1, Zenon
<1>2. Removed(list, ids) = c[Len(ids)]
  BY Zenon DEF Removed, RemoveLoop
<1> HIDE DEF c
<1> QED
  BY <1>1, <1>2, RemoveLoopLeaves

-----------------------------------------------------------------------------
(***************************************************************************)
(* Lists of connections                                                    *)
(***************************************************************************)

\* No two entries have the same address: NoDuplicateConnection of any list.
Distinct(l) == \A i, j \in 1..Len(l) : AddressOf(l[i]) = AddressOf(l[j]) => i = j

LEMMA EntryFacts ==
    ASSUME NEW e \in Entry
    PROVE  /\ AddressOf(e) \in Address
           /\ e.stale \in BOOLEAN
           /\ \A old \in BOOLEAN : /\ [e EXCEPT !.stale = old] \in Entry
                                   /\ AddressOf([e EXCEPT !.stale = old]) = AddressOf(e)
                                   /\ [e EXCEPT !.stale = old].stale = old
                                   /\ [e EXCEPT !.stale = old].stream = e.stream
           /\ \A st \in {"open", "closing", "ended"} :
                 /\ [e EXCEPT !.stream = st] \in Entry
                 /\ AddressOf([e EXCEPT !.stream = st]) = AddressOf(e)
                 /\ [e EXCEPT !.stream = st].stale = e.stale
                 /\ [e EXCEPT !.stream = st].stream = st
BY ShellyAssumption DEF Entry, AddressOf

LEMMA FreshFacts ==
    ASSUME NEW a \in Address
    PROVE  /\ Fresh(a) \in Entry
           /\ AddressOf(Fresh(a)) = a
           /\ ~Fresh(a).stale
           /\ Fresh(a).stream = "open"
<1>1. a = [mac |-> a.mac, ip |-> a.ip]
  BY ShellyAssumption
<1>2. Fresh(a) \in Entry
  <2>1. \E b \in Address, old \in BOOLEAN, st \in {"open", "closing", "ended"} :
           Fresh(a) = [mac |-> b.mac, ip |-> b.ip, stale |-> old, stream |-> st]
    <3> WITNESS a \in Address, FALSE \in BOOLEAN, "open" \in {"open", "closing", "ended"}
    <3> QED
      BY DEF Fresh
  <2> QED
    BY <2>1 DEF Entry
<1>3. AddressOf(Fresh(a)) = a
  BY <1>1 DEF AddressOf, Fresh
<1> QED
  BY <1>2, <1>3 DEF Fresh

\* An entry is replaced by one of the same device at the same address.
LEMMA ReplaceKeepsDistinct ==
    ASSUME NEW l \in Seq(Entry), Distinct(l), NEW i \in 1..Len(l), NEW e \in Entry,
           AddressOf(e) = AddressOf(l[i])
    PROVE  /\ [l EXCEPT ![i] = e] \in Seq(Entry)
           /\ Len([l EXCEPT ![i] = e]) = Len(l)
           /\ \A j \in 1..Len(l) : [l EXCEPT ![i] = e][j] = IF j = i THEN e ELSE l[j]
           /\ \A j \in 1..Len(l) : AddressOf([l EXCEPT ![i] = e][j]) = AddressOf(l[j])
           /\ Distinct([l EXCEPT ![i] = e])
<1>1. /\ [l EXCEPT ![i] = e] \in Seq(Entry)
      /\ Len([l EXCEPT ![i] = e]) = Len(l)
      /\ \A j \in 1..Len(l) : [l EXCEPT ![i] = e][j] = IF j = i THEN e ELSE l[j]
  BY ExceptSeq
<1>2. \A j \in 1..Len(l) : AddressOf([l EXCEPT ![i] = e][j]) = AddressOf(l[j])
  BY <1>1
<1>3. Distinct([l EXCEPT ![i] = e])
  BY <1>1, <1>2 DEF Distinct
<1> QED
  BY <1>1, <1>2, <1>3

LEMMA AppendKeepsDistinct ==
    ASSUME NEW l \in Seq(Entry), Distinct(l), NEW e \in Entry,
           \A i \in 1..Len(l) : AddressOf(l[i]) # AddressOf(e)
    PROVE  Append(l, e) \in Seq(Entry) /\ Distinct(Append(l, e))
<1> DEFINE t == Append(l, e)
<1>1. /\ t \in Seq(Entry) /\ Len(l) \in Nat /\ Len(t) = Len(l) + 1
      /\ \A i \in 1..Len(l) : t[i] = l[i]
      /\ t[Len(l) + 1] = e
  BY AppendProperties, LenProperties
<1> HIDE DEF t
<1>2. \A i \in 1..Len(l) + 1 : i \in 1..Len(l) \/ i = Len(l) + 1
  BY <1>1
<1>3. ASSUME NEW i \in 1..Len(l) + 1, NEW j \in 1..Len(l) + 1,
             AddressOf(t[i]) = AddressOf(t[j])
      PROVE  i = j
  <2>1. CASE i \in 1..Len(l) /\ j \in 1..Len(l)
    BY <1>1, <1>3, <2>1 DEF Distinct
  <2>2. CASE i = Len(l) + 1 /\ j \in 1..Len(l)
    BY <1>1, <1>3, <2>2
  <2>3. CASE j = Len(l) + 1 /\ i \in 1..Len(l)
    BY <1>1, <1>3, <2>3
  <2> QED
    BY <1>2, <2>1, <2>2, <2>3
<1>4. Distinct(t)
  BY <1>1, <1>3 DEF Distinct
<1> QED
  BY <1>1, <1>4 DEF t

\* Taking entries out keeps addresses apart.
LEMMA ThinningKeepsDistinct ==
    ASSUME NEW l, NEW r, NEW n \in Nat, Len(r) = n, Distinct(l),
           NEW h \in [1..n -> 1..Len(l)],
           \A i \in 1..n : r[i] = l[h[i]],
           \A i, j \in 1..n : i < j => h[i] < h[j],
           Len(l) \in Nat
    PROVE  Distinct(r)
<1> SUFFICES ASSUME NEW i \in 1..n, NEW j \in 1..n, AddressOf(r[i]) = AddressOf(r[j])
             PROVE  i = j
  BY DEF Distinct
<1>1. h[i] \in 1..Len(l) /\ h[j] \in 1..Len(l)
  OBVIOUS
<1>2. h[i] = h[j]
  BY <1>1 DEF Distinct
<1>3. ~(i < j) /\ ~(j < i)
  BY <1>1, <1>2
<1> QED
  BY <1>3

LEMMA RemoveAtKeepsDistinct ==
    ASSUME NEW l \in Seq(Entry), Distinct(l), NEW i \in 1..Len(l)
    PROVE  RemoveAt(l, i) \in Seq(Entry) /\ Distinct(RemoveAt(l, i))
<1> DEFINE r == RemoveAt(l, i)
           h == [j \in 1..Len(l) - 1 |-> IF j < i THEN j ELSE j + 1]
<1>1. /\ r \in Seq(Entry) /\ Len(r) = Len(l) - 1 /\ Len(l) - 1 \in Nat /\ Len(l) \in Nat
      /\ \A j \in 1..Len(l) - 1 : r[j] = IF j < i THEN l[j] ELSE l[j + 1]
  BY RemoveAtProperties, LenProperties
<1>2. /\ h \in [1..Len(l) - 1 -> 1..Len(l)]
      /\ \A j \in 1..Len(l) - 1 : r[j] = l[h[j]]
      /\ \A j, k \in 1..Len(l) - 1 : j < k => h[j] < h[k]
  BY <1>1
<1> HIDE DEF r, h
<1>3. Distinct(r)
  BY <1>1, <1>2, ThinningKeepsDistinct
<1> QED
  BY <1>1, <1>3 DEF r

\* The order of removal of the mode check, as long as it does not panic.
LEMMA CollectedIsRemovable ==
    ASSUME shelly_list \in Seq(Entry), NEW wrong, ~OutOfRange(ToRemove(wrong))
    PROVE  Removable(shelly_list, ToRemove(wrong))
<1> DEFINE ids == ToRemove(wrong)
<1>1. Len(shelly_list) \in Nat
  BY LenProperties
<1>2. Lists(ids, Len(shelly_list), {i \in Indices : AddressOf(shelly_list[i]) \in wrong})
  BY <1>1, CollectsTheWrong
<1> HIDE DEF ids
<1>3. ids \in Seq(Nat) /\ DOMAIN ids = 1..Len(ids)
  BY <1>2, LenProperties DEF Lists
<1>4. \A k \in 1..Len(ids) : ids[k] \in 1..Len(shelly_list) - (k - 1)
  <2> TAKE k \in 1..Len(ids)
  <2>1. ids[k] \in 1..Len(shelly_list)
    BY <1>2 DEF Lists
  <2>2. ~(ids[k] > Len(shelly_list) - (k - 1))
    BY <1>3 DEF OutOfRange, ids
  <2> QED
    BY <1>1, <2>1, <2>2
<1> QED
  BY <1>2, <1>3, <1>4 DEF Lists, Removable, ids

LEMMA RemovedKeepsDistinct ==
    ASSUME NEW list, NEW ids, Removable(list, ids), Distinct(list)
    PROVE  Removed(list, ids) \in Seq(Entry) /\ Distinct(Removed(list, ids))
<1> DEFINE r == Removed(list, ids)
<1>1. PICK h : Left(r, h, list, ids, Len(ids))
  BY RemovedLeaves
<1>2. Len(list) \in Nat /\ Len(r) \in Nat /\ r \in Seq(Entry)
  BY <1>1, LenProperties DEF Left, Removable
<1> HIDE DEF r
<1>3. /\ h \in [1..Len(r) -> 1..Len(list)]
      /\ \A i \in 1..Len(r) : r[i] = list[h[i]]
      /\ \A i, j \in 1..Len(r) : i < j => h[i] < h[j]
  BY <1>1 DEF Left
<1>4. Distinct(r)
  BY <1>2, <1>3, ThinningKeepsDistinct
<1> QED
  BY <1>2, <1>4 DEF r

-----------------------------------------------------------------------------
(***************************************************************************)
(* The inductive invariant                                                 *)
(***************************************************************************)

\* The scan has an index exactly while it runs; ScanMissesNone is inductive
\* only if addresses are distinct, and a list without duplicates stays one only
\* if removals take the entries they are meant for out of the scan's way.
IInv == /\ TypeOK
        /\ main = "scan" <=> idx # 0
        /\ NoDuplicateConnection
        /\ ScanMissesNone

LEMMA NoDuplicateIsDistinct == NoDuplicateConnection <=> Distinct(shelly_list)
BY DEF NoDuplicateConnection, Distinct, Indices

LEMMA ListedAddresses ==
    ASSUME shelly_list \in Seq(Entry)
    PROVE  Listed \subseteq Address
<1>1. ASSUME NEW i \in Indices
      PROVE  AddressOf(shelly_list[i]) \in Address
  <2>1. shelly_list[i] \in Entry
    BY ElementOfSeq DEF Indices
  <2> QED
    BY <2>1, EntryFacts
<1> QED
  BY <1>1 DEF Listed

\* Outside the scan nothing is due.
LEMMA NothingDue ==
    ASSUME IInv, main # "scan"
    PROVE  due = {} /\ idx = 0
BY DEF IInv, ScanMissesNone

\* Branches of the main loop other than the scan may change the list as they
\* like, as long as addresses stay distinct.
LEMMA OutsideScan ==
    ASSUME IInv, main # "scan",
           shelly_list' \in Seq(Entry), Distinct(shelly_list'),
           main' \in {"select", "hung", "panicked"},
           UNCHANGED <<idx, due>>, changed' \subseteq Address
    PROVE  IInv'
<1>1. due = {} /\ idx = 0
  BY NothingDue
<1>2. TypeOK'
  <2>1. Len(shelly_list') \in Nat
    BY LenProperties
  <2> QED
    BY <1>1, <2>1 DEF TypeOK
<1>3. NoDuplicateConnection'
  BY DEF NoDuplicateConnection, Distinct, Indices
<1>4. ScanMissesNone'
  BY <1>1 DEF ScanMissesNone
<1> QED
  BY <1>1, <1>2, <1>3, <1>4 DEF IInv

\* An entry changes but not its address, nor does it become fresh in a scan.
LEMMA EntryReplaced ==
    ASSUME IInv, NEW i \in Indices, NEW e \in Entry,
           AddressOf(e) = AddressOf(shelly_list[i]),
           due = {} \/ (shelly_list[i].stale => e.stale),
           shelly_list' = [shelly_list EXCEPT ![i] = e],
           UNCHANGED <<main, idx, due>>, changed' \subseteq Address
    PROVE  IInv'
<1>1. /\ shelly_list \in Seq(Entry) /\ Distinct(shelly_list)
      /\ i \in 1..Len(shelly_list)
  BY NoDuplicateIsDistinct DEF IInv, TypeOK, Indices
<1>2. /\ shelly_list' \in Seq(Entry) /\ Len(shelly_list') = Len(shelly_list)
      /\ \A j \in 1..Len(shelly_list) :
            shelly_list'[j] = IF j = i THEN e ELSE shelly_list[j]
      /\ \A j \in 1..Len(shelly_list) :
            AddressOf(shelly_list'[j]) = AddressOf(shelly_list[j])
      /\ Distinct(shelly_list')
  <2> DEFINE r == [shelly_list EXCEPT ![i] = e]
             l == shelly_list
  <2>1. /\ r \in Seq(Entry) /\ Len(r) = Len(l)
        /\ \A j \in 1..Len(l) : r[j] = IF j = i THEN e ELSE l[j]
        /\ \A j \in 1..Len(l) : AddressOf(r[j]) = AddressOf(l[j])
        /\ Distinct(r)
    <3>1. AddressOf(e) = AddressOf(l[i])
      OBVIOUS
    <3> QED
      BY ONLY <1>1, <3>1, e \in Entry, ReplaceKeepsDistinct
  <2>2. shelly_list' = r
    OBVIOUS
  <2> HIDE DEF r
  <2> QED
    BY <2>1, <2>2
<1>3. TypeOK'
  BY <1>2 DEF IInv, TypeOK
<1>4. NoDuplicateConnection'
  BY <1>2 DEF NoDuplicateConnection, Distinct, Indices
<1>5. Listed' = Listed
  BY <1>2 DEF Listed, Indices
<1>6. ASSUME NEW j \in Indices', AddressOf(shelly_list'[j]) \in due'
      PROVE  shelly_list'[j].stale /\ j >= idx'
  <2>1. j \in Indices /\ AddressOf(shelly_list[j]) \in due
    BY <1>2, <1>6 DEF Indices
  <2>2. shelly_list[j].stale /\ j >= idx
    BY <2>1 DEF IInv, ScanMissesNone
  <2> QED
    BY <1>1, <1>2, <2>1, <2>2 DEF Indices
<1>7. ScanMissesNone'
  BY <1>5, <1>6 DEF IInv, ScanMissesNone
<1> QED
  BY <1>3, <1>4, <1>7 DEF IInv

-----------------------------------------------------------------------------
(***************************************************************************)
(* Its steps                                                               *)
(***************************************************************************)

LEMMA InsertShellyIInv ==
    ASSUME IInv, NEW a \in Address, InsertShelly(a)
    PROVE  IInv'
<1>1. shelly_list \in Seq(Entry) /\ Distinct(shelly_list)
  BY NoDuplicateIsDistinct DEF IInv, TypeOK
<1>2. \A i \in 1..Len(shelly_list) : AddressOf(shelly_list[i]) # AddressOf(Fresh(a))
  BY FreshFacts DEF InsertShelly, Known, Indices
<1>3. shelly_list' \in Seq(Entry) /\ Distinct(shelly_list')
  BY <1>1, <1>2, FreshFacts, AppendKeepsDistinct DEF InsertShelly
<1> QED
  BY <1>3, OutsideScan DEF InsertShelly

LEMMA EntryStepsIInv ==
    ASSUME IInv, NEW i \in Indices, ReadPong(i) \/ StreamCloses(i) \/ PongExpires(i)
    PROVE  IInv'
<1> DEFINE e == shelly_list[i]
<1>1. e \in Entry /\ shelly_list \in Seq(Entry)
  BY ElementOfSeq DEF IInv, TypeOK, Indices
<1>2. CASE ReadPong(i)
  <2> DEFINE f == [e EXCEPT !.stale = FALSE]
  <2>1. f \in Entry /\ AddressOf(f) = AddressOf(e)
    BY <1>1, EntryFacts
  <2>2. shelly_list' = [shelly_list EXCEPT ![i] = f]
    BY <1>1, <1>2 DEF ReadPong
  <2>3. due = {} /\ UNCHANGED <<main, idx, due>> /\ changed' \subseteq Address
    BY <1>2, NothingDue DEF ReadPong
  <2> HIDE DEF f
  <2> QED
    BY <2>1, <2>2, <2>3, EntryReplaced
<1>3. CASE StreamCloses(i)
  <2> DEFINE f == [e EXCEPT !.stream = "closing"]
  <2>1. f \in Entry /\ AddressOf(f) = AddressOf(e) /\ f.stale = e.stale
    BY <1>1, EntryFacts
  <2>2. shelly_list' = [shelly_list EXCEPT ![i] = f]
    BY <1>1, <1>3 DEF StreamCloses
  <2>3. UNCHANGED <<main, idx, due>> /\ changed' \subseteq Address
    BY <1>3 DEF StreamCloses
  <2>4. e.stale => f.stale
    BY <2>1
  <2> HIDE DEF f
  <2> QED
    BY <2>1, <2>2, <2>3, <2>4, EntryReplaced
<1>4. CASE PongExpires(i)
  <2> DEFINE f == [e EXCEPT !.stale = TRUE]
  <2>1. f \in Entry /\ AddressOf(f) = AddressOf(e)
    BY <1>1, EntryFacts
  <2>2. shelly_list' = [shelly_list EXCEPT ![i] = f]
    BY <1>1, <1>4 DEF PongExpires
  <2>3. UNCHANGED <<main, idx, due>> /\ changed' \subseteq Address
    BY <1>4 DEF PongExpires
  <2>4. e.stale => f.stale
    BY <1>4 DEF PongExpires
  <2> HIDE DEF f
  <2> QED
    BY <2>1, <2>2, <2>3, <2>4, EntryReplaced
<1> QED
  BY <1>2, <1>3, <1>4

LEMMA FirstWithMacFacts ==
    ASSUME shelly_list \in Seq(Entry), NEW i \in Indices
    PROVE  LET f == FirstWithMac(shelly_list[i].mac) IN
           f \in Indices /\ shelly_list[f].mac = shelly_list[i].mac
<1> DEFINE m == shelly_list[i].mac
           T == {j \in Indices : shelly_list[j].mac = m}
           First(j) == /\ shelly_list[j].mac = m
                       /\ \A k \in 1..j - 1 : shelly_list[k].mac # m
<1>1. Len(shelly_list) \in Nat
  BY LenProperties
<1>2. PICK j \in T : \A k \in T : j <= k
  <2>1. T \in SUBSET Nat /\ i \in T
    BY DEF Indices
  <2> HIDE DEF T
  <2> QED
    BY <2>1, LeastNumber
<1>3. j \in Indices /\ First(j)
  BY <1>1, <1>2 DEF Indices
<1> HIDE DEF First
<1>4. \E x \in Indices : First(x)
  BY <1>3
<1>5. FirstWithMac(m) = CHOOSE x \in Indices : First(x)
  BY Zenon DEF FirstWithMac, First
<1>6. FirstWithMac(m) \in Indices /\ First(FirstWithMac(m))
  BY <1>4, <1>5, Zenon
<1> QED
  BY <1>6 DEF First

LEMMA ReadCloseIInv ==
    ASSUME IInv, NEW i \in Indices, ReadClose(i)
    PROVE  IInv'
<1> DEFINE e == [shelly_list[i] EXCEPT !.stream = "ended"]
           l == [shelly_list EXCEPT ![i] = e]
           f == FirstWithMac(shelly_list[i].mac)
<1>1. /\ shelly_list \in Seq(Entry) /\ Distinct(shelly_list)
      /\ i \in 1..Len(shelly_list) /\ shelly_list[i] \in Entry
  BY NoDuplicateIsDistinct, ElementOfSeq DEF IInv, TypeOK, Indices
<1>2. e \in Entry /\ AddressOf(e) = AddressOf(shelly_list[i])
  BY <1>1, EntryFacts
<1>3. shelly_list' = RemoveAt(l, f)
  BY <1>1 DEF ReadClose
<1>4. f \in 1..Len(shelly_list)
  BY <1>1, FirstWithMacFacts DEF Indices
<1> HIDE DEF e, f
<1>5. l \in Seq(Entry) /\ Distinct(l) /\ Len(l) = Len(shelly_list)
  BY <1>1, <1>2, ReplaceKeepsDistinct
<1> HIDE DEF l
<1>6. shelly_list' \in Seq(Entry) /\ Distinct(shelly_list')
  BY <1>3, <1>4, <1>5, RemoveAtKeepsDistinct
<1> QED
  BY <1>6, OutsideScan DEF ReadClose

LEMMA PollEndedIInv ==
    ASSUME IInv, NEW i \in Indices, PollEnded(i)
    PROVE  IInv'
BY NoDuplicateIsDistinct, OutsideScan DEF PollEnded, IInv, TypeOK

LEMMA ModeCheckIInv ==
    ASSUME IInv, NEW wrong \in WrongModes, CheckShellyEsp8266Mode(wrong)
    PROVE  IInv'
<1>1. shelly_list \in Seq(Entry) /\ Distinct(shelly_list)
  BY NoDuplicateIsDistinct DEF IInv, TypeOK
<1>2. wrong \subseteq Address
  BY <1>1, ListedAddresses DEF WrongModes
<1>3. CASE OutOfRange(ToRemove(wrong))
  BY <1>1, <1>2, <1>3, OutsideScan DEF CheckShellyEsp8266Mode
<1>4. CASE ~OutOfRange(ToRemove(wrong))
  <2>1. Removable(shelly_list, ToRemove(wrong))
    BY <1>1, <1>4, CollectedIsRemovable
  <2>2. shelly_list' = Removed(shelly_list, ToRemove(wrong))
    BY <1>4 DEF CheckShellyEsp8266Mode
  <2>3. shelly_list' \in Seq(Entry) /\ Distinct(shelly_list')
    BY <1>1, <2>1, <2>2, RemovedKeepsDistinct
  <2> QED
    BY <1>2, <1>4, <2>3, OutsideScan DEF CheckShellyEsp8266Mode
<1> QED
  BY <1>3, <1>4

LEMMA BeginScanIInv ==
    ASSUME IInv, BeginScan
    PROVE  IInv'
<1>1. /\ shelly_list \in Seq(Entry) /\ Len(shelly_list) \in Nat
      /\ Distinct(shelly_list)
  BY NoDuplicateIsDistinct, LenProperties DEF IInv, TypeOK
<1>2. due' \subseteq Listed
  BY DEF BeginScan, Listed
<1>3. Listed \subseteq Address
  BY <1>1, ListedAddresses
<1>4. TypeOK'
  BY <1>1, <1>2, <1>3 DEF IInv, TypeOK, BeginScan
<1>5. NoDuplicateConnection' /\ Listed' = Listed
  BY DEF IInv, NoDuplicateConnection, BeginScan, Indices, Listed
<1>6. ASSUME NEW i \in Indices, AddressOf(shelly_list[i]) \in due'
      PROVE  shelly_list[i].stale /\ i >= 1
  <2>1. PICK j \in Indices : /\ shelly_list[j].stale
                             /\ AddressOf(shelly_list[j]) = AddressOf(shelly_list[i])
    BY <1>6 DEF BeginScan
  <2>2. i = j
    BY <1>1, <2>1 DEF Distinct, Indices
  <2> QED
    BY <1>1, <2>1, <2>2 DEF Indices
<1>7. ScanMissesNone'
  BY <1>2, <1>5, <1>6 DEF ScanMissesNone, BeginScan, Indices
<1> QED
  BY <1>4, <1>5, <1>7 DEF IInv, BeginScan

\* What the scan still has to see, without the entry it is at, is beyond it.
LEMMA BeyondTheScan ==
    ASSUME IInv, NEW i \in Indices, i # idx, AddressOf(shelly_list[i]) \in due
    PROVE  shelly_list[i].stale /\ i > idx
<1>1. shelly_list[i].stale /\ i >= idx
  BY DEF IInv, ScanMissesNone
<1>2. i \in Int /\ idx \in Int
  BY DEF IInv, TypeOK, Indices
<1> QED
  BY <1>1, <1>2

\* What both outcomes of a connection attempt have in common.
LEMMA ReconnectFacts ==
    ASSUME NEW ok \in BOOLEAN, Reconnect(ok)
    PROVE  /\ main = "scan" /\ main' = "scan" /\ idx \in Indices
           /\ changed' = {}
           /\ due' = due \ {AddressOf(shelly_list[idx])}
BY Zenon DEF Reconnect

LEMMA ReconnectedIInv ==
    ASSUME IInv, Reconnect(TRUE)
    PROVE  IInv'
<1> DEFINE e == Fresh(AddressOf(shelly_list[idx]))
           r == [shelly_list EXCEPT ![idx] = e]
<1>1. /\ shelly_list \in Seq(Entry) /\ Len(shelly_list) \in Nat
      /\ Distinct(shelly_list) /\ idx \in 1..Len(shelly_list)
  BY NoDuplicateIsDistinct, LenProperties DEF IInv, TypeOK, Reconnect, Indices
<1>2. e \in Entry /\ AddressOf(e) = AddressOf(shelly_list[idx])
  <2>1. shelly_list[idx] \in Entry
    BY <1>1, ElementOfSeq
  <2> QED
    BY <2>1, EntryFacts, FreshFacts
<1>3. shelly_list' = r /\ idx' = idx + 1
  BY <1>1 DEF Reconnect, Advanced
<1> HIDE DEF e
<1>4. /\ r \in Seq(Entry) /\ Len(r) = Len(shelly_list)
      /\ \A j \in 1..Len(shelly_list) : r[j] = IF j = idx THEN e ELSE shelly_list[j]
      /\ \A j \in 1..Len(shelly_list) : AddressOf(r[j]) = AddressOf(shelly_list[j])
      /\ Distinct(r)
  BY ONLY <1>1, <1>2, ReplaceKeepsDistinct
<1> HIDE DEF r
<1>5. TypeOK'
  <2>1. /\ main' = "scan" /\ changed' = {}
        /\ due' \subseteq due /\ due \subseteq Address
    BY ReconnectFacts DEF IInv, TypeOK
  <2>2. idx' \in 0..Len(shelly_list') + 1
    BY <1>1, <1>3, <1>4
  <2> QED
    BY <1>3, <1>4, <2>1, <2>2 DEF TypeOK
<1>6. NoDuplicateConnection' /\ Listed' = Listed
  BY <1>3, <1>4 DEF NoDuplicateConnection, Distinct, Indices, Listed
<1>7. ASSUME NEW i \in Indices', AddressOf(shelly_list'[i]) \in due'
      PROVE  shelly_list'[i].stale /\ i >= idx'
  <2>1. i \in Indices /\ i # idx /\ AddressOf(shelly_list[i]) \in due
    BY <1>1, <1>3, <1>4, <1>7 DEF Reconnect, Indices
  <2>2. shelly_list[i].stale /\ i > idx
    BY <2>1, BeyondTheScan
  <2> QED
    BY <1>1, <1>3, <1>4, <2>1, <2>2 DEF Indices
<1>8. ScanMissesNone'
  BY <1>6, <1>7 DEF IInv, ScanMissesNone, Reconnect
<1>9. main' = "scan" /\ idx' # 0
  <2>1. main' = "scan"
    BY ReconnectFacts
  <2>2. idx' # 0
    BY <1>1, <1>3
  <2> QED
    BY <2>1, <2>2
<1> QED
  BY <1>5, <1>6, <1>8, <1>9 DEF IInv

LEMMA NotReconnectedIInv ==
    ASSUME IInv, Reconnect(FALSE)
    PROVE  IInv'
<1> DEFINE r == RemoveAt(shelly_list, idx)
           L == Len(shelly_list)
<1>1. /\ shelly_list \in Seq(Entry) /\ L \in Nat
      /\ Distinct(shelly_list) /\ idx \in 1..L
  BY NoDuplicateIsDistinct, LenProperties DEF IInv, TypeOK, Reconnect, Indices
<1>2. shelly_list' = r /\ idx' = idx
  BY DEF Reconnect, Advanced
<1>3. /\ r \in Seq(Entry) /\ Len(r) = L - 1
      /\ \A j \in 1..L - 1 : r[j] = IF j < idx THEN shelly_list[j] ELSE shelly_list[j + 1]
      /\ Distinct(r)
  BY ONLY <1>1, RemoveAtProperties, RemoveAtKeepsDistinct
<1> HIDE DEF r
<1>4. TypeOK'
  <2>1. /\ main' = "scan" /\ changed' = {}
        /\ due' \subseteq due /\ due \subseteq Address
    BY ReconnectFacts DEF IInv, TypeOK
  <2>2. idx' \in 0..Len(shelly_list') + 1
    BY <1>1, <1>2, <1>3
  <2> QED
    BY <1>2, <1>3, <2>1, <2>2 DEF TypeOK
<1>5. NoDuplicateConnection'
  BY <1>2, <1>3 DEF NoDuplicateConnection, Distinct, Indices
<1>6. ASSUME NEW i \in Indices', AddressOf(shelly_list'[i]) \in due'
      PROVE  shelly_list'[i].stale /\ i >= idx'
  <2>1. i \in 1..L - 1
    BY <1>2, <1>3 DEF Indices
  <2> DEFINE k == IF i < idx THEN i ELSE i + 1
  <2>2. k \in Indices /\ k # idx /\ shelly_list'[i] = shelly_list[k]
    BY <1>1, <1>2, <1>3, <2>1 DEF Indices
  <2>3. AddressOf(shelly_list[k]) \in due
    BY <1>6, <2>2 DEF Reconnect
  <2> HIDE DEF k
  <2>4. shelly_list[k].stale /\ k > idx
    BY <2>2, <2>3, BeyondTheScan
  <2>5. i >= idx
    BY <1>1, <2>1, <2>4 DEF k
  <2> QED
    BY <1>2, <2>2, <2>4, <2>5
<1>7. ASSUME NEW a \in due'
      PROVE  a \in Listed'
  <2>1. a \in due /\ a # AddressOf(shelly_list[idx])
    BY <1>7 DEF Reconnect
  <2>2. PICK k \in Indices : a = AddressOf(shelly_list[k])
    BY <2>1 DEF IInv, ScanMissesNone, Listed
  <2> DEFINE j == IF k < idx THEN k ELSE k - 1
  <2>3. k # idx
    BY <2>1, <2>2
  <2>4. j \in 1..L - 1 /\ shelly_list'[j] = shelly_list[k]
    BY <1>1, <1>2, <1>3, <2>2, <2>3 DEF Indices
  <2>5. j \in Indices'
    BY <1>2, <1>3, <2>4 DEF Indices
  <2> HIDE DEF j
  <2> QED
    BY <2>2, <2>4, <2>5 DEF Listed
<1>8. ScanMissesNone'
  BY <1>6, <1>7 DEF IInv, ScanMissesNone, Reconnect
<1>9. main' = "scan" /\ idx' # 0
  <2>1. main' = "scan"
    BY ReconnectFacts
  <2>2. idx' # 0
    BY <1>1, <1>2
  <2> QED
    BY <2>1, <2>2
<1> QED
  BY <1>4, <1>5, <1>8, <1>9 DEF IInv

LEMMA PassOverIInv ==
    ASSUME IInv, PassOver
    PROVE  IInv'
<1>1. /\ shelly_list \in Seq(Entry) /\ Len(shelly_list) \in Nat
      /\ idx \in 1..Len(shelly_list)
  BY LenProperties DEF IInv, TypeOK, PassOver, Indices
<1>2. TypeOK' /\ NoDuplicateConnection' /\ Listed' = Listed
  BY <1>1 DEF IInv, TypeOK, NoDuplicateConnection, PassOver, Indices, Listed
<1>3. ASSUME NEW i \in Indices, AddressOf(shelly_list[i]) \in due
      PROVE  shelly_list[i].stale /\ i >= idx + 1
  <2>1. shelly_list[i].stale /\ i # idx
    BY <1>3 DEF IInv, ScanMissesNone, PassOver
  <2>2. i > idx
    BY <1>3, <2>1, BeyondTheScan
  <2> QED
    BY <1>1, <2>1, <2>2 DEF Indices
<1>4. ScanMissesNone'
  BY <1>2, <1>3 DEF IInv, ScanMissesNone, PassOver, Indices
<1> QED
  BY <1>1, <1>2, <1>4 DEF IInv, PassOver

LEMMA EndScanIInv ==
    ASSUME IInv, EndScan
    PROVE  IInv'
<1>1. shelly_list \in Seq(Entry) /\ Len(shelly_list) \in Nat
  BY LenProperties DEF IInv, TypeOK
<1>2. due = {}
  <2> SUFFICES ASSUME NEW a \in due
               PROVE  FALSE
    OBVIOUS
  <2>1. PICK i \in Indices : a = AddressOf(shelly_list[i])
    BY DEF IInv, ScanMissesNone, Listed
  <2>2. i >= idx
    BY <2>1 DEF IInv, ScanMissesNone
  <2> QED
    BY <1>1, <2>2 DEF EndScan, IInv, TypeOK, Indices
<1>3. TypeOK' /\ NoDuplicateConnection' /\ ScanMissesNone'
  BY <1>1, <1>2 DEF IInv, TypeOK, NoDuplicateConnection, ScanMissesNone, EndScan, Indices
<1> QED
  BY <1>3 DEF IInv, EndScan

LEMMA InitIInv == Init => IInv
<1> SUFFICES ASSUME Init
             PROVE  IInv
  OBVIOUS
<1>1. shelly_list \in Seq(Entry) /\ Len(shelly_list) = 0
  BY EmptySeq DEF Init
<1>2. Indices = {}
  BY <1>1 DEF Indices
<1> QED
  BY <1>1, <1>2 DEF Init, IInv, TypeOK, NoDuplicateConnection, ScanMissesNone

LEMMA NextIInv ==
    ASSUME IInv, [Next]_vars
    PROVE  IInv'
<1>1. CASE UNCHANGED vars
  BY <1>1 DEF vars, IInv, TypeOK, NoDuplicateConnection, ScanMissesNone, Indices, Listed
<1>2. ASSUME NEW a \in Address, InsertShelly(a)
      PROVE  IInv'
  BY <1>2, InsertShellyIInv
<1>3. CASE BeginScan
  BY <1>3, BeginScanIInv
<1>4. ASSUME NEW ok \in BOOLEAN, Reconnect(ok)
      PROVE  IInv'
  <2>1. CASE ok = TRUE
    BY <1>4, <2>1, ReconnectedIInv
  <2>2. CASE ok = FALSE
    BY <1>4, <2>2, NotReconnectedIInv
  <2> QED
    BY <2>1, <2>2
<1>5. CASE PassOver
  BY <1>5, PassOverIInv
<1>6. CASE EndScan
  BY <1>6, EndScanIInv
<1>7. ASSUME NEW wrong \in WrongModes, CheckShellyEsp8266Mode(wrong)
      PROVE  IInv'
  BY <1>7, ModeCheckIInv
<1>8. ASSUME NEW i \in Indices,
             ReadPong(i) \/ ReadClose(i) \/ PollEnded(i) \/ StreamCloses(i) \/ PongExpires(i)
      PROVE  IInv'
  BY <1>8, EntryStepsIInv, ReadCloseIInv, PollEndedIInv
<1> QED
  BY <1>1, <1>2, <1>3, <1>4, <1>5, <1>6, <1>7, <1>8 DEF Next, Scan, AnyReconnect

LEMMA SpecIInv == Spec => []IInv
<1>1. IInv /\ [Next]_vars => IInv'
  BY NextIInv
<1> QED
  BY <1>1, InitIInv, PTL DEF Spec

\* Every reachable state has the types the module declares: in particular the
\* scan's index never leaves the list by more than one.
THEOREM ConnectionTypes == Spec => []TypeOK
BY SpecIInv, PTL DEF IInv

\* However discovery, scans, closing connections and mode checks interleave, a
\* device is connected at most once at each of its addresses.
THEOREM ConnectedOnce == Spec => []NoDuplicateConnection
BY SpecIInv, PTL DEF IInv

\* Every connection that was stale when a scan began is still ahead of the scan
\* until it is renewed or removed, although the list shrinks under it: the scan
\* ends with none of them left.
THEOREM ScanSeesAllStale == Spec => []ScanMissesNone
BY SpecIInv, PTL DEF IInv

-----------------------------------------------------------------------------
(***************************************************************************)
(* What a mode check removes, whatever it finds                            *)
(***************************************************************************)

\* Removal number j takes out the entry j - 1 places behind the one it is meant
\* for: the first is right, each later one has moved up by the removals before.
ModeCheckShifts ==
    \A wrong \in WrongModes :
        CheckShellyEsp8266Mode(wrong) /\ ~OutOfRange(ToRemove(wrong)) =>
            \A i \in Indices :
                AddressOf(shelly_list[i]) \notin Listed' <=>
                    \E j \in 1..Len(ToRemove(wrong)) : i = ToRemove(wrong)[j] + (j - 1)

LEMMA ModeCheckTakesHits ==
    ASSUME IInv
    PROVE  ModeCheckShifts
<1> SUFFICES ASSUME NEW wrong \in WrongModes, CheckShellyEsp8266Mode(wrong),
                    ~OutOfRange(ToRemove(wrong)), NEW i \in Indices
             PROVE  AddressOf(shelly_list[i]) \notin Listed' <=>
                      \E j \in 1..Len(ToRemove(wrong)) : i = Hit(ToRemove(wrong), j)
  BY DEF ModeCheckShifts, Hit
<1> DEFINE ids == ToRemove(wrong)
           r == Removed(shelly_list, ids)
<1>1. shelly_list \in Seq(Entry) /\ Distinct(shelly_list) /\ Len(shelly_list) \in Nat
  BY NoDuplicateIsDistinct, LenProperties DEF IInv, TypeOK
<1>2. shelly_list' = r
  BY DEF CheckShellyEsp8266Mode
<1>3. PICK h : Left(r, h, shelly_list, ids, Len(ids))
  BY <1>1, CollectedIsRemovable, RemovedLeaves
<1> HIDE DEF ids, r
<1>4. \A k \in 1..Len(r) : /\ h[k] \in Indices
                           /\ shelly_list'[k] = shelly_list[h[k]]
                           /\ \A j \in 1..Len(ids) : h[k] # Hit(ids, j)
  BY <1>2, <1>3 DEF Left, Indices
<1>5. ASSUME NEW x \in Indices, \A j \in 1..Len(ids) : x # Hit(ids, j)
      PROVE  \E k \in 1..Len(r) : h[k] = x
  BY <1>3, <1>5 DEF Left, Indices
<1>6. ASSUME AddressOf(shelly_list[i]) \in Listed'
      PROVE  \A j \in 1..Len(ids) : i # Hit(ids, j)
  <2>1. PICK k \in 1..Len(r) : AddressOf(shelly_list'[k]) = AddressOf(shelly_list[i])
    BY <1>2, <1>6 DEF Listed, Indices
  <2>2. h[k] = i
    BY <1>1, <1>4, <2>1 DEF Distinct, Indices
  <2> QED
    BY <1>4, <2>2
<1>7. ASSUME \A j \in 1..Len(ids) : i # Hit(ids, j)
      PROVE  AddressOf(shelly_list[i]) \in Listed'
  <2>1. PICK k \in 1..Len(r) : h[k] = i
    BY <1>5, <1>7
  <2> QED
    BY <1>2, <1>4, <2>1 DEF Listed, Indices
<1> QED
  BY <1>6, <1>7 DEF ids

\* A mode check that does not panic removes exactly the entries whose place is
\* that of a device in the wrong mode, shifted by the removals before it: with two
\* such devices the second removal always takes the entry behind the second.
THEOREM ModeCheckRemovesShifted == Spec => [][ModeCheckShifts]_vars
<1>1. IInv /\ [Next]_vars => [ModeCheckShifts]_vars
  BY ModeCheckTakesHits
<1> QED
  BY <1>1, SpecIInv, PTL DEF Spec

-----------------------------------------------------------------------------
(***************************************************************************)
(* One address for each device, and mode checks that find at most one      *)
(* device in the wrong mode                                                *)
(*                                                                         *)
(* Without either, the main loop may hang or panic: two entries of a       *)
(* device are confused by ReadClose, two indices are wrong by one after    *)
(* the first removal.                                                      *)
(***************************************************************************)
OneAddressEach == \A a, b \in Address : a.mac = b.mac => a = b

\* No entry's stream has ended: one that does leaves the list in that step.
Alive(l) == \A i \in 1..Len(l) : l[i].stream # "ended"

Steady == IInv /\ Running /\ Alive(shelly_list)

\* What RemoveAt leaves is all the other entries and nothing else.
LEMMA RemoveAtLeavesOthers ==
    ASSUME NEW l \in Seq(Entry), NEW p \in 1..Len(l)
    PROVE  /\ \A j \in 1..Len(l) : j # p =>
                 \E k \in 1..Len(RemoveAt(l, p)) : RemoveAt(l, p)[k] = l[j]
           /\ \A k \in 1..Len(RemoveAt(l, p)) :
                 \E j \in 1..Len(l) : j # p /\ RemoveAt(l, p)[k] = l[j]
<1> DEFINE r == RemoveAt(l, p)
<1>1. /\ Len(r) = Len(l) - 1 /\ Len(l) \in Nat
      /\ \A j \in 1..Len(l) - 1 : r[j] = IF j < p THEN l[j] ELSE l[j + 1]
  BY RemoveAtProperties, LenProperties
<1> HIDE DEF r
<1>2. ASSUME NEW j \in 1..Len(l), j # p
      PROVE  \E k \in 1..Len(r) : r[k] = l[j]
  <2> DEFINE k == IF j < p THEN j ELSE j - 1
  <2>1. k \in 1..Len(r) /\ r[k] = l[j]
    BY <1>1, <1>2
  <2> QED
    BY <2>1
<1>3. ASSUME NEW k \in 1..Len(r)
      PROVE  \E j \in 1..Len(l) : j # p /\ r[k] = l[j]
  <2> DEFINE j == IF k < p THEN k ELSE k + 1
  <2>1. j \in 1..Len(l) /\ j # p /\ r[k] = l[j]
    BY <1>1
  <2> QED
    BY <2>1
<1> QED
  BY <1>2, <1>3 DEF r

\* Entries are told apart by their mac addresses.
LEMMA FirstIsItself ==
    ASSUME OneAddressEach, shelly_list \in Seq(Entry), Distinct(shelly_list),
           NEW i \in Indices
    PROVE  FirstWithMac(shelly_list[i].mac) = i
<1> DEFINE f == FirstWithMac(shelly_list[i].mac)
<1>1. f \in Indices /\ shelly_list[f].mac = shelly_list[i].mac
  BY FirstWithMacFacts
<1> HIDE DEF f
<1>2. /\ AddressOf(shelly_list[f]) \in Address
      /\ AddressOf(shelly_list[i]) \in Address
  BY <1>1, ElementOfSeq, EntryFacts DEF Indices
<1>3. AddressOf(shelly_list[f]).mac = AddressOf(shelly_list[i]).mac
  BY <1>1 DEF AddressOf
<1>4. AddressOf(shelly_list[f]) = AddressOf(shelly_list[i])
  BY <1>2, <1>3 DEF OneAddressEach
<1>5. f = i
  BY <1>1, <1>4 DEF Distinct, Indices
<1> QED
  BY <1>5 DEF f

\* The mac addresses of the list are finitely many.
LEMMA FinitelyManyMacs ==
    ASSUME shelly_list \in Seq(Entry)
    PROVE  IsFiniteSet({a.mac : a \in Listed})
<1> DEFINE macs == {a.mac : a \in Listed}
           f == [i \in Indices |-> shelly_list[i].mac]
<1>1. IsFiniteSet(Indices)
  BY LenProperties, FS_Interval DEF Indices
<1>2. f \in Surjection(Indices, macs)
  <2>1. macs = {AddressOf(shelly_list[i]).mac : i \in Indices}
    BY DEF Listed
  <2>2. \A i \in Indices : AddressOf(shelly_list[i]).mac = shelly_list[i].mac
    BY DEF AddressOf
  <2> QED
    BY <2>1, <2>2 DEF Surjection
<1> HIDE DEF f, macs
<1>3. IsFiniteSet(macs)
  BY <1>1, <1>2, FS_Surjection
<1> QED
  BY <1>3 DEF macs

\* One device in the wrong mode is one entry of the list.
LEMMA OneWrong ==
    ASSUME OneAddressEach, MaxWrong <= 1, shelly_list \in Seq(Entry),
           NEW wrong \in WrongModes
    PROVE  \E i \in Indices : wrong = {AddressOf(shelly_list[i])}
<1> DEFINE macs == {a.mac : a \in Listed}
<1>1. PICK w \in SUBSET macs : /\ w # {} /\ Cardinality(w) <= MaxWrong
                               /\ wrong = {a \in Listed : a.mac \in w}
  BY DEF WrongModes
<1>2. IsFiniteSet(w) /\ Cardinality(w) \in Nat
  <2>1. IsFiniteSet(macs)
    BY FinitelyManyMacs
  <2> HIDE DEF macs
  <2>2. IsFiniteSet(w)
    BY <2>1, FS_Subset
  <2> QED
    BY <2>2, FS_CardinalityType
<1>3. Cardinality(w) = 1
  <2>1. Cardinality(w) # 0
    BY <1>1, <1>2, FS_EmptySet
  <2> QED
    BY <1>1, <1>2, <2>1, ShellyAssumption
<1>4. PICK m : w = {m}
  BY <1>2, <1>3, FS_Singleton
<1>5. PICK a \in Listed : a.mac = m
  BY <1>1, <1>4
<1>6. wrong = {a}
  <2>1. Listed \subseteq Address
    BY ListedAddresses
  <2>2. \A b \in Listed : b.mac = m => b = a
    BY <1>5, <2>1 DEF OneAddressEach
  <2> QED
    BY <1>1, <1>4, <1>5, <2>2
<1> QED
  BY <1>5, <1>6 DEF Listed

\* A single index is removed, and it is the right one.
LEMMA OneRemoved ==
    ASSUME shelly_list \in Seq(Entry), Distinct(shelly_list), NEW i \in Indices
    PROVE  LET ids == ToRemove({AddressOf(shelly_list[i])}) IN
           /\ Len(ids) = 1 /\ ids[1] = i /\ ~OutOfRange(ids)
<1> DEFINE wrong == {AddressOf(shelly_list[i])}
           ids == ToRemove(wrong)
           W == {j \in Indices : AddressOf(shelly_list[j]) \in wrong}
<1>1. Len(shelly_list) \in Nat
  BY LenProperties
<1>2. W = {i}
  BY DEF Distinct, Indices
<1>3. Lists(ids, Len(shelly_list), W)
  <2> HIDE DEF wrong
  <2> QED
    BY <1>1, CollectsTheWrong
<1> HIDE DEF ids, W
<1>4. ids \in Seq(Nat) /\ Len(ids) \in Nat /\ DOMAIN ids = 1..Len(ids)
  BY <1>3, LenProperties DEF Lists
<1>5. \A j \in 1..Len(ids) : ids[j] = i
  BY <1>2, <1>3 DEF Lists
<1>6. \E j \in 1..Len(ids) : ids[j] = i
  BY <1>1, <1>2, <1>3 DEF Lists, Indices
<1>7. ~(1 < Len(ids))
  <2> SUFFICES ASSUME 1 < Len(ids)
               PROVE  FALSE
    OBVIOUS
  <2>1. 1 \in 1..Len(ids) /\ 2 \in 1..Len(ids)
    BY <1>4
  <2>2. ids[1] < ids[2]
    BY <1>3, <2>1 DEF Lists
  <2> QED
    BY <1>5, <2>1, <2>2 DEF Indices
<1>8. Len(ids) = 1
  BY <1>4, <1>6, <1>7
<1>9. ids[1] = i
  BY <1>5, <1>8
<1>10. ~OutOfRange(ids)
  BY <1>1, <1>4, <1>8, <1>9 DEF OutOfRange, Indices
<1> QED
  BY <1>8, <1>9, <1>10 DEF ids

\* Entry p and no other leaves the list.
OnlyLeaves(p) ==
    /\ \A j \in Indices : j # p => \E k \in Indices' : shelly_list'[k] = shelly_list[j]
    /\ \A k \in Indices' : \E j \in Indices : j # p /\ shelly_list'[k] = shelly_list[j]

LEMMA OneLeaves ==
    ASSUME Distinct(shelly_list), Alive(shelly_list), NEW p \in Indices, OnlyLeaves(p)
    PROVE  /\ Alive(shelly_list')
           /\ \A i \in Indices : i # p => AddressOf(shelly_list[i]) \in Listed'
           /\ AddressOf(shelly_list[p]) \notin Listed'
<1>1. Alive(shelly_list')
  BY DEF Alive, OnlyLeaves, Indices
<1>2. ASSUME NEW i \in Indices, i # p
      PROVE  AddressOf(shelly_list[i]) \in Listed'
  BY <1>2 DEF OnlyLeaves, Listed
<1>3. ASSUME AddressOf(shelly_list[p]) \in Listed'
      PROVE  FALSE
  <2>1. PICK k \in Indices' : AddressOf(shelly_list'[k]) = AddressOf(shelly_list[p])
    BY <1>3 DEF Listed
  <2>2. PICK j \in Indices : j # p /\ shelly_list'[k] = shelly_list[j]
    BY DEF OnlyLeaves
  <2> QED
    BY <2>1, <2>2 DEF Distinct, Indices
<1> QED
  BY <1>1, <1>2, <1>3

\* No entry leaves the list, and none whose stream has ended comes to it.
AllStay ==
    /\ \A i \in Indices : AddressOf(shelly_list[i]) \in Listed'
    /\ Alive(shelly_list')
    /\ changed' = {}

LEMMA StayingIsSteady ==
    ASSUME AllStay
    PROVE  Alive(shelly_list') /\ OnlyBrokenDropped
BY DEF AllStay, OnlyBrokenDropped

LEMMA SteadyUnchangedList ==
    ASSUME Alive(shelly_list), UNCHANGED shelly_list, changed' = {}
    PROVE  AllStay
BY DEF AllStay, Alive, Listed, Indices

\* An entry is replaced by one of the same address that has not ended.
LEMMA SteadyReplaced ==
    ASSUME Steady, NEW i \in Indices, NEW e \in Entry,
           AddressOf(e) = AddressOf(shelly_list[i]), e.stream # "ended",
           shelly_list' = [shelly_list EXCEPT ![i] = e], changed' = {}
    PROVE  AllStay
<1> DEFINE r == [shelly_list EXCEPT ![i] = e]
<1>1. /\ shelly_list \in Seq(Entry) /\ Distinct(shelly_list)
      /\ i \in 1..Len(shelly_list) /\ AddressOf(e) = AddressOf(shelly_list[i])
  BY NoDuplicateIsDistinct DEF Steady, IInv, TypeOK, Indices
<1>2. /\ Len(r) = Len(shelly_list)
      /\ \A j \in 1..Len(shelly_list) : r[j] = IF j = i THEN e ELSE shelly_list[j]
      /\ \A j \in 1..Len(shelly_list) : AddressOf(r[j]) = AddressOf(shelly_list[j])
  BY ONLY <1>1, e \in Entry, ReplaceKeepsDistinct
<1>3. shelly_list' = r
  OBVIOUS
<1> HIDE DEF r
<1>4. Alive(shelly_list')
  BY <1>2, <1>3 DEF Steady, Alive
<1>5. Listed' = Listed
  BY <1>2, <1>3 DEF Listed, Indices
<1>6. \A j \in Indices : AddressOf(shelly_list[j]) \in Listed'
  BY <1>5 DEF Listed
<1> QED
  BY <1>4, <1>6 DEF AllStay

LEMMA InsertShellySteady ==
    ASSUME Steady, NEW a \in Address, InsertShelly(a)
    PROVE  AllStay
<1> DEFINE t == Append(shelly_list, Fresh(a))
<1>1. shelly_list \in Seq(Entry) /\ Len(shelly_list) \in Nat /\ Fresh(a) \in Entry
  BY LenProperties, FreshFacts DEF Steady, IInv, TypeOK
<1>2. /\ Len(t) = Len(shelly_list) + 1
      /\ \A i \in 1..Len(shelly_list) : t[i] = shelly_list[i]
      /\ t[Len(shelly_list) + 1] = Fresh(a)
  BY <1>1, AppendProperties
<1>3. shelly_list' = t /\ changed' = {}
  BY DEF InsertShelly
<1> HIDE DEF t
<1>4. \A i \in Indices : i \in Indices' /\ shelly_list'[i] = shelly_list[i]
  BY <1>1, <1>2, <1>3 DEF Indices
<1>5. \A i \in Indices : AddressOf(shelly_list[i]) \in Listed'
  BY <1>4 DEF Listed
<1>6. Alive(shelly_list')
  <2> SUFFICES ASSUME NEW i \in 1..Len(t)
               PROVE  t[i].stream # "ended"
    BY <1>3 DEF Alive
  <2>1. CASE i \in 1..Len(shelly_list)
    BY <1>2, <2>1 DEF Steady, Alive
  <2>2. CASE i = Len(shelly_list) + 1
    BY <1>2, <2>2, FreshFacts
  <2> QED
    BY <1>1, <1>2, <2>1, <2>2
<1> QED
  BY <1>3, <1>5, <1>6 DEF AllStay

LEMMA EntryStepsSteady ==
    ASSUME Steady, NEW i \in Indices, ReadPong(i) \/ StreamCloses(i) \/ PongExpires(i)
    PROVE  AllStay
<1> DEFINE e == shelly_list[i]
<1>1. e \in Entry /\ shelly_list \in Seq(Entry) /\ e.stream # "ended"
  BY ElementOfSeq DEF Steady, IInv, TypeOK, Indices, Alive
<1>2. CASE ReadPong(i)
  <2> DEFINE f == [e EXCEPT !.stale = FALSE]
  <2>1. f \in Entry /\ AddressOf(f) = AddressOf(e) /\ f.stream = e.stream
    BY <1>1, EntryFacts
  <2>2. shelly_list' = [shelly_list EXCEPT ![i] = f] /\ changed' = {}
    BY <1>1, <1>2 DEF ReadPong
  <2> HIDE DEF f
  <2>3. f.stream # "ended"
    BY <1>1, <2>1
  <2> QED
    BY <2>1, <2>2, <2>3, SteadyReplaced
<1>3. CASE StreamCloses(i)
  <2> DEFINE f == [e EXCEPT !.stream = "closing"]
  <2>1. f \in Entry /\ AddressOf(f) = AddressOf(e) /\ f.stream = "closing"
    BY <1>1, EntryFacts
  <2>2. shelly_list' = [shelly_list EXCEPT ![i] = f] /\ changed' = {}
    BY <1>1, <1>3 DEF StreamCloses
  <2> HIDE DEF f
  <2> QED
    BY <2>1, <2>2, SteadyReplaced
<1>4. CASE PongExpires(i)
  <2> DEFINE f == [e EXCEPT !.stale = TRUE]
  <2>1. f \in Entry /\ AddressOf(f) = AddressOf(e) /\ f.stream = e.stream
    BY <1>1, EntryFacts
  <2>2. shelly_list' = [shelly_list EXCEPT ![i] = f] /\ changed' = {}
    BY <1>1, <1>4 DEF PongExpires
  <2> HIDE DEF f
  <2>3. f.stream # "ended"
    BY <1>1, <2>1
  <2> QED
    BY <2>1, <2>2, <2>3, SteadyReplaced
<1> QED
  BY <1>2, <1>3, <1>4

LEMMA ReadCloseSteady ==
    ASSUME OneAddressEach, Steady, NEW i \in Indices, ReadClose(i)
    PROVE  Alive(shelly_list') /\ OnlyBrokenDropped
<1> DEFINE e == [shelly_list[i] EXCEPT !.stream = "ended"]
           l == [shelly_list EXCEPT ![i] = e]
<1>1. /\ shelly_list \in Seq(Entry) /\ Distinct(shelly_list)
      /\ i \in 1..Len(shelly_list) /\ shelly_list[i] \in Entry
  BY NoDuplicateIsDistinct, ElementOfSeq DEF Steady, IInv, TypeOK, Indices
<1>2. e \in Entry /\ AddressOf(e) = AddressOf(shelly_list[i])
  BY <1>1, EntryFacts
<1>3. shelly_list' = RemoveAt(l, i) /\ changed' = {}
  BY <1>1, FirstIsItself DEF ReadClose
<1> HIDE DEF e
<1>4. /\ l \in Seq(Entry) /\ Len(l) = Len(shelly_list)
      /\ \A j \in 1..Len(shelly_list) : l[j] = IF j = i THEN e ELSE shelly_list[j]
  BY ONLY <1>1, <1>2, ReplaceKeepsDistinct
<1> HIDE DEF l
<1>5. OnlyLeaves(i)
  <2>1. /\ \A j \in 1..Len(l) : j # i =>
              \E k \in 1..Len(RemoveAt(l, i)) : RemoveAt(l, i)[k] = l[j]
        /\ \A k \in 1..Len(RemoveAt(l, i)) :
              \E j \in 1..Len(l) : j # i /\ RemoveAt(l, i)[k] = l[j]
    BY <1>1, <1>4, RemoveAtLeavesOthers
  <2> QED
    BY <1>3, <1>4, <2>1 DEF OnlyLeaves, Indices
<1>6. /\ Alive(shelly_list')
      /\ \A j \in Indices : j # i => AddressOf(shelly_list[j]) \in Listed'
  BY <1>1, <1>5, OneLeaves DEF Steady
<1>7. shelly_list[i].stream = "closing"
  BY DEF ReadClose
<1> QED
  BY <1>3, <1>6, <1>7 DEF OnlyBrokenDropped

LEMMA ReconnectSteady ==
    ASSUME Steady, NEW ok \in BOOLEAN, Reconnect(ok)
    PROVE  Alive(shelly_list') /\ OnlyBrokenDropped
<1>1. /\ shelly_list \in Seq(Entry) /\ Distinct(shelly_list)
      /\ idx \in 1..Len(shelly_list) /\ idx \in Indices /\ shelly_list[idx] \in Entry
  <2>1. idx \in Indices
    BY ReconnectFacts
  <2> QED
    BY <2>1, NoDuplicateIsDistinct, ElementOfSeq DEF Steady, IInv, TypeOK, Indices
<1>2. CASE ok = TRUE
  <2> DEFINE e == Fresh(AddressOf(shelly_list[idx]))
  <2>1. /\ e \in Entry /\ AddressOf(e) = AddressOf(shelly_list[idx])
        /\ e.stream # "ended"
    BY <1>1, EntryFacts, FreshFacts
  <2>2. shelly_list' = [shelly_list EXCEPT ![idx] = e] /\ changed' = {}
    BY <1>1, <1>2 DEF Reconnect
  <2> HIDE DEF e
  <2>3. AllStay
    BY <1>1, <2>1, <2>2, SteadyReplaced
  <2> QED
    BY <2>3, StayingIsSteady
<1>3. CASE ok = FALSE
  <2>1. /\ shelly_list' = RemoveAt(shelly_list, idx) /\ changed' = {}
        /\ shelly_list[idx].stale
    BY <1>3, Zenon DEF Reconnect
  <2>2. OnlyLeaves(idx)
    <3> DEFINE r == RemoveAt(shelly_list, idx)
    <3>1. /\ \A j \in 1..Len(shelly_list) : j # idx =>
                \E k \in 1..Len(r) : r[k] = shelly_list[j]
          /\ \A k \in 1..Len(r) :
                \E j \in 1..Len(shelly_list) : j # idx /\ r[k] = shelly_list[j]
      BY <1>1, RemoveAtLeavesOthers
    <3>2. shelly_list' = r
      BY <2>1
    <3> HIDE DEF r
    <3> QED
      BY <3>1, <3>2 DEF OnlyLeaves, Indices
  <2>3. /\ Alive(shelly_list')
        /\ \A j \in Indices : j # idx => AddressOf(shelly_list[j]) \in Listed'
    BY <1>1, <2>2, OneLeaves DEF Steady
  <2> QED
    BY <2>1, <2>3 DEF OnlyBrokenDropped
<1> QED
  BY <1>2, <1>3

LEMMA ModeCheckSteady ==
    ASSUME OneAddressEach, MaxWrong <= 1, Steady, NEW wrong \in WrongModes,
           CheckShellyEsp8266Mode(wrong)
    PROVE  Alive(shelly_list') /\ UNCHANGED main /\ OnlyBrokenDropped
<1> DEFINE ids == ToRemove(wrong)
           r == Removed(shelly_list, ids)
<1>1. shelly_list \in Seq(Entry) /\ Distinct(shelly_list) /\ Len(shelly_list) \in Nat
  BY NoDuplicateIsDistinct, LenProperties DEF Steady, IInv, TypeOK
<1>2. PICK i \in Indices : wrong = {AddressOf(shelly_list[i])}
  BY <1>1, OneWrong
<1>3. Len(ids) = 1 /\ ids[1] = i /\ ~OutOfRange(ids)
  BY <1>1, <1>2, OneRemoved
<1>4. Removable(shelly_list, ids)
  BY <1>1, <1>3, CollectedIsRemovable
<1>5. shelly_list' = r /\ UNCHANGED main /\ changed' = wrong
  BY <1>3 DEF CheckShellyEsp8266Mode
<1>6. PICK h : Left(r, h, shelly_list, ids, 1)
  BY <1>3, <1>4, RemovedLeaves
<1> HIDE DEF ids, r
<1>7. Hit(ids, 1) = i
  BY <1>3 DEF Hit, Indices
<1>8. /\ Len(r) = Len(shelly_list) - 1
      /\ \A k \in 1..Len(r) : /\ h[k] \in 1..Len(shelly_list)
                              /\ r[k] = shelly_list[h[k]]
                              /\ h[k] # i
      /\ \A j \in 1..Len(shelly_list) : j # i => \E k \in 1..Len(r) : h[k] = j
  BY <1>6, <1>7 DEF Left
<1>9. OnlyLeaves(i)
  <2>1. \A j \in 1..Len(shelly_list) : j # i => \E k \in 1..Len(r) : r[k] = shelly_list[j]
    BY <1>8
  <2>2. \A k \in 1..Len(r) : \E j \in 1..Len(shelly_list) : j # i /\ r[k] = shelly_list[j]
    BY <1>8
  <2> QED
    BY <1>5, <2>1, <2>2 DEF OnlyLeaves, Indices
<1>10. /\ Alive(shelly_list')
       /\ \A j \in Indices : j # i => AddressOf(shelly_list[j]) \in Listed'
       /\ AddressOf(shelly_list[i]) \notin Listed'
  BY <1>1, <1>9, OneLeaves DEF Steady
<1>11. OnlyBrokenDropped
  BY <1>2, <1>5, <1>10 DEF OnlyBrokenDropped
<1> QED
  BY <1>5, <1>10, <1>11

LEMMA NextSteady ==
    ASSUME OneAddressEach, MaxWrong <= 1, Steady, Next
    PROVE  Steady' /\ OnlyBrokenDropped
<1>1. IInv'
  BY NextIInv DEF Steady
<1>2. ASSUME NEW a \in Address, InsertShelly(a)
      PROVE  Alive(shelly_list') /\ OnlyBrokenDropped /\ Running'
  BY <1>2, InsertShellySteady, StayingIsSteady DEF Steady, Running, InsertShelly
<1>3. CASE BeginScan \/ PassOver \/ EndScan
  <2>1. UNCHANGED shelly_list /\ changed' = {} /\ main' \in {"select", "scan"}
    BY <1>3 DEF BeginScan, PassOver, EndScan
  <2>2. Alive(shelly_list') /\ OnlyBrokenDropped
    BY <2>1, SteadyUnchangedList, StayingIsSteady DEF Steady
  <2> QED
    BY <1>1, <2>1, <2>2 DEF Steady, Running
<1>4. ASSUME NEW ok \in BOOLEAN, Reconnect(ok)
      PROVE  Alive(shelly_list') /\ OnlyBrokenDropped /\ Running'
  BY <1>4, ReconnectSteady, ReconnectFacts DEF Running
<1>5. ASSUME NEW wrong \in WrongModes, CheckShellyEsp8266Mode(wrong)
      PROVE  Alive(shelly_list') /\ OnlyBrokenDropped /\ Running'
  BY <1>5, ModeCheckSteady DEF Steady, Running
<1>6. ASSUME NEW i \in Indices, ReadPong(i) \/ StreamCloses(i) \/ PongExpires(i)
      PROVE  Alive(shelly_list') /\ OnlyBrokenDropped /\ Running'
  <2>1. UNCHANGED main
    BY <1>6 DEF ReadPong, StreamCloses, PongExpires
  <2> QED
    BY <1>6, <2>1, EntryStepsSteady, StayingIsSteady DEF Steady, Running
<1>7. ASSUME NEW i \in Indices, ReadClose(i)
      PROVE  Alive(shelly_list') /\ OnlyBrokenDropped /\ Running'
  BY <1>7, ReadCloseSteady DEF Steady, Running, ReadClose
<1>8. ASSUME NEW i \in Indices
      PROVE  ~PollEnded(i)
  BY DEF Steady, Alive, PollEnded, Indices
<1> QED
  BY <1>1, <1>2, <1>3, <1>4, <1>5, <1>6, <1>7, <1>8
     DEF Next, Scan, AnyReconnect, Steady

LEMMA SpecSteady ==
    ASSUME OneAddressEach, MaxWrong <= 1
    PROVE  Spec => []Steady
<1>1. Init => Steady
  <2>1. Init => Len(shelly_list) = 0
    BY EmptySeq DEF Init
  <2> QED
    BY <2>1, InitIInv DEF Init, Steady, Running, Alive
<1>2. Steady /\ [Next]_vars => Steady'
  <2>1. ASSUME Steady, UNCHANGED vars
        PROVE  Steady'
    BY <2>1, NextIInv DEF Steady, Running, Alive, vars
  <2> QED
    BY <2>1, NextSteady
<1> QED
  BY <1>1, <1>2, PTL DEF Spec

\* With one address for each device and at most one device in the wrong mode at
\* a mode check, the main loop neither polls a stream that has ended nor removes
\* past the end of the list.
THEOREM BridgeStaysResponsive ==
    ASSUME OneAddressEach, MaxWrong <= 1
    PROVE  Spec => []StaysResponsive
<1>1. Steady => StaysResponsive
  BY DEF Steady, StaysResponsive
<1> QED
  BY <1>1, SpecSteady, PTL

\* Under the same two conditions a connection leaves the list only because it
\* was closing or stale, or because its own device was told to change mode, and
\* one whose device was told to does leave.
THEOREM OnlyBrokenAreDropped ==
    ASSUME OneAddressEach, MaxWrong <= 1
    PROVE  Spec => DropsOnlyBroken
<1>1. Steady /\ [Next]_vars => [OnlyBrokenDropped]_vars
  BY NextSteady
<1> QED
  BY <1>1, SpecSteady, PTL DEF Spec, DropsOnlyBroken
=============================================================================
