-------------------------- MODULE KeepaliveProofs ---------------------------
(***************************************************************************)
(* Proofs about Keepalive, for every number of sessions and all periods,   *)
(* limits, latencies and stalls.                                           *)
(***************************************************************************)
EXTENDS Keepalive, TLAPS

\* The inductive invariant needs no relation between the time constants.
IInv == TypeOK /\ PongsKeepPace

LEMMA InitIInv == Init => IInv
BY KeepaliveAssumption DEF Init, IInv, TypeOK, PongsKeepPace, MaxGap

\* The Ping in hand is handled by the session before it loops.
LEMMA EnterLoopPreserves ==
    ASSUME IInv, NEW s \in Session, EnterLoop(s)
    PROVE  IInv'
<1> USE KeepaliveAssumption DEF EnterLoop, IInv, MaxGap
<1>1. TypeOK'
  BY DEF TypeOK
<1>2. PongsKeepPace'
  BY DEF TypeOK, PongsKeepPace
<1> QED
  BY <1>1, <1>2

\* A publication resets the gap; sessions it leaves open owe an answer to a
\* Ping that is at most as old as the one they owed before.
LEMMA PublishPreserves ==
    ASSUME IInv, PublishPing
    PROVE  IInv'
<1> USE KeepaliveAssumption DEF PublishPing, NextTick, IInv
<1>1. TypeOK'
  <2>1. due' \in -MaxStall..Period /\ sincePing' \in 0..MaxGap
    BY DEF TypeOK, MaxGap
  <2>2. phase' \in [Session -> {"closed", "waiting", "open"}]
    BY DEF TypeOK
  <2>3. queued' \in [Session -> BOOLEAN]
    <3>1. \A s \in Session : (queued[s] \/ phase[s] = "waiting") \in BOOLEAN
      BY Zenon
    <3> QED
      BY <3>1, Zenon
  <2>4. owed' \in [Session -> Nat \cup {None}]
    BY DEF TypeOK, OwedAfterPing
  <2>5. cutOff' \subseteq Session
    BY DEF TypeOK, Expired
  <2> QED
    BY <2>1, <2>2, <2>3, <2>4, <2>5 DEF TypeOK
<1>2. sincePing' + due' <= Period
  BY DEF TypeOK
<1>3. ASSUME NEW s \in Session, phase'[s] = "waiting"
      PROVE  /\ age'[s] <= MaxStall
             /\ owed'[s] = None
             /\ queued'[s]
  <2>1. phase[s] = "waiting"
    BY <1>3 DEF TypeOK
  <2>2. queued'[s] = TRUE
    BY <2>1, Zenon
  <2> QED
    BY <2>1, <2>2 DEF PongsKeepPace
<1>4. ASSUME NEW s \in Session, phase'[s] = "open"
      PROVE  /\ owed'[s] # None
             /\ age'[s] <= owed'[s] + MaxGap
             /\ s \notin silent' => owed'[s] <= Latency
  <2>1. /\ phase[s] = "open"
        /\ s \notin Expired
        /\ owed'[s] = IF owed[s] = None THEN 0 ELSE owed[s]
        /\ age[s] \in Nat /\ owed[s] \in Nat \cup {None}
    BY <1>4 DEF TypeOK, OwedAfterPing
  <2>2. CASE owed[s] = None
    BY <2>1, <2>2 DEF TypeOK, PongsKeepPace, MaxGap
  <2>3. CASE owed[s] # None
    BY <2>1, <2>3 DEF PongsKeepPace
  <2> QED
    BY <2>2, <2>3
<1> QED
  BY <1>1, <1>2, <1>3, <1>4 DEF PongsKeepPace

\* Time passes for the publications and for the sessions alike.
LEMMA TickPreserves ==
    ASSUME IInv, Tick
    PROVE  IInv'
<1> USE KeepaliveAssumption DEF Tick, IInv, MaxGap
<1>1. TypeOK'
  BY DEF TypeOK, PongsKeepPace, Older
<1>2. ASSUME NEW s \in Session
      PROVE  /\ phase'[s] = "waiting" => /\ age'[s] <= MaxStall
                                         /\ owed'[s] = None
                                         /\ ~queued'[s] => age'[s] <= sincePing'
             /\ phase'[s] = "open" /\ owed'[s] = None => age'[s] <= sincePing'
             /\ phase'[s] = "open" /\ owed'[s] # None =>
                  /\ age'[s] <= owed'[s] + MaxGap
                  /\ s \notin silent' => owed'[s] <= Latency
  BY DEF TypeOK, PongsKeepPace, Older
<1> QED
  BY <1>1, <1>2 DEF PongsKeepPace, TypeOK

\* Steps of one session that publish nothing.
LEMMA SessionPreserves ==
    ASSUME IInv, NEW s \in Session,
           Upgrade(s) \/ Leave(s) \/ PongReceived(s) \/ FallSilent(s)
    PROVE  IInv'
<1> USE KeepaliveAssumption DEF IInv, MaxGap
<1>1. CASE Upgrade(s)
  BY <1>1 DEF Upgrade, TypeOK, PongsKeepPace
<1>2. CASE Leave(s)
  BY <1>2 DEF Leave, TypeOK, PongsKeepPace
<1>3. CASE PongReceived(s)
  BY <1>3 DEF PongReceived, TypeOK, PongsKeepPace
<1>4. CASE FallSilent(s)
  BY <1>4 DEF FallSilent, TypeOK, PongsKeepPace
<1> QED
  BY <1>1, <1>2, <1>3, <1>4

LEMMA NextIInv == IInv /\ [Next]_vars => IInv'
<1> SUFFICES ASSUME IInv, [Next]_vars
             PROVE  IInv'
    OBVIOUS
<1>1. CASE UNCHANGED vars
  BY <1>1 DEF vars, IInv, TypeOK, PongsKeepPace
<1> QED
  BY <1>1, EnterLoopPreserves, PublishPreserves, TickPreserves, SessionPreserves
     DEF Next, SessionStep

LEMMA SpecIInv == Spec => []IInv
BY InitIInv, NextIInv, PTL DEF Spec

\* The last Pong of an answering device keeps pace with the publications of
\* the main loop, whatever the stalls.
THEOREM KeepingPace == Spec => [](TypeOK /\ PongsKeepPace)
BY SpecIInv, PTL DEF IInv

\* Every reachable state has the types and bounds the module declares: the ping
\* timer is never late by more than the longest stall, and two Pings are never
\* further apart than the period and that stall.
THEOREM KeepaliveTypes == Spec => []TypeOK
BY SpecIInv, PTL DEF IInv

-----------------------------------------------------------------------------
\* Within the budget a session that is too old has a silent device.
LEMMA TooOldIsSilent ==
    ASSUME StallWithinBudget, IInv, NEW s \in Session, TooOld(s)
    PROVE  /\ phase[s] = "open" => s \in silent
           /\ phase[s] # "waiting"
BY KeepaliveAssumption
   DEF StallWithinBudget, IInv, TypeOK, PongsKeepPace, TooOld, MaxGap

LEMMA NextCutOff ==
    ASSUME StallWithinBudget, IInv, cutOff = {}, [Next]_vars
    PROVE  cutOff' = {}
<1>1. CASE PublishPing
  BY <1>1, TooOldIsSilent DEF PublishPing, Expired
<1>2. ASSUME NEW s \in Session, EnterLoop(s)
      PROVE  cutOff' = {}
  BY <1>2, TooOldIsSilent DEF EnterLoop
<1>3. CASE Tick \/ UNCHANGED vars
  BY <1>3 DEF Tick, vars
<1>4. ASSUME NEW s \in Session, Upgrade(s) \/ Leave(s) \/ PongReceived(s) \/ FallSilent(s)
      PROVE  cutOff' = {}
  BY <1>4 DEF Upgrade, Leave, PongReceived, FallSilent
<1> QED
  BY <1>1, <1>2, <1>3, <1>4 DEF Next, SessionStep

\* If the longest stall of the main loop, the ping period and the latency of
\* the devices fit the 60 s of wssmanager.rs, no device that answers its Pings
\* is ever cut off by one.
THEOREM BudgetSuffices ==
    ASSUME StallWithinBudget
    PROVE  Spec => []AnsweringNeverCutOff
<1>1. Init => AnsweringNeverCutOff
  BY DEF Init, AnsweringNeverCutOff
<1>2. IInv /\ AnsweringNeverCutOff /\ [Next]_vars => AnsweringNeverCutOff'
  BY NextCutOff, StallWithinBudget DEF AnsweringNeverCutOff
<1> QED
  BY <1>1, <1>2, SpecIInv, PTL DEF Spec

-----------------------------------------------------------------------------
\* A session that a Ping left open had a Pong within the limit, one that was
\* opened since is younger than the Ping or was judged when it opened.
OldSincePing == \A s \in Session : phase[s] = "open" => age[s] <= Limit + sincePing

LEMMA OldSincePingPreserved ==
    ASSUME IInv, OldSincePing, [Next]_vars
    PROVE  OldSincePing'
<1> USE KeepaliveAssumption DEF IInv, TypeOK, OldSincePing
<1>1. CASE PublishPing
  BY <1>1 DEF PublishPing, Expired, TooOld
<1>2. CASE Tick
  BY <1>2 DEF Tick
<1>3. ASSUME NEW s \in Session, EnterLoop(s)
      PROVE  OldSincePing'
  <2>1. phase[s] = "waiting" /\ (~queued[s] => age[s] <= sincePing)
    BY <1>3 DEF EnterLoop, PongsKeepPace
  <2>2. phase'[s] = "open" => ~(queued[s] /\ TooOld(s))
    BY <1>3 DEF EnterLoop
  <2>3. phase'[s] = "open" => age[s] <= Limit + sincePing
    BY <2>1, <2>2 DEF TooOld
  <2> QED
    BY <1>3, <2>3 DEF EnterLoop
<1>4. ASSUME NEW s \in Session, Upgrade(s) \/ Leave(s) \/ PongReceived(s) \/ FallSilent(s)
      PROVE  OldSincePing'
  BY <1>4 DEF Upgrade, Leave, PongReceived, FallSilent
<1>5. CASE UNCHANGED vars
  BY <1>5 DEF vars
<1> QED
  BY <1>1, <1>2, <1>3, <1>4, <1>5 DEF Next, SessionStep

\* Whatever the limit, the period and the stalls are, no session is kept whose
\* last Pong is older than the limit and the longest gap between two Pings.
THEOREM SilentGivenUp == Spec => []GivenUpInTime
<1>1. Init => OldSincePing
  BY DEF Init, OldSincePing
<1>2. IInv /\ OldSincePing /\ [Next]_vars => OldSincePing'
  BY OldSincePingPreserved
<1>3. IInv /\ OldSincePing => GivenUpInTime
  BY KeepaliveAssumption DEF IInv, TypeOK, OldSincePing, GivenUpInTime, MaxGap
<1> QED
  BY <1>1, <1>2, <1>3, SpecIInv, PTL DEF Spec
=============================================================================
