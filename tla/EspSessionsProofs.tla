------------------------- MODULE EspSessionsProofs --------------------------
(***************************************************************************)
(* Proofs about EspSessions, for every number of sessions and devices, all *)
(* capacities of the two channels and all commands.                        *)
(***************************************************************************)
EXTENDS EspSessions, SequenceTheorems, TLAPS

\* What one task owes to the commands published since it subscribed: the body
\* of AccountedFor, which speaks of active sessions only.
Accounted(t) ==
    /\ t.start <= t.next
    /\ t.next <= Len(log)
    /\ \A p \in 1..MaxCommands :
         IF t.start < p /\ p <= t.next
         THEN IF Addressed(t, log[p]) THEN t.fate[p] # "none"
                                      ELSE t.fate[p] \in {"none", "skipped"}
         ELSE t.fate[p] = "none"

\* Before it is active a task has taken no command; a task in use has a peer.
NothingTaken ==
    \A s \in Session :
        /\ ~In(s, "active") => /\ task[s].start = task[s].next
                               /\ task[s].next <= Len(log)
                               /\ task[s].fate = NoFate
        /\ ~In(s, "free") => task[s].peer \in Mac

\* The inductive invariant: the invariants the runs check, and NothingTaken,
\* which says in what state the handshake hands a task over to its loop.
IInv == /\ TypeOK
        /\ NothingTaken
        /\ ResponderHeld
        /\ ActiveIsKnown
        /\ AccountedFor
        /\ SkippedOnlyWhenLagging

-----------------------------------------------------------------------------
(***************************************************************************)
(* The pieces of the state                                                 *)
(***************************************************************************)

LEMMA FreeIsTask == Free \in Task
BY EspSessionsAssumption DEF Free, Task, NoFate, Fate

LEMMA NoFateIsFate == NoFate \in [1..MaxCommands -> Fate]
BY DEF NoFate, Fate

LEMMA RangeAppend ==
    ASSUME NEW S, NEW q \in Seq(S), NEW e \in S
    PROVE  Range(Append(q, e)) = Range(q) \cup {e}
<1>1. /\ DOMAIN q = 1..Len(q) /\ DOMAIN Append(q, e) = 1..Len(q) + 1
      /\ Len(q) \in Nat
      /\ \A i \in 1..Len(q) : Append(q, e)[i] = q[i]
      /\ Append(q, e)[Len(q) + 1] = e
  BY AppendProperties, LenProperties
<1>2. ASSUME NEW x \in Range(Append(q, e))
      PROVE  x \in Range(q) \cup {e}
  BY <1>1, <1>2 DEF Range
<1>3. ASSUME NEW x \in Range(q)
      PROVE  x \in Range(Append(q, e))
  <2>1. PICK i \in 1..Len(q) : x = q[i]
    BY <1>1, <1>3 DEF Range
  <2>2. i \in DOMAIN Append(q, e) /\ Append(q, e)[i] = x
    BY <1>1, <2>1
  <2> QED
    BY <2>2 DEF Range
<1>4. e \in Range(Append(q, e))
  <2>1. Len(q) + 1 \in DOMAIN Append(q, e)
    BY <1>1
  <2> QED
    BY <1>1, <2>1 DEF Range
<1> QED
  BY <1>2, <1>3, <1>4

\* A sequence without repetitions does not hold its head in its tail.
LEMMA TailWithoutHead ==
    ASSUME NEW S, NEW q \in Seq(S), q # <<>>,
           \A i, j \in 1..Len(q) : q[i] = q[j] => i = j
    PROVE  /\ Tail(q) \in Seq(S)
           /\ Len(Tail(q)) = Len(q) - 1
           /\ Range(Tail(q)) = Range(q) \ {Head(q)}
           /\ Head(q) \in S
           /\ Head(q) \in Range(q)
           /\ \A i, j \in 1..Len(Tail(q)) : Tail(q)[i] = Tail(q)[j] => i = j
<1>1. /\ Len(q) \in Nat \ {0}
      /\ DOMAIN q = 1..Len(q) /\ DOMAIN Tail(q) = 1..Len(q) - 1
      /\ Len(Tail(q)) = Len(q) - 1
      /\ Tail(q) \in Seq(S)
      /\ Head(q) \in S
      /\ Head(q) = q[1]
      /\ \A i \in 1..Len(q) - 1 : Tail(q)[i] = q[i + 1]
  BY HeadTailProperties, LenProperties, EmptySeq
<1>2. ASSUME NEW x \in Range(Tail(q))
      PROVE  x \in Range(q) \ {Head(q)}
  <2>1. PICK i \in 1..Len(q) - 1 : x = q[i + 1]
    BY <1>1 DEF Range
  <2>2. i + 1 \in DOMAIN q /\ i + 1 # 1 /\ 1 \in DOMAIN q
    BY <1>1
  <2> QED
    BY <1>1, <2>1, <2>2 DEF Range
<1>3. ASSUME NEW x \in Range(q) \ {Head(q)}
      PROVE  x \in Range(Tail(q))
  <2>1. PICK i \in 1..Len(q) : x = q[i]
    BY <1>1 DEF Range
  <2>2. i - 1 \in DOMAIN Tail(q) /\ Tail(q)[i - 1] = x
    BY <1>1, <2>1
  <2> QED
    BY <2>2 DEF Range
<1>4. Head(q) \in Range(q)
  BY <1>1 DEF Range
<1>5. \A i, j \in 1..Len(Tail(q)) : Tail(q)[i] = Tail(q)[j] => i = j
  BY <1>1
<1> QED
  BY <1>1, <1>2, <1>3, <1>4, <1>5

\* The receiver's next position is within the log, and a skip stops Capacity
\* messages short of its end.
LEMMA AfterRecvBounds ==
    ASSUME NEW l, Len(l) \in Nat, NEW pos \in Nat, Readable(l, pos)
    PROVE  /\ AfterRecv(l, pos) \in pos + 1..Len(l)
           /\ Lagged(l, pos) => AfterRecv(l, pos) + Capacity = Len(l)
           /\ ~Lagged(l, pos) => AfterRecv(l, pos) = pos + 1
BY BroadcastAssumption DEF Readable, AfterRecv, Lagged

LEMMA LaggedIsReadable ==
    ASSUME NEW l, Len(l) \in Nat, NEW pos \in Nat, Lagged(l, pos)
    PROVE  Readable(l, pos)
BY BroadcastAssumption DEF Readable, Lagged

-----------------------------------------------------------------------------
(***************************************************************************)
(* Steps of a session                                                      *)
(***************************************************************************)

\* What IInv says of one task, but for its credentials.
GoodTask(t) ==
    /\ t.phase # "active" => /\ t.start = t.next
                             /\ t.next <= Len(log)
                             /\ t.fate = NoFate
    /\ t.phase # "free" => t.peer \in Mac
    /\ t.phase = "active" => /\ t.esp32_mac_address \in Range(shelly_plus_actuators)
                             /\ Accounted(t)
    /\ t.resp = "accepted" => t.peer \in Range(shelly_plus_actuators)
    /\ \A p \in 1..MaxCommands : t.fate[p] = "skipped" => p + Capacity <= Len(log)

LEMMA TasksAreGood ==
    ASSUME IInv, NEW s \in Session
    PROVE  task[s] \in Task /\ GoodTask(task[s])
BY DEF IInv, TypeOK, NothingTaken, ActiveIsKnown, AccountedFor, SkippedOnlyWhenLagging,
       GoodTask, Accounted, In

LEMMA FreeIsGood == IInv => GoodTask(Free)
BY LenProperties, EspSessionsAssumption DEF IInv, TypeOK, GoodTask, Free, NoFate

\* A step that replaces one task and touches nothing else keeps the invariant
\* if the new task is good and its responder is held.
LEMMA TaskReplaced ==
    ASSUME IInv, NEW s \in Session, NEW t \in Task,
           task' = [task EXCEPT ![s] = t],
           UNCHANGED <<rx_auth_cred, log, shelly_plus_actuators, modeCheck>>,
           GoodTask(t),
           t.phase = "waiting" => (Queued(s) <=> t.resp = None),
           t.phase # "waiting" => ~Queued(s) /\ t.resp = None
    PROVE  IInv'
<1>1. task' \in [Session -> Task]
  BY DEF IInv, TypeOK
<1>2. TypeOK'
  BY <1>1 DEF IInv, TypeOK
<1>3. \A r \in Session : task'[r] = IF r = s THEN t ELSE task[r]
  BY DEF IInv, TypeOK
<1>4. ResponderHeld'
  BY <1>3 DEF IInv, ResponderHeld, Queued, In
<1>5. \A r \in Session : GoodTask(task[r])
  BY TasksAreGood
<1>6. \A r \in Session : GoodTask(task'[r])
  BY <1>3, <1>5
<1>7. NothingTaken'
  BY <1>6 DEF NothingTaken, In, GoodTask
<1>8. ActiveIsKnown'
  BY <1>6 DEF ActiveIsKnown, In, GoodTask
<1>9. AccountedFor'
  BY <1>6 DEF AccountedFor, In, GoodTask, Accounted
<1>10. SkippedOnlyWhenLagging'
  BY <1>6 DEF SkippedOnlyWhenLagging, GoodTask
<1> QED
  BY <1>2, <1>4, <1>7, <1>8, <1>9, <1>10 DEF IInv

\* A task outside the handshake ends.
LEMMA TaskEnds ==
    ASSUME IInv, NEW s \in Session, ~In(s, "waiting"),
           task' = [task EXCEPT ![s] = Free],
           UNCHANGED <<rx_auth_cred, log, shelly_plus_actuators, modeCheck>>
    PROVE  IInv'
<1>1. ~Queued(s)
  BY DEF IInv, ResponderHeld
<1> QED
  BY <1>1, TaskReplaced, FreeIsTask, FreeIsGood DEF Free

LEMMA HandleWebsocketReqIInv ==
    ASSUME IInv, NEW s \in Session, NEW m \in Mac, HandleWebsocketReq(s, m)
    PROVE  IInv'
<1> DEFINE t == [Free EXCEPT !.phase = "subscribed", !.peer = m, !.socketUp = TRUE,
                             !.next = Subscribed(log), !.start = Len(log)]
<1>1. Len(log) \in 0..MaxCommands
  BY LenProperties, EspSessionsAssumption DEF IInv, TypeOK
<1>2. t \in Task
  BY <1>1, FreeIsTask DEF Task, Free, Subscribed
<1>3. GoodTask(t)
  BY <1>1, EspSessionsAssumption DEF GoodTask, Free, Subscribed, NoFate
<1>4. ~Queued(s)
  BY DEF HandleWebsocketReq, IInv, ResponderHeld, In
<1>5. t.phase = "subscribed" /\ t.resp = None
  BY DEF Free
<1>6. task' = [task EXCEPT ![s] = t]
  BY DEF HandleWebsocketReq
<1>7. UNCHANGED <<rx_auth_cred, log, shelly_plus_actuators, modeCheck>>
  BY DEF HandleWebsocketReq
<1> HIDE DEF t
<1> QED
  BY <1>2, <1>3, <1>4, <1>5, <1>6, <1>7, TaskReplaced

LEMMA TakeResponseIInv ==
    ASSUME IInv, NEW s \in Session, TakeResponse(s)
    PROVE  IInv'
<1> DEFINE t == Answered(task[s])
<1>1. task[s] \in Task /\ GoodTask(task[s])
  BY TasksAreGood
<1>2. task' = [task EXCEPT ![s] = t]
  BY DEF TakeResponse, IInv, TypeOK
<1>3. ~Queued(s)
  BY DEF TakeResponse, IInv, ResponderHeld
<1>4. CASE task[s].resp # "accepted"
  BY <1>2, <1>3, <1>4, TaskReplaced, FreeIsTask, FreeIsGood
     DEF TakeResponse, Answered, Free
<1>5. CASE task[s].resp = "accepted"
  <2>1. t = [task[s] EXCEPT !.phase = "active", !.resp = None,
                            !.esp32_mac_address = task[s].peer]
    BY <1>5 DEF Answered
  <2>2. t \in Task
    BY <1>1, <2>1 DEF Task
  <2>3. task[s].phase = "waiting"
    BY DEF TakeResponse, In
  <2>4. Accounted(t)
    <3>1. t.start = t.next /\ t.next <= Len(log) /\ t.fate = NoFate /\ t.next \in Nat
      BY <1>1, <2>1, <2>3 DEF GoodTask, Task
    <3> QED
      BY <3>1 DEF Accounted, NoFate
  <2>5. GoodTask(t)
    BY <1>1, <1>5, <2>1, <2>3, <2>4 DEF GoodTask, Task
  <2>6. t.phase = "active" /\ t.resp = None
    BY <1>1, <2>1 DEF Task
  <2>7. UNCHANGED <<rx_auth_cred, log, shelly_plus_actuators, modeCheck>>
    BY DEF TakeResponse
  <2> HIDE DEF t
  <2> QED
    BY <1>2, <1>3, <2>2, <2>5, <2>6, <2>7, TaskReplaced
<1> QED
  BY <1>4, <1>5

\* The commands a lagging session drops are all out of the channel.
LEMMA SkipLaggedIInv ==
    ASSUME IInv, NEW s \in Session, SkipLagged(s)
    PROVE  IInv'
<1> DEFINE old == task[s]
           t   == Skipped(old)
           n   == AfterRecv(log, old.next)
<1>1. old \in Task /\ GoodTask(old) /\ old.phase = "active"
  BY TasksAreGood DEF SkipLagged, In
<1>2. Len(log) \in 0..MaxCommands
  BY LenProperties, EspSessionsAssumption DEF IInv, TypeOK
<1>3. /\ n \in old.next + 1..Len(log) /\ n + Capacity = Len(log) /\ n \in 0..MaxCommands
      /\ old.next \in Nat /\ old.start \in Nat
  BY <1>1, <1>2, AfterRecvBounds, LaggedIsReadable, EspSessionsAssumption,
     BroadcastAssumption DEF SkipLagged, Task
<1> HIDE DEF n
<1>4. /\ t.phase = "active" /\ t.resp = old.resp /\ t.peer = old.peer
      /\ t.esp32_mac_address = old.esp32_mac_address
      /\ t.next = n /\ t.start = old.start
      /\ \A p \in 1..MaxCommands :
            t.fate[p] = IF p \in old.next + 1..n THEN "skipped" ELSE old.fate[p]
  BY <1>1 DEF Skipped, Task, n
<1>5. t \in Task
  BY <1>1, <1>3 DEF Skipped, Task, Fate, n
<1> HIDE DEF t
<1>6. \A p : Addressed(t, log[p]) <=> Addressed(old, log[p])
  BY <1>4 DEF Addressed
<1>7. Accounted(t)
  BY <1>1, <1>3, <1>4, <1>6 DEF Accounted, GoodTask
<1>8. \A p \in 1..MaxCommands : t.fate[p] = "skipped" => p + Capacity <= Len(log)
  BY <1>1, <1>2, <1>3, <1>4, BroadcastAssumption DEF GoodTask
<1>9. GoodTask(t)
  BY <1>1, <1>4, <1>7, <1>8 DEF GoodTask
<1>10. ~Queued(s) /\ old.resp = None
  BY DEF SkipLagged, IInv, ResponderHeld, In
<1>11. task' = [task EXCEPT ![s] = t]
  BY DEF SkipLagged, t
<1>12. UNCHANGED <<rx_auth_cred, log, shelly_plus_actuators, modeCheck>>
  BY DEF SkipLagged
<1> QED
  BY <1>4, <1>5, <1>9, <1>10, <1>11, <1>12, TaskReplaced

\* A command a session takes meets its fate or is not for its device.
LEMMA ReceiveCommandIInv ==
    ASSUME IInv, NEW s \in Session, ReceiveCommand(s)
    PROVE  IInv'
<1> DEFINE old == task[s]
           cmd == log[old.next + 1]
           t   == Taken(old, cmd)
           end == IF old.socketUp THEN "sent" ELSE "lost"
<1>1. old \in Task /\ GoodTask(old) /\ old.phase = "active"
  BY TasksAreGood DEF ReceiveCommand, In
<1>2. task' = [task EXCEPT ![s] = t]
  BY DEF ReceiveCommand, IInv, TypeOK
<1>3. UNCHANGED <<rx_auth_cred, log, shelly_plus_actuators, modeCheck>>
  BY DEF ReceiveCommand
<1>4. ~Queued(s) /\ old.resp = None
  BY DEF ReceiveCommand, IInv, ResponderHeld, In
<1>5. CASE t = Free
  BY <1>2, <1>3, <1>4, <1>5, TaskReplaced, FreeIsTask, FreeIsGood DEF Free
<1>6. CASE t = [old EXCEPT !.next = AfterRecv(log, old.next),
                           !.fate = IF Addressed(old, cmd)
                                    THEN [@ EXCEPT ![old.next + 1] = end]
                                    ELSE @]
  <2>1. Len(log) \in 0..MaxCommands
    BY LenProperties, EspSessionsAssumption DEF IInv, TypeOK
  <2>2. /\ AfterRecv(log, old.next) = old.next + 1 /\ old.next + 1 <= Len(log)
        /\ old.next \in Nat /\ old.start \in Nat /\ old.next + 1 \in 1..MaxCommands
    BY <1>1, <2>1, AfterRecvBounds, EspSessionsAssumption DEF ReceiveCommand, Task, Readable
  <2>3. end \in {"sent", "lost"}
    OBVIOUS
  <2> HIDE DEF end
  <2> DEFINE f == IF Addressed(old, cmd) THEN [old.fate EXCEPT ![old.next + 1] = end]
                                         ELSE old.fate
  <2>4. t = [old EXCEPT !.next = old.next + 1, !.fate = f]
    BY <1>6, <2>2
  <2>5. f \in [1..MaxCommands -> Fate]
    BY <1>1, <2>2, <2>3 DEF Task, Fate
  <2>6. \A p \in 1..MaxCommands :
           f[p] = IF p = old.next + 1 /\ Addressed(old, cmd) THEN end ELSE old.fate[p]
    BY <1>1 DEF Task
  <2> HIDE DEF f, t
  <2>7. /\ t \in Task
        /\ t.phase = "active" /\ t.resp = old.resp /\ t.peer = old.peer
        /\ t.esp32_mac_address = old.esp32_mac_address
        /\ t.next = old.next + 1 /\ t.start = old.start /\ t.fate = f
    <3>1. old.next + 1 \in 0..MaxCommands
      BY <2>2
    <3> HIDE DEF old
    <3>2. t \in Task
      BY <1>1, <2>4, <2>5, <3>1 DEF Task
    <3>3. /\ t.phase = old.phase /\ t.resp = old.resp /\ t.peer = old.peer
          /\ t.esp32_mac_address = old.esp32_mac_address
          /\ t.next = old.next + 1 /\ t.start = old.start /\ t.fate = f
      BY <1>1, <2>4 DEF Task
    <3> QED
      BY <1>1, <3>2, <3>3
  <2>8. \A p : Addressed(t, log[p]) <=> Addressed(old, log[p])
    BY <2>7 DEF Addressed
  <2>9. Accounted(t)
    <3>1. \A p \in 1..MaxCommands :
            IF t.start < p /\ p <= t.next
            THEN IF Addressed(t, log[p]) THEN t.fate[p] # "none"
                                         ELSE t.fate[p] \in {"none", "skipped"}
            ELSE t.fate[p] = "none"
      <4> TAKE p \in 1..MaxCommands
      <4>1. Accounted(old)
        BY <1>1 DEF GoodTask
      <4>2. CASE p = old.next + 1
        <5>1. old.fate[p] = "none" /\ t.start < p /\ p <= t.next
          BY <2>2, <2>7, <4>1, <4>2 DEF Accounted
        <5>2. Addressed(t, log[p]) => t.fate[p] # "none"
          BY <2>3, <2>6, <2>7, <2>8, <4>2
        <5>3. ~Addressed(t, log[p]) => t.fate[p] = "none"
          BY <2>6, <2>7, <2>8, <4>2, <5>1
        <5> QED
          BY <5>1, <5>2, <5>3
      <4>3. CASE p # old.next + 1
        BY <2>2, <2>6, <2>7, <2>8, <4>1, <4>3 DEF Accounted
      <4> QED
        BY <4>2, <4>3
    <3>2. t.start <= t.next /\ t.next <= Len(log)
      BY <1>1, <2>2, <2>7 DEF GoodTask, Accounted
    <3> QED
      BY <3>1, <3>2 DEF Accounted
  <2>10. \A p \in 1..MaxCommands : t.fate[p] = "skipped" => p + Capacity <= Len(log)
    BY <1>1, <2>3, <2>6, <2>7 DEF GoodTask
  <2>11. GoodTask(t)
    BY <1>1, <2>7, <2>9, <2>10 DEF GoodTask
  <2> QED
    BY <1>2, <1>3, <1>4, <2>7, <2>11, TaskReplaced
<1> QED
  BY <1>5, <1>6 DEF Taken

\* Frames, the connection and the clock change two flags no other part of the
\* invariant looks at.
LEMMA FlagsIInv ==
    ASSUME IInv, NEW s \in Session, NEW up \in BOOLEAN, NEW old \in BOOLEAN,
           task' = [task EXCEPT ![s] = [@ EXCEPT !.socketUp = up, !.pongTooOld = old]],
           UNCHANGED <<rx_auth_cred, log, shelly_plus_actuators, modeCheck>>
    PROVE  IInv'
<1> DEFINE t == [task[s] EXCEPT !.socketUp = up, !.pongTooOld = old]
<1>1. task[s] \in Task /\ GoodTask(task[s])
  BY TasksAreGood
<1>2. /\ t \in Task
      /\ t.phase = task[s].phase /\ t.resp = task[s].resp /\ t.peer = task[s].peer
      /\ t.esp32_mac_address = task[s].esp32_mac_address
      /\ t.next = task[s].next /\ t.start = task[s].start /\ t.fate = task[s].fate
  BY <1>1 DEF Task
<1>3. task' = [task EXCEPT ![s] = t]
  BY DEF IInv, TypeOK
<1> HIDE DEF t
<1>4. GoodTask(t)
  BY <1>1, <1>2 DEF GoodTask, Accounted, Addressed
<1>5. /\ t.phase = "waiting" => (Queued(s) <=> t.resp = None)
      /\ t.phase # "waiting" => ~Queued(s) /\ t.resp = None
  BY <1>2 DEF IInv, ResponderHeld, In
<1> QED
  BY <1>2, <1>3, <1>4, <1>5, TaskReplaced

LEMMA FlagStepsIInv ==
    ASSUME IInv, NEW s \in Session, PongReceived(s) \/ SocketEnds(s) \/ PongExpires(s)
    PROVE  IInv'
<1>1. task \in [Session -> Task]
  BY DEF IInv, TypeOK
<1>2. task[s].socketUp \in BOOLEAN /\ task[s].pongTooOld \in BOOLEAN
  BY <1>1 DEF Task
<1>3. CASE PongReceived(s)
  <2>1. task' = [task EXCEPT ![s] = [@ EXCEPT !.socketUp = task[s].socketUp,
                                              !.pongTooOld = FALSE]]
    BY <1>1, <1>3 DEF PongReceived, Task
  <2> QED
    BY <1>2, <1>3, <2>1, FlagsIInv DEF PongReceived
<1>4. CASE SocketEnds(s)
  <2>1. task' = [task EXCEPT ![s] = [@ EXCEPT !.socketUp = FALSE,
                                              !.pongTooOld = task[s].pongTooOld]]
    BY <1>1, <1>4 DEF SocketEnds, Task
  <2> QED
    BY <1>2, <1>4, <2>1, FlagsIInv DEF SocketEnds
<1>5. CASE PongExpires(s)
  <2>1. task' = [task EXCEPT ![s] = [@ EXCEPT !.socketUp = task[s].socketUp,
                                              !.pongTooOld = TRUE]]
    BY <1>1, <1>5 DEF PongExpires, Task
  <2> QED
    BY <1>2, <1>5, <2>1, FlagsIInv DEF PongExpires
<1> QED
  BY <1>3, <1>4, <1>5

\* The credentials of a task enter the channel only once.
LEMMA SendCredIInv ==
    ASSUME IInv, NEW s \in Session, SendCred(s)
    PROVE  IInv'
<1> DEFINE t == [task[s] EXCEPT !.phase = "waiting"]
           q == rx_auth_cred
<1>1. task \in [Session -> Task] /\ q \in Seq(Session) /\ Len(q) \in Nat
  BY LenProperties DEF IInv, TypeOK
<1>2. task[s] \in Task /\ GoodTask(task[s]) /\ task[s].phase = "subscribed"
  BY TasksAreGood DEF SendCred, In
<1>3. ~Queued(s) /\ task[s].resp = None
  BY <1>2 DEF IInv, ResponderHeld, In
<1>4. /\ t \in Task
      /\ t.phase = "waiting" /\ t.resp = None /\ t.peer = task[s].peer
      /\ t.next = task[s].next /\ t.start = task[s].start /\ t.fate = task[s].fate
  BY <1>2, <1>3 DEF Task
<1>5. task' = [task EXCEPT ![s] = t]
  BY <1>1 DEF SendCred
<1> HIDE DEF t
<1>6. \A r \in Session : task'[r] = IF r = s THEN t ELSE task[r]
  BY <1>1, <1>5
<1>7. /\ rx_auth_cred' \in Seq(Session) /\ Len(rx_auth_cred') = Len(q) + 1
      /\ \A i \in 1..Len(q) : rx_auth_cred'[i] = q[i]
      /\ rx_auth_cred'[Len(q) + 1] = s
  BY <1>1, AppendProperties DEF SendCred
<1>8. Range(rx_auth_cred') = Range(q) \cup {s}
  BY <1>1, RangeAppend DEF SendCred
<1>9. TypeOK'
  <2>1. task' \in [Session -> Task]
    BY <1>1, <1>4, <1>5
  <2>2. Len(rx_auth_cred') <= AuthCapacity
    BY <1>1, <1>7, EspSessionsAssumption DEF SendCred
  <2> QED
    BY <1>7, <2>1, <2>2 DEF SendCred, IInv, TypeOK
<1>10. ResponderHeld'
  <2>1. ASSUME NEW r \in Session
        PROVE  /\ task'[r].phase = "waiting" => (Queued(r)' <=> task'[r].resp = None)
               /\ task'[r].phase # "waiting" => ~Queued(r)' /\ task'[r].resp = None
    <3>1. CASE r = s
      BY <1>4, <1>6, <1>8, <3>1 DEF Queued
    <3>2. CASE r # s
      BY <1>6, <1>8, <3>2 DEF Queued, IInv, ResponderHeld, In
    <3> QED
      BY <3>1, <3>2
  <2>2. \A i \in 1..Len(q) : rx_auth_cred'[i] # s
    <3>1. \A i \in 1..Len(q) : q[i] \in Range(q)
      BY <1>1, LenProperties DEF Range
    <3> QED
      BY <1>3, <1>7, <3>1 DEF Queued
  <2>3. \A i, j \in 1..Len(rx_auth_cred') :
           rx_auth_cred'[i] = rx_auth_cred'[j] => i = j
    BY <1>1, <1>7, <2>2 DEF IInv, ResponderHeld
  <2> QED
    BY <2>1, <2>3 DEF ResponderHeld, In
<1>11. \A r \in Session : GoodTask(task[r])
  BY TasksAreGood
<1>12. ASSUME NEW r \in Session
       PROVE  GoodTask(task[r])'
  <2>1. log' = log /\ shelly_plus_actuators' = shelly_plus_actuators
    BY DEF SendCred
  <2>2. CASE r = s
    BY <1>2, <1>4, <1>6, <2>1, <2>2, EspSessionsAssumption DEF GoodTask
  <2>3. CASE r # s
    BY <1>6, <1>11, <2>1, <2>3 DEF GoodTask, Accounted
  <2> QED
    BY <2>2, <2>3
<1>13. /\ NothingTaken' /\ ActiveIsKnown' /\ AccountedFor' /\ SkippedOnlyWhenLagging'
  BY <1>12 DEF NothingTaken, ActiveIsKnown, AccountedFor, SkippedOnlyWhenLagging,
               In, GoodTask, Accounted
<1> QED
  BY <1>9, <1>10, <1>13 DEF IInv

-----------------------------------------------------------------------------
(***************************************************************************)
(* Steps of the main loop                                                  *)
(***************************************************************************)

\* The task at the head of the channel waits for its answer and nobody else
\* gets it.
LEMMA HandleCredMessageIInv ==
    ASSUME IInv, NEW accepted \in BOOLEAN, HandleCredMessage(accepted)
    PROVE  IInv'
<1> DEFINE q == rx_auth_cred
           h == Head(q)
           t == [task[h] EXCEPT !.resp = Answer(accepted)]
<1>1. /\ task \in [Session -> Task] /\ q \in Seq(Session) /\ q # <<>>
      /\ Len(q) \in Nat /\ Len(q) <= AuthCapacity
      /\ shelly_plus_actuators \in Seq(Mac) /\ Len(shelly_plus_actuators) \in Nat
  BY LenProperties DEF HandleCredMessage, IInv, TypeOK
<1>2. /\ rx_auth_cred' \in Seq(Session)
      /\ Len(rx_auth_cred') = Len(q) - 1
      /\ Range(rx_auth_cred') = Range(q) \ {h}
      /\ h \in Session /\ Queued(h)
      /\ \A i, j \in 1..Len(rx_auth_cred') :
            rx_auth_cred'[i] = rx_auth_cred'[j] => i = j
  BY <1>1, TailWithoutHead DEF HandleCredMessage, IInv, ResponderHeld, Queued
<1> HIDE DEF h
<1>3. task[h] \in Task /\ GoodTask(task[h])
  BY <1>2, TasksAreGood
<1>4. task[h].phase = "waiting"
  BY <1>2 DEF IInv, ResponderHeld, In
<1>5. /\ t \in Task
      /\ t.phase = "waiting" /\ t.peer = task[h].peer
      /\ t.resp = IF accepted THEN "accepted" ELSE "refused"
      /\ t.next = task[h].next /\ t.start = task[h].start /\ t.fate = task[h].fate
  BY <1>3, <1>4 DEF Task, Answer
<1>6. task' = [task EXCEPT ![h] = t]
  BY <1>1, <1>2 DEF HandleCredMessage, h
<1> HIDE DEF t
<1>7. \A r \in Session : task'[r] = IF r = h THEN t ELSE task[r]
  BY <1>1, <1>6
<1>8. t.peer \in Mac
  BY <1>3, <1>4, <1>5 DEF GoodTask
<1>9. shelly_plus_actuators' = IF accepted THEN Append(shelly_plus_actuators, t.peer)
                                           ELSE shelly_plus_actuators
  BY <1>5 DEF HandleCredMessage, Remembered, h
<1>10. /\ shelly_plus_actuators' \in Seq(Mac)
       /\ Len(shelly_plus_actuators') \in Nat
       /\ Len(shelly_plus_actuators') >= Len(shelly_plus_actuators)
       /\ Len(shelly_plus_actuators') <= MaxAccepts
  BY <1>1, <1>8, <1>9, AppendProperties, EspSessionsAssumption
     DEF HandleCredMessage, IInv, TypeOK
<1>11. Range(shelly_plus_actuators') =
          IF accepted THEN Range(shelly_plus_actuators) \cup {t.peer}
                      ELSE Range(shelly_plus_actuators)
  <2>1. CASE accepted
    <3>1. Range(Append(shelly_plus_actuators, t.peer)) =
             Range(shelly_plus_actuators) \cup {t.peer}
      BY <1>1, <1>8, RangeAppend
    <3> QED
      BY <1>9, <2>1, <3>1, Zenon
  <2>2. CASE ~accepted
    BY <1>9, <2>2
  <2> QED
    BY <2>1, <2>2
<1>12. TypeOK'
  <2>1. task' \in [Session -> Task]
    BY <1>1, <1>5, <1>6
  <2>2. Len(rx_auth_cred') <= AuthCapacity
    BY <1>1, <1>2, EspSessionsAssumption
  <2>3. modeCheck' \in 0..Len(shelly_plus_actuators')
    BY <1>10 DEF HandleCredMessage
  <2> QED
    BY <1>2, <1>10, <2>1, <2>2, <2>3 DEF HandleCredMessage, IInv, TypeOK
<1>13. ResponderHeld'
  <2>1. ASSUME NEW r \in Session
        PROVE  /\ task'[r].phase = "waiting" => (Queued(r)' <=> task'[r].resp = None)
               /\ task'[r].phase # "waiting" => ~Queued(r)' /\ task'[r].resp = None
    <3>1. CASE r = h
      BY <1>2, <1>5, <1>7, <3>1, EspSessionsAssumption DEF Queued
    <3>2. CASE r # h
      BY <1>2, <1>7, <3>2 DEF Queued, IInv, ResponderHeld, In
    <3> QED
      BY <3>1, <3>2
  <2> QED
    BY <1>2, <2>1 DEF ResponderHeld, In
<1>14. \A r \in Session : GoodTask(task[r])
  BY TasksAreGood
<1>15. log' = log
  BY DEF HandleCredMessage
<1>16. ASSUME NEW r \in Session
       PROVE  GoodTask(task[r])'
  <2>1. CASE r = h
    BY <1>3, <1>4, <1>5, <1>7, <1>8, <1>11, <1>15, <2>1 DEF GoodTask
  <2>2. CASE r # h
    BY <1>7, <1>11, <1>14, <1>15, <2>2 DEF GoodTask, Accounted
  <2> QED
    BY <2>1, <2>2
<1>17. /\ NothingTaken' /\ ActiveIsKnown' /\ AccountedFor' /\ SkippedOnlyWhenLagging'
  BY <1>16 DEF NothingTaken, ActiveIsKnown, AccountedFor, SkippedOnlyWhenLagging,
               In, GoodTask, Accounted
<1> QED
  BY <1>12, <1>13, <1>17 DEF IInv

\* Publishing lengthens the log; what a session has done with the commands it
\* is past does not depend on that.
LEMMA LogGrows ==
    ASSUME IInv, NEW cmd \in Command, Len(log) < MaxCommands,
           log' = Append(log, cmd),
           UNCHANGED <<task, rx_auth_cred, shelly_plus_actuators>>,
           modeCheck' \in 0..Len(shelly_plus_actuators)
    PROVE  IInv'
<1>1. /\ log' \in Seq(Command) /\ Len(log) \in Nat /\ Len(log') = Len(log) + 1
      /\ \A p \in 1..Len(log) : log'[p] = log[p]
  BY AppendProperties, LenProperties DEF IInv, TypeOK
<1>2. TypeOK'
  BY <1>1, EspSessionsAssumption DEF IInv, TypeOK
<1>3. ResponderHeld'
  BY DEF IInv, ResponderHeld, Queued, In
<1>4. ASSUME NEW s \in Session
      PROVE  GoodTask(task[s])'
  <2> DEFINE t == task[s]
  <2>1. t \in Task /\ GoodTask(t)
    BY TasksAreGood
  <2>2. t.next \in Nat /\ t.start \in Nat
    BY <2>1, EspSessionsAssumption DEF Task
  <2> HIDE DEF t
  <2>3. ASSUME Accounted(t)
        PROVE  /\ t.start <= t.next
               /\ t.next <= Len(log')
               /\ \A p \in 1..MaxCommands :
                    IF t.start < p /\ p <= t.next
                    THEN IF Addressed(t, log'[p]) THEN t.fate[p] # "none"
                                                  ELSE t.fate[p] \in {"none", "skipped"}
                    ELSE t.fate[p] = "none"
    <3>1. t.start <= t.next /\ t.next <= Len(log')
      BY <1>1, <2>2, <2>3 DEF Accounted
    <3>2. \A p \in 1..MaxCommands : t.start < p /\ p <= t.next => log'[p] = log[p]
      BY <1>1, <2>2, <2>3 DEF Accounted
    <3> QED
      BY <2>3, <3>1, <3>2 DEF Accounted
  <2>4. \A p \in 1..MaxCommands : t.fate[p] = "skipped" => p + Capacity <= Len(log')
    BY <1>1, <2>1, BroadcastAssumption DEF GoodTask
  <2>5. t.phase # "active" => t.next <= Len(log')
    BY <1>1, <2>1, <2>2 DEF GoodTask
  <2>6. t' = t
    BY DEF t
  <2> QED
    BY <2>1, <2>3, <2>4, <2>5, <2>6 DEF GoodTask, Accounted, Addressed, t
<1>5. /\ NothingTaken' /\ ActiveIsKnown' /\ AccountedFor' /\ SkippedOnlyWhenLagging'
  BY <1>4 DEF NothingTaken, ActiveIsKnown, AccountedFor, SkippedOnlyWhenLagging,
              In, GoodTask, Accounted
<1> QED
  BY <1>2, <1>3, <1>5 DEF IInv

\* The mode check moves along the list and publishes nothing.
LEMMA ModeCheckMoves ==
    ASSUME IInv, UNCHANGED <<task, rx_auth_cred, log, shelly_plus_actuators>>,
           modeCheck' \in 0..Len(shelly_plus_actuators)
    PROVE  IInv'
BY DEF IInv, TypeOK, NothingTaken, ResponderHeld, ActiveIsKnown, AccountedFor,
       SkippedOnlyWhenLagging, Queued, In, Addressed

LEMMA MainStepIInv ==
    ASSUME IInv, MainStep
    PROVE  IInv'
<1>1. ASSUME NEW accepted \in BOOLEAN, HandleCredMessage(accepted)
      PROVE  IInv'
  BY <1>1, HandleCredMessageIInv
<1>2. ASSUME NEW cmd \in Command, Publish(cmd)
      PROVE  IInv'
  BY <1>2, LogGrows DEF Publish, IInv, TypeOK
<1>3. Len(shelly_plus_actuators) \in Nat
  BY LenProperties DEF IInv, TypeOK
<1>4. CASE BeginModeCheck
  <2>1. Len(shelly_plus_actuators) # 0
    BY <1>4, EmptySeq DEF BeginModeCheck, IInv, TypeOK
  <2> QED
    BY <1>3, <1>4, <2>1, ModeCheckMoves DEF BeginModeCheck
<1>5. ASSUME NEW wrong \in BOOLEAN, CheckShellyEsp32Mode(wrong)
      PROVE  IInv'
  <2>1. modeCheck \in 1..Len(shelly_plus_actuators)
    BY <1>3, <1>5 DEF CheckShellyEsp32Mode, IInv, TypeOK
  <2>2. modeCheck' \in 0..Len(shelly_plus_actuators)
    BY <1>3, <1>5, <2>1 DEF CheckShellyEsp32Mode, NextEntry
  <2>3. ModeCommand(shelly_plus_actuators[modeCheck]) \in Command
    BY <2>1, ElementOfSeq, EspSessionsAssumption DEF IInv, TypeOK
  <2>4. CASE wrong
    BY <1>5, <2>2, <2>3, <2>4, LogGrows DEF CheckShellyEsp32Mode
  <2>5. CASE ~wrong
    BY <1>5, <2>2, <2>5, ModeCheckMoves DEF CheckShellyEsp32Mode
  <2> QED
    BY <2>4, <2>5
<1> QED
  BY <1>1, <1>2, <1>4, <1>5 DEF MainStep

-----------------------------------------------------------------------------
(***************************************************************************)
(* The invariants                                                          *)
(***************************************************************************)

LEMMA InitIInv == Init => IInv
<1> SUFFICES ASSUME Init
             PROVE  IInv
  OBVIOUS
<1>1. \A s \in Session : task[s] = Free
  BY DEF Init
<1>2. Len(<<>>) = 0 /\ \A S : <<>> \in Seq(S)
  BY EmptySeq
<1>3. Range(rx_auth_cred) = {}
  BY DEF Init, Range
<1>4. TypeOK
  BY <1>2, FreeIsTask, EspSessionsAssumption DEF Init, TypeOK
<1>5. ResponderHeld
  BY <1>1, <1>2, <1>3 DEF Init, ResponderHeld, Queued, In, Free
<1>6. NothingTaken /\ ActiveIsKnown /\ AccountedFor /\ SkippedOnlyWhenLagging
  BY <1>1, <1>2, EspSessionsAssumption
     DEF Init, NothingTaken, ActiveIsKnown, AccountedFor, SkippedOnlyWhenLagging,
         In, Free, NoFate
<1> QED
  BY <1>4, <1>5, <1>6 DEF IInv

LEMMA NextIInv == IInv /\ [Next]_vars => IInv'
<1> SUFFICES ASSUME IInv, [Next]_vars
             PROVE  IInv'
  OBVIOUS
<1>1. CASE MainStep
  BY <1>1, MainStepIInv
<1>2. ASSUME NEW s \in Session, SessionStep(s)
      PROVE  IInv'
  <2>1. CASE UpgradeFails(s) \/ CloseReceived(s)
    BY <2>1, TaskEnds DEF UpgradeFails, CloseReceived, In
  <2>2. ASSUME NEW m \in Mac, HandleWebsocketReq(s, m)
        PROVE  IInv'
    BY <2>2, HandleWebsocketReqIInv
  <2> QED
    BY <1>2, <2>1, <2>2, SendCredIInv, TakeResponseIInv, SkipLaggedIInv,
       ReceiveCommandIInv, FlagStepsIInv DEF SessionStep
<1>3. CASE UNCHANGED vars
  BY <1>3, ModeCheckMoves DEF vars, IInv, TypeOK
<1> QED
  BY <1>1, <1>2, <1>3 DEF Next

LEMMA SpecIInv == Spec => []IInv
BY InitIInv, NextIInv, PTL DEF Spec

\* Tasks, channels and the list of the main loop keep their types; the channel
\* of credentials and the positions of the receivers stay within their bounds.
THEOREM SessionTypes == Spec => []TypeOK
BY SpecIInv, PTL DEF IInv

\* A task waiting for the main loop has either its credentials in the channel,
\* once, or its answer: the unwrap of the answer (wssmanager.rs) cannot fail,
\* for any number of sessions and any capacity of the channel.
THEOREM ResponderAlwaysHeld == Spec => []ResponderHeld
BY SpecIInv, PTL DEF IInv

\* The main loop knows the device of every active session.
THEOREM ActiveAlwaysKnown == Spec => []ActiveIsKnown
BY SpecIInv, PTL DEF IInv

\* No command published since an active session subscribed is unaccounted for,
\* whatever the capacity of the command channel and the number of commands.
THEOREM CommandsAccountedFor == Spec => []AccountedFor
BY SpecIInv, PTL DEF IInv

\* Only a session more than Capacity commands behind loses one to the channel.
THEOREM SkippedOnlyBehind == Spec => []SkippedOnlyWhenLagging
BY SpecIInv, PTL DEF IInv
=============================================================================
