------------------------ MODULE ValveCommandsProofs -------------------------
(***************************************************************************)
(* Proofs about ValveCommands for every set of valves, actuators and       *)
(* signal strengths and every bound on attempts.                           *)
(***************************************************************************)
EXTENDS ValveCommands, TLAPS

\* The inductive invariant.  The type of the history variable published rests
\* on AttemptsArePublications, every other conjunct on the types.
IInv == TypeOK /\ PendingIsServed /\ AttemptsArePublications /\ BestIsStrongest

\* A pending entry is a command, a stored actuator is an actuator record.
LEMMA EntryTypes ==
    ASSUME TypeOK, NEW v \in Valve
    PROVE  /\ Pending(v) => /\ valve_commands[v] \in ValveData
                            /\ valve_commands[v].attempts \in 0..MaxAttempts
           /\ Routed(v) => /\ best_actuator[v] \in BestActuator
                           /\ best_actuator[v].rssi \in Int
           /\ published[v] \in 0..MaxAttempts
BY ValveCommandsAssumption DEF TypeOK, Pending, Routed, ValveData, BestActuator

\* What the 20 s timer (main.rs) makes of the entry of one valve.
LEMMA CheckedEntry ==
    ASSUME IInv, NEW v \in Valve
    PROVE  /\ Checked(v) \in ValveData \cup {None}
           /\ Checked(v) # None => Pending(v)
           /\ Resent(v) => /\ Checked(v) # None
                           /\ Checked(v).attempts = valve_commands[v].attempts + 1
                           /\ published[v] + 1 \in 0..MaxAttempts
           /\ Checked(v) # None /\ ~Resent(v) => Checked(v) = valve_commands[v]
<1> USE ValveCommandsAssumption
<1>1. CASE Resent(v)
  <2>1. /\ Pending(v)
        /\ valve_commands[v].attempts < MaxAttempts
    BY <1>1 DEF Resent, Waiting
  <2>2. /\ valve_commands[v] \in ValveData
        /\ valve_commands[v].attempts + 1 \in 0..MaxAttempts
        /\ published[v] = valve_commands[v].attempts
    BY <2>1, EntryTypes DEF IInv, AttemptsArePublications
  <2>3. Checked(v) = [valve_commands[v] EXCEPT !.attempts = @ + 1]
    BY <1>1 DEF Checked
  <2>4. /\ Checked(v) \in ValveData
        /\ Checked(v).attempts = valve_commands[v].attempts + 1
    BY <2>2, <2>3 DEF ValveData
  <2> QED
    BY <1>1, <2>1, <2>2, <2>4
<1>2. CASE ~Resent(v)
  BY <1>2, EntryTypes DEF IInv, Checked, Waiting
<1> QED
  BY <1>1, <1>2

-----------------------------------------------------------------------------
\* Init establishes the invariant.
LEMMA InitIInv == Init => IInv
BY ValveCommandsAssumption
   DEF Init, IInv, TypeOK, PendingIsServed, AttemptsArePublications,
       BestIsStrongest, Pending, Routed

\* The timer preserves the invariant: it counts exactly what it publishes.
LEMMA CheckPreserves ==
    ASSUME IInv, CheckRadiatorValveCommands
    PROVE  IInv'
<1> USE DEF CheckRadiatorValveCommands
<1>1. TypeOK'
  <2>1. \A v \in Valve : valve_commands'[v] \in ValveData \cup {None}
    BY CheckedEntry
  <2>2. \A v \in Valve : published'[v] \in 0..MaxAttempts
    BY CheckedEntry, EntryTypes DEF IInv
  <2> QED
    BY <2>1, <2>2 DEF IInv, TypeOK
<1>2. PendingIsServed'
  <2> SUFFICES ASSUME NEW v \in Valve, Checked(v) # None, Checked(v).attempts > 0
               PROVE  Routed(v)
    BY DEF PendingIsServed, Pending, Routed
  <2> QED
    BY CheckedEntry DEF IInv, PendingIsServed, Resent
<1>3. AttemptsArePublications'
  BY CheckedEntry DEF IInv, AttemptsArePublications, Pending
<1>4. BestIsStrongest'
  BY DEF IInv, BestIsStrongest, Routed
<1> QED
  BY <1>1, <1>2, <1>3, <1>4 DEF IInv

\* A command handler that queues a command counts its first publication.
LEMMA CommandPreserves ==
    ASSUME IInv, NEW v \in Valve, NEW d \in Desired, HandleValveCommand(v, d)
    PROVE  IInv'
<1> DEFINE c == [desired_state |-> d, attempts |-> FirstAttempts(v)]
<1> USE ValveCommandsAssumption DEF HandleValveCommand
<1>1. c \in ValveData
  BY DEF ValveData, FirstAttempts
<1>2. TypeOK'
  BY <1>1 DEF IInv, TypeOK
<1>3. PendingIsServed'
  BY DEF IInv, TypeOK, PendingIsServed, Pending, Routed, FirstAttempts
<1>4. AttemptsArePublications'
  BY DEF IInv, TypeOK, AttemptsArePublications, Pending, Routed, FirstAttempts
<1>5. BestIsStrongest'
  BY DEF IInv, BestIsStrongest, Routed
<1> QED
  BY <1>2, <1>3, <1>4, <1>5 DEF IInv

\* A beacon replaces the stored actuator or is no stronger than it.
LEMMA BeaconPreserves ==
    ASSUME IInv, NEW v \in Valve, NEW a \in Actuator, NEW r \in Rssi,
           UpdateBestActuator(v, a, r)
    PROVE  IInv'
<1> DEFINE b == [actuator |-> a, rssi |-> r, old |-> FALSE]
<1> USE ValveCommandsAssumption DEF UpdateBestActuator
<1>0. b \in BestActuator /\ b # None
  <2>1. b \in BestActuator
    BY DEF BestActuator
  <2>2. None \notin BestActuator
    OBVIOUS
  <2> QED
    BY <2>1, <2>2
<1>1. TypeOK'
  <2>1. best_actuator' \in [Valve -> BestActuator \cup {None}]
    <3> HIDE DEF b
    <3>1. best_actuator' \in {best_actuator, [best_actuator EXCEPT ![v] = b]}
      BY DEF b
    <3> QED
      BY <1>0, <3>1 DEF IInv, TypeOK
  <2>2. heard' \in [Valve -> SUBSET Rssi]
    BY DEF IInv, TypeOK
  <2> QED
    BY <2>1, <2>2 DEF IInv, TypeOK
<1>2. \A w \in Valve : Routed(w) => Routed(w)'
  BY <1>0 DEF IInv, TypeOK, Routed
<1>3. PendingIsServed'
  BY <1>2 DEF IInv, PendingIsServed, Pending
<1>4. AttemptsArePublications'
  BY DEF IInv, AttemptsArePublications, Pending
<1>5. BestIsStrongest'
  <2> SUFFICES ASSUME NEW w \in Valve, Routed(w)'
               PROVE  /\ best_actuator'[w].rssi \in heard'[w]
                      /\ \A s \in heard'[w] : s <= best_actuator'[w].rssi
    BY DEF BestIsStrongest
  <2>1. CASE w # v
    BY <2>1 DEF IInv, TypeOK, BestIsStrongest, Routed
  <2>2. CASE w = v /\ Displaces(v, r)
    BY <2>2 DEF IInv, TypeOK
  <2>3. CASE w = v /\ ~Displaces(v, r)
    <3>1. /\ Routed(v)
          /\ ~(best_actuator[v].rssi < r)
          /\ heard'[v] = heard[v] \cup {r}
          /\ best_actuator' = best_actuator
      BY <2>3 DEF Displaces, IInv, TypeOK
    <3>2. best_actuator[v].rssi \in Int
      BY <3>1, EntryTypes DEF IInv
    <3> QED
      BY <2>3, <3>1, <3>2 DEF IInv, BestIsStrongest
  <2> QED
    BY <2>1, <2>2, <2>3
<1> QED
  BY <1>1, <1>3, <1>4, <1>5 DEF IInv

\* Ageing of an entry changes neither its actuator nor its strength.
LEMMA AgeingPreserves ==
    ASSUME IInv, NEW v \in Valve, BestActuatorAges(v)
    PROVE  IInv'
<1> USE ValveCommandsAssumption DEF BestActuatorAges
<1>0. best_actuator[v] \in BestActuator
  BY EntryTypes DEF IInv
<1>1. TypeOK'
  BY <1>0 DEF IInv, TypeOK, BestActuator
<1>2. \A w \in Valve : /\ Routed(w) <=> Routed(w)'
                       /\ best_actuator'[w].rssi = best_actuator[w].rssi
  <2>1. [best_actuator[v] EXCEPT !.old = TRUE] \in BestActuator
    BY <1>0 DEF BestActuator
  <2>2. best_actuator'[v] = [best_actuator[v] EXCEPT !.old = TRUE]
    BY DEF IInv, TypeOK
  <2>3. \A w \in Valve \ {v} : best_actuator'[w] = best_actuator[w]
    BY DEF IInv, TypeOK
  <2> QED
    BY <1>0, <2>1, <2>2, <2>3 DEF Routed, BestActuator
<1>3. PendingIsServed'
  BY <1>2 DEF IInv, PendingIsServed, Pending
<1>4. AttemptsArePublications'
  BY DEF IInv, AttemptsArePublications, Pending
<1>5. BestIsStrongest'
  BY <1>2 DEF IInv, BestIsStrongest
<1> QED
  BY <1>1, <1>3, <1>4, <1>5 DEF IInv

\* The remaining steps touch neither the queue nor the stored actuators.
LEMMA OtherStepsPreserve ==
    ASSUME IInv,
           \/ \E a \in Actuator : HandleCredMessage(a)
           \/ \E v \in Valve, p \in {"0", "1"} : HandleBleValveUpdate(v, p)
           \/ \E v \in Valve, s \in Status : TopicWritten(v, s)
           \/ UNCHANGED vars
    PROVE  IInv'
<1>1. /\ UNCHANGED <<valve_commands, best_actuator, published, heard, requests>>
      /\ shelly_plus_actuators \subseteq shelly_plus_actuators'
  BY DEF HandleCredMessage, HandleBleValveUpdate, TopicWritten, vars
<1>2. /\ shelly_plus_actuators' \subseteq Actuator
      /\ status' \in [Valve -> Status]
  BY DEF HandleCredMessage, HandleBleValveUpdate, TopicWritten, vars, IInv, TypeOK, Status
<1>3. TypeOK'
  BY <1>1, <1>2 DEF IInv, TypeOK
<1>4. PendingIsServed' /\ AttemptsArePublications' /\ BestIsStrongest'
  BY <1>1 DEF IInv, PendingIsServed, AttemptsArePublications, BestIsStrongest, Pending, Routed
<1> QED
  BY <1>3, <1>4 DEF IInv

LEMMA NextIInv == IInv /\ [Next]_vars => IInv'
BY CheckPreserves, CommandPreserves, BeaconPreserves, AgeingPreserves,
   OtherStepsPreserve DEF Next

LEMMA SpecIInv == Spec => []IInv
BY InitIInv, NextIInv, PTL DEF Spec

-----------------------------------------------------------------------------
\* The types hold in every reachable state; in particular the timer of main.rs
\* never attempts a command more than MaxAttempts times.
THEOREM TypeCorrect == Spec => []TypeOK
BY SpecIInv, PTL DEF IInv

\* A pending command is always one the timer may serve, and one that was
\* attempted has a known actuator.
THEOREM PendingServed == Spec => []PendingIsServed
BY SpecIInv, PTL DEF IInv

\* The counter of attempts is the number of publications of the command.
THEOREM AttemptsCounted == Spec => []AttemptsArePublications
BY SpecIInv, PTL DEF IInv

\* The actuator chosen for a valve is the strongest heard since it was chosen.
THEOREM StrongestChosen == Spec => []BestIsStrongest
BY SpecIInv, PTL DEF IInv

-----------------------------------------------------------------------------
(***************************************************************************)
(* The refinement.                                                         *)
(***************************************************************************)
Orders == [v \in Valve |-> OrderOf(v)]

\* The order a queued command stands for.
LEMMA OrderFields ==
    ASSUME IInv, NEW v \in Valve
    PROVE  /\ Pending(v) =>
                /\ OrderOf(v) = [desired |-> valve_commands[v].desired_state,
                                 sent |-> published[v]]
                /\ OrderOf(v) \in Service!Order
                /\ OrderOf(v) # None
           /\ ~Pending(v) => OrderOf(v) = None
<1>1. ~Pending(v) => OrderOf(v) = None
  BY DEF OrderOf
<1>2. ASSUME Pending(v)
      PROVE  /\ OrderOf(v) = [desired |-> valve_commands[v].desired_state,
                              sent |-> published[v]]
             /\ OrderOf(v) \in Service!Order
             /\ OrderOf(v) # None
  <2>1. OrderOf(v) = [desired |-> valve_commands[v].desired_state, sent |-> published[v]]
    BY <1>2 DEF OrderOf
  <2>2. valve_commands[v].desired_state \in Desired /\ published[v] \in 0..MaxAttempts
    BY <1>2, EntryTypes DEF IInv, ValveData
  <2>3. OrderOf(v) \in [desired: Desired, sent: 0..MaxAttempts]
    BY <2>1, <2>2
  <2> QED
    BY <2>1, <2>3, ValveCommandsAssumption DEF Service!Order, Service!Desired, Desired
<1> QED
  BY <1>1, <1>2

LEMMA RefinesInit == Init => Service!Init
BY DEF Init, Service!Init, OrderOf, Pending, Status, Service!Status

\* One turn of the timer is one attempt of the abstract service.
LEMMA CheckIsAttempt ==
    ASSUME IInv, IInv', CheckRadiatorValveCommands
    PROVE  Service!Attempt
<1> USE DEF CheckRadiatorValveCommands
<1>1. Orders' \in [Valve -> Service!Order \cup {None}]
  <2>1. \A v \in Valve : OrderOf(v)' \in Service!Order \cup {None}
    BY OrderFields, CheckedEntry, EntryTypes, ValveCommandsAssumption
       DEF IInv, OrderOf, Pending, ValveData, Service!Order, Service!Desired, Desired
  <2> QED
    BY <2>1 DEF Orders
<1>2. ASSUME NEW v \in Valve
      PROVE  Service!Attempted(v, Orders'[v])
  <2>1. Orders[v] = OrderOf(v) /\ Orders'[v] = OrderOf(v)'
    BY DEF Orders
  <2>2. valve_commands'[v] = Checked(v)
    OBVIOUS
  <2>3. CASE Resent(v)
    <3>1. /\ Pending(v) /\ Pending(v)'
          /\ valve_commands[v] \in ValveData
          /\ valve_commands[v].attempts < MaxAttempts
          /\ published[v] = valve_commands[v].attempts
          /\ published'[v] = published[v] + 1
      BY <2>2, <2>3, CheckedEntry, EntryTypes
         DEF IInv, Resent, Waiting, Pending, AttemptsArePublications
    <3>2. valve_commands'[v].desired_state = valve_commands[v].desired_state
      BY <2>2, <2>3, <3>1 DEF Checked, ValveData
    <3>3. OrderOf(v)' = [OrderOf(v) EXCEPT !.sent = @ + 1]
      BY <3>1, <3>2 DEF OrderOf
    <3>4. OrderOf(v) # None /\ OrderOf(v).sent < MaxAttempts
      BY <3>1, OrderFields
    <3> QED
      BY <2>1, <3>3, <3>4 DEF Service!Attempted, Orders
  <2>4. CASE ~Resent(v) /\ (Waiting(v) \/ ~Pending(v))
    <3>1. valve_commands'[v] = valve_commands[v] /\ published'[v] = published[v]
      BY <2>2, <2>4 DEF Checked, Waiting, Pending
    <3> QED
      BY <2>1, <3>1 DEF Service!Attempted, Orders, OrderOf, Pending
  <2>5. CASE Pending(v) /\ ~Waiting(v)
    <3>1. OrderOf(v)' = None
      BY <2>2, <2>5 DEF Checked, Resent, OrderOf, Pending
    <3>2. \/ valve_commands[v].desired_state = status[v]
          \/ published[v] = MaxAttempts
      BY <2>5, EntryTypes, ValveCommandsAssumption
         DEF Waiting, Satisfied, IInv, AttemptsArePublications
    <3> QED
      BY <2>1, <2>5, <3>1, <3>2, OrderFields DEF Service!Attempted, Orders
  <2> QED
    BY <2>3, <2>4, <2>5
<1> QED
  BY <1>1, <1>2 DEF Service!Attempt, Orders

\* A command that is queued is accepted; one that is refused changes nothing.
LEMMA CommandIsAccept ==
    ASSUME IInv, IInv', NEW v \in Valve, NEW d \in Desired, HandleValveCommand(v, d)
    PROVE  Service!Accept(v) \/ UNCHANGED Service!vars
<1> USE DEF HandleValveCommand
<1>1. CASE shelly_plus_actuators = {}
  BY <1>1 DEF Service!vars, OrderOf, Pending
<1>2. CASE shelly_plus_actuators # {}
  <2> DEFINE n == IF Routed(v) THEN 1 ELSE 0
             c == [desired_state |-> d, attempts |-> FirstAttempts(v)]
  <2>1. /\ valve_commands' = [valve_commands EXCEPT ![v] = c]
        /\ published' = [published EXCEPT ![v] = n]
        /\ status' = status
    BY <1>2
  <2>2. c # None
    <3>1. c \in ValveData
      BY ValveCommandsAssumption DEF ValveData, FirstAttempts
    <3>2. None \notin ValveData
      BY ValveCommandsAssumption
    <3> QED
      BY <3>1, <3>2
  <2>3. OrderOf(v)' = [desired |-> d, sent |-> n]
    BY <2>1, <2>2 DEF OrderOf, Pending, IInv, TypeOK
  <2>4. \A w \in Valve \ {v} : OrderOf(w)' = OrderOf(w)
    BY <2>1 DEF OrderOf, Pending, IInv, TypeOK
  <2>5. Orders' = [Orders EXCEPT ![v] = [desired |-> d, sent |-> n]]
    BY <2>3, <2>4 DEF Orders
  <2>6. n \in {0, 1} /\ d \in Service!Desired
    BY DEF Service!Desired, Desired
  <2> HIDE DEF n
  <2> QED
    BY <2>1, <2>5, <2>6 DEF Service!Accept, Orders
<1> QED
  BY <1>1, <1>2

\* Every other step leaves the orders alone and at most reports a status.
LEMMA OtherStepsReport ==
    ASSUME IInv,
           \/ \E a \in Actuator : HandleCredMessage(a)
           \/ \E v \in Valve, a \in Actuator, r \in Rssi : UpdateBestActuator(v, a, r)
           \/ \E v \in Valve : BestActuatorAges(v)
           \/ \E v \in Valve, p \in {"0", "1"} : HandleBleValveUpdate(v, p)
           \/ \E v \in Valve, s \in Status : TopicWritten(v, s)
           \/ UNCHANGED vars
    PROVE  (\E v \in Valve : Service!Report(v)) \/ UNCHANGED Service!vars
<1>1. UNCHANGED <<valve_commands, published>>
  BY DEF HandleCredMessage, UpdateBestActuator, BestActuatorAges,
         HandleBleValveUpdate, TopicWritten, vars
<1>2. Orders' = Orders
  BY <1>1 DEF Orders, OrderOf, Pending
<1>3. \/ status' = status
      \/ \E v \in Valve, s \in Status : status' = [status EXCEPT ![v] = s]
  BY DEF HandleCredMessage, UpdateBestActuator, BestActuatorAges,
         HandleBleValveUpdate, TopicWritten, vars, Status
<1> QED
  BY <1>2, <1>3 DEF Orders, Service!Report, Service!vars, Service!Status, Status

LEMMA RefinesNext ==
    ASSUME IInv, IInv', [Next]_vars
    PROVE  [Service!Next]_(Service!vars)
BY CheckIsAttempt, CommandIsAccept, OtherStepsReport DEF Next, Service!Next

\* The queue implements the promise of ValveService: however commands, beacons,
\* reports and turns of the timer interleave, an order disappears only once the
\* DHT reports the desired state or its attempts are spent, and is published
\* at most MaxAttempts times.
THEOREM Refinement == Spec => ImplementsValveService
<1>1. Init => Service!Init
  BY RefinesInit
<1>2. IInv /\ IInv' /\ [Next]_vars => [Service!Next]_(Service!vars)
  BY RefinesNext
<1> QED
  BY <1>1, <1>2, SpecIInv, PTL DEF Spec, ImplementsValveService, Service!Spec
=============================================================================
