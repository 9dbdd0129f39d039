-------------------------- MODULE MQTTClientProofs --------------------------
(***************************************************************************)
(* Safety of MQTTClientImpl for any number of callers, topics and faults:  *)
(* the type invariant, and the invariants ReconnectScheduled,              *)
(* OneChainPerFault and SubscriptionsAtBroker.                             *)
(***************************************************************************)
EXTENDS MQTTClientImpl, TLAPS

\* _mutex is held by the one thread that is in connectImpl, and connectImpl
\* connects a client that is not connected.
MutexOK ==
    /\ \A t \in Threads : pc[t] \in {"conn", "resub"} <=> holder = t
    /\ \A t \in Threads : pc[t] = "conn" => ~connected
    /\ pc[Timer] \in {"idle", "conn", "resub"}

DroppedOK == dropped => ~connected

\* A broken connection that nobody noticed is a chain to come.
Unnoticed == IF connected /\ ~link THEN 1 ELSE 0
Running == IF Reconnecting THEN 1 ELSE 0
ChainsOK == tasks + lost + Running + Unnoticed <= drops

IInv ==
    /\ TypeOK
    /\ MutexOK
    /\ DroppedOK
    /\ ReconnectScheduled
    /\ ChainsOK
    /\ SubscriptionsAtBroker
-----------------------------------------------------------------------------
LEMMA Disjoint == Timer \notin Callers /\ NoThread \notin Threads /\ Timer \in Threads
  BY ThreadsAssumption DEF Threads

\* What a step does to the state, as far as the invariants are concerned: one
\* disjunct for each action.
LEMMA Cases ==
  ASSUME Next
  PROVE  \/ \E c \in Callers, w \in Calls, ts \in SUBSET Topics : Call(c, w, ts)
         \/ \E c \in Callers : Connect(c) \/ ConnectThrows(c) \/ Publish(c)
              \/ Subscribe(c) \/ Unsubscribe(c) \/ BodyFails(c) \/ Disconnect(c)
         \/ \E t \in Threads : ConnectSucceeds(t) \/ Resubscribe(t) \/ ResubscribeFails(t)
         \/ Reconnect \/ ReconnectFails \/ NoticeLoss \/ OnConnectionLost
         \/ Drop \/ BrokerStops \/ BrokerStarts
  <1>1. ASSUME NEW c \in Callers, CallSomething(c)
        PROVE  \E w \in Calls, ts \in SUBSET Topics : Call(c, w, ts)
    BY <1>1 DEF CallSomething, Calls, SubscribeCalls, UnsubscribeCalls
  <1>. QED
    BY <1>1 DEF Next, CallerStep, ConnectImpl, TimerStep, Environment, Threads

\* TypeOK in two parts: the Boolean variables, and the others.
BooleansOK ==
    /\ connected \in BOOLEAN /\ clean \in BOOLEAN /\ dropped \in BOOLEAN
    /\ up \in BOOLEAN /\ link \in BOOLEAN /\ discards \in BOOLEAN

RangesOK ==
    /\ topics \subseteq Topics /\ brokerSubs \subseteq Topics
    /\ delay \in InitialDelay .. 2 * MaximumDelay - 1
    /\ tasks \in Nat /\ lost \in Nat /\ drops \in 0..MaxDrops
    /\ holder \in Threads \cup {NoThread}
    /\ pc \in [Threads -> {"idle", "connect", "conn", "resub", "body"}]
    /\ call \in [Callers -> Calls]
    /\ args \in [Callers -> SUBSET Topics]

LEMMA TypeParts == TypeOK <=> BooleansOK /\ RangesOK
  BY DEF TypeOK, BooleansOK, RangesOK

LEMMA InitInv == Init => IInv
  <1>. SUFFICES ASSUME Init PROVE IInv
    OBVIOUS
  <1>0. InitialDelay \in InitialDelay .. 2 * MaximumDelay - 1 /\ 0 \in 0..MaxDrops
    BY DelayAssumption
  <1>1. TypeOK
    BY <1>0, TopicsAssumption DEF Init, TypeOK, Calls
  <1>2. MutexOK /\ DroppedOK /\ ReconnectScheduled /\ SubscriptionsAtBroker
    BY Disjoint DEF Init, MutexOK, DroppedOK, ReconnectScheduled, SubscriptionsAtBroker
  <1>3. ChainsOK
    BY Disjoint DEF Init, ChainsOK, Running, Unnoticed, Reconnecting
  <1>. QED
    BY <1>1, <1>2, <1>3 DEF IInv
-----------------------------------------------------------------------------
(* Each conjunct of the invariant is preserved.                            *)

LEMMA BooleansStep ==
  ASSUME BooleansOK, Next
  PROVE  BooleansOK'
  <1>1. CASE \E c \in Callers, w \in Calls, ts \in SUBSET Topics : Call(c, w, ts)
    BY <1>1
    DEF BooleansOK, Call, clientVars, taskVars, brokerVars, Threads
  <1>2. CASE \E c \in Callers : Connect(c)
    BY <1>2
    DEF BooleansOK, Connect, AfterConnect, Goto, clientVars, taskVars, brokerVars, Threads
  <1>3. CASE \E c \in Callers : ConnectThrows(c)
    BY <1>3
    DEF BooleansOK, ConnectThrows, ConnectError, Goto, clientVars, taskVars, brokerVars, Threads
  <1>4. CASE \E c \in Callers : Publish(c)
    BY <1>4
    DEF BooleansOK, Publish, Body, Goto, Threads
  <1>5. CASE \E c \in Callers : Subscribe(c)
    BY <1>5
    DEF BooleansOK, Subscribe, Body, Goto, Threads
  <1>6. CASE \E c \in Callers : Unsubscribe(c)
    BY <1>6
    DEF BooleansOK, Unsubscribe, Body, Goto, Threads
  <1>7. CASE \E c \in Callers : BodyFails(c)
    BY <1>7
    DEF BooleansOK, BodyFails, Body, NoAnswer, LoseConnection, Goto, Threads
  <1>8. CASE \E c \in Callers : Disconnect(c)
    BY <1>8
    DEF BooleansOK, Disconnect, SessionAfterLink, threadVars
  <1>9. CASE \E t \in Threads : ConnectSucceeds(t)
    BY <1>9
    DEF BooleansOK, ConnectSucceeds, Goto, taskVars
  <1>10. CASE \E t \in Threads : Resubscribe(t)
    BY <1>10
    DEF BooleansOK, Resubscribe, LeaveConnectImpl, AfterConnect, Goto
  <1>11. CASE \E t \in Threads : ResubscribeFails(t)
    BY <1>11
    DEF BooleansOK, ResubscribeFails, LeaveConnectImpl, AfterConnect, Goto, NoAnswer, LoseConnection
  <1>12. CASE Reconnect
    BY <1>12, Disjoint
    DEF BooleansOK, Reconnect, Goto, clientVars, brokerVars, threadVars
  <1>13. CASE ReconnectFails
    BY <1>13, Disjoint
    DEF BooleansOK, ReconnectFails, ConnectError, Goto, brokerVars
  <1>14. CASE NoticeLoss \/ OnConnectionLost
    BY <1>14
    DEF BooleansOK, NoticeLoss, OnConnectionLost, LoseConnection, clientVars, threadVars, brokerVars
  <1>15. CASE Drop \/ BrokerStops \/ BrokerStarts
    BY <1>15
    DEF BooleansOK, Drop, BrokerStops, BrokerStarts, SessionAfterLink, clientVars, taskVars, threadVars
  <1>. QED
    BY <1>1, <1>2, <1>3, <1>4, <1>5, <1>6, <1>7, <1>8,
       <1>9, <1>10, <1>11, <1>12, <1>13, <1>14, <1>15, Cases

LEMMA RangesStep ==
  ASSUME RangesOK, Next
  PROVE  RangesOK'
  <1>1. CASE \E c \in Callers, w \in Calls, ts \in SUBSET Topics : Call(c, w, ts)
    BY <1>1, DelayAssumption
    DEF RangesOK, Call, clientVars, taskVars, brokerVars, Threads
  <1>2. CASE \E c \in Callers : Connect(c)
    BY <1>2, DelayAssumption
    DEF RangesOK, Connect, AfterConnect, Goto, clientVars, taskVars, brokerVars, Threads
  <1>3. CASE \E c \in Callers : ConnectThrows(c)
    BY <1>3, DelayAssumption
    DEF RangesOK, ConnectThrows, ConnectError, Goto, clientVars, taskVars, brokerVars, Threads
  <1>4. CASE \E c \in Callers : Publish(c)
    BY <1>4, DelayAssumption
    DEF RangesOK, Publish, Body, Goto, Threads
  <1>5. CASE \E c \in Callers : Subscribe(c)
    BY <1>5, DelayAssumption
    DEF RangesOK, Subscribe, Body, Goto, Threads
  <1>6. CASE \E c \in Callers : Unsubscribe(c)
    BY <1>6, DelayAssumption
    DEF RangesOK, Unsubscribe, Body, Goto, Threads
  <1>7. CASE \E c \in Callers : BodyFails(c)
    BY <1>7, DelayAssumption
    DEF RangesOK, BodyFails, Body, NoAnswer, LoseConnection, Goto, Threads
  <1>8. CASE \E c \in Callers : Disconnect(c)
    BY <1>8, DelayAssumption
    DEF RangesOK, Disconnect, SessionAfterLink, threadVars
  <1>9. CASE \E t \in Threads : ConnectSucceeds(t)
    BY <1>9, DelayAssumption
    DEF RangesOK, ConnectSucceeds, Goto, taskVars
  <1>10. CASE \E t \in Threads : Resubscribe(t)
    BY <1>10, DelayAssumption
    DEF RangesOK, Resubscribe, LeaveConnectImpl, AfterConnect, Goto
  <1>11. CASE \E t \in Threads : ResubscribeFails(t)
    BY <1>11, DelayAssumption
    DEF RangesOK, ResubscribeFails, LeaveConnectImpl, AfterConnect, Goto, NoAnswer, LoseConnection
  <1>12. CASE Reconnect
    BY <1>12, Disjoint, DelayAssumption
    DEF RangesOK, Reconnect, Goto, clientVars, brokerVars, threadVars
  <1>13. CASE ReconnectFails
    BY <1>13, Disjoint, DelayAssumption
    DEF RangesOK, ReconnectFails, ConnectError, Goto, brokerVars
  <1>14. CASE NoticeLoss \/ OnConnectionLost
    BY <1>14, DelayAssumption
    DEF RangesOK, NoticeLoss, OnConnectionLost, LoseConnection, clientVars, threadVars, brokerVars
  <1>15. CASE Drop \/ BrokerStops \/ BrokerStarts
    BY <1>15, DelayAssumption
    DEF RangesOK, Drop, BrokerStops, BrokerStarts, SessionAfterLink, clientVars, taskVars, threadVars
  <1>. QED
    BY <1>1, <1>2, <1>3, <1>4, <1>5, <1>6, <1>7, <1>8,
       <1>9, <1>10, <1>11, <1>12, <1>13, <1>14, <1>15, Cases

LEMMA TypeStep ==
  ASSUME TypeOK, Next
  PROVE  TypeOK'
  <1>1. TypeOK' <=> BooleansOK' /\ RangesOK'
    BY DEF TypeOK, BooleansOK, RangesOK
  <1>. QED
    BY <1>1, TypeParts, BooleansStep, RangesStep

\* Where a thread goes in one step.
LEMMA GotoPc ==
  ASSUME TypeOK, NEW t \in Threads, NEW label, Goto(t, label)
  PROVE  pc'[t] = label /\ \A x \in Threads \ {t} : pc'[x] = pc[x]
  BY DEF TypeOK, Goto

LEMMA MutexStep ==
  ASSUME TypeOK, MutexOK, Next
  PROVE  MutexOK'
  <1>. USE Disjoint DEF MutexOK
  <1>1. ASSUME NEW c \in Callers, NEW w \in Calls, NEW ts \in SUBSET Topics, Call(c, w, ts)
        PROVE  MutexOK'
    BY <1>1 DEF TypeOK, Call, clientVars, Threads
  <1>2. ASSUME NEW c \in Callers, Connect(c)
        PROVE  MutexOK'
    <2>1. c \in Threads /\ AfterConnect(c) \in {"idle", "body"}
      BY DEF Threads, AfterConnect
    <2>. QED
      BY <1>2, <2>1, GotoPc DEF Connect, clientVars
  <1>3. ASSUME NEW c \in Callers, ConnectThrows(c)
        PROVE  MutexOK'
    BY <1>3, GotoPc DEF ConnectThrows, clientVars, Threads
  <1>4. ASSUME NEW c \in Callers, Publish(c) \/ Subscribe(c) \/ Unsubscribe(c) \/ BodyFails(c)
        PROVE  MutexOK'
    <2>1. PICK calls : Body(c, calls)
      BY <1>4 DEF Publish, Subscribe, Unsubscribe, BodyFails
    <2>2. pc[c] = "body" /\ Goto(c, "idle") /\ holder' = holder /\ c \in Threads
      BY <2>1 DEF Body, Threads
    <2>3. connected' = connected \/ connected' = FALSE
      BY <1>4 DEF Publish, Subscribe, Unsubscribe, BodyFails, NoAnswer, LoseConnection
    <2>. QED
      BY <2>2, <2>3, GotoPc
  <1>5. ASSUME NEW c \in Callers, Disconnect(c)
        PROVE  MutexOK'
    BY <1>5 DEF Disconnect, threadVars
  <1>6. ASSUME NEW t \in Threads, ConnectSucceeds(t)
        PROVE  MutexOK'
    BY <1>6, GotoPc DEF ConnectSucceeds
  <1>7. ASSUME NEW t \in Threads, Resubscribe(t) \/ ResubscribeFails(t)
        PROVE  MutexOK'
    <2>1. pc[t] = "resub" /\ holder' = NoThread
      BY <1>7 DEF Resubscribe, ResubscribeFails, LeaveConnectImpl
    <2>2. PICK label \in {"idle", "body"} : Goto(t, label) /\ (t = Timer => label = "idle")
      BY <1>7 DEF Resubscribe, ResubscribeFails, LeaveConnectImpl, AfterConnect
    <2>. QED
      BY <2>1, <2>2, GotoPc
  <1>8. CASE Reconnect
    <2>1. CASE connected
      BY <1>8, <2>1 DEF Reconnect, threadVars, clientVars
    <2>2. CASE ~connected
      BY <1>8, <2>2, GotoPc DEF Reconnect, clientVars
    <2>. QED
      BY <2>1, <2>2
  <1>9. CASE ReconnectFails
    BY <1>9, GotoPc DEF ReconnectFails
  <1>10. CASE NoticeLoss \/ OnConnectionLost
    BY <1>10 DEF NoticeLoss, OnConnectionLost, LoseConnection, clientVars, threadVars
  <1>11. CASE Drop \/ BrokerStops \/ BrokerStarts
    BY <1>11 DEF Drop, BrokerStops, BrokerStarts, clientVars, threadVars
  <1>. QED
    BY <1>1, <1>2, <1>3, <1>4, <1>5, <1>6, <1>7, <1>8, <1>9, <1>10, <1>11, Cases

\* A connection is lost only by LoseConnection, which disconnect may contain.
LEMMA DroppedStep ==
  ASSUME DroppedOK, Next
  PROVE  DroppedOK'
  <1>1. CASE dropped' = FALSE
    BY <1>1 DEF DroppedOK
  <1>2. CASE connected' = FALSE
    BY <1>2 DEF DroppedOK
  <1>3. CASE UNCHANGED <<connected, dropped>>
    BY <1>3 DEF DroppedOK
  <1>4. dropped' = FALSE \/ connected' = FALSE \/ UNCHANGED <<connected, dropped>>
    BY Cases
    DEF Call, Connect, ConnectThrows, Publish, Subscribe, Unsubscribe, BodyFails,
        Disconnect, ConnectSucceeds, Resubscribe, ResubscribeFails, Reconnect,
        ReconnectFails, NoticeLoss, OnConnectionLost, Drop, BrokerStops, BrokerStarts,
        NoAnswer, LoseConnection, clientVars
  <1>. QED
    BY <1>1, <1>2, <1>3, <1>4

\* The operations of callers and the environment leave the timer's thread where
\* it is.
LEMMA CallerFrame ==
  ASSUME TypeOK, NEW c \in Callers, NEW label, Goto(c, label)
  PROVE  Reconnecting' = Reconnecting
  BY GotoPc, Disjoint DEF Reconnecting, Threads

LEMMA ScheduledStep ==
  ASSUME TypeOK, MutexOK, DroppedOK, ReconnectScheduled, Next
  PROVE  ReconnectScheduled'
  <1>. USE Disjoint DEF ReconnectScheduled
  <1>. tasks \in Nat /\ lost \in Nat
    BY DEF TypeOK
  <1>1. ASSUME NEW c \in Callers, NEW w \in Calls, NEW ts \in SUBSET Topics, Call(c, w, ts)
        PROVE  ReconnectScheduled'
    <2>1. Reconnecting' = Reconnecting
      BY <1>1 DEF Call, TypeOK, Reconnecting, Threads
    <2>. QED
      BY <1>1, <2>1 DEF Call, taskVars
  <1>2. ASSUME NEW c \in Callers, Connect(c) \/ ConnectThrows(c)
        PROVE  ReconnectScheduled'
    <2>1. PICK label : Goto(c, label)
      BY <1>2 DEF Connect, ConnectThrows
    <2>. QED
      BY <1>2, <2>1, CallerFrame DEF Connect, ConnectThrows, taskVars
  <1>3. ASSUME NEW c \in Callers, Publish(c) \/ Subscribe(c) \/ Unsubscribe(c) \/ BodyFails(c)
        PROVE  ReconnectScheduled'
    <2>1. Goto(c, "idle") /\ tasks' = tasks
      BY <1>3 DEF Publish, Subscribe, Unsubscribe, BodyFails, Body
    <2>2. (lost' = lost /\ dropped' = dropped) \/ lost' = lost + 1
      BY <1>3 DEF Publish, Subscribe, Unsubscribe, BodyFails, NoAnswer, LoseConnection
    <2>3. Reconnecting' = Reconnecting
      BY <2>1, CallerFrame
    <2>4. CASE lost' = lost + 1
      BY <2>4
    <2>. QED
      BY <2>1, <2>2, <2>3, <2>4
  <1>4. ASSUME NEW c \in Callers, Disconnect(c)
        PROVE  ReconnectScheduled'
    <2>1. Reconnecting' = Reconnecting /\ tasks' = tasks
      BY <1>4 DEF Disconnect, threadVars, Reconnecting
    <2>2. (lost' = lost /\ dropped' = dropped) \/ lost' = lost + 1
      BY <1>4 DEF Disconnect
    <2>3. CASE lost' = lost + 1
      BY <2>3
    <2>. QED
      BY <2>1, <2>2, <2>3
  <1>5. ASSUME NEW t \in Threads, ConnectSucceeds(t)
        PROVE  ReconnectScheduled'
    BY <1>5 DEF ConnectSucceeds
  <1>6. ASSUME NEW t \in Threads, Resubscribe(t) \/ ResubscribeFails(t)
        PROVE  ReconnectScheduled'
    <2>1. pc[t] = "resub" /\ tasks' = tasks
      BY <1>6 DEF Resubscribe, ResubscribeFails, LeaveConnectImpl
    <2>2. PICK label : Goto(t, label)
      BY <1>6 DEF Resubscribe, ResubscribeFails, LeaveConnectImpl
    <2>3. Reconnecting => Reconnecting'
      BY <2>1, <2>2, GotoPc DEF Reconnecting
    <2>4. (lost' = lost /\ dropped' = dropped) \/ lost' = lost + 1
      BY <1>6 DEF Resubscribe, ResubscribeFails, NoAnswer, LoseConnection
    <2>5. CASE lost' = lost + 1
      BY <2>5
    <2>. QED
      BY <2>1, <2>3, <2>4, <2>5
  <1>7. CASE Reconnect
    <2>1. CASE connected
      BY <1>7, <2>1 DEF Reconnect, DroppedOK
    <2>2. CASE ~connected
      BY <1>7, <2>2, GotoPc DEF Reconnect, Reconnecting
    <2>. QED
      BY <2>1, <2>2
  <1>8. CASE ReconnectFails
    BY <1>8 DEF ReconnectFails
  <1>9. CASE NoticeLoss
    BY <1>9 DEF NoticeLoss, LoseConnection
  <1>10. CASE OnConnectionLost
    BY <1>10 DEF OnConnectionLost
  <1>11. CASE Drop \/ BrokerStops \/ BrokerStarts
    BY <1>11 DEF Drop, BrokerStops, BrokerStarts, taskVars, threadVars, Reconnecting
  <1>. QED
    BY <1>1, <1>2, <1>3, <1>4, <1>5, <1>6, <1>7, <1>8, <1>9, <1>10, <1>11, Cases

\* The chains waiting in the timer or in the threads of paho.
Waiting == tasks + lost + Running

LEMMA WaitingNat ==
  ASSUME TypeOK
  PROVE  Waiting \in Nat /\ Running \in {0, 1} /\ Unnoticed \in {0, 1} /\ drops \in Nat
  BY DelayAssumption DEF TypeOK, Waiting, Running, Unnoticed

\* NoAnswer turns a broken connection, or one more fault, into a chain.
LEMMA NoAnswerChains ==
  ASSUME TypeOK, NEW done, NoAnswer(done)
  PROVE  /\ Unnoticed' = 0
         /\ lost' = lost + 1
         /\ \/ Unnoticed = 1 /\ drops' = drops
            \/ Unnoticed = 0 /\ drops' = drops + 1
  BY DEF NoAnswer, LoseConnection, Unnoticed

LEMMA ChainsStep ==
  ASSUME TypeOK, MutexOK, ChainsOK, Next
  PROVE  ChainsOK'
  <1>0. tasks \in Nat /\ lost \in Nat /\ drops \in Nat
        /\ Running \in {0, 1} /\ Unnoticed \in {0, 1}
    BY WaitingNat DEF TypeOK
  <1>. USE <1>0 DEF ChainsOK
  <1>1. ASSUME NEW c \in Callers, NEW w \in Calls, NEW ts \in SUBSET Topics, Call(c, w, ts)
        PROVE  ChainsOK'
    <2>1. Running' = Running /\ Unnoticed' = Unnoticed
      BY <1>1, Disjoint DEF Call, TypeOK, Reconnecting, Running, Unnoticed, Threads,
                            clientVars, brokerVars
    <2>. QED
      BY <1>1, <2>1 DEF Call, taskVars
  <1>2. ASSUME NEW c \in Callers, Connect(c) \/ ConnectThrows(c)
        PROVE  ChainsOK'
    <2>1. PICK label : Goto(c, label)
      BY <1>2 DEF Connect, ConnectThrows
    <2>2. Running' = Running
      BY <2>1, CallerFrame DEF Running
    <2>3. Unnoticed' = Unnoticed /\ tasks' = tasks /\ lost' = lost
      BY <1>2 DEF Connect, ConnectThrows, clientVars, brokerVars, taskVars, Unnoticed
    <2>4. drops' = drops \/ drops' = drops + 1
      BY <1>2 DEF Connect, ConnectThrows, ConnectError
    <2>. QED
      BY <2>2, <2>3, <2>4
  <1>3. ASSUME NEW c \in Callers, Publish(c) \/ Subscribe(c) \/ Unsubscribe(c)
        PROVE  ChainsOK'
    <2>1. Goto(c, "idle") /\ tasks' = tasks /\ lost' = lost /\ drops' = drops
      BY <1>3 DEF Publish, Subscribe, Unsubscribe, Body
    <2>2. Unnoticed' = Unnoticed
      BY <1>3 DEF Publish, Subscribe, Unsubscribe, Unnoticed
    <2>. QED
      BY <2>1, <2>2, CallerFrame DEF Running
  <1>4. ASSUME NEW c \in Callers, BodyFails(c)
        PROVE  ChainsOK'
    <2>1. Goto(c, "idle") /\ tasks' = tasks
      BY <1>4 DEF BodyFails, Body
    <2>2. Running' = Running
      BY <2>1, CallerFrame DEF Running
    <2>3. CASE UNCHANGED <<connected, lost, link, drops>>
      BY <2>1, <2>2, <2>3 DEF Unnoticed
    <2>4. CASE \E done : NoAnswer(done)
      BY <2>1, <2>2, <2>4, NoAnswerChains
    <2>. QED
      BY <1>4, <2>3, <2>4 DEF BodyFails
  <1>5. ASSUME NEW c \in Callers, Disconnect(c)
        PROVE  ChainsOK'
    <2>1. Running' = Running /\ tasks' = tasks /\ drops' = drops /\ Unnoticed' = 0
      BY <1>5 DEF Disconnect, threadVars, Running, Reconnecting, Unnoticed
    <2>2. lost' = lost \/ (lost' = lost + 1 /\ Unnoticed = 1)
      BY <1>5 DEF Disconnect, Unnoticed
    <2>. QED
      BY <2>1, <2>2
  <1>6. ASSUME NEW t \in Threads, ConnectSucceeds(t)
        PROVE  ChainsOK'
    <2>1. Unnoticed' = 0 /\ tasks' = tasks /\ lost' = lost /\ drops' = drops
      BY <1>6 DEF ConnectSucceeds, taskVars, Unnoticed
    <2>2. Running' <= Running
      BY <1>6, GotoPc, Disjoint DEF ConnectSucceeds, Running, Reconnecting
    <2>3. Running' = 0 \/ Running' = 1
      BY DEF Running
    <2>. QED
      BY <2>1, <2>2, <2>3
  <1>7. ASSUME NEW t \in Threads, Resubscribe(t) \/ ResubscribeFails(t)
        PROVE  ChainsOK'
    <2>1. pc[t] = "resub" /\ tasks' = tasks
      BY <1>7 DEF Resubscribe, ResubscribeFails, LeaveConnectImpl
    <2>2. PICK label \in {"idle", "body"} : Goto(t, label)
      BY <1>7 DEF Resubscribe, ResubscribeFails, LeaveConnectImpl, AfterConnect
    <2>3. Running' = Running
      BY <2>1, <2>2, GotoPc, Disjoint DEF Running, Reconnecting
    <2>4. CASE UNCHANGED <<connected, lost, link, drops>>
      BY <2>1, <2>3, <2>4 DEF Unnoticed
    <2>5. CASE \E done : NoAnswer(done)
      BY <2>1, <2>3, <2>5, NoAnswerChains
    <2>. QED
      BY <1>7, <2>4, <2>5 DEF Resubscribe, ResubscribeFails
  <1>8. CASE Reconnect
    <2>1. Unnoticed' = Unnoticed /\ lost' = lost /\ drops' = drops /\ tasks' = tasks - 1
      BY <1>8 DEF Reconnect, clientVars, brokerVars, Unnoticed
    <2>2. (Running' = 0 \/ Running' = 1) /\ Running = 0 /\ tasks > 0
      BY <1>8 DEF Reconnect, Running, Reconnecting
    <2>. QED
      BY <2>1, <2>2
  <1>9. CASE ReconnectFails
    <2>1. Unnoticed' = Unnoticed /\ lost' = lost /\ tasks' = tasks + 1
      BY <1>9 DEF ReconnectFails, brokerVars, Unnoticed
    <2>2. Running = 1 /\ Running' = 0
      BY <1>9, GotoPc, Disjoint DEF ReconnectFails, Running, Reconnecting
    <2>3. drops' = drops \/ drops' = drops + 1
      BY <1>9 DEF ReconnectFails, ConnectError
    <2>. QED
      BY <2>1, <2>2, <2>3
  <1>10. CASE NoticeLoss
    <2>1. Unnoticed = 1 /\ Unnoticed' = 0 /\ lost' = lost + 1
      BY <1>10 DEF NoticeLoss, LoseConnection, Unnoticed
    <2>. QED
      BY <1>10, <2>1 DEF NoticeLoss, threadVars, Running, Reconnecting
  <1>11. CASE OnConnectionLost
    <2>1. Unnoticed' = Unnoticed /\ Running' = Running /\ drops' = drops
      BY <1>11 DEF OnConnectionLost, clientVars, brokerVars, threadVars, Unnoticed,
                   Running, Reconnecting
    <2>. QED
      BY <1>11, <2>1 DEF OnConnectionLost
  <1>12. CASE Drop \/ BrokerStops
    <2>1. Running' = Running /\ tasks' = tasks /\ lost' = lost /\ drops' = drops + 1
      BY <1>12 DEF Drop, BrokerStops, taskVars, threadVars, Running, Reconnecting
    <2>2. Unnoticed' = 0 \/ Unnoticed' = 1
      BY DEF Unnoticed
    <2>3. Unnoticed = 1 => Unnoticed' = 1
      BY <1>12 DEF Drop, BrokerStops, Unnoticed, clientVars
    <2>. QED
      BY <2>1, <2>2, <2>3
  <1>13. CASE BrokerStarts
    BY <1>13 DEF BrokerStarts, clientVars, taskVars, threadVars, Running, Reconnecting, Unnoticed
  <1>. QED
    BY <1>1, <1>2, <1>3, <1>4, <1>5, <1>6, <1>7, <1>8, <1>9, <1>10, <1>11, <1>12, <1>13, Cases

NobodyResubscribes == \A t \in Threads : pc[t] # "resub"

\* A step of a thread that does not resubscribe.
LEMMA ResubscribeFrame ==
  ASSUME TypeOK, NEW t \in Threads, NEW label, Goto(t, label), pc[t] # "resub",
         NobodyResubscribes'
  PROVE  NobodyResubscribes
  BY GotoPc DEF NobodyResubscribes

LEMMA SubscriptionsStep ==
  ASSUME TypeOK, MutexOK, SubscriptionsAtBroker, Next
  PROVE  SubscriptionsAtBroker'
  <1>. SUFFICES ASSUME connected', link', NobodyResubscribes'
                PROVE  topics' \ Refused \subseteq brokerSubs'
    BY DEF SubscriptionsAtBroker, NobodyResubscribes
  <1>0. connected /\ link /\ NobodyResubscribes => topics \ Refused \subseteq brokerSubs
    BY DEF SubscriptionsAtBroker, NobodyResubscribes
  <1>. DEFINE Kept == UNCHANGED <<connected, link, topics, brokerSubs>>
  <1>1. ASSUME Kept, NobodyResubscribes
        PROVE  topics' \ Refused \subseteq brokerSubs'
    BY <1>0, <1>1
  <1>2. ASSUME NEW done, NoAnswer(done)
        PROVE  FALSE
    BY <1>2 DEF NoAnswer, LoseConnection
  <1>3. ASSUME NEW c \in Callers, NEW w \in Calls, NEW ts \in SUBSET Topics, Call(c, w, ts)
        PROVE  topics' \ Refused \subseteq brokerSubs'
    <2>1. pc[c] = "idle" /\ \A x \in Threads \ {c} : pc'[x] = pc[x]
      BY <1>3 DEF Call, TypeOK, Threads
    <2>2. NobodyResubscribes
      BY <2>1 DEF NobodyResubscribes
    <2>. QED
      BY <1>1, <1>3, <2>2 DEF Call, clientVars, brokerVars
  <1>4. ASSUME NEW c \in Callers, Connect(c) \/ ConnectThrows(c) \/ Publish(c)
        PROVE  topics' \ Refused \subseteq brokerSubs'
    <2>1. c \in Threads /\ pc[c] # "resub" /\ \E label : Goto(c, label)
      BY <1>4 DEF Connect, ConnectThrows, Publish, Body, Threads
    <2>2. Kept
      BY <1>4 DEF Connect, ConnectThrows, Publish, Body, clientVars, brokerVars
    <2>. QED
      BY <1>1, <2>1, <2>2, ResubscribeFrame
  <1>5. ASSUME NEW c \in Callers, Subscribe(c) \/ Unsubscribe(c)
        PROVE  topics' \ Refused \subseteq brokerSubs'
    <2>1. c \in Threads /\ pc[c] # "resub" /\ Goto(c, "idle") /\ connected /\ link
      BY <1>5 DEF Subscribe, Unsubscribe, Body, Threads
    <2>2. topics \ Refused \subseteq brokerSubs
      BY <1>0, <2>1, ResubscribeFrame
    <2>. QED
      BY <1>5, <2>2 DEF Subscribe, Unsubscribe
  <1>6. ASSUME NEW c \in Callers, BodyFails(c)
        PROVE  FALSE
    <2>1. CASE ~connected /\ UNCHANGED <<connected, lost, link, brokerSubs, dropped, drops>>
      BY <2>1
    <2>2. CASE \E done : NoAnswer(done)
      BY <1>2, <2>2
    <2>. QED
      BY <1>6, <2>1, <2>2 DEF BodyFails
  <1>7. ASSUME NEW c \in Callers, Disconnect(c)
        PROVE  FALSE
    BY <1>7 DEF Disconnect
  <1>8. ASSUME NEW t \in Threads, ConnectSucceeds(t)
        PROVE  FALSE
    BY <1>8, GotoPc DEF ConnectSucceeds, NobodyResubscribes
  <1>9. ASSUME NEW t \in Threads, Resubscribe(t)
        PROVE  topics' \ Refused \subseteq brokerSubs'
    BY <1>9 DEF Resubscribe, LeaveConnectImpl
  <1>10. ASSUME NEW t \in Threads, ResubscribeFails(t)
         PROVE  FALSE
    <2>1. CASE ~connected /\ UNCHANGED <<connected, lost, link, brokerSubs, dropped, drops>>
      BY <2>1
    <2>2. CASE NoAnswer(brokerSubs \cup (topics \ Refused))
      BY <1>2, <2>2
    <2>. QED
      BY <1>10, <2>1, <2>2 DEF ResubscribeFails
  <1>11. CASE Reconnect
    <2>1. CASE connected
      BY <1>11, <2>1, <1>0 DEF Reconnect, threadVars, clientVars, brokerVars, NobodyResubscribes
    <2>2. CASE ~connected
      BY <1>11, <2>2 DEF Reconnect, clientVars
    <2>. QED
      BY <2>1, <2>2
  <1>12. CASE ReconnectFails
    <2>1. Kept /\ Goto(Timer, "idle") /\ pc[Timer] # "resub"
      BY <1>12 DEF ReconnectFails, brokerVars
    <2>. QED
      BY <1>1, <2>1, ResubscribeFrame, Disjoint
  <1>13. CASE NoticeLoss \/ OnConnectionLost
    BY <1>13, <1>0 DEF NoticeLoss, LoseConnection, OnConnectionLost, clientVars,
                       brokerVars, threadVars, NobodyResubscribes
  <1>14. CASE Drop \/ BrokerStops \/ BrokerStarts
    BY <1>14, <1>0 DEF Drop, BrokerStops, BrokerStarts, clientVars, threadVars,
                       NobodyResubscribes
  <1>. QED
    BY <1>3, <1>4, <1>5, <1>6, <1>7, <1>8, <1>9, <1>10, <1>11, <1>12, <1>13, <1>14, Cases
-----------------------------------------------------------------------------
LEMMA StutterInv == IInv /\ UNCHANGED vars => IInv'
  BY DEF IInv, vars, clientVars, taskVars, threadVars, brokerVars, TypeOK, MutexOK,
         DroppedOK, ReconnectScheduled, ChainsOK, SubscriptionsAtBroker, Running,
         Unnoticed, Reconnecting

LEMMA StepInv == IInv /\ [Next]_vars => IInv'
  <1>1. ASSUME IInv, Next
        PROVE  IInv'
    BY <1>1, TypeStep, MutexStep, DroppedStep, ScheduledStep, ChainsStep, SubscriptionsStep
    DEF IInv
  <1>. QED
    BY <1>1, StutterInv

LEMMA Invariance == Spec => []IInv
  BY InitInv, StepInv, PTL DEF Spec

\* The state of MQTTClientImpl keeps its types; the reconnect delay stays below
\* twice MAXIMUM_RECONNECT_DELAY, where reconnect stops to double it.
THEOREM TypeCorrect == Spec => []TypeOK
  <1>1. IInv => TypeOK
    BY DEF IInv
  <1>. QED
    BY <1>1, Invariance, PTL

\* However many threads call the client: a client whose connection was lost and
\* not made again has a call of onConnectionLost, a ReconnectTask or a running
\* reconnect ahead.
THEOREM ReconnectSafe == Spec => []ReconnectScheduled
  <1>1. IInv => ReconnectScheduled
    BY DEF IInv
  <1>. QED
    BY <1>1, Invariance, PTL

\* The tasks that onConnectionLost and reconnect schedule are never more than
\* the faults of the network and the broker.
THEOREM ChainsSafe == Spec => []OneChainPerFault
  <1>1. TypeOK /\ ChainsOK => OneChainPerFault
    <2>. SUFFICES ASSUME TypeOK, ChainsOK
                  PROVE  OneChainPerFault
      OBVIOUS
    <2>1. tasks + lost + Running \in Nat /\ drops \in Nat /\ Unnoticed \in {0, 1}
      BY WaitingNat DEF Waiting
    <2>2. tasks + lost + Running <= drops
      BY <2>1 DEF ChainsOK
    <2>. QED
      BY <2>2 DEF OneChainPerFault, Running
  <1>2. IInv => OneChainPerFault
    BY <1>1 DEF IInv
  <1>. QED
    BY <1>2, Invariance, PTL

\* A connected client's list of topics is in the broker's session whenever no
\* thread is between connecting and resubscribing.
THEOREM SubscriptionsSafe == Spec => []SubscriptionsAtBroker
  <1>1. IInv => SubscriptionsAtBroker
    BY DEF IInv
  <1>. QED
    BY <1>1, Invariance, PTL
=============================================================================
