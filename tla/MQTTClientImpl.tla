--------------------------- MODULE MQTTClientImpl ---------------------------
(***************************************************************************)
(* The MQTT client of zcloud's message bus: class MQTTClientImpl on top of *)
(* paho's MQTTClient, and the broker as the client depends on it.          *)
(*                                                                         *)
(* Application threads, the thread of _timer, paho's receive thread and    *)
(* the threads paho starts for connectionLost run concurrently.  _mutex is *)
(* held by connect, reconnect and the bodies of the operations, but        *)
(* publish, subscribe and unsubscribe release it between connect() and     *)
(* their own body, and onConnectionLost does not take it.                  *)
(*                                                                         *)
(* A QoS level is not part of a subscription here, and a delayed task may  *)
(* run at any later time.                                                  *)
(***************************************************************************)
EXTENDS Integers, FiniteSets

CONSTANTS
    Callers,       \* the threads that call the client
    Timer,         \* the thread of _timer
    NoThread,      \* nobody holds _mutex
    Topics,
    Refused,       \* the topics the broker refuses a subscription to
    CleanSession,  \* the configured cleanSession
    InitialDelay,  \* INITIAL_RECONNECT_DELAY
    MaximumDelay,  \* MAXIMUM_RECONNECT_DELAY
    MaxDrops       \* bound on the faults of the network and of the broker

ASSUME ThreadsAssumption ==
    Timer \notin Callers /\ NoThread \notin Callers \cup {Timer}
ASSUME TopicsAssumption == Refused \subseteq Topics /\ CleanSession \in BOOLEAN
ASSUME DelayAssumption ==
    /\ InitialDelay \in Nat \ {0} /\ MaximumDelay \in Nat /\ MaxDrops \in Nat
    /\ InitialDelay <= MaximumDelay

VARIABLES
    connected,   \* MQTTClient_isConnected
    topics,      \* _subscribedTopics
    clean,       \* _options.cleanSession
    delay,       \* _reconnectDelay
    tasks,       \* ReconnectTasks in _timer
    lost,        \* onConnectionLost calls that have not run yet
    holder,      \* who holds _mutex
    pc,          \* per thread: where it is
    call,        \* per caller: the operation it performs
    args,        \* per caller: the topics of the operation
    up,          \* the broker accepts connections
    link,        \* the network connection to the broker is alive
    discards,    \* the broker discards the session when the connection ends
    brokerSubs,  \* the subscriptions in the broker's session of this client
    dropped,     \* history: the client lost its connection and has none since
    drops        \* faults so far

clientVars == <<connected, topics, clean, delay>>
taskVars == <<tasks, lost>>
threadVars == <<pc, call, args>>
brokerVars == <<up, link, discards, brokerSubs>>
vars == <<clientVars, taskVars, holder, threadVars, brokerVars, dropped, drops>>

Threads == Callers \cup {Timer}
SubscribeCalls == {"subscribe", "subscribeMany"}
UnsubscribeCalls == {"unsubscribe", "unsubscribeMany"}
Calls == {"connect", "publish"} \cup SubscribeCalls \cup UnsubscribeCalls

Init ==
    /\ connected = FALSE
    /\ topics = {}
    /\ clean = CleanSession
    /\ delay = InitialDelay
    /\ tasks = 0
    /\ lost = 0
    /\ holder = NoThread
    /\ pc = [t \in Threads |-> "idle"]
    /\ call = [c \in Callers |-> "connect"]
    /\ args = [c \in Callers |-> {}]
    /\ up \in BOOLEAN
    /\ link = FALSE
    /\ discards = FALSE
    /\ brokerSubs = {}
    /\ dropped = FALSE
    /\ drops = 0
-----------------------------------------------------------------------------
(* paho: what the client's calls do.                                       *)

Goto(t, label) == pc' = [pc EXCEPT ![t] = label] /\ UNCHANGED <<call, args>>

\* A session that was opened clean ends with its connection.
SessionAfterLink == IF discards THEN {} ELSE brokerSubs

\* MQTTClient_disconnect_internal: the connection is given up, and a thread is
\* started for connectionLost.
LoseConnection ==
    /\ connected' = FALSE
    /\ lost' = lost + 1
    /\ dropped' = TRUE

\* A command to the broker that gets no answer.  The broker may have carried
\* it out, if it got it.
NoAnswer(done) ==
    /\ connected
    /\ \/ ~link /\ UNCHANGED <<link, brokerSubs, drops>>
       \/ /\ link
          /\ drops < MaxDrops
          /\ drops' = drops + 1
          /\ link' = FALSE
          /\ brokerSubs' \in IF discards THEN {{}} ELSE {brokerSubs, done}
    /\ LoseConnection
-----------------------------------------------------------------------------
(* Taking and releasing _mutex around connectImpl.                         *)

\* A caller enters one of the operations.
Call(c, what, ts) ==
    /\ pc[c] = "idle"
    /\ pc' = [pc EXCEPT ![c] = "connect"]
    /\ call' = [call EXCEPT ![c] = what]
    /\ args' = [args EXCEPT ![c] = ts]
    /\ UNCHANGED <<clientVars, taskVars, holder, brokerVars, dropped, drops>>

\* After connect() the operation takes the mutex again for its own body.
AfterConnect(c) == IF call[c] = "connect" THEN "idle" ELSE "body"

\* connect: nothing to do if the client is connected.
Connect(c) ==
    /\ pc[c] = "connect"
    /\ holder = NoThread
    /\ IF connected
         THEN Goto(c, AfterConnect(c)) /\ UNCHANGED holder
         ELSE Goto(c, "conn") /\ holder' = c
    /\ UNCHANGED <<clientVars, taskVars, brokerVars, dropped, drops>>

\* Mutant of Reconnect: the task stays in the timer, as a periodic one would.
ReconnectPeriodic ==
    /\ pc[Timer] = "idle"
    /\ holder = NoThread
    /\ tasks > 0
    /\ IF connected
         THEN UNCHANGED <<threadVars, holder>>
         ELSE Goto(Timer, "conn") /\ holder' = Timer
    /\ UNCHANGED <<clientVars, taskVars, brokerVars, dropped, drops>>

\* ReconnectTask::run, reconnect: nothing to do if the client is connected.
Reconnect ==
    /\ pc[Timer] = "idle"
    /\ holder = NoThread
    /\ tasks > 0
    /\ tasks' = tasks - 1
    /\ IF connected
         THEN UNCHANGED <<threadVars, holder>>
         ELSE Goto(Timer, "conn") /\ holder' = Timer
    /\ UNCHANGED <<clientVars, lost, brokerVars, dropped, drops>>

\* MQTTClient_connect succeeds.
ConnectSucceeds(t) ==
    /\ pc[t] = "conn"
    /\ up
    /\ connected' = TRUE
    /\ link' = TRUE
    /\ discards' = clean
    /\ brokerSubs' = IF clean THEN {} ELSE brokerSubs
    /\ delay' = InitialDelay
    /\ dropped' = FALSE
    /\ Goto(t, "resub")
    /\ UNCHANGED <<topics, clean, taskVars, holder, up, drops>>

\* MQTTClient_connect fails because there is no broker, or by a fault.
ConnectError ==
    \/ ~up /\ UNCHANGED drops
    \/ up /\ drops < MaxDrops /\ drops' = drops + 1

\* Mutant of ConnectThrows: the exception leaves the mutex locked.
ConnectThrowsLocked(c) ==
    /\ pc[c] = "conn"
    /\ ConnectError
    /\ Goto(c, "idle")
    /\ UNCHANGED <<clientVars, taskVars, holder, brokerVars, dropped>>

\* connect throws to its caller.
ConnectThrows(c) ==
    /\ pc[c] = "conn"
    /\ ConnectError
    /\ holder' = NoThread
    /\ Goto(c, "idle")
    /\ UNCHANGED <<clientVars, taskVars, brokerVars, dropped>>

\* Mutant of ReconnectFails: no task is scheduled once the delay is at its
\* maximum.
ReconnectFailsGivesUp ==
    /\ pc[Timer] = "conn"
    /\ ConnectError
    /\ holder' = NoThread
    /\ Goto(Timer, "idle")
    /\ IF delay < MaximumDelay
         THEN delay' = 2 * delay /\ tasks' = tasks + 1
         ELSE UNCHANGED <<delay, tasks>>
    /\ UNCHANGED <<connected, topics, clean, lost, brokerVars, dropped>>

\* Mutant of ReconnectFails: the delay is compared with <=.
ReconnectFailsPastMaximum ==
    /\ pc[Timer] = "conn"
    /\ ConnectError
    /\ holder' = NoThread
    /\ Goto(Timer, "idle")
    /\ delay' = IF delay <= MaximumDelay THEN 2 * delay ELSE delay
    /\ tasks' = tasks + 1
    /\ UNCHANGED <<connected, topics, clean, lost, brokerVars, dropped>>

\* reconnect catches the exception and schedules another task.
ReconnectFails ==
    /\ pc[Timer] = "conn"
    /\ ConnectError
    /\ holder' = NoThread
    /\ Goto(Timer, "idle")
    /\ delay' = IF delay < MaximumDelay THEN 2 * delay ELSE delay
    /\ tasks' = tasks + 1
    /\ UNCHANGED <<connected, topics, clean, lost, brokerVars, dropped>>

\* The end of connectImpl: the mutex is released, and connect() asks for no
\* clean session any more.
LeaveConnectImpl(t) ==
    /\ holder' = NoThread
    /\ Goto(t, IF t = Timer THEN "idle" ELSE AfterConnect(t))
    /\ clean' = IF t = Timer THEN clean ELSE FALSE
    /\ UNCHANGED <<topics, delay, tasks, up, discards>>

\* Mutant of Resubscribe: the topics are left to the broker's session.
ResubscribeNothing(t) ==
    /\ pc[t] = "resub"
    /\ LeaveConnectImpl(t)
    /\ UNCHANGED <<connected, lost, link, brokerSubs, dropped, drops>>

\* resubscribe: MQTTClient_subscribeMany of what is in _subscribedTopics.
Resubscribe(t) ==
    /\ pc[t] = "resub"
    /\ topics = {} \/ (connected /\ link)
    /\ brokerSubs' = brokerSubs \cup (topics \ Refused)
    /\ LeaveConnectImpl(t)
    /\ UNCHANGED <<connected, lost, link, dropped, drops>>

\* resubscribe throws, and connectImpl logs a warning: the connection was
\* given up already, or it is given up now.
ResubscribeFails(t) ==
    /\ pc[t] = "resub"
    /\ topics # {}
    /\ \/ ~connected /\ UNCHANGED <<connected, lost, link, brokerSubs, dropped, drops>>
       \/ NoAnswer(brokerSubs \cup (topics \ Refused))
    /\ LeaveConnectImpl(t)
-----------------------------------------------------------------------------
(* The bodies of publish, subscribe and unsubscribe, under the mutex.      *)

Body(c, calls) ==
    /\ pc[c] = "body"
    /\ call[c] \in calls
    /\ holder = NoThread
    /\ Goto(c, "idle")
    /\ UNCHANGED <<clean, delay, tasks, holder, up, discards>>

\* A message may be written to a connection that is broken already.
Publish(c) ==
    /\ Body(c, {"publish"})
    /\ connected
    /\ UNCHANGED <<connected, topics, lost, link, brokerSubs, dropped, drops>>

\* subscribe of a refused topic throws; subscribeMany keeps it in its list.
Subscribe(c) ==
    /\ Body(c, SubscribeCalls)
    /\ connected /\ link
    /\ brokerSubs' = brokerSubs \cup (args[c] \ Refused)
    /\ topics' = topics \cup
           (IF call[c] = "subscribe" THEN args[c] \ Refused ELSE args[c])
    /\ UNCHANGED <<connected, lost, link, dropped, drops>>

Unsubscribe(c) ==
    /\ Body(c, UnsubscribeCalls)
    /\ connected /\ link
    /\ brokerSubs' = brokerSubs \ args[c]
    /\ topics' = topics \ args[c]
    /\ UNCHANGED <<connected, lost, link, dropped, drops>>

\* The operation throws: the connection is gone since connect(), or it is
\* given up now.
BodyFails(c) ==
    /\ Body(c, Calls)
    /\ \/ ~connected /\ UNCHANGED <<connected, lost, link, brokerSubs, dropped, drops>>
       \/ NoAnswer(CASE call[c] \in SubscribeCalls -> brokerSubs \cup (args[c] \ Refused)
                     [] call[c] \in UnsubscribeCalls -> brokerSubs \ args[c]
                     [] OTHER -> brokerSubs)
    /\ UNCHANGED topics

\* disconnect, when the client is connected.  While paho waits for messages in
\* flight its receive thread may give the connection up first.
Disconnect(c) ==
    /\ pc[c] = "idle"
    /\ holder = NoThread
    /\ connected
    /\ connected' = FALSE
    /\ topics' = {}
    /\ link' = FALSE
    /\ brokerSubs' = SessionAfterLink
    /\ \/ UNCHANGED <<lost, dropped>>
       \/ ~link /\ lost' = lost + 1 /\ dropped' = TRUE
    /\ UNCHANGED <<clean, delay, tasks, holder, threadVars, up, discards, drops>>
-----------------------------------------------------------------------------
(* The network, the broker and paho's threads.                             *)

\* The connection breaks.  The client does not know yet.
Drop ==
    /\ link
    /\ drops < MaxDrops
    /\ drops' = drops + 1
    /\ link' = FALSE
    /\ brokerSubs' = SessionAfterLink
    /\ UNCHANGED <<clientVars, taskVars, holder, threadVars, up, discards, dropped>>

\* The broker stops, and may lose the sessions it kept.
BrokerStops ==
    /\ up
    /\ drops < MaxDrops
    /\ drops' = drops + 1
    /\ up' = FALSE
    /\ link' = FALSE
    /\ brokerSubs' \in {{}, SessionAfterLink}
    /\ UNCHANGED <<clientVars, taskVars, holder, threadVars, discards, dropped>>

BrokerStarts ==
    /\ ~up
    /\ up' = TRUE
    /\ UNCHANGED <<clientVars, taskVars, holder, threadVars, link, discards,
                   brokerSubs, dropped, drops>>

\* MQTTClient_run: the receive thread finds the connection broken.
NoticeLoss ==
    /\ connected
    /\ ~link
    /\ LoseConnection
    /\ UNCHANGED <<topics, clean, delay, tasks, holder, threadVars, brokerVars, drops>>

\* onConnectionLost: a task for now.
OnConnectionLost ==
    /\ lost > 0
    /\ lost' = lost - 1
    /\ tasks' = tasks + 1
    /\ UNCHANGED <<clientVars, holder, threadVars, brokerVars, dropped, drops>>
-----------------------------------------------------------------------------
\* The operations with the topics they may be called with.
CallSomething(c) ==
    \/ Call(c, "connect", {}) \/ Call(c, "publish", {})
    \/ \E t \in Topics : Call(c, "subscribe", {t}) \/ Call(c, "unsubscribe", {t})
    \/ \E ts \in SUBSET Topics \ {{}} :
           Call(c, "subscribeMany", ts) \/ Call(c, "unsubscribeMany", ts)

ConnectImpl(t) == ConnectSucceeds(t) \/ Resubscribe(t) \/ ResubscribeFails(t)

CallerStep(c) ==
    \/ Connect(c) \/ ConnectImpl(c) \/ ConnectThrows(c)
    \/ Publish(c) \/ Subscribe(c) \/ Unsubscribe(c) \/ BodyFails(c)

TimerStep == Reconnect \/ ConnectImpl(Timer) \/ ReconnectFails

Environment == Drop \/ BrokerStops \/ BrokerStarts

Next ==
    \/ \E c \in Callers : CallSomething(c) \/ CallerStep(c) \/ Disconnect(c)
    \/ TimerStep \/ NoticeLoss \/ OnConnectionLost
    \/ Environment

Spec == Init /\ [][Next]_vars

\* The threads of the process run; nothing is assumed of the callers' choice of
\* operations, of the network or of the broker.
Fairness ==
    /\ WF_vars(TimerStep)
    /\ WF_vars(OnConnectionLost)
    /\ \A c \in Callers : WF_vars(CallerStep(c))

FairSpec == Spec /\ Fairness
-----------------------------------------------------------------------------
TypeOK ==
    /\ connected \in BOOLEAN /\ clean \in BOOLEAN /\ dropped \in BOOLEAN
    /\ up \in BOOLEAN /\ link \in BOOLEAN /\ discards \in BOOLEAN
    /\ topics \subseteq Topics /\ brokerSubs \subseteq Topics
    /\ delay \in InitialDelay .. 2 * MaximumDelay - 1
    /\ tasks \in Nat /\ lost \in Nat /\ drops \in 0..MaxDrops
    /\ holder \in Threads \cup {NoThread}
    /\ pc \in [Threads -> {"idle", "connect", "conn", "resub", "body"}]
    /\ call \in [Callers -> Calls]
    /\ args \in [Callers -> SUBSET Topics]

Reconnecting == pc[Timer] = "conn"

\* A client that lost its connection and has none yet always has a reconnect
\* coming: onConnectionLost is about to run, a ReconnectTask is in the timer,
\* or reconnect is running.  No call in between uses the last task up.
ReconnectScheduled == dropped => lost > 0 \/ tasks > 0 \/ Reconnecting

\* However often connections are lost while earlier tasks still wait for their
\* delay, there is at most one reconnect chain for each fault: a chain does not
\* multiply.
OneChainPerFault ==
    tasks + lost + (IF Reconnecting THEN 1 ELSE 0) <= drops

\* Outside connectImpl, a client with a live connection has every topic of its
\* list in the broker's session, but those the broker refuses: after any fault,
\* also one in the middle of subscribe, unsubscribe or resubscribe.
SubscriptionsAtBroker ==
    connected /\ link /\ (\A t \in Threads : pc[t] # "resub")
        => topics \ Refused \subseteq brokerSubs

\* "Fired when a message has been received for one of the subscribed topics"
\* (mqttbus.h:161): while the client is connected and no operation is under
\* way, the broker has no subscription the client does not list.
MessagesOnlyForSubscribed ==
    connected /\ link /\ (\A t \in Threads : pc[t] = "idle")
        => brokerSubs \subseteq topics

\* "A MQTT client should automatically attempt to reconnect if the connection
\* to the server is lost" (mqttbus.h:152): once the broker stays up, a client
\* that lost its connection is connected again.
Reconnects == <>[]up => [](dropped => <>connected)
=============================================================================
