-------------------------------- MODULE ZApiMQTT --------------------------------
(***************************************************************************)
(* The way of a device's values from the HTTP handlers of zcloud to the     *)
(* process zcloud-ws: a handler writes one to the log of the device,        *)
(* deviceDataUpdated calls ZApiMQTT::handlePublishMessage in the same       *)
(* thread, MqttClientWorker publishes it at QoS 0, and the broker sends it  *)
(* on to the MqttClientWorker of zcloud-ws.                                *)
(*                                                                         *)
(* Both workers connect once, with a clean session; autoReconnect and       *)
(* beginConnect do nothing, and mqttConnectionLost only prints.  publish    *)
(* ignores what MQTTClient_publishMessage returns.  The broker keeps the    *)
(* order of the messages of a topic filter on one connection (external).    *)
(* Left out: what a message says; a failure to connect at the start, which  *)
(* ends the process; the messages that other processes of the system get    *)
(* and ignore; updateData and changeState requests, which no device sends   *)
(* with success, as nothing fills the set updateDataDevice asks; a user     *)
(* removed between the write and the event, which then is not raised.       *)
(***************************************************************************)
EXTENDS Integers, Sequences, FiniteSets, SequencesExt

CONSTANTS
    Threads,      \* the handler threads of zcloud
    NoMessage,    \* a thread without a value
    MaxMessages   \* bound on the values the sensors send

ASSUME FeedAssumption == MaxMessages \in Nat /\ NoMessage \notin Nat

Messages == 1..MaxMessages

VARIABLES
    written,    \* the values in the device's log, numbered as they were written
    value,      \* per thread: the value it has written and not yet published
    queue,      \* what is on its way to zcloud-ws, in order
    publishing, \* zcloud is connected to the broker
    receiving,  \* zcloud-ws is connected to the broker
    ended,      \* history: the values that have been published, or lost in publishing
    before,     \* history: <<a, b>> when a was in ended as b was written
    received    \* history: the values zcloud-ws has received, in order

feedVars == <<written, value, queue, publishing, receiving, ended, before, received>>

FeedTypeOK ==
    /\ written \in 0..MaxMessages
    /\ value \in [Threads -> Messages \cup {NoMessage}]
    /\ queue \in Seq(Messages) /\ received \in Seq(Messages)
    /\ publishing \in BOOLEAN /\ receiving \in BOOLEAN
    /\ ended \in SUBSET Messages /\ before \in SUBSET (Messages \X Messages)

FeedInit ==
    /\ written = 0
    /\ value = [t \in Threads |-> NoMessage]
    /\ queue = <<>> /\ received = <<>>
    /\ publishing = TRUE /\ receiving = TRUE
    /\ ended = {} /\ before = {}

-----------------------------------------------------------------------------
\* createVarValue: a handler writes the next value to the log.
Store(t) ==
    /\ value[t] = NoMessage
    /\ written < MaxMessages
    /\ written' = written + 1
    /\ value' = [value EXCEPT ![t] = written + 1]
    /\ before' = before \cup (ended \X {written + 1})
    /\ UNCHANGED <<queue, publishing, receiving, ended, received>>

\* Mutant: a message is refused while another is on its way.
SentOnlyAlone(m) == IF queue = <<>> THEN <<m>> ELSE queue

\* Mutant: the value is read when the handler has let go of it.
SentReleased(m) == IF publishing THEN Append(queue, NoMessage) ELSE queue

\* Mutant: two delegates publish it.
SentTwice(m) == IF publishing THEN queue \o <<m, m>> ELSE queue

\* MQTTClient_publishMessage; over a lost connection nothing is sent.
Sent(m) == IF publishing THEN Append(queue, m) ELSE queue

\* The event calls its delegates in the handler's thread, and the handler answers.
Publish(t) ==
    /\ value[t] # NoMessage
    /\ queue' = IF receiving THEN Sent(value[t]) ELSE queue
    /\ ended' = ended \cup {value[t]}
    /\ value' = [value EXCEPT ![t] = NoMessage]
    /\ UNCHANGED <<written, publishing, receiving, before, received>>

\* zcloud loses its connection, with the last of what it sent.
LosePublisher ==
    /\ publishing
    /\ publishing' = FALSE
    /\ \E n \in 0..Len(queue) : queue' = SubSeq(queue, 1, n)
    /\ UNCHANGED <<value, written, receiving, ended, before, received>>

\* zcloud-ws loses its connection, and with it the session and its messages.
LoseSubscriber ==
    /\ receiving
    /\ receiving' = FALSE
    /\ queue' = <<>>
    /\ UNCHANGED <<value, written, publishing, ended, before, received>>

\* mqttMessageArrived: paho's thread in zcloud-ws takes the next message.
Receive ==
    /\ queue # <<>>
    /\ received' = Append(received, Head(queue))
    /\ queue' = Tail(queue)
    /\ UNCHANGED <<value, written, publishing, receiving, ended, before>>

FeedThread(t) == Store(t) \/ Publish(t)
FeedFault == LosePublisher \/ LoseSubscriber

-----------------------------------------------------------------------------
(***************************************************************************)
(* Properties of the feed.                                                 *)
(***************************************************************************)

\* zcloud-ws receives no value twice, and of two values the later one later, when the
\* first was published before the second was written.
ReceivedInOrder ==
    /\ IsInjective(received)
    /\ \A i, j \in DOMAIN received : i < j => <<received[j], received[i]>> \notin before

\* No handler is between its write and its event, and no message on its way.
Quiet == queue = <<>> /\ \A t \in Threads : value[t] = NoMessage

\* When all is quiet and no connection was lost, zcloud-ws has received every value,
\* and the last it received is the last in the log, unless the handlers of the two
\* overlapped: no lock joins the write and the event.
StaleOnlyIfOverlapped ==
    Quiet /\ publishing /\ receiving /\ written > 0 =>
        /\ ToSet(received) = 1..written
        /\ <<Last(received), written>> \notin before
=============================================================================
