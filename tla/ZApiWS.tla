--------------------------------- MODULE ZApiWS ---------------------------------
(***************************************************************************)
(* zcloud-ws: ZApiWS and its WebSocketRequestHandler, fed by ZApiMQTT.      *)
(*                                                                         *)
(* A handler thread per client reads its frames: a login appends the socket *)
(* to list_ws, the close frame takes it out and closes it, a chat message   *)
(* is sent to the whole list; a text that is no JSON, an empty frame, or a  *)
(* failed read ends the handler and leaves the list as it is.  paho's       *)
(* thread, Receiver, sends what it receives to the whole list.              *)
(*                                                                         *)
(* No lock covers the list or d_ptr->ws_iter.  A broadcast walks the list   *)
(* node by node, and leaves the node it is at in ws_iter for the exception  *)
(* handler, which logs that client out and gives the broadcast up.  What a  *)
(* race leads to is undefined: two changes of the list at the same time may *)
(* lose one, and a walk over a node that was freed may go on anywhere; each *)
(* may end the process (Crash).  A push or an erase is a step that begins   *)
(* and a step that ends it, so that two may overlap.                       *)
(*                                                                         *)
(* Left out: the frames' other contents (the logout packet does nothing), a *)
(* send that blocks on a full socket, starting and stopping the server.     *)
(***************************************************************************)
EXTENDS ZApiMQTT

CONSTANTS
    Clients,     \* websocket connections, with a handler thread each
    Receiver,    \* paho's thread
    NoClient,    \* an empty ws_iter
    End,         \* list_ws.end()
    MaxLogins,   \* bound on the login packets
    MaxChats     \* bound on the chat messages

Broadcasters == Clients \cup {Receiver}

\* A node of the list: the number of the login, and the client that made it.
Nodes == [login : 1..MaxLogins, client : Clients]

ASSUME ClientAssumption ==
    /\ IsFiniteSet(Clients)
    /\ Receiver \notin Clients /\ NoClient \notin Clients /\ End \notin Nodes
    /\ MaxLogins \in Nat /\ MaxChats \in Nat

VARIABLES
    running,   \* the process has not crashed
    listWs,    \* list_ws
    wsIter,    \* d_ptr->ws_iter
    handler,   \* per client: where its handler is
    alive,     \* the clients whose peer is there
    open,      \* the clients whose socket is not closed
    walk,      \* per broadcaster: where its broadcast is
    at,        \* per broadcaster: the node its iterator is at
    torn,      \* the threads whose change of the list another overlapped
    logins,    \* login packets so far
    chats,     \* chat messages so far
    made,      \* history: the nodes logins have appended
    due,       \* history: per broadcaster: clients listed since its broadcast began
    got,       \* history: per broadcaster: clients its broadcast has reached
    broken,    \* history: broadcasts of Receiver given up
    contended  \* history: a race has had an effect

wsVars == <<running, listWs, wsIter, handler, alive, open, walk, at, torn, logins, chats,
            made, due, got, broken, contended>>
vars == <<feedVars, wsVars>>

Handlers == {"reading", "pushing", "erasing", "closing", "ended"}
Walks == {"none", "point", "send", "logout"}

\* The type invariant: nodes, iterators and phases are what the code can hold.
TypeOK ==
    /\ FeedTypeOK
    /\ running \in BOOLEAN /\ contended \in BOOLEAN
    /\ ToSet(listWs) \subseteq Nodes /\ IsInjective(listWs)
    /\ wsIter \in Clients \cup {NoClient}
    /\ handler \in [Clients -> Handlers]
    /\ alive \in SUBSET Clients /\ open \in SUBSET Clients
    /\ walk \in [Broadcasters -> Walks]
    /\ at \in [Broadcasters -> Nodes \cup {End}]
    /\ torn \in SUBSET Broadcasters
    /\ logins \in 0..MaxLogins /\ chats \in 0..MaxChats /\ broken \in Nat
    /\ made \in SUBSET Nodes
    /\ due \in [Broadcasters -> SUBSET Clients]
    /\ got \in [Broadcasters -> SUBSET Clients]

\* The clients have connected, and none has logged in.
Init ==
    /\ FeedInit
    /\ running = TRUE
    /\ listWs = <<>>
    /\ wsIter = NoClient
    /\ handler = [c \in Clients |-> "reading"]
    /\ alive = Clients /\ open = Clients
    /\ walk = [b \in Broadcasters |-> "none"]
    /\ at = [b \in Broadcasters |-> End]
    /\ torn = {}
    /\ logins = 0 /\ chats = 0
    /\ made = {} /\ broken = 0 /\ contended = FALSE
    /\ due = [b \in Broadcasters |-> {}]
    /\ got = [b \in Broadcasters |-> {}]

-----------------------------------------------------------------------------
(***************************************************************************)
(* The list.                                                               *)
(***************************************************************************)

Listed(list) == {n.client : n \in ToSet(list)}

\* Mutant: the first node goes, whosever it is.
ErasedFirst(list, c) == IF list = <<>> THEN list ELSE Tail(list)

\* handle_client_logout: the first node of the client.
Erased(list, c) ==
    LET i == SelectInSeq(list, LAMBDA n : n.client = c)
    IN  IF i = 0 THEN list ELSE RemoveAt(list, i)

\* The threads that have begun to change the list.
Changing ==
    {c \in Clients : handler[c] \in {"pushing", "erasing"}}
        \cup {b \in Broadcasters : walk[b] = "logout"}

\* A thread begins to change the list: whoever is at it, and itself, may be hurt.
BeginChange(b) == torn' = IF Changing = {} THEN torn ELSE torn \cup Changing \cup {b}

\* The change is done, or may be lost when another overlapped it.
EndChange(b, list) ==
    /\ torn' = torn \ {b}
    /\ \/ listWs' = list
       \/ b \in torn /\ UNCHANGED listWs
    /\ due' = [r \in Broadcasters |->
                 IF walk[r] \in {"point", "send"} THEN due[r] \cap Listed(listWs') ELSE {}]

\* Mutant: the iterator moves on twice.
AfterNext(n) ==
    LET i == SelectInSeq(listWs, LAMBDA m : m = n)
    IN  IF i + 1 < Len(listWs) THEN listWs[i + 2] ELSE End

\* ++iter at node n.
After(n) ==
    LET i == SelectInSeq(listWs, LAMBDA m : m = n)
    IN  IF i < Len(listWs) THEN listWs[i + 1] ELSE End

Begin == IF listWs = <<>> THEN End ELSE Head(listWs)

\* The node was freed under the iterator.
Freed(b) == at[b] # End /\ at[b] \notin ToSet(listWs)

-----------------------------------------------------------------------------
(***************************************************************************)
(* send_client_list.                                                       *)
(***************************************************************************)

StartWalk(b) ==
    /\ walk[b] = "none"
    /\ walk' = [walk EXCEPT ![b] = "point"]
    /\ at' = [at EXCEPT ![b] = Begin]
    /\ due' = [due EXCEPT ![b] = Listed(listWs)]
    /\ got' = [got EXCEPT ![b] = {}]

\* The node's pointer is copied to d_ptr->ws_iter.
Point(b) ==
    /\ walk[b] = "point" /\ at[b] # End
    /\ walk' = [walk EXCEPT ![b] = "send"]
    /\ wsIter' = at[b].client
    /\ contended' = (contended \/ Freed(b))
    /\ UNCHANGED <<feedVars, running, listWs, handler, alive, open, at, torn, logins, chats,
                   made, due, got, broken>>

\* A frame goes to a socket that is not closed: that the peer is not there shows
\* late.  From a freed node the iterator may go anywhere.
SendFrame(b) ==
    /\ walk[b] = "send"
    /\ at[b].client \in open
    /\ walk' = [walk EXCEPT ![b] = "point"]
    /\ got' = [got EXCEPT ![b] = @ \cup {at[b].client}]
    /\ \E n \in IF Freed(b) THEN ToSet(listWs) \cup {End} ELSE {After(at[b])} :
        at' = [at EXCEPT ![b] = n]
    /\ contended' = (contended \/ Freed(b))
    /\ UNCHANGED <<feedVars, running, listWs, wsIter, handler, alive, open, torn, logins, chats,
                   made, due, broken>>

\* sendFrame throws.
SendFails(b) ==
    /\ walk[b] = "send"
    /\ at[b].client \notin open \cap alive
    /\ walk' = [walk EXCEPT ![b] = "logout"]
    /\ broken' = IF b = Receiver THEN broken + 1 ELSE broken
    /\ BeginChange(b)
    /\ UNCHANGED <<feedVars, running, listWs, wsIter, handler, alive, open, at, logins, chats,
                   made, due, got, contended>>

\* Mutant: the broadcast is given up, and the client stays.
LoggedOutNone == listWs

\* handle_client_logout(d_ptr->ws_iter).
LoggedOut == Erased(listWs, wsIter)

StopWalk(b) ==
    /\ walk' = [walk EXCEPT ![b] = "none"]
    /\ at' = [at EXCEPT ![b] = End]
    /\ got' = [got EXCEPT ![b] = {}]

\* The exception handler: the client in ws_iter may be another broadcaster's.
LogoutIter(b) ==
    /\ walk[b] = "logout"
    /\ EndChange(b, LoggedOut)
    /\ contended' = (contended \/ b \in torn \/ wsIter # at[b].client)
    /\ StopWalk(b)
    /\ UNCHANGED <<feedVars, running, wsIter, handler, alive, open, logins, chats, made, broken>>

\* The walk has come to the end.
FinishWalk(b) ==
    /\ walk[b] = "point" /\ at[b] = End
    /\ StopWalk(b)
    /\ due' = [due EXCEPT ![b] = {}]
    /\ UNCHANGED <<feedVars, running, listWs, wsIter, handler, alive, open, torn, logins, chats,
                   made, broken, contended>>

-----------------------------------------------------------------------------
(***************************************************************************)
(* WebSocketRequestHandler and receive_message.                            *)
(***************************************************************************)

\* The client's handler waits for a frame.
Reading(c) == handler[c] = "reading" /\ walk[c] = "none"

HandlerTo(c, to) == handler' = [handler EXCEPT ![c] = to]

ReadLogin(c) ==
    /\ Reading(c) /\ c \in alive
    /\ logins + Cardinality({k \in Clients : handler[k] = "pushing"}) < MaxLogins
    /\ HandlerTo(c, "pushing")
    /\ BeginChange(c)
    /\ UNCHANGED <<feedVars, running, listWs, wsIter, alive, open, walk, at, logins, chats,
                   made, due, got, broken, contended>>

\* handle_client_login: list_ws.push_back, as often as the client logs in.
PushBack(c) ==
    LET node == [login |-> logins + 1, client |-> c]
    IN  /\ handler[c] = "pushing"
        /\ HandlerTo(c, "reading")
        /\ logins' = logins + 1
        /\ made' = made \cup {node}
        /\ EndChange(c, Append(listWs, node))
        /\ contended' = (contended \/ c \in torn)
        /\ UNCHANGED <<feedVars, running, wsIter, alive, open, walk, at, chats, got, broken>>

ReadChat(c) ==
    /\ Reading(c) /\ c \in alive
    /\ chats < MaxChats
    /\ chats' = chats + 1
    /\ StartWalk(c)
    /\ UNCHANGED <<feedVars, running, listWs, wsIter, handler, alive, open, torn, logins, made,
                   broken, contended>>

ReadClose(c) ==
    /\ Reading(c) /\ c \in alive
    /\ HandlerTo(c, "erasing")
    /\ BeginChange(c)
    /\ UNCHANGED <<feedVars, running, listWs, wsIter, alive, open, walk, at, logins, chats,
                   made, due, got, broken, contended>>

\* handle_client_logout(websocket).
Logout(c) ==
    /\ handler[c] = "erasing"
    /\ HandlerTo(c, "closing")
    /\ EndChange(c, Erased(listWs, c))
    /\ contended' = (contended \/ c \in torn)
    /\ UNCHANGED <<feedVars, running, wsIter, alive, open, walk, at, logins, chats, made, got,
                   broken>>

\* websocket->close(), and the end of the handler.
Close(c) ==
    /\ handler[c] = "closing"
    /\ HandlerTo(c, "ended")
    /\ open' = open \ {c} /\ alive' = alive \ {c}
    /\ UNCHANGED <<feedVars, running, listWs, wsIter, walk, at, torn, logins, chats,
                   made, due, got, broken, contended>>

\* Nothing will use the socket again but the handler.
Unused(c) == c \notin Listed(listWs) /\ \A b \in Broadcasters : at[b] = End \/ at[b].client # c

\* The handler ends in another way: the socket is closed with its last pointer, or
\* the list keeps it open.
Abandon(c) ==
    /\ Reading(c)
    /\ HandlerTo(c, "ended")
    /\ LET S == IF Unused(c) THEN {c} ELSE {} IN open' = open \ S /\ alive' = alive \ S
    /\ UNCHANGED <<feedVars, running, listWs, wsIter, walk, at, torn, logins,
                   chats, made, due, got, broken, contended>>

\* The client's end of the connection goes away.
PeerLeaves(c) ==
    /\ c \in alive
    /\ handler[c] # "ended" \/ ~Unused(c)
    /\ alive' = alive \ {c}
    /\ UNCHANGED <<feedVars, running, listWs, wsIter, handler, open, walk, at, torn, logins,
                   chats, made, due, got, broken, contended>>

\* onDeviceToWSDataUpdated, in paho's thread: the next message when the last is done.
ReceiveMessage ==
    /\ walk[Receiver] = "none"
    /\ Receive
    /\ StartWalk(Receiver)
    /\ UNCHANGED <<running, listWs, wsIter, handler, alive, open, torn, logins, chats, made,
                   broken, contended>>

\* b assigns ws_iter next.
Assigning(b) == walk[b] = "point" /\ at[b] # End

\* A race that may end the process: changes of the list that overlap, a walk at a
\* freed node, an assignment of ws_iter and another use of it.
Racing ==
    \/ torn # {}
    \/ \E b \in Broadcasters : walk[b] \in {"point", "send"} /\ Freed(b)
    \/ \E b, r \in Broadcasters :
        b # r /\ Assigning(b) /\ (Assigning(r) \/ walk[r] = "logout")

\* The process ends, with its connections; nothing starts it again.
Crash ==
    /\ Racing
    /\ running' = FALSE
    /\ receiving' = FALSE /\ queue' = <<>>
    /\ listWs' = <<>> /\ wsIter' = NoClient
    /\ handler' = [c \in Clients |-> "ended"]
    /\ open' = {} /\ alive' = {}
    /\ walk' = [b \in Broadcasters |-> "none"]
    /\ at' = [b \in Broadcasters |-> End]
    /\ torn' = {}
    /\ due' = [b \in Broadcasters |-> {}] /\ got' = [b \in Broadcasters |-> {}]
    /\ contended' = TRUE
    /\ UNCHANGED <<written, value, publishing, ended, before, received, logins, chats, made,
                   broken>>

Walk(b) == Point(b) \/ SendFrame(b) \/ SendFails(b) \/ LogoutIter(b) \/ FinishWalk(b)

Handle(c) ==
    \/ ReadLogin(c) \/ PushBack(c) \/ ReadChat(c) \/ ReadClose(c) \/ Logout(c) \/ Close(c)
    \/ Abandon(c) \/ PeerLeaves(c)

Next ==
    \/ /\ \/ FeedFault
          \/ \E t \in Threads : FeedThread(t)
       /\ UNCHANGED wsVars
    \/ /\ running
       /\ \/ ReceiveMessage \/ Crash
          \/ \E b \in Broadcasters : Walk(b)
          \/ \E c \in Clients : Handle(c)

Spec == Init /\ [][Next]_vars

-----------------------------------------------------------------------------
(***************************************************************************)
(* Properties; those of the feed hold here as well.  Before a race has had  *)
(* an effect:                                                              *)
(***************************************************************************)

\* A client that has logged in, whose peer is there and whose handler has read no
\* close frame is in the list: the broadcasts that fail log out nobody but the client
\* they failed at.
LiveClientsListed ==
    contended \/ \A n \in made :
        Reading(n.client) /\ n.client \in alive => n.client \in Listed(listWs)

\* A broadcast that comes to the end of the list has been sent to every client that
\* was in it all along, whoever else joined or left meanwhile.
CompletedReachesAll ==
    contended \/ \A b \in Broadcasters :
        walk[b] = "point" /\ at[b] = End => due[b] \subseteq got[b]

\* A client that goes without a close frame costs the others a message, as the
\* broadcast that fails at it is given up; but not more messages than its logins.
BrokenByDeadEntries ==
    contended \/ broken <= Cardinality({n \in made : n.client \notin alive \cap open})
=============================================================================
