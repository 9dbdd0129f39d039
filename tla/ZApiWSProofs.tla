------------------------------ MODULE ZApiWSProofs ------------------------------
(***************************************************************************)
(* The feed and the websocket broadcasts of zcloud-ws are safe, for any     *)
(* number of handler threads, clients and messages.                        *)
(***************************************************************************)
EXTENDS ZApiWS, TLAPS, FiniteSetTheorems, SequenceTheorems, WellFoundedInduction

-----------------------------------------------------------------------------
(***************************************************************************)
(* The feed.  What zcloud-ws has received and what is on its way to it form *)
(* one line, to which zcloud appends.                                      *)
(***************************************************************************)

Line == received \o queue

\* No value twice, and none after one that was written when it had been published.
Ordered(s, B) ==
    \A i, j \in 1..Len(s) : i < j => s[i] # s[j] /\ <<s[j], s[i]>> \notin B

\* A value is in one handler's hand from its write to its publication.
ValuesOK ==
    /\ \A t \in Threads : value[t] # NoMessage =>
         value[t] \in 1..written /\ value[t] \notin ended
    /\ \A t, r \in Threads : value[t] # NoMessage /\ value[t] = value[r] => t = r
    /\ ended \subseteq 1..written
    /\ \A m \in 1..written : m \in ended \/ \E t \in Threads : value[t] = m
    /\ \A a, b \in Messages : <<a, b>> \in before => a \in ended /\ b \in 1..written /\ a # b

LineOK ==
    /\ \A i \in 1..Len(Line) : Line[i] \in ended
    /\ Ordered(Line, before)
    /\ publishing /\ receiving => \A m \in ended : \E i \in 1..Len(Line) : Line[i] = m

FeedInv == FeedTypeOK /\ ValuesOK /\ LineOK

\* The line is a sequence: what is received, then what is queued.
LEMMA LineType ==
  ASSUME FeedTypeOK
  PROVE  /\ Line \in Seq(Messages) /\ Len(Line) = Len(received) + Len(queue)
         /\ Len(received) \in Nat /\ Len(queue) \in Nat
         /\ \A i \in 1..Len(Line) :
              Line[i] = IF i <= Len(received) THEN received[i] ELSE queue[i - Len(received)]
  BY ConcatProperties, LenProperties DEF FeedTypeOK, Line

\* A shorter line.
LEMMA Shortened ==
  ASSUME FeedInv, NEW q \in Seq(Messages), Len(q) <= Len(queue),
         \A i \in 1..Len(q) : q[i] = queue[i]
  PROVE  /\ \A i \in 1..Len(received \o q) : (received \o q)[i] \in ended
         /\ Ordered(received \o q, before)
  <1>. DEFINE l == received \o q
  <1>1. /\ Len(l) = Len(received) + Len(q) /\ Len(q) \in Nat
        /\ \A i \in 1..Len(l) :
              l[i] = IF i <= Len(received) THEN received[i] ELSE q[i - Len(received)]
    BY ConcatProperties, LenProperties DEF FeedInv, FeedTypeOK
  <1>2. /\ Len(Line) = Len(received) + Len(queue) /\ Len(received) \in Nat /\ Len(queue) \in Nat
        /\ \A i \in 1..Len(Line) :
              Line[i] = IF i <= Len(received) THEN received[i] ELSE queue[i - Len(received)]
    BY LineType DEF FeedInv
  <1>. HIDE DEF l
  <1>3. \A i \in 1..Len(l) : i \in 1..Len(Line) /\ l[i] = Line[i]
    <2>. SUFFICES ASSUME NEW i \in 1..Len(l) PROVE i \in 1..Len(Line) /\ l[i] = Line[i]
      OBVIOUS
    <2>1. CASE i <= Len(received)
      BY <1>1, <1>2, <2>1
    <2>2. CASE i > Len(received)
      <3>1. i - Len(received) \in 1..Len(q)
        BY <1>1, <1>2, <2>2
      <3>. QED
        BY <1>1, <1>2, <2>2, <3>1
    <2>. QED
      BY <1>1, <1>2, <2>1, <2>2
  <1>4. (\A i \in 1..Len(l) : l[i] \in ended) /\ Ordered(l, before)
    BY <1>1, <1>2, <1>3 DEF FeedInv, LineOK, Ordered
  <1>. QED
    BY <1>4 DEF l

\* The subscriber's connection, or its process, is gone.
Cut == /\ receiving' = FALSE /\ queue' = <<>>
       /\ UNCHANGED <<value, written, publishing, ended, before, received>>

\* A value that is written is no value of the line, nor in another hand.
LEMMA StoreFeed ==
  ASSUME FeedInv, NEW t \in Threads, Store(t)
  PROVE  FeedInv'
  <1>. DEFINE w == written + 1
  <1>1. /\ w \in Messages /\ written \in Nat /\ value[t] = NoMessage /\ w # NoMessage
        /\ value \in [Threads -> Messages \cup {NoMessage}]
    BY FeedAssumption DEF FeedInv, FeedTypeOK, Store, Messages
  <1>2. /\ value' = [value EXCEPT ![t] = w] /\ before' = before \cup (ended \X {w})
        /\ written' = w
        /\ UNCHANGED <<queue, publishing, receiving, ended, received>>
    BY DEF Store
  <1>3. FeedTypeOK'
    <2>1. before' \in SUBSET (Messages \X Messages)
      BY <1>1, <1>2 DEF FeedInv, FeedTypeOK
    <2>2. w \in 0..MaxMessages /\ value' \in [Threads -> Messages \cup {NoMessage}]
      BY <1>1, <1>2 DEF Messages
    <2>. QED
      BY <1>2, <2>1, <2>2 DEF FeedInv, FeedTypeOK
  <1>4. ValuesOK'
    <2>1. w \notin ended /\ \A n \in 1..written : n \in 1..w /\ n # w
      BY <1>1 DEF FeedInv, ValuesOK
    <2>2. \A n \in 1..w : n \in 1..written \/ n = w
      BY <1>1
    <2>3. \A r \in Threads : value'[r] = IF r = t THEN w ELSE value[r]
      BY <1>1, <1>2
    <2>4. \A a, b \in Messages :
            <<a, b>> \in before' => <<a, b>> \in before \/ (a \in ended /\ b = w)
      BY <1>2
    <2>5. \A n \in 1..w : n \in ended \/ \E r \in Threads : value'[r] = n
      <3>1. \A r \in Threads : value[r] # NoMessage => value'[r] = value[r]
        BY <1>1, <2>3
      <3>2. \A n \in 1..written : n # NoMessage
        BY <1>1, FeedAssumption
      <3>. QED
        BY <1>1, <2>2, <2>3, <3>1, <3>2 DEF FeedInv, ValuesOK
    <2>6. \A r \in Threads : value'[r] # NoMessage => value'[r] \in 1..w /\ value'[r] \notin ended
      BY <1>1, <2>1, <2>3 DEF FeedInv, ValuesOK
    <2>7. \A q, r \in Threads : value'[q] # NoMessage /\ value'[q] = value'[r] => q = r
      BY <1>1, <2>1, <2>3 DEF FeedInv, ValuesOK
    <2>8. \A a, b \in Messages : <<a, b>> \in before' => a \in ended /\ b \in 1..w /\ a # b
      BY <1>1, <2>1, <2>4 DEF FeedInv, ValuesOK
    <2>. QED
      BY <1>2, <2>1, <2>5, <2>6, <2>7, <2>8 DEF FeedInv, ValuesOK
  <1>5. \A i \in 1..Len(Line) : Line[i] # w
    BY <1>1 DEF FeedInv, ValuesOK, LineOK
  <1>6. LineOK'
    BY <1>2, <1>5 DEF FeedInv, LineOK, Ordered, Line
  <1>. QED
    BY <1>3, <1>4, <1>6 DEF FeedInv

\* A value that is published comes to the end of the line: whatever was written after
\* its publication is not in the line yet.
LEMMA PublishFeed ==
  ASSUME FeedInv, NEW t \in Threads, Publish(t)
  PROVE  FeedInv'
  <1>. DEFINE m == value[t]
  <1>1. /\ m \in Messages /\ m # NoMessage /\ m \notin ended /\ m \in 1..written
        /\ value \in [Threads -> Messages \cup {NoMessage}] /\ ended \subseteq Messages
    BY DEF FeedInv, FeedTypeOK, ValuesOK, Publish
  <1>2. /\ value' = [value EXCEPT ![t] = NoMessage] /\ ended' = ended \cup {m}
        /\ UNCHANGED <<written, publishing, receiving, before, received>>
        /\ queue' = IF publishing /\ receiving THEN Append(queue, m) ELSE queue
    BY DEF Publish, Sent
  <1>3. ValuesOK'
    BY <1>1, <1>2 DEF FeedInv, ValuesOK
  <1>4. CASE ~(publishing /\ receiving)
    BY <1>1, <1>2, <1>3, <1>4 DEF FeedInv, FeedTypeOK, LineOK, Ordered, Line
  <1>5. CASE publishing /\ receiving
    <2>1. /\ Append(queue, m) \in Seq(Messages) /\ Append(queue, m) = queue \o <<m>>
          /\ <<m>> \in Seq(Messages)
      BY <1>1, AppendProperties, AppendIsConcat DEF FeedInv, FeedTypeOK
    <2>2. FeedTypeOK'
      BY <1>1, <1>2, <1>5, <2>1 DEF FeedInv, FeedTypeOK
    <2>3. Line' = Append(Line, m)
      <3>1. Line' = received \o (queue \o <<m>>) /\ Line \in Seq(Messages)
        BY <1>2, <1>5, <2>1, LineType DEF Line, FeedInv
      <3>2. Line' = Line \o <<m>>
        BY <2>1, <3>1, ConcatAssociative DEF Line, FeedInv, FeedTypeOK
      <3>. QED
        BY <1>1, <3>1, <3>2, AppendIsConcat
    <2>4. /\ Line \in Seq(Messages) /\ Len(Line) \in Nat /\ Len(Line') = Len(Line) + 1
          /\ \A i \in 1..Len(Line) : Line'[i] = Line[i]
          /\ Line'[Len(Line) + 1] = m
      BY <1>1, <2>3, LineType, AppendProperties, LenProperties DEF FeedInv
    <2>5. \A i \in 1..Len(Line') : i \in 1..Len(Line) \/ i = Len(Line) + 1
      BY <2>4
    <2>6. \A i \in 1..Len(Line) :
            Line[i] \in ended /\ Line[i] \in Messages /\ <<m, Line[i]>> \notin before
      BY <1>1 DEF FeedInv, LineOK, ValuesOK
    <2>7. (\A i \in 1..Len(Line') : Line'[i] \in ended') /\ Ordered(Line', before')
      <3>1. \A i \in 1..Len(Line') : Line'[i] \in ended'
        BY <1>2, <2>4, <2>5, <2>6
      <3>2. ASSUME NEW i \in 1..Len(Line'), NEW j \in 1..Len(Line'), i < j
            PROVE  Line'[i] # Line'[j] /\ <<Line'[j], Line'[i]>> \notin before
        <4>1. i \in 1..Len(Line) /\ (j \in 1..Len(Line) \/ j = Len(Line) + 1)
          BY <2>4, <3>2
        <4>. QED
          BY <1>1, <2>4, <2>6, <3>2, <4>1 DEF FeedInv, LineOK, Ordered
      <3>. QED
        BY <1>2, <3>1, <3>2 DEF Ordered
    <2>8. \A k \in ended' : \E i \in 1..Len(Line') : Line'[i] = k
      BY <1>2, <1>5, <2>4 DEF FeedInv, LineOK
    <2>. QED
      BY <1>3, <2>2, <2>7, <2>8 DEF FeedInv, LineOK
  <1>. QED
    BY <1>4, <1>5

\* A connection is lost, with the last messages of the line.
LEMMA LostFeed ==
  ASSUME FeedInv, LosePublisher \/ Cut
  PROVE  FeedInv'
  <1>1. PICK q \in Seq(Messages) :
          /\ queue' = q /\ Len(q) <= Len(queue) /\ \A i \in 1..Len(q) : q[i] = queue[i]
    <2>1. CASE Cut
      <3>1. <<>> \in Seq(Messages) /\ Len(<<>>) = 0 /\ Len(queue) \in Nat
        BY EmptySeq, LenProperties DEF FeedInv, FeedTypeOK
      <3>2. /\ queue' = <<>> /\ Len(<<>>) <= Len(queue)
            /\ \A i \in 1..Len(<<>>) : (<<>>)[i] = queue[i]
        BY <2>1, <3>1 DEF Cut
      <3>. QED
        BY <3>1, <3>2, Zenon
    <2>2. CASE LosePublisher
      <3>1. PICK n \in 0..Len(queue) : queue' = SubSeq(queue, 1, n)
        BY <2>2 DEF LosePublisher
      <3>2. /\ SubSeq(queue, 1, n) \in Seq(Messages) /\ Len(SubSeq(queue, 1, n)) = n
            /\ \A i \in 1..n : SubSeq(queue, 1, n)[i] = queue[i]
        BY SubSeqProperties, LenProperties DEF FeedInv, FeedTypeOK
      <3>. QED
        BY <3>1, <3>2
    <2>. QED
      BY <2>1, <2>2
  <1>2. /\ UNCHANGED <<value, written, ended, before, received>> /\ ~(publishing' /\ receiving')
        /\ publishing' \in BOOLEAN /\ receiving' \in BOOLEAN
    BY DEF LosePublisher, Cut, FeedInv, FeedTypeOK
  <1>3. (\A i \in 1..Len(Line') : Line'[i] \in ended) /\ Ordered(Line', before)
    BY <1>1, <1>2, Shortened DEF Line
  <1>. QED
    BY <1>1, <1>2, <1>3 DEF FeedInv, FeedTypeOK, ValuesOK, LineOK

\* A receipt moves the head of the queue, and leaves the line as it is.
LEMMA ReceiveFeed ==
  ASSUME FeedInv, Receive
  PROVE  FeedInv'
  <1>. DEFINE m == Head(queue)
  <1>1. /\ queue \in Seq(Messages) /\ queue # <<>> /\ received \in Seq(Messages)
        /\ received' = Append(received, m) /\ queue' = Tail(queue)
        /\ UNCHANGED <<value, written, publishing, receiving, ended, before>>
    BY DEF Receive, FeedInv, FeedTypeOK
  <1>2. /\ m \in Messages /\ Tail(queue) \in Seq(Messages) /\ queue = <<m>> \o Tail(queue)
        /\ <<m>> \in Seq(Messages)
    <2>1. m \in Messages /\ Tail(queue) \in Seq(Messages)
      BY <1>1, HeadTailProperties
    <2>2. <<m>> \in Seq(Messages) /\ Len(<<m>>) = 1 /\ <<m>>[1] = m
      BY <2>1
    <2>3. /\ <<m>> \o Tail(queue) \in Seq(Messages) /\ Len(<<m>> \o Tail(queue)) = Len(queue)
          /\ \A i \in 1..Len(queue) : queue[i] = (<<m>> \o Tail(queue))[i]
      BY <1>1, <2>1, <2>2, HeadTailProperties, ConcatProperties, LenProperties
    <2>4. queue = <<m>> \o Tail(queue)
      BY <1>1, <2>3, SeqEqual
    <2>. QED
      BY <2>1, <2>2, <2>4
  <1>3. Append(received, m) \in Seq(Messages) /\ Append(received, m) = received \o <<m>>
    BY <1>1, <1>2, AppendProperties, AppendIsConcat
  <1>4. Line' = Line
    BY <1>1, <1>2, <1>3, ConcatAssociative DEF Line
  <1>5. FeedTypeOK'
    BY <1>1, <1>2, <1>3 DEF FeedInv, FeedTypeOK
  <1>. QED
    BY <1>1, <1>4, <1>5 DEF FeedInv, ValuesOK, LineOK, Ordered

\* The feed begins empty.
LEMMA FeedStart == FeedInit => FeedInv
  <1>. SUFFICES ASSUME FeedInit PROVE FeedInv
    OBVIOUS
  <1>1. FeedTypeOK
    BY FeedAssumption, EmptySeq DEF FeedInit, FeedTypeOK
  <1>2. Len(Line) = 0
    BY <1>1, LineType, EmptySeq DEF FeedInit
  <1>3. ValuesOK
    BY DEF FeedInit, ValuesOK
  <1>. QED
    BY <1>1, <1>2, <1>3 DEF FeedInv, LineOK, Ordered, FeedInit

\* Every step of zcloud-ws is one of these for the feed.
LEMMA FeedSteps ==
  ASSUME [Next]_vars
  PROVE  \/ UNCHANGED feedVars \/ Receive \/ Cut \/ LosePublisher
         \/ \E t \in Threads : Store(t) \/ Publish(t)
  BY DEF Next, vars, feedVars, FeedFault, LoseSubscriber, FeedThread, Cut, ReceiveMessage,
         Crash, Walk, Point, SendFrame, SendFails, LogoutIter, FinishWalk, Handle, ReadLogin,
         PushBack, ReadChat, ReadClose, Logout, Close, Abandon, PeerLeaves

\* Every step keeps the line in order.
LEMMA FeedStep ==
  ASSUME FeedInv, [Next]_vars
  PROVE  FeedInv'
  <1>1. CASE UNCHANGED feedVars
    <2>1. Line' = Line /\ UNCHANGED feedVars
      BY <1>1 DEF feedVars, Line
    <2>2. FeedTypeOK'
      BY <2>1 DEF feedVars, FeedInv, FeedTypeOK
    <2>3. ValuesOK'
      BY <2>1 DEF feedVars, FeedInv, ValuesOK
    <2>4. LineOK'
      BY <2>1 DEF feedVars, FeedInv, LineOK, Ordered
    <2>. QED
      BY <2>2, <2>3, <2>4 DEF FeedInv
  <1>. QED
    BY <1>1, FeedSteps, StoreFeed, PublishFeed, LostFeed, ReceiveFeed

\* zcloud-ws receives no value twice, and never a value after one that was written when
\* the first had been published, whatever threads publish and whenever connections break.
THEOREM FeedInOrder == Spec => []ReceivedInOrder
  <1>1. ASSUME FeedInv PROVE ReceivedInOrder
    <2>1. /\ Len(received) \in Nat /\ DOMAIN received = 1..Len(received)
          /\ \A i \in 1..Len(received) : i \in 1..Len(Line) /\ Line[i] = received[i]
      BY <1>1, LineType, LenProperties DEF FeedInv, FeedTypeOK
    <2>2. \A i, j \in 1..Len(received) :
            i < j => received[i] # received[j] /\ <<received[j], received[i]>> \notin before
      BY <1>1, <2>1 DEF FeedInv, LineOK, Ordered
    <2>3. ASSUME NEW i \in 1..Len(received), NEW j \in 1..Len(received), received[i] = received[j]
          PROVE  i = j
      <3>1. ~(i < j) /\ ~(j < i)
        BY <2>2, <2>3
      <3>. QED
        BY <2>1, <3>1
    <2>. QED
      BY <2>1, <2>2, <2>3 DEF ReceivedInOrder, IsInjective
  <1>2. Init => FeedInv
    BY FeedStart DEF Init
  <1>. QED
    BY <1>1, <1>2, FeedStep, PTL DEF Spec

\* When all is quiet and no connection was lost, zcloud-ws has every value, and the last it
\* received is the last in the log unless the handlers of the two overlapped.
THEOREM FeedFresh == Spec => []StaleOnlyIfOverlapped
  <1>1. ASSUME FeedInv PROVE StaleOnlyIfOverlapped
    <2>1. SUFFICES ASSUME Quiet, publishing, receiving, written > 0
                   PROVE  /\ ToSet(received) = 1..written
                          /\ <<Last(received), written>> \notin before
      BY DEF StaleOnlyIfOverlapped
    <2>2. ended = 1..written
      <3>1. \A m \in 1..written : m # NoMessage
        BY <1>1, FeedAssumption DEF FeedInv, FeedTypeOK
      <3>. QED
        BY <1>1, <2>1, <3>1 DEF FeedInv, ValuesOK, Quiet
    <2>3. Len(queue) = 0
      BY <2>1, EmptySeq DEF Quiet
    <2>4. /\ Len(Line) = Len(received) /\ Len(received) \in Nat
          /\ DOMAIN received = 1..Len(received)
          /\ \A i \in 1..Len(received) : Line[i] = received[i]
      BY <1>1, <2>3, LineType, LenProperties DEF FeedInv, FeedTypeOK
    <2>5. ToSet(received) = 1..written
      BY <1>1, <2>1, <2>2, <2>4 DEF FeedInv, LineOK, ToSet
    <2>6. written \in Messages /\ written \in 1..written
      BY <1>1, <2>1 DEF FeedInv, FeedTypeOK, Messages
    <2>7. PICK i \in 1..Len(received) : received[i] = written
      BY <2>4, <2>5, <2>6 DEF ToSet
    <2>8. i = Len(received) => <<Last(received), written>> \notin before
      BY <1>1, <2>6, <2>7 DEF FeedInv, ValuesOK, Last
    <2>9. i < Len(received) => <<Last(received), written>> \notin before
      BY <1>1, <2>4, <2>7 DEF FeedInv, LineOK, Ordered, Last
    <2>. QED
      BY <2>4, <2>5, <2>7, <2>8, <2>9
  <1>2. Init => FeedInv
    BY FeedStart DEF Init
  <1>. QED
    BY <1>1, <1>2, FeedStep, PTL DEF Spec

-----------------------------------------------------------------------------
(***************************************************************************)
(* The list.                                                               *)
(***************************************************************************)

\* Nodes are appended in the order of the logins.
Sorted(s) == \A i, j \in 1..Len(s) : i < j => s[i].login < s[j].login

\* The smallest number of a set of numbers is one of them.
LEMMA MinOfNat ==
  ASSUME NEW I \in SUBSET Nat, I # {}
  PROVE  Min(I) \in I /\ \A i \in I : Min(I) <= i
  <1>. DEFINE R == {p \in Nat \X Nat : p[1] < p[2]}
  <1>1. IsWellFoundedOn(R, Nat)
    <2>1. R = OpToRel(<, Nat)
      BY Zenon DEF OpToRel
    <2>. QED
      BY <2>1, NatLessThanWellFounded, Zenon
  <1>2. \A i, j \in Nat : i < j => <<i, j>> \in R
    OBVIOUS
  <1>. HIDE DEF R
  <1>3. PICK m \in I : \A i \in I : ~ (<<i, m>> \in R)
    BY <1>1, WFMin
  <1>4. ASSUME NEW i \in I PROVE m <= i
    <2>1. i \in Nat /\ m \in Nat /\ ~(i < m)
      BY <1>2, <1>3
    <2>. QED
      BY <2>1
  <1>. QED
    BY <1>4 DEF Min

\* The elements of a sequence.
LEMMA SetOfSeq ==
  ASSUME NEW s \in Seq(Nodes)
  PROVE  /\ Len(s) \in Nat /\ ToSet(s) = {s[i] : i \in 1..Len(s)}
         /\ \A i \in 1..Len(s) : s[i] \in Nodes /\ s[i] \in ToSet(s)
         /\ ToSet(s) \subseteq Nodes
  BY LenProperties DEF ToSet

\* push_back of a node with a later number.
LEMMA Appended ==
  ASSUME NEW s \in Seq(Nodes), Sorted(s), NEW n \in Nodes, \A m \in ToSet(s) : m.login < n.login
  PROVE  /\ Append(s, n) \in Seq(Nodes) /\ Sorted(Append(s, n))
         /\ ToSet(Append(s, n)) = ToSet(s) \cup {n}
  <1>. DEFINE r == Append(s, n)
  <1>1. /\ Len(s) \in Nat /\ r \in Seq(Nodes) /\ Len(r) = Len(s) + 1 /\ r[Len(s) + 1] = n
        /\ \A i \in 1..Len(s) : r[i] = s[i]
    BY AppendProperties, LenProperties
  <1>. HIDE DEF r
  <1>2. \A i \in 1..Len(r) : i \in 1..Len(s) \/ i = Len(s) + 1
    BY <1>1
  <1>3. Sorted(r)
    <2>. SUFFICES ASSUME NEW i \in 1..Len(r),
         NEW j \in 1..Len(r), i < j PROVE r[i].login < r[j].login
      BY DEF Sorted
    <2>1. i \in 1..Len(s) /\ r[i] = s[i] /\ s[i] \in ToSet(s)
      BY <1>1, SetOfSeq
    <2>. QED
      BY <1>1, <1>2, <2>1 DEF Sorted
  <1>4. ToSet(r) = ToSet(s) \cup {n}
    BY <1>1, <1>2, SetOfSeq
  <1>. QED
    BY <1>1, <1>3, <1>4 DEF r

\* erase of the node at k.
LEMMA Removed ==
  ASSUME NEW s \in Seq(Nodes), Sorted(s), NEW k \in 1..Len(s)
  PROVE  /\ RemoveAt(s, k) \in Seq(Nodes) /\ Sorted(RemoveAt(s, k))
         /\ ToSet(RemoveAt(s, k)) = ToSet(s) \ {s[k]}
  <1>. DEFINE a == SubSeq(s, 1, k - 1)
              b == SubSeq(s, k + 1, Len(s))
              r == RemoveAt(s, k)
  <1>1. Len(s) \in Nat /\ k \in Nat /\ k <= Len(s) /\ \A i \in 1..Len(s) : s[i] \in Nodes
    BY SetOfSeq
  <1>2. a \in Seq(Nodes) /\ Len(a) = k - 1 /\ \A i \in 1..(k - 1) : a[i] = s[i]
    BY <1>1, SubSeqProperties
  <1>3. b \in Seq(Nodes) /\ Len(b) = Len(s) - k /\ \A i \in 1..(Len(s) - k) : b[i] = s[i + k]
    BY <1>1, SubSeqProperties
  <1>4. /\ r \in Seq(Nodes) /\ Len(r) = Len(s) - 1
        /\ \A i \in 1..(Len(s) - 1) : r[i] = IF i < k THEN s[i] ELSE s[i + 1]
    <2>1. r = a \o b
      BY DEF RemoveAt
    <2>. HIDE DEF a, b, r
    <2>2. /\ r \in Seq(Nodes) /\ Len(r) = Len(s) - 1
          /\ \A i \in 1..(Len(s) - 1) : r[i] = IF i <= k - 1 THEN a[i] ELSE b[i - (k - 1)]
      BY <1>1, <1>2, <1>3, <2>1, ConcatProperties
    <2>3. ASSUME NEW i \in 1..(Len(s) - 1) PROVE r[i] = IF i < k THEN s[i] ELSE s[i + 1]
      <3>1. i < k => i <= k - 1 /\ i \in 1..(k - 1)
        BY <1>1
      <3>2. ~(i < k) =>
              ~(i <= k - 1) /\ i - (k - 1) \in 1..(Len(s) - k) /\ (i - (k - 1)) + k = i + 1
        BY <1>1
      <3>. QED
        BY <1>2, <1>3, <2>2, <3>1, <3>2
    <2>. QED
      BY <2>2, <2>3
  <1>. HIDE DEF r
  <1>5. Sorted(r)
    BY <1>1, <1>4 DEF Sorted
  <1>6. \A i \in 1..Len(s) : i # k => s[i] # s[k]
    <2>1. \A i, j \in 1..Len(s) : i < j => s[i] # s[j]
      BY <1>1 DEF Sorted, Nodes
    <2>. QED
      BY <2>1
  <1>7. \A i \in 1..Len(r) : \E j \in 1..Len(s) : j # k /\ r[i] = s[j]
    BY <1>1, <1>4
  <1>8. \A j \in 1..Len(s) : j # k => \E i \in 1..Len(r) : r[i] = s[j]
    <2>. SUFFICES ASSUME NEW j \in 1..Len(s), j # k PROVE \E i \in 1..Len(r) : r[i] = s[j]
      OBVIOUS
    <2>1. CASE j < k
      BY <1>1, <1>4, <2>1
    <2>2. CASE j > k
      <3>1. j - 1 \in 1..Len(r) /\ r[j - 1] = s[j]
        BY <1>1, <1>4, <2>2
      <3>. QED
        BY <3>1
    <2>. QED
      BY <2>1, <2>2
  <1>9. ToSet(r) = ToSet(s) \ {s[k]}
    <2>1. ToSet(r) = {r[i] : i \in 1..Len(r)} /\ ToSet(s) = {s[i] : i \in 1..Len(s)}
      BY <1>4, SetOfSeq
    <2>2. \A n : n \in ToSet(r) => n \in ToSet(s) \ {s[k]}
      BY <1>6, <1>7, <2>1
    <2>3. \A n : n \in ToSet(s) \ {s[k]} => n \in ToSet(r)
      BY <1>8, <2>1
    <2>. QED
      BY <2>2, <2>3
  <1>. QED
    BY <1>4, <1>5, <1>9 DEF r

\* handle_client_logout: a node of c goes, unless there is none.
LEMMA ErasedOne ==
  ASSUME NEW s \in Seq(Nodes), Sorted(s), NEW c
  PROVE  /\ Erased(s, c) \in Seq(Nodes) /\ Sorted(Erased(s, c))
         /\ \/ Erased(s, c) = s /\ \A n \in ToSet(s) : n.client # c
            \/ \E n \in ToSet(s) : n.client = c /\ ToSet(Erased(s, c)) = ToSet(s) \ {n}
  <1>. DEFINE I == {i \in 1..Len(s) : s[i].client = c}
              k == SelectInSeq(s, LAMBDA n : n.client = c)
  <1>1. Erased(s, c) = IF k = 0 THEN s ELSE RemoveAt(s, k)
    BY DEF Erased
  <1>2. k = IF I # {} THEN Min(I) ELSE 0
    BY DEF SelectInSeq
  <1>3. Len(s) \in Nat /\ ToSet(s) = {s[i] : i \in 1..Len(s)}
    BY SetOfSeq
  <1>. HIDE DEF I, k
  <1>4. CASE I = {}
    BY <1>1, <1>2, <1>3, <1>4 DEF I
  <1>5. CASE I # {}
    <2>1. I \in SUBSET Nat
      BY DEF I
    <2>2. k \in I
      BY <1>2, <1>5, <2>1, MinOfNat
    <2>3. k \in 1..Len(s) /\ k # 0 /\ s[k].client = c /\ s[k] \in ToSet(s)
      BY <1>3, <2>2 DEF I
    <2>. QED
      BY <1>1, <2>3, Removed
  <1>. QED
    BY <1>4, <1>5

\* ++iter: the nodes before the next one are those up to n.
LEMMA NextNode ==
  ASSUME listWs \in Seq(Nodes), Sorted(listWs), NEW n \in ToSet(listWs)
  PROVE  \/ After(n) = End /\ \A m \in ToSet(listWs) : m.login < n.login \/ m = n
         \/ /\ After(n) \in ToSet(listWs)
            /\ \A m \in ToSet(listWs) : m.login < After(n).login => m.login < n.login \/ m = n
  <1>. DEFINE s == listWs
              I == {i \in 1..Len(s) : s[i] = n}
              k == SelectInSeq(s, LAMBDA m : m = n)
  <1>1. After(n) = IF k < Len(s) THEN s[k + 1] ELSE End
    BY DEF After
  <1>2. k = IF I # {} THEN Min(I) ELSE 0
    BY DEF SelectInSeq
  <1>3. /\ Len(s) \in Nat /\ ToSet(s) = {s[i] : i \in 1..Len(s)}
        /\ \A i \in 1..Len(s) : s[i].login \in Int
    <2>1. \A m \in Nodes : m.login \in Int
      BY ClientAssumption DEF Nodes
    <2>. QED
      BY <2>1, SetOfSeq
  <1>. HIDE DEF I, k
  <1>4. k \in 1..Len(s) /\ s[k] = n
    <2>1. I \in SUBSET Nat /\ I # {}
      BY <1>3 DEF I
    <2>. QED
      BY <1>2, <2>1, MinOfNat DEF I
  <1>5. \A i \in 1..Len(s) : i < k => s[i].login < n.login
    BY <1>4 DEF Sorted
  <1>6. CASE k < Len(s)
    <2>1. k + 1 \in 1..Len(s) /\ After(n) = s[k + 1]
      BY <1>1, <1>3, <1>4, <1>6
    <2>2. \A i \in 1..Len(s) : i > k => ~(s[i].login < s[k + 1].login)
      <3>. SUFFICES ASSUME NEW i \in 1..Len(s), i > k + 1 PROVE ~(s[i].login < s[k + 1].login)
        BY <1>3, <1>4, <2>1
      <3>. QED
        BY <1>3, <2>1 DEF Sorted
    <2>3. \A i \in 1..Len(s) : i < k \/ i = k \/ i > k
      BY <1>4
    <2>. QED
      BY <1>3, <1>4, <1>5, <2>1, <2>2, <2>3
  <1>7. CASE ~(k < Len(s))
    <2>1. \A i \in 1..Len(s) : i < k \/ i = k
      BY <1>3, <1>4, <1>7
    <2>. QED
      BY <1>1, <1>3, <1>4, <1>5, <1>7, <2>1
  <1>. QED
    BY <1>6, <1>7

-----------------------------------------------------------------------------
(***************************************************************************)
(* Types, and what the nodes of the list and the iterators are.            *)
(***************************************************************************)

ListOK ==
    /\ listWs \in Seq(Nodes) /\ Sorted(listWs) /\ ToSet(listWs) \subseteq made
    /\ made \subseteq Nodes /\ IsFiniteSet(made)
    /\ \A n \in made : n.login <= logins

Pushing == {c \in Clients : handler[c] = "pushing"}

LoginsOK == logins \in Nat /\ logins + Cardinality(Pushing) <= MaxLogins

ThreadsOK ==
    /\ running \in BOOLEAN /\ contended \in BOOLEAN
    /\ wsIter \in Clients \cup {NoClient}
    /\ handler \in [Clients -> Handlers]
    /\ open \subseteq Clients /\ alive \subseteq open
    /\ walk \in [Broadcasters -> Walks]
    /\ at \in [Broadcasters -> made \cup {End}]
    /\ \A b \in Broadcasters : walk[b] \in {"send", "logout"} => at[b] \in made
    /\ torn \subseteq Broadcasters
    /\ chats \in 0..MaxChats /\ broken \in Nat
    /\ due \in [Broadcasters -> SUBSET Clients]
    /\ got \in [Broadcasters -> SUBSET Clients]

TypeInv == FeedTypeOK /\ ListOK /\ LoginsOK /\ ThreadsOK

\* A step of the websocket side.
Served ==
    \/ ReceiveMessage \/ Crash
    \/ \E b \in Broadcasters : Walk(b)
    \/ \E c \in Clients : Handle(c)

\* A step is one of the websocket side, or one of the feed alone.
LEMMA ServedOrNot ==
  ASSUME [Next]_vars
  PROVE  UNCHANGED wsVars \/ Served
  BY DEF Next, vars, Served

\* Only logins and logouts, and the end of the process, change the list.
LEMMA ListSteps ==
  ASSUME Served
  PROVE  \/ UNCHANGED <<listWs, made, logins>>
         \/ \E c \in Clients : PushBack(c)
         \/ \E b \in Broadcasters : LogoutIter(b)
         \/ \E c \in Clients : Logout(c)
         \/ Crash
  BY DEF Served, ReceiveMessage, Walk, Point, SendFrame, SendFails, FinishWalk, Handle,
         ReadLogin, ReadChat, ReadClose, Close, Abandon, PeerLeaves

\* A logout takes a node of its client out, unless there is none or a race undoes it.
Loses(c) ==
    /\ UNCHANGED <<made, logins>>
    /\ listWs' \in Seq(Nodes) /\ Sorted(listWs')
    /\ \/ contended' /\ listWs' = listWs
       \/ listWs' = listWs /\ \A n \in ToSet(listWs) : n.client # c
       \/ \E n \in ToSet(listWs) : n.client = c /\ ToSet(listWs') = ToSet(listWs) \ {n}

\* The exception handler takes out a node of the client in ws_iter.
LEMMA LogoutLoses ==
  ASSUME ListOK, NEW b \in Broadcasters, LogoutIter(b)
  PROVE  Loses(wsIter)
  <1>1. listWs' = Erased(listWs, wsIter) \/ (listWs' = listWs /\ contended')
    BY DEF LogoutIter, EndChange, LoggedOut
  <1>. QED
    BY <1>1, ErasedOne DEF ListOK, Loses, LogoutIter

\* A close frame takes out a node of its own client.
LEMMA CloseLoses ==
  ASSUME ListOK, NEW c \in Clients, Logout(c)
  PROVE  Loses(c)
  <1>1. listWs' = Erased(listWs, c) \/ (listWs' = listWs /\ contended')
    BY DEF Logout, EndChange
  <1>. QED
    BY <1>1, ErasedOne DEF ListOK, Loses, Logout

\* A login puts a node at the end of the list, unless a race undoes it.
Gains(c) ==
    LET n == [login |-> logins + 1, client |-> c]
    IN  /\ n \in Nodes /\ n \notin made
        /\ made' = made \cup {n} /\ logins' = logins + 1
        /\ listWs' \in Seq(Nodes) /\ Sorted(listWs')
        /\ \/ contended' /\ listWs' = listWs
           \/ ToSet(listWs') = ToSet(listWs) \cup {n}

\* The handlers that push are finitely many.
LEMMA PushingCount ==
  /\ IsFiniteSet(Pushing) /\ Cardinality(Pushing) \in Nat
  /\ \A c \in Pushing : Cardinality(Pushing) > 0
  <1>1. Pushing \subseteq Clients
    BY DEF Pushing
  <1>2. IsFiniteSet(Pushing)
    BY <1>1, FS_Subset, ClientAssumption
  <1>. QED
    BY <1>2, FS_CardinalityType, FS_EmptySet

\* A login makes a node that no login made before, within the bound on logins.
LEMMA LoginGains ==
  ASSUME ListOK, LoginsOK, NEW c \in Clients, PushBack(c)
  PROVE  Gains(c)
  <1>. DEFINE n == [login |-> logins + 1, client |-> c]
  <1>1. logins + 1 \in 1..MaxLogins
    <2>1. Cardinality(Pushing) > 0 /\ Cardinality(Pushing) \in Nat
      BY PushingCount DEF PushBack, Pushing
    <2>. QED
      BY <2>1, ClientAssumption DEF LoginsOK
  <1>2. n \in Nodes /\ n.login = logins + 1
    BY <1>1 DEF Nodes
  <1>3. \A m \in made : m.login \in Int /\ m.login < n.login
    <2>1. \A m \in Nodes : m.login \in Int
      BY ClientAssumption DEF Nodes
    <2>. QED
      BY <1>2, <2>1 DEF ListOK, LoginsOK
  <1>4. n \notin made
    BY <1>2, <1>3
  <1>5. /\ made' = made \cup {n} /\ logins' = logins + 1
        /\ listWs' = Append(listWs, n) \/ (listWs' = listWs /\ contended')
    BY DEF PushBack, EndChange
  <1>6. \A m \in ToSet(listWs) : m.login < n.login
    BY <1>3 DEF ListOK
  <1>. HIDE DEF n
  <1>7. /\ Append(listWs, n) \in Seq(Nodes) /\ Sorted(Append(listWs, n))
        /\ ToSet(Append(listWs, n)) = ToSet(listWs) \cup {n}
    BY <1>2, <1>6, Appended DEF ListOK
  <1>8. /\ listWs' \in Seq(Nodes) /\ Sorted(listWs')
        /\ (contended' /\ listWs' = listWs) \/ ToSet(listWs') = ToSet(listWs) \cup {n}
    BY <1>5, <1>7 DEF ListOK
  <1>. QED
    BY <1>2, <1>4, <1>5, <1>8 DEF Gains, n

\* The empty list is sorted.
LEMMA EmptyList ==
  <<>> \in Seq(Nodes) /\ Sorted(<<>>) /\ ToSet(<<>>) = {}
  <1>1. <<>> \in Seq(Nodes) /\ Len(<<>>) = 0
    BY EmptySeq
  <1>2. ToSet(<<>>) = {(<<>>)[i] : i \in 1..0}
    BY <1>1, SetOfSeq
  <1>3. ToSet(<<>>) = {}
    BY <1>2
  <1>. QED
    BY <1>1, <1>3 DEF Sorted

\* The list stays in the order of the logins.
LEMMA ListStep ==
  ASSUME TypeInv, Served
  PROVE  ListOK'
  <1>. USE DEF TypeInv, ListOK
  <1>1. CASE UNCHANGED <<listWs, made, logins>>
    BY <1>1
  <1>2. ASSUME NEW c \in Clients, PushBack(c) PROVE ListOK'
    <2>. DEFINE n == [login |-> logins + 1, client |-> c]
    <2>1. /\ Gains(c) /\ n \in Nodes /\ n.login = logins + 1 /\ made' = made \cup {n}
          /\ logins \in Nat /\ \A m \in made : m.login \in Int
      <3>1. \A m \in Nodes : m.login \in Int
        BY ClientAssumption DEF Nodes
      <3>. QED
        BY <1>2, <3>1, LoginGains DEF Gains, LoginsOK
    <2>2. IsFiniteSet(made \cup {n})
      BY FS_AddElement
    <2>. QED
      BY <2>1, <2>2 DEF Gains
  <1>3. ASSUME NEW c, Loses(c) PROVE ListOK'
    BY <1>3 DEF Loses
  <1>4. CASE Crash
    BY <1>4, EmptyList DEF Crash
  <1>. QED
    BY <1>1, <1>2, <1>3, <1>4, ListSteps, LogoutLoses, CloseLoses

\* Logins, and the handlers about to log in, stay within the bound.
LEMMA LoginsStep ==
  ASSUME TypeInv, Served
  PROVE  LoginsOK'
  <1>1. handler \in [Clients -> Handlers] /\ logins \in Nat /\ MaxLogins \in Nat
    BY ClientAssumption DEF TypeInv, ThreadsOK, LoginsOK
  <1>2. IsFiniteSet(Pushing) /\ Cardinality(Pushing) \in Nat
    BY PushingCount
  <1>3. CASE Pushing' \subseteq Pushing /\ logins' = logins
    <2>1. Cardinality(Pushing') <= Cardinality(Pushing) /\ Cardinality(Pushing') \in Nat
      BY <1>2, <1>3, FS_Subset, FS_CardinalityType
    <2>. QED
      BY <1>1, <1>2, <1>3, <2>1 DEF TypeInv, LoginsOK
  <1>4. ASSUME NEW c \in Clients, ReadLogin(c) PROVE LoginsOK'
    <2>1. /\ Pushing' = Pushing \cup {c} /\ logins' = logins
          /\ logins + Cardinality(Pushing) < MaxLogins
      BY <1>1, <1>4 DEF ReadLogin, HandlerTo, Reading, Pushing
    <2>2. /\ IsFiniteSet(Pushing \cup {c})
          /\ Cardinality(Pushing \cup {c}) =
               IF c \in Pushing THEN Cardinality(Pushing) ELSE Cardinality(Pushing) + 1
      BY <1>2, FS_AddElement
    <2>. QED
      BY <1>1, <1>2, <2>1, <2>2 DEF LoginsOK
  <1>5. ASSUME NEW c \in Clients, PushBack(c) PROVE LoginsOK'
    <2>1. Pushing' = Pushing \ {c} /\ c \in Pushing /\ logins' = logins + 1
      BY <1>1, <1>5 DEF PushBack, HandlerTo, Pushing
    <2>2. Cardinality(Pushing') = Cardinality(Pushing) - 1 /\ Cardinality(Pushing') \in Nat
      BY <1>2, <2>1, FS_RemoveElement, FS_CardinalityType
    <2>. QED
      BY <1>1, <1>2, <2>1, <2>2 DEF TypeInv, LoginsOK
  <1>6. \/ \E c \in Clients : ReadLogin(c) \/ PushBack(c)
        \/ Pushing' \subseteq Pushing /\ logins' = logins
    BY <1>1
       DEF Served, ReceiveMessage, Crash, Walk, Point, SendFrame, SendFails, LogoutIter,
           FinishWalk, Handle, ReadChat, ReadClose, Logout, Close, Abandon, PeerLeaves,
           HandlerTo, Pushing
  <1>. QED
    BY <1>3, <1>4, <1>5, <1>6

\* Handlers, broadcasts and iterators keep their types; a broadcast that sends or logs out
\* is at a node.
LEMMA ThreadsStep ==
  ASSUME TypeInv, Served
  PROVE  ThreadsOK'
  <1>1. /\ made \subseteq Nodes /\ ToSet(listWs) \subseteq made /\ End \notin made
        /\ \A n \in made : n.client \in Clients
    BY ClientAssumption DEF TypeInv, ListOK, Nodes
  <1>2. Begin \in made \cup {End}
    <2>1. listWs # <<>> => Head(listWs) \in ToSet(listWs)
      BY HeadTailProperties, LenProperties DEF TypeInv, ListOK, ToSet
    <2>. QED
      BY <1>1, <2>1 DEF Begin
  <1>3. Listed(listWs) \subseteq Clients
    BY <1>1 DEF Listed
  <1>4. ASSUME NEW n \in ToSet(listWs) PROVE After(n) \in made \cup {End}
    BY <1>1, NextNode DEF TypeInv, ListOK
  <1>. USE DEF TypeInv, ThreadsOK, Broadcasters, Walks, Handlers
  <1>5. CASE ReceiveMessage \/ \E c \in Clients : ReadChat(c)
    BY <1>1, <1>2, <1>3, <1>5, ClientAssumption DEF ReceiveMessage, ReadChat, StartWalk
  <1>6. ASSUME NEW b \in Broadcasters, Point(b) PROVE ThreadsOK'
    BY <1>1, <1>6 DEF Point
  <1>7. ASSUME NEW b \in Broadcasters, SendFrame(b) PROVE ThreadsOK'
    <2>1. PICK n \in IF Freed(b) THEN ToSet(listWs) \cup {End} ELSE {After(at[b])} :
            at' = [at EXCEPT ![b] = n]
      BY <1>7 DEF SendFrame
    <2>2. n \in made \cup {End} /\ at[b] \in made
      BY <1>1, <1>4, <1>7 DEF SendFrame, Freed
    <2>. QED
      BY <1>1, <1>7, <2>1, <2>2 DEF SendFrame
  <1>8. ASSUME NEW b \in Broadcasters, SendFails(b) PROVE ThreadsOK'
    <2>1. torn' \subseteq Broadcasters
      BY <1>8 DEF SendFails, BeginChange, Changing
    <2>. QED
      BY <1>8, <2>1 DEF SendFails
  <1>9. ASSUME NEW b \in Broadcasters, LogoutIter(b) PROVE ThreadsOK'
    <2>1. torn' \subseteq Broadcasters /\ due' \in [Broadcasters -> SUBSET Clients]
      BY <1>9 DEF LogoutIter, EndChange
    <2>. QED
      BY <1>9, <2>1 DEF LogoutIter, StopWalk
  <1>10. ASSUME NEW b \in Broadcasters, FinishWalk(b) PROVE ThreadsOK'
    BY <1>10 DEF FinishWalk, StopWalk
  <1>11. ASSUME NEW c \in Clients, ReadLogin(c) \/ ReadClose(c) PROVE ThreadsOK'
    <2>1. torn' \subseteq Broadcasters
      BY <1>11 DEF ReadLogin, ReadClose, BeginChange, Changing
    <2>. QED
      BY <1>11, <2>1 DEF ReadLogin, ReadClose, HandlerTo
  <1>12. ASSUME NEW c \in Clients, PushBack(c) PROVE ThreadsOK'
    <2>1. /\ torn' \subseteq Broadcasters /\ due' \in [Broadcasters -> SUBSET Clients]
          /\ made \subseteq made'
      BY <1>12 DEF PushBack, EndChange
    <2>. QED
      BY <1>12, <2>1 DEF PushBack, HandlerTo
  <1>13. ASSUME NEW c \in Clients, Logout(c) PROVE ThreadsOK'
    <2>1. torn' \subseteq Broadcasters /\ due' \in [Broadcasters -> SUBSET Clients]
      BY <1>13 DEF Logout, EndChange
    <2>. QED
      BY <1>13, <2>1 DEF Logout, HandlerTo
  <1>14. ASSUME NEW c \in Clients, Close(c) \/ Abandon(c) \/ PeerLeaves(c) PROVE ThreadsOK'
    BY <1>14 DEF Close, Abandon, PeerLeaves, HandlerTo
  <1>15. CASE Crash
    BY <1>15 DEF Crash
  <1>. QED
    BY <1>5, <1>6, <1>7, <1>8, <1>9, <1>10, <1>11, <1>12, <1>13, <1>14, <1>15
       DEF Served, Walk, Handle

\* The clients have connected, and none has logged in.
LEMMA TypeInit == Init => FeedInv /\ TypeInv
  <1>. SUFFICES ASSUME Init PROVE FeedInv /\ TypeInv
    OBVIOUS
  <1>1. /\ running = TRUE /\ wsIter = NoClient /\ contended = FALSE
        /\ handler = [c \in Clients |-> "reading"] /\ alive = Clients /\ open = Clients
        /\ walk = [b \in Broadcasters |-> "none"] /\ at = [b \in Broadcasters |-> End]
        /\ torn = {} /\ chats = 0 /\ broken = 0 /\ made = {}
        /\ due = [b \in Broadcasters |-> {}] /\ got = [b \in Broadcasters |-> {}]
    BY DEF Init
  <1>2. FeedInv
    BY FeedStart DEF Init
  <1>3. ListOK
    BY EmptyList, FS_EmptySet DEF Init, ListOK
  <1>4. LoginsOK
    <2>1. Pushing = {} /\ Cardinality({}) = 0
      BY FS_EmptySet DEF Init, Pushing
    <2>. QED
      BY <2>1, ClientAssumption DEF Init, LoginsOK
  <1>5. ThreadsOK
    <2>1. /\ handler \in [Clients -> Handlers] /\ walk \in [Broadcasters -> Walks]
          /\ \A b \in Broadcasters : walk[b] = "none"
      BY <1>1 DEF Walks, Handlers
    <2>2. /\ at \in [Broadcasters -> made \cup {End}]
          /\ due \in [Broadcasters -> SUBSET Clients] /\ got \in [Broadcasters -> SUBSET Clients]
      BY <1>1
    <2>3. 0 \in 0..MaxChats
      BY ClientAssumption
    <2>. QED
      BY <1>1, <2>1, <2>2, <2>3 DEF ThreadsOK
  <1>. QED
    BY <1>2, <1>3, <1>4, <1>5 DEF TypeInv, FeedInv

\* A step of either side keeps the types.
LEMMA TypeStep ==
  ASSUME FeedInv, TypeInv, [Next]_vars
  PROVE  TypeInv'
  <1>1. FeedTypeOK'
    BY FeedStep DEF FeedInv
  <1>2. CASE UNCHANGED wsVars
    BY <1>1, <1>2 DEF wsVars, TypeInv, ListOK, LoginsOK, ThreadsOK, Pushing
  <1>. QED
    BY <1>1, <1>2, ServedOrNot, ListStep, LoginsStep, ThreadsStep DEF TypeInv

\* The list, the iterators, the handlers and the feed hold what the code lets them hold,
\* for any number of threads and clients; no node is in the list twice.
THEOREM TypeCorrect == Spec => []TypeOK
  <1>1. ASSUME TypeInv PROVE TypeOK
    <2>1. Len(listWs) \in Nat /\ DOMAIN listWs = 1..Len(listWs) /\ ToSet(listWs) \subseteq Nodes
      BY <1>1, LenProperties DEF TypeInv, ListOK
    <2>2. \A i, j \in 1..Len(listWs) : i < j => listWs[i] # listWs[j]
      <3>1. \A n \in Nodes : n.login \in Int
        BY ClientAssumption DEF Nodes
      <3>. QED
        BY <1>1, <3>1, SetOfSeq DEF TypeInv, ListOK, Sorted
    <2>3. ASSUME NEW i \in 1..Len(listWs), NEW j \in 1..Len(listWs), listWs[i] = listWs[j]
          PROVE  i = j
      <3>1. ~(i < j) /\ ~(j < i)
        BY <2>2, <2>3
      <3>. QED
        BY <2>1, <3>1
    <2>4. IsInjective(listWs)
      BY <2>1, <2>3 DEF IsInjective
    <2>5. logins \in 0..MaxLogins
      BY <1>1, PushingCount, ClientAssumption DEF TypeInv, LoginsOK
    <2>6. at \in [Broadcasters -> Nodes \cup {End}] /\ made \in SUBSET Nodes
      BY <1>1 DEF TypeInv, ThreadsOK, ListOK
    <2>. QED
      BY <1>1, <2>1, <2>4, <2>5, <2>6 DEF TypeInv, ThreadsOK, TypeOK
  <1>. QED
    BY <1>1, TypeInit, TypeStep, FeedStep, PTL DEF Spec

-----------------------------------------------------------------------------
(***************************************************************************)
(* Clients that stay are not logged out.                                   *)
(***************************************************************************)

\* A client of the list that has not closed and is there; one that a broadcast failed at
\* is not there.
ListedInv ==
    /\ \A b \in Broadcasters : walk[b] = "logout" => at[b].client \notin alive
    /\ contended \/ \A n \in made :
         handler[n.client] \in {"reading", "pushing"} /\ n.client \in alive =>
             n.client \in Listed(listWs)

\* Only a login makes a node, and nobody comes back.
LEMMA Departures ==
  ASSUME TypeInv, Served
  PROVE  /\ alive' \subseteq alive /\ (contended => contended')
         /\ \A c \in Clients :
              handler'[c] \in {"reading", "pushing"} => handler[c] \in {"reading", "pushing"}
         /\ (\E c \in Clients : PushBack(c)) \/ made' = made
  <1>. DEFINE Leave == \A k \in Clients : handler'[k] \in {"reading", "pushing"} =>
                         handler[k] \in {"reading", "pushing"}
  <1>. USE DEF TypeInv, ThreadsOK
  <1>1. CASE ReceiveMessage \/ Crash \/ \E b \in Broadcasters : Walk(b)
    BY <1>1 DEF ReceiveMessage, Crash, Walk, Point, SendFrame, SendFails, LogoutIter, FinishWalk
  <1>2. ASSUME NEW c \in Clients, ReadLogin(c) \/ PushBack(c)
        PROVE  /\ alive' \subseteq alive /\ (contended => contended') /\ Leave
               /\ PushBack(c) \/ made' = made
    BY <1>2 DEF ReadLogin, PushBack, HandlerTo, Reading
  <1>3. ASSUME NEW c \in Clients, ReadChat(c) \/ ReadClose(c) \/ Logout(c)
        PROVE  alive' \subseteq alive /\ (contended => contended') /\ Leave /\ made' = made
    BY <1>3 DEF ReadChat, ReadClose, Logout, HandlerTo, Reading
  <1>4. CASE \E c \in Clients : Close(c) \/ Abandon(c) \/ PeerLeaves(c)
    BY <1>4 DEF Close, Abandon, PeerLeaves, HandlerTo
  <1>. QED
    BY <1>1, <1>2, <1>3, <1>4 DEF Served, Handle

\* Only a logout takes a node out: that of a close frame moves its handler on, and that of
\* a broadcast, while no race has had an effect, is of a client that is gone.
LEMMA ListedStep ==
  ASSUME TypeInv, ListedInv, Served
  PROVE  ListedInv'
  <1>1. /\ made \subseteq Nodes /\ ToSet(listWs) \subseteq made
        /\ \A n \in made : n.client \in Clients
        /\ \A c : c \in Listed(listWs) <=> \E n \in ToSet(listWs) : n.client = c
    BY DEF TypeInv, ListOK, Nodes, Listed
  <1>2. ASSUME NEW b \in Broadcasters, walk'[b] = "logout" PROVE at'[b].client \notin alive'
    <2>1. CASE walk[b] = "logout" /\ at'[b] = at[b]
      BY <2>1, Departures DEF ListedInv
    <2>2. CASE SendFails(b)
      BY <2>2 DEF SendFails, TypeInv, ThreadsOK
    <2>3. SendFails(b) \/ (walk[b] = "logout" /\ at'[b] = at[b])
      BY <1>2
         DEF Served, ReceiveMessage, Crash, Walk, Point, SendFrame, SendFails, LogoutIter,
             FinishWalk, StopWalk, StartWalk, Handle, ReadLogin, PushBack, ReadChat, ReadClose,
             Logout, Close, Abandon, PeerLeaves, TypeInv, ThreadsOK
    <2>. QED
      BY <2>1, <2>2, <2>3
  <1>3. ASSUME ~contended', NEW n \in made', handler'[n.client] \in {"reading", "pushing"},
               n.client \in alive'
        PROVE  n.client \in Listed(listWs)'
    <2>1. CASE UNCHANGED <<listWs, made, logins>>
      BY <1>1, <1>3, <2>1, Departures DEF ListedInv, Listed
    <2>2. ASSUME NEW c \in Clients, PushBack(c) PROVE n.client \in Listed(listWs)'
      <3>1. ToSet(listWs') = ToSet(listWs) \cup {[login |-> logins + 1, client |-> c]}
        BY <1>3, <2>2, LoginGains DEF TypeInv, Gains
      <3>2. n \in made \/ n.client = c
        BY <1>3, <2>2 DEF PushBack
      <3>3. n \in made => n.client \in Listed(listWs)
        BY <1>1, <1>3, Departures DEF ListedInv
      <3>. QED
        BY <1>1, <3>1, <3>2, <3>3 DEF Listed
    <2>3. ASSUME NEW c, Loses(c), n.client # c PROVE n.client \in Listed(listWs)'
      <3>1. n \in made /\ n.client \in Listed(listWs)
        BY <1>1, <1>3, <2>3, Departures DEF ListedInv, Loses
      <3>. QED
        BY <1>1, <2>3, <3>1 DEF Listed, Loses
    <2>4. ASSUME NEW b \in Broadcasters, LogoutIter(b) PROVE n.client # wsIter
      BY <1>3, <2>4, Departures DEF LogoutIter, ListedInv
    <2>5. ASSUME NEW c \in Clients, Logout(c) PROVE n.client # c
      BY <1>1, <1>3, <2>5 DEF Logout, HandlerTo, TypeInv, ThreadsOK
    <2>. QED
      BY <1>3, <2>1, <2>2, <2>3, <2>4, <2>5, ListSteps, LogoutLoses, CloseLoses
         DEF TypeInv, Crash
  <1>. QED
    BY <1>2, <1>3 DEF ListedInv

\* Nobody has logged in.
LEMMA ListedInit == Init => ListedInv
  BY DEF Init, ListedInv

\* A step of the feed alone takes nobody out.
LEMMA ListedNext ==
  ASSUME TypeInv, ListedInv, [Next]_vars
  PROVE  ListedInv'
  <1>1. CASE UNCHANGED wsVars
    BY <1>1 DEF wsVars, ListedInv, Listed
  <1>. QED
    BY <1>1, ServedOrNot, ListedStep

\* Until a race has had an effect, a client that has logged in and stays is in the list,
\* whichever broadcasts fail.
THEOREM LiveStayListed == Spec => []LiveClientsListed
  <1>1. ASSUME TypeInv, ListedInv PROVE LiveClientsListed
    BY <1>1 DEF ListedInv, LiveClientsListed, Reading
  <1>. QED
    BY <1>1, TypeInit, TypeStep, FeedStep, ListedInit, ListedNext, PTL DEF Spec

-----------------------------------------------------------------------------
(***************************************************************************)
(* A broadcast that comes to the end of the list reaches who stayed in it. *)
(***************************************************************************)

\* A broadcast with walk w, iterator a, due d and reached g: those due are in the list,
\* and those of them that the iterator has passed are reached.
WalkFits(w, a, d, g) ==
    w \in {"point", "send"} =>
        /\ d \subseteq Listed(listWs)
        /\ \/ contended
           \/ a = End /\ d \subseteq g
           \/ a # End /\ \A n \in ToSet(listWs) :
                n.login < a.login /\ n.client \in d => n.client \in g

ReachInv == \A b \in Broadcasters : WalkFits(walk[b], at[b], due[b], got[b])

\* begin(): nobody is before the first node.
LEMMA FirstNode ==
  ASSUME ListOK
  PROVE  \/ Begin = End /\ ToSet(listWs) = {}
         \/ Begin \in ToSet(listWs) /\ \A n \in ToSet(listWs) : ~(n.login < Begin.login)
  <1>1. Len(listWs) \in Nat /\ ToSet(listWs) = {listWs[i] : i \in 1..Len(listWs)}
    BY SetOfSeq DEF ListOK
  <1>2. CASE listWs = <<>>
    BY <1>2, EmptyList DEF Begin
  <1>3. CASE listWs # <<>>
    <2>1. Begin = listWs[1] /\ 1 \in 1..Len(listWs)
      BY <1>1, <1>3, HeadTailProperties, EmptySeq DEF Begin, ListOK
    <2>2. \A i \in 1..Len(listWs) : listWs[i].login \in Int
      <3>1. \A m \in Nodes : m.login \in Int
        BY ClientAssumption DEF Nodes
      <3>. QED
        BY <1>1, <3>1 DEF ListOK
    <2>3. \A i \in 1..Len(listWs) : ~(listWs[i].login < listWs[1].login)
      <3>. SUFFICES ASSUME NEW i \in 1..Len(listWs), i # 1
                    PROVE  ~(listWs[i].login < listWs[1].login)
        BY <2>1, <2>2
      <3>1. listWs[1].login < listWs[i].login
        BY <1>1, <2>1 DEF ListOK, Sorted
      <3>. QED
        BY <2>1, <2>2, <3>1
    <2>. QED
      BY <1>1, <2>1, <2>3
  <1>. QED
    BY <1>2, <1>3

\* What the list and the handlers of others do leaves a broadcast that is under way as
\* it is, but for clients that leave the list.
LEMMA Undisturbed ==
  ASSUME TypeInv, ReachInv, contended => contended', NEW b \in Broadcasters,
         walk'[b] = walk[b], at'[b] = at[b], got'[b] = got[b],
         \/ UNCHANGED listWs /\ due'[b] = due[b]
         \/ /\ walk[b] \in {"point", "send"} => due'[b] = due[b] \cap Listed(listWs')
            /\ \A n \in ToSet(listWs') : n \in ToSet(listWs) \/ n.login = logins + 1
  PROVE  WalkFits(walk[b], at[b], due[b], got[b])'
  <1>1. WalkFits(walk[b], at[b], due[b], got[b])
    BY DEF ReachInv
  <1>2. CASE UNCHANGED listWs /\ due'[b] = due[b]
    BY <1>1, <1>2 DEF WalkFits, Listed
  <1>3. ASSUME walk[b] \in {"point", "send"}, due'[b] = due[b] \cap Listed(listWs'),
               \A n \in ToSet(listWs') : n \in ToSet(listWs) \/ n.login = logins + 1,
               at[b] # End, NEW n \in ToSet(listWs)', n.login < at[b].login
        PROVE  n \in ToSet(listWs)
    <2>1. at[b].login <= logins /\ at[b].login \in Int /\ logins \in Int
      <3>1. at[b] \in made /\ \A m \in Nodes : m.login \in Int
        BY <1>3, ClientAssumption DEF TypeInv, ThreadsOK, Nodes
      <3>. QED
        BY <3>1 DEF TypeInv, ListOK, LoginsOK
    <2>. QED
      BY <1>3, <2>1
  <1>. QED
    BY <1>1, <1>2, <1>3 DEF WalkFits, Listed

\* A broadcast that begins.
LEMMA WalkStarts ==
  ASSUME TypeInv, NEW b \in Broadcasters, StartWalk(b), UNCHANGED listWs
  PROVE  WalkFits(walk[b], at[b], due[b], got[b])'
  <1>1. at'[b] = Begin /\ due'[b] = Listed(listWs)
    BY DEF StartWalk, TypeInv, ThreadsOK
  <1>2. Begin \in ToSet(listWs) => Begin # End
    BY ClientAssumption DEF TypeInv, ListOK
  <1>. QED
    BY <1>1, <1>2, FirstNode DEF WalkFits, TypeInv, Listed

\* A broadcast that sends and moves on.
LEMMA WalkSends ==
  ASSUME TypeInv, ReachInv, NEW b \in Broadcasters, SendFrame(b)
  PROVE  WalkFits(walk[b], at[b], due[b], got[b])'
  <1>1. /\ walk[b] = "send" /\ at[b] \in made /\ at[b] # End
        /\ got'[b] = got[b] \cup {at[b].client} /\ due'[b] = due[b] /\ listWs' = listWs
    BY ClientAssumption DEF SendFrame, TypeInv, ListOK, ThreadsOK
  <1>2. /\ due[b] \subseteq Listed(listWs)
        /\ \/ contended
           \/ \A n \in ToSet(listWs) :
                n.login < at[b].login /\ n.client \in due[b] => n.client \in got[b]
    BY <1>1 DEF ReachInv, WalkFits
  <1>3. CASE Freed(b)
    BY <1>1, <1>2, <1>3 DEF SendFrame, WalkFits, Listed
  <1>4. CASE ~Freed(b)
    <2>1. at[b] \in ToSet(listWs) /\ at'[b] = After(at[b]) /\ (contended => contended')
      BY <1>1, <1>4 DEF SendFrame, Freed, TypeInv, ThreadsOK
    <2>2. \/ After(at[b]) = End /\ \A m \in ToSet(listWs) : m.login < at[b].login \/ m = at[b]
          \/ /\ After(at[b]) \in ToSet(listWs)
             /\ \A m \in ToSet(listWs) :
                  m.login < After(at[b]).login => m.login < at[b].login \/ m = at[b]
      BY <2>1, NextNode DEF TypeInv, ListOK
    <2>3. After(at[b]) \in ToSet(listWs) => After(at[b]) # End
      BY ClientAssumption DEF TypeInv, ListOK
    <2>4. contended \/ \A m \in ToSet(listWs) :
            (m.login < at[b].login \/ m = at[b]) /\ m.client \in due[b] => m.client \in got'[b]
      BY <1>1, <1>2
    <2>5. due[b] \subseteq Listed(listWs)'
      BY <1>1, <1>2 DEF Listed
    <2>6. CASE After(at[b]) = End
      <3>1. contended \/ due[b] \subseteq got'[b]
        BY <1>2, <2>2, <2>3, <2>4, <2>6 DEF Listed
      <3>. QED
        BY <1>1, <2>1, <2>5, <2>6, <3>1 DEF WalkFits
    <2>7. CASE After(at[b]) \in ToSet(listWs)
      BY <1>1, <2>1, <2>2, <2>3, <2>4, <2>5, <2>7 DEF WalkFits
    <2>. QED
      BY <2>2, <2>6, <2>7
  <1>. QED
    BY <1>3, <1>4

\* What a step may do to a broadcast.
Carries(b) ==
    /\ walk'[b] = walk[b] /\ at'[b] = at[b] /\ got'[b] = got[b]
    /\ \/ UNCHANGED listWs /\ due'[b] = due[b]
       \/ /\ walk[b] \in {"point", "send"} => due'[b] = due[b] \cap Listed(listWs')
          /\ \A n \in ToSet(listWs') : n \in ToSet(listWs) \/ n.login = logins + 1

\* A step begins a broadcast, moves it on, ends it or carries it along.
LEMMA WalkSteps ==
  ASSUME TypeInv, Served, NEW b \in Broadcasters
  PROVE  \/ Carries(b) \/ walk'[b] \in {"none", "logout"}
         \/ StartWalk(b) /\ UNCHANGED listWs
         \/ Point(b) \/ SendFrame(b)
  <1>. USE DEF Carries, TypeInv, ThreadsOK
  <1>1. CASE ReceiveMessage
    BY <1>1 DEF ReceiveMessage, StartWalk
  <1>2. CASE Crash
    BY <1>2 DEF Crash
  <1>3. ASSUME NEW r \in Broadcasters, Point(r) \/ SendFrame(r) \/ SendFails(r) \/ FinishWalk(r)
        PROVE  \/ Carries(b) \/ walk'[b] \in {"none", "logout"} \/ Point(b) \/ SendFrame(b)
    BY <1>3 DEF Point, SendFrame, SendFails, FinishWalk, StopWalk
  <1>4. ASSUME NEW c, Loses(c) PROVE \A n \in ToSet(listWs') : n \in ToSet(listWs)
    BY <1>4 DEF Loses
  <1>5. ASSUME NEW r \in Broadcasters, LogoutIter(r) PROVE Carries(b) \/ walk'[b] = "none"
    <2>1. \A n \in ToSet(listWs') : n \in ToSet(listWs)
      <3>1. Loses(wsIter)
        BY <1>5, LogoutLoses
      <3>. QED
        BY <1>4, <3>1
    <2>. QED
      BY <1>5, <2>1 DEF LogoutIter, EndChange, StopWalk
  <1>6. ASSUME NEW c \in Clients, Logout(c) PROVE Carries(b)
    <2>1. \A n \in ToSet(listWs') : n \in ToSet(listWs)
      <3>1. Loses(c)
        BY <1>6, CloseLoses
      <3>. QED
        BY <1>4, <3>1
    <2>. QED
      BY <1>6, <2>1 DEF Logout, EndChange
  <1>7. ASSUME NEW c \in Clients, PushBack(c) PROVE Carries(b)
    <2>1. \A n \in ToSet(listWs') : n \in ToSet(listWs) \/ n.login = logins + 1
      <3>1. Gains(c)
        BY <1>7, LoginGains
      <3>2. \/ listWs' = listWs
            \/ ToSet(listWs') = ToSet(listWs) \cup {[login |-> logins + 1, client |-> c]}
        BY <3>1 DEF Gains
      <3>. QED
        BY <3>2
    <2>. QED
      BY <1>7, <2>1 DEF PushBack, EndChange
  <1>8. ASSUME NEW c \in Clients, ReadChat(c)
        PROVE  Carries(b) \/ (StartWalk(b) /\ UNCHANGED listWs)
    BY <1>8 DEF ReadChat, StartWalk
  <1>9. ASSUME NEW c \in Clients,
               ReadLogin(c) \/ ReadClose(c) \/ Close(c) \/ Abandon(c) \/ PeerLeaves(c)
        PROVE  Carries(b)
    BY <1>9 DEF ReadLogin, ReadClose, Close, Abandon, PeerLeaves
  <1>. QED
    BY <1>1, <1>2, <1>3, <1>5, <1>6, <1>7, <1>8, <1>9 DEF Served, Walk, Handle

\* Whoever logs in or out meanwhile, a broadcast has reached those it has passed.
LEMMA ReachStep ==
  ASSUME TypeInv, ReachInv, Served
  PROVE  ReachInv'
  <1>. SUFFICES ASSUME NEW b \in Broadcasters
                PROVE  WalkFits(walk[b], at[b], due[b], got[b])'
    BY DEF ReachInv, Broadcasters
  <1>1. contended => contended'
    BY Departures
  <1>2. CASE Carries(b)
    BY <1>1, <1>2, Undisturbed DEF Carries
  <1>3. CASE walk'[b] \in {"none", "logout"}
    BY <1>3 DEF WalkFits
  <1>4. CASE Point(b)
    <2>1. walk[b] = "point" /\ UNCHANGED <<listWs, at, due, got>>
      BY <1>4 DEF Point
    <2>. QED
      BY <1>1, <2>1 DEF ReachInv, WalkFits, Listed
  <1>. QED
    BY <1>2, <1>3, <1>4, WalkSteps, WalkStarts, WalkSends

\* No broadcast is under way.
LEMMA ReachInit == Init => ReachInv
  BY DEF Init, ReachInv, WalkFits

\* A step of the feed alone moves no broadcast.
LEMMA ReachNext ==
  ASSUME TypeInv, ReachInv, [Next]_vars
  PROVE  ReachInv'
  <1>1. CASE UNCHANGED wsVars
    BY <1>1 DEF wsVars, ReachInv, WalkFits, Listed
  <1>. QED
    BY <1>1, ServedOrNot, ReachStep

\* Until a race has had an effect, a broadcast that comes to the end of the list has been
\* sent to every client that was in the list all along.
THEOREM CompletedReach == Spec => []CompletedReachesAll
  <1>1. ASSUME ReachInv PROVE CompletedReachesAll
    BY <1>1 DEF ReachInv, WalkFits, CompletedReachesAll
  <1>. QED
    BY <1>1, TypeInit, TypeStep, FeedStep, ReachInit, ReachNext, PTL DEF Spec

-----------------------------------------------------------------------------
(***************************************************************************)
(* The broadcasts that fail cost no more than the dead entries.            *)
(***************************************************************************)

\* The nodes of clients that are gone that are out of the list.
Off == {n \in made : n.client \notin alive /\ n \notin ToSet(listWs)}

\* Every broadcast of paho's thread that was given up has its node out of the list; but
\* for the one that is being given up, and not counting the node the iterator is at.
BrokenInv ==
    contended \/ broken <= Cardinality(Off \ {at[Receiver]})
                            + (IF walk[Receiver] = "logout" THEN 1 ELSE 0)

\* The smaller set is the smaller number.
LEMMA Counted ==
  ASSUME NEW T, IsFiniteSet(T), NEW S, S \subseteq T
  PROVE  /\ IsFiniteSet(S) /\ Cardinality(S) \in Nat /\ Cardinality(T) \in Nat
         /\ Cardinality(S) <= Cardinality(T)
  BY FS_Subset, FS_CardinalityType

\* Nodes of clients that are gone do not come back.
LEMMA OffGrows ==
  ASSUME TypeInv, Served, ~contended'
  PROVE  Off \subseteq Off'
  <1>1. /\ alive' \subseteq alive /\ made \subseteq made'
        /\ \A n \in made : n \in ToSet(listWs') => n \in ToSet(listWs)
    <2>1. CASE UNCHANGED <<listWs, made, logins>>
      BY <2>1, Departures
    <2>2. ASSUME NEW c, Loses(c)
          PROVE  UNCHANGED made /\ \A n \in ToSet(listWs') : n \in ToSet(listWs)
      BY <2>2 DEF Loses
    <2>3. ASSUME NEW c \in Clients, PushBack(c)
          PROVE  /\ made \subseteq made'
                 /\ \A n \in made : n \in ToSet(listWs') => n \in ToSet(listWs)
      <3>1. Gains(c)
        BY <2>3, LoginGains DEF TypeInv
      <3>2. /\ [login |-> logins + 1, client |-> c] \notin made
            /\ \/ listWs' = listWs
               \/ ToSet(listWs') = ToSet(listWs) \cup {[login |-> logins + 1, client |-> c]}
        BY <3>1 DEF Gains
      <3>. QED
        BY <3>1, <3>2 DEF Gains
    <2>4. ~Crash
      BY DEF Crash
    <2>. QED
      BY <2>1, <2>2, <2>3, <2>4, Departures, ListSteps, LogoutLoses, CloseLoses DEF TypeInv
  <1>. QED
    BY <1>1 DEF Off

\* Paho's thread between broadcasts, or under way: only a send that fails, and the
\* logout that follows, change what BrokenInv counts.
LEMMA ReceiverSteps ==
  ASSUME TypeInv, Served, ~contended'
  PROVE  \/ SendFails(Receiver) \/ LogoutIter(Receiver)
         \/ /\ broken' = broken
            /\ walk'[Receiver] = "logout" <=> walk[Receiver] = "logout"
            /\ at'[Receiver] = at[Receiver] \/ at'[Receiver] \notin Off'
  <1>. DEFINE R == Receiver
              Keeps == /\ broken' = broken /\ (walk'[R] = "logout" <=> walk[R] = "logout")
                       /\ at'[R] = at[R] \/ at'[R] \notin Off'
  <1>1. End \notin Off' /\ \A n \in ToSet(listWs)' : n \notin Off'
    BY ListStep, ClientAssumption DEF Off, ListOK
  <1>. USE DEF TypeInv, ThreadsOK, Broadcasters
  <1>2. CASE ReceiveMessage
    <2>1. Begin = End \/ Begin \in ToSet(listWs)'
      BY <1>2, FirstNode DEF ReceiveMessage
    <2>. QED
      BY <1>1, <1>2, <2>1 DEF ReceiveMessage, StartWalk
  <1>3. CASE SendFrame(R)
    <2>1. at[R] \in ToSet(listWs) /\ at'[R] = After(at[R]) /\ listWs' = listWs
      BY <1>3, ClientAssumption DEF SendFrame, Freed, ListOK
    <2>2. After(at[R]) = End \/ After(at[R]) \in ToSet(listWs)'
      BY <2>1, NextNode DEF ListOK
    <2>. QED
      BY <1>1, <1>3, <2>1, <2>2 DEF SendFrame
  <1>4. CASE Point(R) \/ FinishWalk(R)
    BY <1>1, <1>4 DEF Point, FinishWalk, StopWalk
  <1>5. ASSUME NEW c \in Clients, Walk(c) PROVE Keeps
    BY <1>5, ClientAssumption
       DEF Walk, Point, SendFrame, SendFails, LogoutIter, FinishWalk, StopWalk
  <1>6. ASSUME NEW c \in Clients, Handle(c) PROVE Keeps
    BY <1>6, ClientAssumption
       DEF Handle, ReadLogin, PushBack, ReadChat, ReadClose, Logout, Close, Abandon,
           PeerLeaves, StartWalk
  <1>7. ~Crash
    BY DEF Crash
  <1>. QED
    BY <1>2, <1>3, <1>4, <1>5, <1>6, <1>7 DEF Served, Walk

\* A broadcast that fails takes out a node of a client that is gone: one that is out once
\* for all, and pays for it.
LEMMA BrokenStep ==
  ASSUME TypeInv, ListedInv, BrokenInv, Served
  PROVE  BrokenInv'
  <1>. SUFFICES ASSUME ~contended'
                PROVE  broken' <= Cardinality(Off' \ {at'[Receiver]})
                                    + (IF walk'[Receiver] = "logout" THEN 1 ELSE 0)
    BY DEF BrokenInv
  <1>. DEFINE R == Receiver
              S == Off \ {at[R]}
              T == Off' \ {at'[R]}
              Owed == IF walk[R] = "logout" THEN 1 ELSE 0
  <1>1. /\ ~contended /\ Off \subseteq Off' /\ R \in Broadcasters
        /\ broken \in Nat /\ broken <= Cardinality(S) + Owed
    BY Departures, OffGrows DEF Broadcasters, BrokenInv, TypeInv, ThreadsOK
  <1>2. IsFiniteSet(T)
    <2>1. T \subseteq made' /\ IsFiniteSet(made')
      BY ListStep DEF Off, ListOK
    <2>. QED
      BY <2>1, Counted
  <1>3. ASSUME S \subseteq T
        PROVE  /\ Cardinality(S) \in Nat /\ Cardinality(T) \in Nat
               /\ Cardinality(S) <= Cardinality(T)
    BY <1>2, <1>3, Counted
  <1>. HIDE DEF S, T
  <1>4. CASE SendFails(R)
    <2>1. /\ walk[R] = "send" /\ walk'[R] = "logout" /\ at' = at /\ broken' = broken + 1
      BY <1>1, <1>4 DEF SendFails, TypeInv, ThreadsOK
    <2>2. S \subseteq T
      BY <1>1, <2>1 DEF S, T
    <2>. QED
      BY <1>1, <1>3, <2>1, <2>2 DEF T
  <1>5. CASE LogoutIter(R)
    <2>1. /\ walk[R] = "logout" /\ walk'[R] = "none" /\ at'[R] = End /\ broken' = broken
          /\ wsIter = at[R].client /\ UNCHANGED <<made, alive>>
      BY <1>1, <1>5 DEF LogoutIter, StopWalk, TypeInv, ThreadsOK
    <2>2. at[R] \in made /\ at[R].client \notin alive /\ End \notin made
      BY <1>1, <2>1, ClientAssumption DEF ListedInv, TypeInv, ThreadsOK, ListOK
    <2>3. Loses(at[R].client)
      BY <1>1, <1>5, <2>1, LogoutLoses DEF TypeInv
    <2>4. PICK n \in made : n \in Off' /\ n \notin S
      <3>1. CASE \A n \in ToSet(listWs) : n.client # at[R].client
        <4>1. at[R] \in Off'
          BY <1>1, <2>1, <2>2, <3>1 DEF Off
        <4>. QED
          BY <2>2, <4>1 DEF S
      <3>2. ASSUME NEW n \in ToSet(listWs), n.client = at[R].client,
                   ToSet(listWs') = ToSet(listWs) \ {n}
            PROVE  \E k \in made : k \in Off' /\ k \notin S
        <4>1. n \in made
          BY DEF TypeInv, ListOK
        <4>. QED
          BY <2>1, <2>2, <3>2, <4>1 DEF Off, S
      <3>. QED
        BY <2>3, <3>1, <3>2 DEF Loses
    <2>5. S \cup {n} \subseteq T
      BY <1>1, <2>1, <2>2, <2>4 DEF S, T, Off
    <2>6. IsFiniteSet(S) /\ Cardinality(S \cup {n}) <= Cardinality(T) /\ Cardinality(T) \in Nat
      BY <1>2, <2>5, Counted
    <2>7. Cardinality(S \cup {n}) = Cardinality(S) + 1 /\ Cardinality(S) \in Nat
      BY <2>4, <2>6, FS_AddElement, FS_CardinalityType
    <2>. QED
      BY <1>1, <2>1, <2>6, <2>7 DEF T
  <1>6. CASE /\ broken' = broken
             /\ walk'[R] = "logout" <=> walk[R] = "logout"
             /\ at'[R] = at[R] \/ at'[R] \notin Off'
    <2>1. S \subseteq T
      BY <1>1, <1>6 DEF S, T
    <2>. QED
      BY <1>1, <1>3, <1>6, <2>1 DEF T
  <1>. QED
    BY <1>4, <1>5, <1>6, ReceiverSteps

\* No broadcast has failed.
LEMMA BrokenInit == Init => BrokenInv
  <1>1. Init => broken = 0 /\ walk[Receiver] = "none" /\ Off = {}
    BY DEF Init, Off, Broadcasters
  <1>. QED
    BY <1>1, FS_EmptySet DEF BrokenInv

\* A step of the feed alone fails no broadcast.
LEMMA BrokenNext ==
  ASSUME TypeInv, ListedInv, BrokenInv, [Next]_vars
  PROVE  BrokenInv'
  <1>1. CASE UNCHANGED wsVars
    BY <1>1 DEF wsVars, BrokenInv, Off
  <1>. QED
    BY <1>1, ServedOrNot, BrokenStep

\* Until a race has had an effect, paho's thread gives up no more broadcasts than there were
\* logins of clients that are gone.
THEOREM BrokenByDead == Spec => []BrokenByDeadEntries
  <1>1. ASSUME TypeInv, ListedInv, BrokenInv PROVE BrokenByDeadEntries
    <2>. DEFINE Dead == {n \in made : n.client \notin alive \cap open}
                S == Off \ {at[Receiver]}
                x == at[Receiver]
    <2>1. IsFiniteSet(Dead) /\ Cardinality(Dead) \in Nat /\ S \subseteq Dead
      <3>1. Dead \subseteq made /\ IsFiniteSet(made)
        BY <1>1 DEF TypeInv, ListOK
      <3>2. IsFiniteSet(Dead) /\ Cardinality(Dead) \in Nat
        BY <3>1, Counted
      <3>. QED
        BY <1>1, <3>2 DEF Off
    <2>2. walk[Receiver] = "logout" => x \in Dead /\ x \notin S
      BY <1>1 DEF ListedInv, TypeInv, ThreadsOK, Broadcasters
    <2>. HIDE DEF Dead, S, x
    <2>3. IsFiniteSet(S) /\ Cardinality(S) \in Nat /\ Cardinality(S) <= Cardinality(Dead)
      BY <2>1, Counted
    <2>4. walk[Receiver] = "logout" => Cardinality(S) + 1 <= Cardinality(Dead)
      <3>. SUFFICES ASSUME walk[Receiver] = "logout" PROVE Cardinality(S) + 1 <= Cardinality(Dead)
        OBVIOUS
      <3>1. S \cup {x} \subseteq Dead
        BY <2>1, <2>2
      <3>2. Cardinality(S \cup {x}) = Cardinality(S) + 1
        BY <2>2, <2>3, FS_AddElement
      <3>. QED
        BY <2>1, <3>1, <3>2, Counted
    <2>5. contended \/ broken <= Cardinality(S) + (IF walk[Receiver] = "logout" THEN 1 ELSE 0)
      BY <1>1 DEF BrokenInv, S
    <2>6. contended \/ broken <= Cardinality(Dead)
      BY <1>1, <2>1, <2>3, <2>4, <2>5 DEF TypeInv, ThreadsOK
    <2>. QED
      BY <2>6 DEF BrokenByDeadEntries, Dead
  <1>. QED
    BY <1>1, TypeInit, TypeStep, FeedStep, ListedInit, ListedNext, BrokenInit, BrokenNext, PTL
       DEF Spec
=============================================================================
