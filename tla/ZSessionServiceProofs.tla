------------------------- MODULE ZSessionServiceProofs -------------------------
(***************************************************************************)
(* Proofs about ZSessionService, for any number of threads, connections,    *)
(* users, draws and faults, and any moduli of the id.                       *)
(*                                                                         *)
(* Its steps are steps of the pool, so that the pool's invariants hold of   *)
(* it.  Every token has a session of its own: that needs only that Redis    *)
(* answers SADD truthfully, whatever generateId draws.  What generateId     *)
(* itself gives is in the part on the sequence: a draw that none overlapped *)
(* differs from the 1023 after it.  The last part counts the sessions that  *)
(* no token was given out for.                                             *)
(***************************************************************************)
EXTENDS ZSessionService, RedisPoolProofs

-----------------------------------------------------------------------------
(***************************************************************************)
(* The service implements the pool.                                        *)
(***************************************************************************)

\* Every step of a login is a step of the pool, or leaves the pool alone.
LEMMA StepsOfThePool ==
  ASSUME [Next]_vars
  PROVE  [PoolNext]_poolVars
  <1>1. ASSUME NEW t \in Threads,
               StoreNumber(t) \/ PoolStep(t) \/ Add(t) \/ Throw(t) \/ Answer(t)
        PROVE  PoolNext
    BY <1>1 DEF StoreNumber, PoolStep, Add, Throw, Answer, PoolNext
  <1>2. ASSUME Tick \/ \E t \in Threads : ReadNumber(t) \/ \E u \in Users : ReadClock(t, u)
        PROVE  UNCHANGED poolVars
    BY <1>2 DEF Tick, ReadNumber, ReadClock
  <1>3. CASE NetworkStep
    BY <1>3 DEF PoolNext
  <1>4. CASE UNCHANGED vars
    BY <1>4 DEF vars
  <1>. QED
    BY <1>1, <1>2, <1>3, <1>4 DEF Next, ThreadStep

\* Every behaviour of the sessions is one of the pool: create_jwt uses connections
\* only through the commands.
THEOREM ImplementsPool == Spec => PoolSpec
  <1>1. Init => PoolInit
    BY DEF Init
  <1>2. [Next]_vars => [PoolNext]_poolVars
    BY StepsOfThePool
  <1>. QED
    BY <1>1, <1>2, PTL DEF Spec, PoolSpec

\* Logins at the same time never share a connection.
THEOREM SessionsExclusive == Spec => []ExclusiveConnections
  BY ImplementsPool, ExclusiveSafe, PTL

\* Logins never open more connections than there have been at the same time.
THEOREM SessionsPeak == Spec => []OpenAtMostPeak
  BY ImplementsPool, PeakSafe, PTL

\* A connection that was cut costs one login.
THEOREM SessionsFaultCost == Spec => []FaultCostsOneCommand
  BY ImplementsPool, FaultCost, PTL

-----------------------------------------------------------------------------
(***************************************************************************)
(* Tokens and sessions.  A thread whose SADD answered 1 holds an id that no  *)
(* token of the user has, and that no other such thread holds.               *)
(***************************************************************************)

\* The fields of a draw.
Fields == {"n", "user", "time", "number", "alone"}

\* What the tokens' proof needs of the types.
Shape ==
    /\ DOMAIN call = Threads /\ DOMAIN login = Threads /\ DOMAIN draw = Threads
    /\ DOMAIN added = Threads /\ DOMAIN sessions = Users
    /\ \A t \in Threads : DOMAIN draw[t] = Fields
    /\ \A t \in Threads : login[t] # "idle" => draw[t].user \in Users
    /\ \A t \in Threads : call[t] # "none" => login[t] = "sadd"

\* The user and the session of a thread whose SADD answered 1.
SameSession(a, b) == a.user = b.user /\ Id(a) = Id(b)
\* The session of a draw is there.
Backed(a) == a.user \in Users /\ Id(a) \in sessions[a.user]

\* A thread whose SADD answered 1 has a session for itself, until it answers.
Pending ==
    \A t \in Threads : added[t] =>
        /\ login[t] = "sadd"
        /\ Backed(draw[t])
        /\ \A a \in tokens : ~SameSession(a, draw[t])
        /\ \A r \in Threads : r # t /\ added[r] => ~SameSession(draw[r], draw[t])

\* Every token has a session, and no other token of the user has that one.
Tokens ==
    /\ \A a \in tokens : Backed(a)
    /\ \A a, b \in tokens : a # b => ~SameSession(a, b)

TInv == Shape /\ Pending /\ Tokens

\* No token yet.
LEMMA TInit == Init => TInv
  BY DEF Init, PoolInit, TInv, Shape, Fields, NoDraw, Pending, Tokens

\* What a step leaves alone carries over.
LEMMA Frame ==
  ASSUME TInv, UNCHANGED <<draw, added, sessions, tokens, login>>
  PROVE  Pending' /\ Tokens'
  BY DEF TInv, Pending, Tokens, Backed, SameSession

\* Shape is inductive.
LEMMA ShapeStep ==
  ASSUME Shape, [Next]_vars
  PROVE  Shape'
  <1>. USE DEF Shape
  <1>1. CASE UNCHANGED vars \/ Tick \/ (NetworkStep /\ UNCHANGED sessionVars)
    BY <1>1 DEF vars, poolVars, sessionVars, Tick, NetworkStep, LoseConnections, GoDown,
                ComeUp, Cut, Histories
  <1>2. ASSUME NEW t \in Threads, NEW u \in Users, ReadClock(t, u) PROVE Shape'
    <2>1. /\ call' = call /\ added' = added /\ sessions' = sessions
          /\ login' = [login EXCEPT ![t] = "clock"] /\ login[t] = "idle"
          /\ draw' = [draw EXCEPT ![t] = [NoDraw EXCEPT !.user = u, !.time = now]]
      BY <1>2 DEF ReadClock, LoginAt, poolVars
    <2>2. /\ [NoDraw EXCEPT !.user = u, !.time = now].user = u
          /\ DOMAIN [NoDraw EXCEPT !.user = u, !.time = now] = Fields
      BY DEF NoDraw, Fields
    <2>. QED
      BY <2>1, <2>2
  <1>3. ASSUME NEW t \in Threads, ReadNumber(t) PROVE Shape'
    <2>1. /\ call' = call /\ added' = added /\ sessions' = sessions
          /\ login' = [login EXCEPT ![t] = "number"] /\ login[t] = "clock"
          /\ DOMAIN draw' = Threads
      BY <1>3 DEF ReadNumber, LoginAt, poolVars
    <2>2. ASSUME NEW r \in Threads
          PROVE  draw'[r].user = draw[r].user /\ DOMAIN draw'[r] = Fields
      <3>1. "user" \in DOMAIN draw[r] /\ "user" # "n" /\ "user" # "number" /\ "user" # "alone"
        BY DEF Fields
      <3>2. \/ \E a, b, c : draw'[r] = [draw[r] EXCEPT !.n = a, !.number = b, !.alone = c]
            \/ \E c : draw'[r] = [draw[r] EXCEPT !.alone = c]
            \/ draw'[r] = draw[r]
        BY <1>3 DEF ReadNumber
      <3>. QED
        BY <3>1, <3>2
    <2>. QED
      BY <2>1, <2>2
  <1>4. ASSUME NEW t \in Threads, StoreNumber(t) PROVE Shape'
    BY <1>4 DEF StoreNumber, LoginAt, Begin, CallAt
  <1>5. ASSUME NEW t \in Threads, PoolStep(t) PROVE Shape'
    BY <1>5 DEF PoolStep, Take, FindNone, Create, Reply, CallAt, sessionVars
  <1>6. ASSUME NEW t \in Threads, Add(t) PROVE Shape'
    BY <1>6 DEF Add, Run, CallAt, drawVars
  <1>7. ASSUME NEW t \in Threads, Throw(t) \/ Answer(t) PROVE Shape'
    <2>1. /\ call' = [call EXCEPT ![t] = "none"] /\ sessions' = sessions
          /\ login' = [login EXCEPT ![t] = "idle"]
          /\ draw' = [draw EXCEPT ![t] = NoDraw] /\ added' = [added EXCEPT ![t] = FALSE]
      BY <1>7 DEF Throw, Answer, CreateFails, Fail, Put, CallAt, Idle, LoginAt
    <2>2. DOMAIN NoDraw = Fields
      BY DEF NoDraw, Fields
    <2>. QED
      BY <2>1, <2>2
  <1>. QED
    BY <1>1, <1>2, <1>3, <1>4, <1>5, <1>6, <1>7 DEF Next, ThreadStep

\* Only SADD's answer lets a thread keep an id, and Redis gives one thread that answer.
LEMMA TokensStep ==
  ASSUME TInv, [Next]_vars
  PROVE  Pending' /\ Tokens'
  <1>1. CASE UNCHANGED vars \/ Tick \/ (NetworkStep /\ UNCHANGED sessionVars)
    BY <1>1, Frame DEF vars, sessionVars, Tick
  <1>2. ASSUME NEW t \in Threads, PoolStep(t) PROVE Pending' /\ Tokens'
    BY <1>2, Frame DEF PoolStep, sessionVars
  <1>3. ASSUME NEW t \in Threads,
               ReadNumber(t) \/ StoreNumber(t) \/ \E u \in Users : ReadClock(t, u)
        PROVE  Pending' /\ Tokens'
    <2>1. /\ added' = added /\ sessions' = sessions /\ tokens' = tokens
          /\ \A r \in Threads : login[r] = "sadd" => login'[r] = "sadd" /\ draw'[r] = draw[r]
      BY <1>3 DEF ReadNumber, StoreNumber, ReadClock, LoginAt, Drawing, TInv, Shape
    <2>. QED
      BY <2>1 DEF TInv, Pending, Tokens, Backed, SameSession
  <1>4. ASSUME NEW t \in Threads, Add(t) PROVE Pending' /\ Tokens'
    <2>. DEFINE d == draw[t]
    <2>1. /\ login' = login /\ draw' = draw /\ tokens' = tokens
          /\ added' = [added EXCEPT ![t] = Id(d) \notin sessions[d.user]]
          /\ sessions' = [sessions EXCEPT ![d.user] = @ \cup {Id(d)}]
      BY <1>4 DEF Add, drawVars
    <2>2. login[t] = "sadd" /\ d.user \in Users
      BY <1>4 DEF Add, Run, CallAt, TInv, Shape
    <2>3. \A a : Backed(a) => Backed(a)'
      BY <2>1 DEF Backed, TInv, Shape
    <2>4. Backed(d)'
      BY <2>1, <2>2 DEF Backed, TInv, Shape
    <2>5. added'[t] => \A a : Backed(a) => ~SameSession(a, d)
      BY <2>1 DEF Backed, SameSession, TInv, Shape
    <2>6. \A r \in Threads : r # t => added'[r] = added[r]
      BY <2>1 DEF TInv, Shape
    <2>7. Tokens'
      BY <2>1, <2>3 DEF TInv, Tokens, SameSession
    <2>8. Pending'
      <3>. SUFFICES ASSUME NEW r \in Threads, added'[r]
                    PROVE  /\ login[r] = "sadd" /\ Backed(draw[r])'
                           /\ \A a \in tokens : ~SameSession(a, draw[r])
                           /\ \A q \in Threads :
                                q # r /\ added'[q] => ~SameSession(draw[q], draw[r])
        BY <2>1 DEF Pending, SameSession, Backed
      <3>1. CASE r = t
        BY <2>2, <2>4, <2>5, <2>6, <3>1 DEF TInv, Tokens, Pending
      <3>2. CASE r # t
        <4>1. added[r] /\ Backed(draw[r])
          BY <2>6, <3>2 DEF TInv, Pending
        <4>2. ASSUME NEW q \in Threads, q # r, added'[q]
              PROVE  ~SameSession(draw[q], draw[r])
          <5>1. CASE q = t
            BY <2>5, <4>1, <4>2, <5>1 DEF SameSession
          <5>2. CASE q # t
            BY <2>6, <4>1, <4>2, <5>2 DEF TInv, Pending
          <5>. QED
            BY <5>1, <5>2
        <4>3. Backed(draw[r])'
          BY <2>1, <2>3, <4>1 DEF Backed
        <4>4. login[r] = "sadd" /\ \A a \in tokens : ~SameSession(a, draw[r])
          BY <4>1 DEF TInv, Pending
        <4>. QED
          BY <4>2, <4>3, <4>4
      <3>. QED
        BY <3>1, <3>2
    <2>. QED
      BY <2>7, <2>8
  <1>5. ASSUME NEW t \in Threads, Throw(t) \/ Answer(t) PROVE Pending' /\ Tokens'
    <2>1. /\ sessions' = sessions /\ added' = [added EXCEPT ![t] = FALSE]
          /\ login' = [login EXCEPT ![t] = "idle"] /\ draw' = [draw EXCEPT ![t] = NoDraw]
          /\ tokens' = tokens \/ (added[t] /\ tokens' = tokens \cup {draw[t]})
      BY <1>5 DEF Throw, Answer, Accepted, Idle, LoginAt
    <2>2. \A r \in Threads : added'[r] =>
            r # t /\ added[r] /\ login'[r] = login[r] /\ draw'[r] = draw[r]
      BY <2>1 DEF TInv, Shape
    <2>3. Tokens'
      BY <2>1 DEF TInv, Tokens, Pending, Backed, SameSession
    <2>4. Pending'
      BY <2>1, <2>2 DEF TInv, Pending, Backed, SameSession
    <2>. QED
      BY <2>3, <2>4
  <1>. QED
    BY <1>1, <1>2, <1>3, <1>4, <1>5 DEF Next, ThreadStep

\* Every token given out has a session, which no other token of the user has: SADD's
\* answer tells two draws of one id apart, whatever threads, clock and network do.
THEOREM TokensBacked == Spec => []TokenBacked
  <1>1. TInv /\ [Next]_vars => TInv'
    BY ShapeStep, TokensStep DEF TInv
  <1>2. TInv => TokenBacked
    BY DEF TInv, Tokens, TokenBacked, Backed, SameSession
  <1>. QED
    BY TInit, <1>1, <1>2, PTL DEF Spec

-----------------------------------------------------------------------------
(***************************************************************************)
(* Remainders.                                                             *)
(***************************************************************************)

\* Every number is a multiple of m and a remainder.
LEMMA Divided ==
  ASSUME NEW a \in Int, NEW m \in Nat \ {0}
  PROVE  a % m \in 0..(m - 1) /\ \E q \in Int : a = (m * q) + (a % m)
  <1>1. a \div m \in Int /\ a = (m * (a \div m)) + (a % m) /\ a % m \in 0..(m - 1)
    OBVIOUS
  <1>. QED
    BY <1>1, Zenon

\* The remainder is unique.
LEMMA RemainderIs ==
  ASSUME NEW a \in Int, NEW m \in Nat \ {0}, NEW q \in Int, NEW r \in 0..(m - 1),
         a = (m * q) + r
  PROVE  a % m = r
  OBVIOUS

\* One more, unless the remainder comes round.
LEMMA RemainderNext ==
  ASSUME NEW a \in Int, NEW m \in Nat \ {0}, (a % m) + 1 < m
  PROVE  (a + 1) % m = (a % m) + 1
  <1>. DEFINE r == a % m
  <1>1. r \in 0..(m - 1) /\ \E q \in Int : a = (m * q) + r
    BY Divided
  <1>2. PICK q \in Int : a = (m * q) + r
    BY <1>1
  <1>. HIDE DEF r
  <1>. DEFINE x == r + 1
              y == a + 1
  <1>3. m * q \in Int /\ x \in 0..(m - 1)
    BY <1>1 DEF r
  <1>4. y \in Int /\ y = (m * q) + x
    BY <1>1, <1>2, <1>3
  <1>. HIDE DEF x, y
  <1>5. y % m = x
    BY <1>3, <1>4, RemainderIs
  <1>. QED
    BY <1>5 DEF r, x, y

\* Twice a multiple of m does not change the remainder.
LEMMA RemainderWraps ==
  ASSUME NEW a \in Int, NEW m \in Nat \ {0}, NEW h \in Int, h % m = 0
  PROVE  (a - (2 * h)) % m = a % m
  <1>. DEFINE r == a % m
  <1>1. r \in 0..(m - 1) /\ \E q \in Int : a = (m * q) + r
    BY Divided
  <1>2. PICK q \in Int : a = (m * q) + r
    BY <1>1
  <1>3. PICK p \in Int : h = m * p
    <2>1. PICK p \in Int : h = (m * p) + (h % m)
      BY Divided
    <2>2. m * p \in Int
      OBVIOUS
    <2>. QED
      BY <2>1, <2>2
  <1>. HIDE DEF r
  <1>4. /\ m * q \in Int /\ m * p \in Int /\ q - (2 * p) \in Int
        /\ m * (q - (2 * p)) = (m * q) - (2 * (m * p))
    OBVIOUS
  <1>5. a - (2 * h) = (m * (q - (2 * p))) + r
    BY <1>1, <1>2, <1>3, <1>4
  <1>6. (a - (2 * h)) % m = r
    BY <1>1, <1>4, <1>5, RemainderIs
  <1>. QED
    BY <1>6 DEF r

\* What an int16_t holds.
Numbers == -SeqHalf..(SeqHalf - 1)

\* The next number is one more, modulo what the int16_t holds.
LEMMA NextIs ==
  ASSUME NEW s \in Numbers
  PROVE  NextNumber(s) \in Numbers /\ NextNumber(s) \in {s + 1, s + 1 - (2 * SeqHalf)}
  BY SessionAssumption DEF NextNumber, Numbers

\* The second part of an id is the number, modulo 1024, whatever C++'s remainder does to
\* the first.
LEMMA IdRemainder ==
  ASSUME NEW d, d.number \in Numbers, d.time \in Nat
  PROVE  Id(d) \in Ids /\ Id(d)[2] = d.number % SeqMod
  <1>. DEFINE s == d.number
              m == SeqMod
  <1>1. s \in Int /\ m \in Nat \ {0} /\ -s \in Int
    BY SessionAssumption DEF Numbers
  <1>2. d.time % ClockMod \in 0..(ClockMod - 1) /\ s % m \in 0..(m - 1) /\ (-s) % m \in 0..(m - 1)
    <2>1. d.time \in Int /\ ClockMod \in Nat \ {0}
      BY SessionAssumption
    <2>2. d.time % ClockMod \in 0..(ClockMod - 1)
      BY <2>1, Divided
    <2>3. s % m \in 0..(m - 1)
      BY <1>1, Divided
    <2>4. (-s) % m \in 0..(m - 1)
      BY <1>1, Divided
    <2>. QED
      BY <2>2, <2>3, <2>4
  <1>3. CASE s >= 0
    BY <1>1, <1>2, <1>3, SessionAssumption DEF Id, Remainder, Ids
  <1>4. CASE s < 0
    <2>. DEFINE k == (-s) % m
    <2>1. PICK q \in Int : -s = (m * q) + k
      BY <1>1, Divided
    <2>2. m * q \in Int /\ m * (-q) = -(m * q) /\ m * (-q - 1) = -(m * q) - m
          /\ -q \in Int /\ -q - 1 \in Int
      BY <1>1
    <2>. HIDE DEF k, s, m
    <2>3. CASE k = 0
      <3>1. s = (m * (-q)) + 0 /\ 0 \in 0..(m - 1)
        BY <1>1, <2>1, <2>2, <2>3
      <3>2. s % m = 0
        BY <1>1, <2>2, <3>1, RemainderIs
      <3>. QED
        BY <1>1, <1>2, <1>4, <2>3, <3>2, SessionAssumption DEF Id, Remainder, Ids, k, s, m
    <2>4. CASE k # 0
      <3>1. s = (m * (-q - 1)) + (m - k) /\ m - k \in 0..(m - 1)
        BY <1>1, <1>2, <2>1, <2>2, <2>4 DEF k
      <3>2. s % m = m - k
        BY <1>1, <2>2, <3>1, RemainderIs
      <3>. QED
        BY <1>1, <1>2, <1>4, <2>4, <3>2, SessionAssumption DEF Id, Remainder, Ids, k, s, m
    <2>. QED
      BY <2>3, <2>4
  <1>. QED
    BY <1>1, <1>3, <1>4

-----------------------------------------------------------------------------
(***************************************************************************)
(* Types, and how many draws there are.                                    *)
(***************************************************************************)

\* The threads that have read the clock, and not the sequence.
Clocking == {t \in Threads : login[t] = "clock"}

\* The draws that have read the sequence.
Reads == Cardinality(drawn) + Cardinality(Drawing)

\* The sessions' half of TypeOK.
SessionTypeOK ==
    /\ now \in 0..MaxClock
    /\ sequence \in Numbers
    /\ sessions \in [Users -> SUBSET Ids]
    /\ login \in [Threads -> Stages]
    /\ draw \in [Threads -> Draws]
    /\ added \in [Threads -> BOOLEAN]
    /\ draws \in 0..MaxDraws
    /\ drawn \in SUBSET Draws
    /\ tokens \in SUBSET drawn

\* Draws are counted as they read the sequence, and no two have one number.
CountsOK ==
    /\ IsFiniteSet(drawn)
    /\ Reads + Cardinality(Clocking) <= draws
    /\ \A t \in Threads : login[t] = "sadd" => draw[t] \in drawn
    /\ \A d \in drawn : d.n <= Reads
    /\ \A r \in Drawing : draw[r].n <= Reads /\ \A d \in drawn : d.n # draw[r].n
    /\ \A r, q \in Drawing : r # q => draw[r].n # draw[q].n

\* A step that neither reads nor stores the sequence, and one that reads no clock either.
NumbersKept ==
    /\ UNCHANGED <<sequence, drawn>> /\ Drawing' = Drawing
    /\ \A r \in Drawing : draw'[r] = draw[r]

\* A step that has nothing to do with the draws.
DrawsNothing == NumbersKept /\ UNCHANGED draws /\ Clocking' = Clocking

\* The counts are numbers.
LEMMA Numbered ==
  ASSUME IsFiniteSet(drawn)
  PROVE  /\ IsFiniteSet(Drawing) /\ IsFiniteSet(Clocking)
         /\ Cardinality(drawn) \in Nat /\ Cardinality(Drawing) \in Nat
         /\ Cardinality(Clocking) \in Nat /\ Reads \in Nat
         /\ \A t \in Clocking : Cardinality(Clocking) >= 1
  <1>1. IsFiniteSet(Drawing) /\ IsFiniteSet(Clocking)
    BY PoolAssumption, FS_Subset DEF Drawing, Clocking
  <1>2. /\ Cardinality(drawn) \in Nat /\ Cardinality(Drawing) \in Nat
        /\ Cardinality(Clocking) \in Nat
    BY <1>1, FS_CardinalityType
  <1>3. Cardinality(Clocking) = 0 => Clocking = {}
    BY <1>1, FS_EmptySet
  <1>. QED
    BY <1>1, <1>2, <1>3 DEF Reads

\* The draw of no login.
LEMMA NoDrawType == NoDraw \in Draws
  <1>1. (CHOOSE u \in Users : TRUE) \in Users
    BY SessionAssumption
  <1>2. 0 \in 0..MaxDraws /\ 0 \in 0..MaxClock /\ 0 \in -SeqHalf..(SeqHalf - 1)
    BY SessionAssumption
  <1>. QED
    BY <1>1, <1>2 DEF NoDraw, Draws

\* Only three steps of a login have to do with the draws.
LEMMA DrawSteps ==
  ASSUME SessionTypeOK, [Next]_vars
  PROVE  \/ \E t \in Threads, u \in Users : ReadClock(t, u)
         \/ \E t \in Threads : ReadNumber(t) \/ StoreNumber(t)
         \/ DrawsNothing
  <1>. USE DEF SessionTypeOK, DrawsNothing, NumbersKept
  <1>1. CASE UNCHANGED vars \/ Tick \/ (NetworkStep /\ UNCHANGED sessionVars)
    BY <1>1 DEF vars, sessionVars, Tick, Drawing, Clocking
  <1>2. ASSUME NEW t \in Threads, PoolStep(t) \/ Add(t) PROVE DrawsNothing
    BY <1>2 DEF PoolStep, Add, sessionVars, drawVars, Drawing, Clocking
  <1>3. ASSUME NEW t \in Threads, Throw(t) \/ Answer(t) PROVE DrawsNothing
    BY <1>3 DEF Throw, Answer, Idle, LoginAt, Drawing, Clocking
  <1>. QED
    BY <1>1, <1>2, <1>3 DEF Next, ThreadStep

\* A draw reads the clock.
LEMMA ClockCounts ==
  ASSUME SessionTypeOK, CountsOK, NEW t \in Threads, NEW u \in Users, ReadClock(t, u)
  PROVE  /\ NumbersKept /\ draws' = draws + 1 /\ Reads \in Nat /\ Cardinality(Clocking) \in Nat
         /\ Cardinality(Clocking') = Cardinality(Clocking) + 1
  <1>1. /\ login \in [Threads -> Stages] /\ login[t] = "idle"
        /\ login' = [login EXCEPT ![t] = "clock"]
        /\ UNCHANGED <<sequence, drawn>> /\ draws' = draws + 1
        /\ \A r \in Threads : r # t => draw'[r] = draw[r]
    BY DEF ReadClock, LoginAt, SessionTypeOK
  <1>2. \A r \in Threads : login'[r] = IF r = t THEN "clock" ELSE login[r]
    BY <1>1
  <1>3. Drawing' = Drawing /\ t \notin Drawing
    BY <1>1, <1>2 DEF Drawing
  <1>4. Clocking' = Clocking \cup {t} /\ t \notin Clocking
    BY <1>1, <1>2 DEF Clocking
  <1>5. /\ Cardinality(Clocking) \in Nat /\ Reads \in Nat
        /\ Cardinality(Clocking') = Cardinality(Clocking) + 1
    BY <1>4, Numbered, FS_AddElement DEF CountsOK
  <1>6. NumbersKept
    BY <1>1, <1>3 DEF NumbersKept, Drawing
  <1>. QED
    BY <1>1, <1>5, <1>6

\* A draw reads the sequence.
LEMMA ReadCounts ==
  ASSUME SessionTypeOK, CountsOK, NEW t \in Threads, ReadNumber(t)
  PROVE  /\ Drawing' = Drawing \cup {t} /\ t \notin Drawing
         /\ UNCHANGED <<drawn, draws, sequence>>
         /\ Reads' = Reads + 1 /\ Reads \in Nat
         /\ draw'[t] = [draw[t] EXCEPT !.n = Reads + 1, !.number = sequence,
                                      !.alone = Drawing = {}]
         /\ \A r \in Threads : r # t =>
              draw'[r] = IF r \in Drawing THEN [draw[r] EXCEPT !.alone = FALSE] ELSE draw[r]
         /\ Reads + 1 <= draws
         /\ Reads' + Cardinality(Clocking') <= draws
  <1>1. /\ Drawing' = Drawing \cup {t} /\ t \notin Drawing
        /\ Clocking' = Clocking \ {t} /\ t \in Clocking
        /\ UNCHANGED <<drawn, draws, sequence>>
    <2>1. /\ login \in [Threads -> Stages] /\ login[t] = "clock"
          /\ login' = [login EXCEPT ![t] = "number"]
          /\ UNCHANGED <<drawn, draws, sequence>>
      BY DEF ReadNumber, LoginAt, SessionTypeOK
    <2>2. \A r \in Threads : login'[r] = IF r = t THEN "number" ELSE login[r]
      BY <2>1
    <2>3. Drawing' = Drawing \cup {t} /\ t \notin Drawing
      BY <2>1, <2>2 DEF Drawing
    <2>4. Clocking' = Clocking \ {t} /\ t \in Clocking
      BY <2>1, <2>2 DEF Clocking
    <2>. QED
      BY <2>1, <2>3, <2>4
  <1>2. /\ IsFiniteSet(Drawing) /\ IsFiniteSet(Clocking) /\ Reads \in Nat
        /\ Cardinality(Drawing) \in Nat
        /\ Cardinality(Clocking) \in Nat /\ Cardinality(Clocking) >= 1
        /\ Cardinality(drawn) \in Nat
    BY <1>1, Numbered DEF CountsOK
  <1>3. Cardinality(Drawing') = Cardinality(Drawing) + 1
    BY <1>1, <1>2, FS_AddElement
  <1>4. Cardinality(Clocking') = Cardinality(Clocking) - 1
    BY <1>1, <1>2, FS_RemoveElement
  <1>5. Reads' = Reads + 1
    BY <1>1, <1>2, <1>3 DEF Reads
  <1>6. /\ draw'[t] = [draw[t] EXCEPT !.n = Reads + 1, !.number = sequence, !.alone = Drawing = {}]
        /\ \A r \in Threads : r # t =>
              draw'[r] = IF r \in Drawing THEN [draw[r] EXCEPT !.alone = FALSE] ELSE draw[r]
    BY DEF ReadNumber, Reads
  <1>7. Reads + Cardinality(Clocking) <= draws /\ draws \in Nat
    BY SessionAssumption DEF CountsOK, SessionTypeOK
  <1>8. Reads + 1 <= draws /\ Reads' + Cardinality(Clocking') <= draws
    BY <1>2, <1>4, <1>5, <1>7
  <1>. QED
    BY <1>1, <1>2, <1>5, <1>6, <1>8

\* A draw stores the sequence.
LEMMA StoreCounts ==
  ASSUME SessionTypeOK, CountsOK, NEW t \in Threads, StoreNumber(t)
  PROVE  /\ Drawing' = Drawing \ {t} /\ t \in Drawing
         /\ UNCHANGED <<draw, draws>> /\ Clocking' = Clocking
         /\ drawn' = drawn \cup {draw[t]} /\ draw[t] \notin drawn /\ IsFiniteSet(drawn')
         /\ Cardinality(drawn) \in Nat /\ Cardinality(drawn') = Cardinality(drawn) + 1
         /\ Reads' = Reads /\ Reads \in Nat
         /\ sequence' \in {NextNumber(draw[t].number), NextNumber(sequence)}
  <1>1. /\ Drawing' = Drawing \ {t} /\ t \in Drawing /\ Clocking' = Clocking
        /\ UNCHANGED <<draw, draws>> /\ drawn' = drawn \cup {draw[t]}
        /\ sequence' \in {NextNumber(draw[t].number), NextNumber(sequence)}
    BY DEF StoreNumber, LoginAt, Drawing, Clocking, SessionTypeOK
  <1>2. draw[t] \notin drawn
    BY <1>1 DEF CountsOK
  <1>3. /\ IsFiniteSet(Drawing) /\ IsFiniteSet(drawn) /\ Reads \in Nat
        /\ Cardinality(Drawing) \in Nat /\ Cardinality(drawn) \in Nat
    BY Numbered DEF CountsOK
  <1>4. Cardinality(Drawing') = Cardinality(Drawing) - 1
    BY <1>1, <1>3, FS_RemoveElement
  <1>5. IsFiniteSet(drawn') /\ Cardinality(drawn') = Cardinality(drawn) + 1
    BY <1>1, <1>2, <1>3, FS_AddElement
  <1>6. Reads' = Reads
    BY <1>3, <1>4, <1>5 DEF Reads
  <1>. QED
    BY <1>1, <1>2, <1>3, <1>5, <1>6

\* The types of what logins draw.
LEMMA DrawTypeStep ==
  ASSUME SessionTypeOK, CountsOK, [Next]_vars
  PROVE  /\ sequence' \in Numbers /\ login' \in [Threads -> Stages]
         /\ draw' \in [Threads -> Draws] /\ draws' \in 0..MaxDraws /\ drawn' \in SUBSET Draws
  <1>. USE DEF SessionTypeOK
  <1>1. CASE UNCHANGED vars \/ Tick \/ (NetworkStep /\ UNCHANGED sessionVars)
    BY <1>1 DEF vars, sessionVars, Tick
  <1>2. ASSUME NEW t \in Threads, PoolStep(t) \/ Add(t)
        PROVE  UNCHANGED <<login, sequence, draw, draws, drawn>>
    BY <1>2 DEF PoolStep, Add, sessionVars, drawVars
  <1>3. ASSUME NEW t \in Threads, Throw(t) \/ Answer(t)
        PROVE  /\ UNCHANGED <<sequence, draws, drawn>>
               /\ login' \in [Threads -> Stages] /\ draw' \in [Threads -> Draws]
    BY <1>3, NoDrawType DEF Throw, Answer, Idle, LoginAt, Stages
  <1>4. ASSUME NEW t \in Threads, NEW u \in Users, ReadClock(t, u)
        PROVE  /\ UNCHANGED <<sequence, drawn>> /\ draws' \in 0..MaxDraws
               /\ login' \in [Threads -> Stages] /\ draw' \in [Threads -> Draws]
    <2>1. [NoDraw EXCEPT !.user = u, !.time = now] \in Draws
      BY NoDrawType DEF Draws
    <2>2. draws' \in 0..MaxDraws
      BY <1>4, SessionAssumption DEF ReadClock
    <2>. QED
      BY <1>4, <2>1, <2>2 DEF ReadClock, LoginAt, Stages
  <1>5. ASSUME NEW t \in Threads, ReadNumber(t)
        PROVE  /\ UNCHANGED <<sequence, drawn, draws>>
               /\ login' \in [Threads -> Stages] /\ draw' \in [Threads -> Draws]
    <2>1. Reads + 1 \in 0..MaxDraws
      <3>1. Reads + 1 <= draws /\ Reads \in Nat
        BY <1>5, ReadCounts
      <3>. QED
        BY <3>1, SessionAssumption
    <2>2. [draw[t] EXCEPT !.n = Reads + 1, !.number = sequence, !.alone = Drawing = {}] \in Draws
      BY <2>1 DEF Draws, Numbers
    <2>3. \A r \in Threads : [draw[r] EXCEPT !.alone = FALSE] \in Draws
      BY DEF Draws
    <2>4. ASSUME NEW r \in Threads PROVE draw'[r] \in Draws
      <3>1. \/ draw'[r] = [draw[t] EXCEPT !.n = Reads + 1, !.number = sequence,
                                        !.alone = Drawing = {}]
            \/ draw'[r] = [draw[r] EXCEPT !.alone = FALSE]
            \/ draw'[r] = draw[r]
        BY <1>5 DEF ReadNumber, Reads
      <3>. QED
        BY <2>2, <2>3, <3>1
    <2>5. DOMAIN draw' = Threads /\ draw' = [r \in Threads |-> draw'[r]]
      BY <1>5 DEF ReadNumber
    <2>. QED
      BY <1>5, <2>4, <2>5 DEF ReadNumber, LoginAt, Stages
  <1>6. ASSUME NEW t \in Threads, StoreNumber(t)
        PROVE  /\ UNCHANGED <<draw, draws>> /\ sequence' \in Numbers /\ drawn' \in SUBSET Draws
               /\ login' \in [Threads -> Stages]
    <2>1. draw[t].number \in Numbers
      BY DEF Draws, Numbers
    <2>2. sequence' \in Numbers
      BY <1>6, <2>1, StoreCounts, NextIs
    <2>. QED
      BY <1>6, <2>2 DEF StoreNumber, LoginAt, Stages
  <1>. QED
    BY <1>1, <1>2, <1>3, <1>4, <1>5, <1>6 DEF Next, ThreadStep

\* The types of the rest.
LEMMA SessionTypeStep ==
  ASSUME SessionTypeOK, CountsOK, [Next]_vars
  PROVE  SessionTypeOK'
  <1>1. SessionTypeOK
    OBVIOUS
  <1>2. drawn \subseteq drawn'
    <2>1. ASSUME NEW t \in Threads, StoreNumber(t) PROVE drawn \subseteq drawn'
      BY <2>1 DEF StoreNumber
    <2>2. ASSUME NEW t \in Threads, ReadNumber(t) \/ \E u \in Users : ReadClock(t, u)
          PROVE drawn' = drawn
      BY <2>2 DEF ReadNumber, ReadClock
    <2>. QED
      BY <2>1, <2>2, DrawSteps DEF DrawsNothing, NumbersKept
  <1>3. now' \in 0..MaxClock
    <2>1. CASE Tick
      BY <2>1, SessionAssumption DEF Tick, SessionTypeOK
    <2>2. CASE ~Tick
      BY <2>2
         DEF Next, ThreadStep, ReadNumber, StoreNumber, ReadClock, PoolStep, Add, Throw,
             Answer, Idle,
         drawVars, sessionVars, vars, SessionTypeOK
    <2>. QED
      BY <2>1, <2>2
  <1>4. /\ sessions' \in [Users -> SUBSET Ids] /\ added' \in [Threads -> BOOLEAN]
        /\ tokens' \in SUBSET drawn'
    <2>1. CASE UNCHANGED vars \/ Tick \/ (NetworkStep /\ UNCHANGED sessionVars)
      BY <1>2, <2>1 DEF vars, sessionVars, Tick, SessionTypeOK
    <2>2. ASSUME NEW t \in Threads,
                 \/ PoolStep(t) \/ ReadNumber(t) \/ StoreNumber(t)
                 \/ \E u \in Users : ReadClock(t, u)
          PROVE  UNCHANGED <<sessions, added, tokens>>
      BY <2>2 DEF PoolStep, ReadNumber, StoreNumber, ReadClock, sessionVars
    <2>3. ASSUME NEW t \in Threads, Throw(t) \/ Answer(t)
          PROVE  /\ sessions' = sessions /\ added' \in [Threads -> BOOLEAN]
                 /\ tokens' \in SUBSET drawn'
      <3>1. draw[t] \in drawn
        BY <2>3 DEF Throw, Answer, Idle, LoginAt, CountsOK
      <3>2. tokens' \subseteq tokens \cup {draw[t]}
        BY <2>3 DEF Throw, Answer
      <3>. QED
        BY <1>2, <2>3, <3>1, <3>2 DEF Throw, Answer, Idle, SessionTypeOK
    <2>4. ASSUME NEW t \in Threads, Add(t)
          PROVE  /\ sessions' \in [Users -> SUBSET Ids] /\ added' \in [Threads -> BOOLEAN]
                 /\ tokens' = tokens
      <3>1. draw[t].number \in Numbers /\ draw[t].time \in Nat /\ draw[t].user \in Users
        BY SessionAssumption DEF SessionTypeOK, Draws, Numbers
      <3>2. Id(draw[t]) \in Ids
        BY <3>1, IdRemainder
      <3>. QED
        BY <2>4, <3>1, <3>2 DEF Add, SessionTypeOK
    <2>. QED
      BY <1>2, <2>1, <2>2, <2>3, <2>4 DEF Next, ThreadStep, SessionTypeOK
  <1>. QED
    BY <1>3, <1>4, DrawTypeStep DEF SessionTypeOK

\* The draws keep their numbers.
LEMMA CountsStep ==
  ASSUME SessionTypeOK, CountsOK, [Next]_vars
  PROVE  CountsOK'
  <1>1. SessionTypeOK'
    BY SessionTypeStep
  <1>2. \A t \in Threads : login'[t] = "sadd" => draw'[t] \in drawn'
    <2>1. ASSUME NEW t \in Threads, StoreNumber(t)
          PROVE  \A r \in Threads : login'[r] = "sadd" => draw'[r] \in drawn'
      BY <2>1, StoreCounts DEF StoreNumber, LoginAt, CountsOK, SessionTypeOK
    <2>2. ASSUME NEW t \in Threads, ReadNumber(t)
          PROVE  \A r \in Threads : login'[r] = "sadd" => draw'[r] \in drawn'
      BY <2>2 DEF ReadNumber, LoginAt, CountsOK, SessionTypeOK, Drawing
    <2>3. ASSUME NEW t \in Threads, Throw(t) \/ Answer(t) \/ \E u \in Users : ReadClock(t, u)
          PROVE \A r \in Threads : login'[r] = "sadd" => draw'[r] \in drawn'
      BY <2>3 DEF Throw, Answer, Idle, ReadClock, LoginAt, CountsOK, SessionTypeOK
    <2>4. ASSUME UNCHANGED <<login, draw, drawn>>
          PROVE  \A r \in Threads : login'[r] = "sadd" => draw'[r] \in drawn'
      BY <2>4 DEF CountsOK
    <2>5. \/ UNCHANGED <<login, draw, drawn>>
          \/ \E t \in Threads : StoreNumber(t) \/ ReadNumber(t) \/ Throw(t) \/ Answer(t)
                               \/ \E u \in Users : ReadClock(t, u)
      BY DEF Next, ThreadStep, Tick, PoolStep, Add, vars, sessionVars, drawVars
    <2>. QED
      BY <2>1, <2>2, <2>3, <2>4, <2>5
  <1>. DEFINE Numbering ==
                /\ \A d \in drawn : d.n <= Reads
                /\ \A r \in Drawing : draw[r].n <= Reads /\ \A d \in drawn : d.n # draw[r].n
                /\ \A r, q \in Drawing : r # q => draw[r].n # draw[q].n
  <1>3. /\ Numbering /\ draws \in Nat /\ \A d \in Draws : d.n \in Int
        /\ drawn \subseteq Draws /\ Drawing \subseteq Threads
        /\ \A r \in Threads : draw[r] \in Draws
    BY SessionAssumption DEF CountsOK, SessionTypeOK, Draws, Drawing
  <1>4. CASE DrawsNothing
    <2>1. Reads' = Reads /\ Clocking' = Clocking
      BY <1>4 DEF DrawsNothing, NumbersKept, Reads
    <2>. QED
      BY <1>2, <1>4, <2>1 DEF DrawsNothing, NumbersKept, CountsOK
  <1>5. ASSUME NEW t \in Threads, ReadNumber(t) PROVE CountsOK'
    <2>1. /\ Drawing' = Drawing \cup {t} /\ t \notin Drawing /\ drawn' = drawn /\ draws' = draws
          /\ Reads' = Reads + 1 /\ Reads \in Nat /\ Reads' + Cardinality(Clocking') <= draws
      BY <1>5, ReadCounts
    <2>2. draw'[t].n = Reads + 1 /\ \A r \in Drawing : draw'[r].n = draw[r].n
      <3>1. draw'[t] = [draw[t] EXCEPT !.n = Reads + 1, !.number = sequence, !.alone = Drawing = {}]
        BY <1>5, ReadCounts
      <3>2. \A r \in Drawing : draw'[r] = [draw[r] EXCEPT !.alone = FALSE]
        BY <1>3, <1>5, <2>1, ReadCounts
      <3>3. draw[t] \in Draws /\ \A r \in Drawing : draw[r] \in Draws
        BY <1>3
      <3>. QED
        BY <3>1, <3>2, <3>3 DEF Draws
    <2>3. Numbering'
      BY <1>3, <2>1, <2>2
    <2>. QED
      BY <1>2, <2>1, <2>3 DEF CountsOK
  <1>6. ASSUME NEW t \in Threads, StoreNumber(t) PROVE CountsOK'
    <2>1. /\ Drawing' = Drawing \ {t} /\ t \in Drawing /\ draw' = draw /\ draws' = draws
          /\ Clocking' = Clocking /\ drawn' = drawn \cup {draw[t]} /\ IsFiniteSet(drawn')
          /\ Reads' = Reads
      BY <1>6, StoreCounts
    <2>2. Numbering'
      BY <1>3, <2>1
    <2>. QED
      BY <1>2, <2>1, <2>2 DEF CountsOK
  <1>7. ASSUME NEW t \in Threads, NEW u \in Users, ReadClock(t, u) PROVE CountsOK'
    <2>1. /\ NumbersKept /\ draws' = draws + 1 /\ Reads \in Nat /\ Cardinality(Clocking) \in Nat
          /\ Cardinality(Clocking') = Cardinality(Clocking) + 1
      BY <1>7, ClockCounts
    <2>2. Reads' = Reads
      BY <2>1 DEF NumbersKept, Reads
    <2>3. Reads' + Cardinality(Clocking') <= draws'
      BY <1>3, <2>1, <2>2 DEF CountsOK
    <2>4. Numbering'
      BY <1>3, <2>1, <2>2 DEF NumbersKept
    <2>. QED
      BY <1>2, <2>1, <2>3, <2>4 DEF CountsOK, NumbersKept
  <1>. QED
    BY <1>4, <1>5, <1>6, <1>7, DrawSteps

\* Nobody has drawn.
LEMMA SessionInit == Init => SessionTypeOK /\ CountsOK
  <1>. SUFFICES ASSUME Init PROVE SessionTypeOK /\ CountsOK
    OBVIOUS
  <1>1. /\ 0 \in 0..MaxDraws /\ 0 \in 0..MaxClock /\ 0 \in Numbers
        /\ NoDraw \in Draws
    BY NoDrawType, SessionAssumption DEF Numbers
  <1>2. SessionTypeOK
    BY <1>1 DEF Init, SessionTypeOK, Stages
  <1>3. Drawing = {} /\ Clocking = {} /\ drawn = {} /\ draws = 0
    BY DEF Init, Drawing, Clocking
  <1>4. IsFiniteSet({}) /\ Cardinality({}) = 0
    BY FS_EmptySet
  <1>5. Reads = 0
    BY <1>3, <1>4 DEF Reads
  <1>6. \A t \in Threads : login[t] = "idle"
    BY DEF Init
  <1>. QED
    BY <1>2, <1>3, <1>4, <1>5, <1>6 DEF CountsOK

\* What create_jwt keeps, and every id it draws, is of its type, for any number of
\* threads, users and draws, and whatever SeqMod, SeqHalf and ClockMod are, as long as
\* SeqMod divides SeqHalf.
THEOREM TypesCorrect == Spec => []TypeOK
  <1>1. Init => IInv /\ SessionTypeOK /\ CountsOK
    BY InvInit, SessionInit DEF Init
  <1>2. IInv /\ SessionTypeOK /\ CountsOK /\ [Next]_vars => (IInv /\ SessionTypeOK /\ CountsOK)'
    BY StepsOfThePool, InvStep, SessionTypeStep, CountsStep
  <1>3. IInv /\ SessionTypeOK => TypeOK
    BY DEF IInv, SessionTypeOK, TypeOK, Numbers
  <1>. QED
    BY <1>1, <1>2, <1>3, PTL DEF Spec

-----------------------------------------------------------------------------
(***************************************************************************)
(* How far the sequence gets.  Other draws may set it back, but not behind  *)
(* a draw that nobody overlapped, and each takes it one further at most.    *)
(***************************************************************************)

\* The number x is 1 to k further than a's, unless k has come round.
Within(x, k, a) == k >= SeqMod \/ (x - a.number) % SeqMod \in 1..k

\* The draws since a that are stored, and the next.
Since(a) == Cardinality(drawn) + 1 - a.n

\* A draw nobody has overlapped so far has the sequence for itself.
AloneOK ==
    \A r \in Drawing : draw[r].alone =>
        Drawing = {r} /\ draw[r].n = Cardinality(drawn) + 1 /\ draw[r].number = sequence

\* After a draw nobody overlapped: where the sequence is, and the draws are.
DistanceOK ==
    \A a \in drawn : a.alone =>
        /\ Within(sequence, Since(a), a)
        /\ \A r \in Drawing :
             /\ Within(draw[r].number, Since(a), a)
             /\ draw[r].n > a.n /\ Within(draw[r].number, draw[r].n - a.n, a)
        /\ \A b \in drawn : a.n < b.n => Within(b.number, b.n - a.n, a)

\* A number that is within k is within more.
LEMMA WithinMore ==
  ASSUME NEW x \in Numbers, NEW k \in Int, NEW l \in Int, k <= l, NEW a \in Draws, Within(x, k, a)
  PROVE  Within(x, l, a)
  <1>. DEFINE d == x - a.number
  <1>1. d \in Int /\ SeqMod \in Nat \ {0}
    BY SessionAssumption DEF Numbers, Draws
  <1>2. d % SeqMod \in 0..(SeqMod - 1)
    <2>. HIDE DEF d
    <2>. QED
      BY <1>1, Divided
  <1>. QED
    BY <1>1, <1>2 DEF Within

\* The next number is within one more.
LEMMA WithinNext ==
  ASSUME NEW x \in Numbers, NEW k \in Int, NEW a \in Draws, Within(x, k, a)
  PROVE  Within(NextNumber(x), k + 1, a)
  <1>. DEFINE d == x - a.number
              m == SeqMod
  <1>1. /\ d \in Int /\ m \in Nat \ {0} /\ a.number \in Int /\ x \in Int
        /\ SeqHalf \in Int /\ SeqHalf % m = 0 /\ d + 1 \in Int
    BY SessionAssumption DEF Numbers, Draws
  <1>2. NextNumber(x) - a.number \in {d + 1, (d + 1) - (2 * SeqHalf)}
    BY <1>1, NextIs
  <1>3. (NextNumber(x) - a.number) % m = (d + 1) % m
    <2>1. ((d + 1) - (2 * SeqHalf)) % m = (d + 1) % m
      <3>. DEFINE e == d + 1
      <3>1. e \in Int
        BY <1>1
      <3>. HIDE DEF e
      <3>2. (e - (2 * SeqHalf)) % m = e % m
        BY <1>1, <3>1, RemainderWraps
      <3>. QED
        BY <3>2 DEF e
    <2>. QED
      BY <1>2, <2>1
  <1>4. d % m \in 0..(m - 1)
    <2>. HIDE DEF d, m
    <2>. QED
      BY <1>1, Divided
  <1>5. CASE k + 1 >= m
    BY <1>5 DEF Within
  <1>6. CASE ~(k + 1 >= m)
    <2>1. d % m \in 1..k
      BY <1>1, <1>6 DEF Within
    <2>2. (d + 1) % m = (d % m) + 1
      <3>1. (d % m) + 1 < m
        BY <1>1, <1>4, <1>6, <2>1
      <3>. HIDE DEF d, m
      <3>. QED
        BY <1>1, <3>1, RemainderNext
    <2>. QED
      BY <1>3, <1>4, <2>1, <2>2 DEF Within
  <1>. QED
    BY <1>5, <1>6

\* A number that is within k, and k has not come round, is another remainder.
LEMMA WithinDiffers ==
  ASSUME NEW a \in Draws, NEW b \in Draws, NEW k \in Int, k < SeqMod, Within(b.number, k, a)
  PROVE  Id(a) # Id(b)
  <1>1. /\ a.number \in Numbers /\ b.number \in Numbers /\ a.number \in Int /\ b.number \in Int
        /\ a.time \in Nat /\ b.time \in Nat /\ SeqMod \in Nat \ {0}
    BY SessionAssumption DEF Draws, Numbers
  <1>2. (b.number - a.number) % SeqMod # 0
    BY <1>1 DEF Within
  <1>3. a.number % SeqMod # b.number % SeqMod
    <2>. DEFINE x == a.number
                y == b.number
                m == SeqMod
    <2>. SUFFICES ASSUME x % m = y % m PROVE (y - x) % m = 0
      BY <1>2
    <2>1. x \in Int /\ y \in Int /\ m \in Nat \ {0}
      BY <1>1
    <2>. HIDE DEF x, y, m
    <2>. QED
      BY <2>1
  <1>4. Id(a)[2] = a.number % SeqMod /\ Id(b)[2] = b.number % SeqMod
    BY <1>1, IdRemainder
  <1>. QED
    BY <1>3, <1>4

\* The number after a's own is within 1.
LEMMA WithinFirst ==
  ASSUME NEW a \in Draws
  PROVE  Within(NextNumber(a.number), 1, a)
  <1>. DEFINE s == a.number
              m == SeqMod
  <1>1. /\ s \in Numbers /\ s \in Int /\ m \in Nat \ {0} /\ 1 \in Int
        /\ SeqHalf \in Int /\ SeqHalf % m = 0
    BY SessionAssumption DEF Numbers, Draws
  <1>2. NextNumber(s) - s \in {1, 1 - (2 * SeqHalf)}
    BY <1>1, NextIs
  <1>3. (1 - (2 * SeqHalf)) % m = 1 % m
    BY <1>1, RemainderWraps
  <1>4. m > 1 => 1 % m = 1
    BY <1>1
  <1>. QED
    BY <1>1, <1>2, <1>3, <1>4 DEF Within

\* Who reads the sequence later is there when the draw that was alone ends, and ends
\* its being alone.
LEMMA AloneStep ==
  ASSUME SessionTypeOK, CountsOK, AloneOK, [Next]_vars
  PROVE  AloneOK'
  <1>1. CASE NumbersKept
    BY <1>1 DEF NumbersKept, AloneOK
  <1>2. ASSUME NEW t \in Threads, ReadNumber(t) PROVE AloneOK'
    <2>1. /\ Drawing' = Drawing \cup {t} /\ t \notin Drawing
          /\ drawn' = drawn /\ sequence' = sequence
          /\ draw'[t] = [draw[t] EXCEPT !.n = Reads + 1, !.number = sequence,
                                        !.alone = Drawing = {}]
          /\ \A r \in Drawing : draw'[r] = [draw[r] EXCEPT !.alone = FALSE]
      BY <1>2, ReadCounts DEF Drawing
    <2>2. draw[t] \in Draws /\ \A r \in Drawing : draw[r] \in Draws
      BY DEF SessionTypeOK, Drawing
    <2>3. \A r \in Drawing : ~draw'[r].alone
      BY <2>1, <2>2 DEF Draws
    <2>4. /\ draw'[t].n = Reads + 1 /\ draw'[t].number = sequence
          /\ draw'[t].alone => Drawing = {}
      BY <2>1, <2>2 DEF Draws
    <2>5. Drawing = {} => Reads = Cardinality(drawn)
      <3>1. Cardinality(drawn) \in Nat
        BY Numbered DEF CountsOK
      <3>. QED
        BY <3>1, FS_EmptySet DEF Reads
    <2>. QED
      BY <2>1, <2>3, <2>4, <2>5 DEF AloneOK
  <1>3. ASSUME NEW t \in Threads, StoreNumber(t) PROVE AloneOK'
    <2>1. Drawing' = Drawing \ {t} /\ t \in Drawing /\ draw' = draw
      BY <1>3, StoreCounts
    <2>. QED
      BY <2>1 DEF AloneOK
  <1>. QED
    BY <1>1, <1>2, <1>3, DrawSteps, ClockCounts DEF DrawsNothing

\* Reading gives a draw the sequence, which is within reach of every draw before that
\* nobody overlapped; storing moves it by one from where it is, or from where the draw
\* read it, which is within reach as well.
LEMMA DistanceStep ==
  ASSUME SessionTypeOK, CountsOK, AloneOK, DistanceOK, [Next]_vars
  PROVE  DistanceOK'
  <1>1. /\ \A d \in Draws : d.n \in Int /\ d.number \in Numbers
        /\ drawn \subseteq Draws /\ \A r \in Drawing : draw[r] \in Draws
        /\ sequence \in Numbers /\ Cardinality(drawn) \in Nat /\ Cardinality(Drawing) \in Nat
        /\ Reads = Cardinality(drawn) + Cardinality(Drawing)
    BY SessionAssumption, Numbered DEF SessionTypeOK, Draws, Numbers, Drawing, CountsOK, Reads
  <1>2. CASE NumbersKept
    BY <1>2 DEF NumbersKept, DistanceOK, Since
  <1>3. ASSUME NEW t \in Threads, ReadNumber(t) PROVE DistanceOK'
    <2>1. /\ Drawing' = Drawing \cup {t} /\ t \notin Drawing
          /\ drawn' = drawn /\ sequence' = sequence
          /\ draw'[t] = [draw[t] EXCEPT !.n = Reads + 1, !.number = sequence,
                                        !.alone = Drawing = {}]
          /\ \A r \in Drawing : draw'[r] = [draw[r] EXCEPT !.alone = FALSE]
      BY <1>3, ReadCounts DEF Drawing
    <2>2. draw[t] \in Draws
      BY DEF SessionTypeOK
    <2>3. /\ draw'[t].n = Reads + 1 /\ draw'[t].number = sequence
          /\ \A r \in Drawing : draw'[r].n = draw[r].n /\ draw'[r].number = draw[r].number
      <3>1. draw'[t].n = Reads + 1 /\ draw'[t].number = sequence
        BY <2>1, <2>2 DEF Draws
      <3>2. ASSUME NEW r \in Drawing
            PROVE  draw'[r].n = draw[r].n /\ draw'[r].number = draw[r].number
        <4>1. draw[r] \in Draws /\ draw'[r] = [draw[r] EXCEPT !.alone = FALSE]
          BY <1>1, <2>1
        <4>. QED
          BY <4>1 DEF Draws
      <3>. QED
        BY <3>1, <3>2
    <2>4. ASSUME NEW a \in drawn, a.alone
          PROVE  Reads + 1 > a.n /\ Within(sequence, (Reads + 1) - a.n, a)
      <3>1. /\ Since(a) <= (Reads + 1) - a.n /\ Reads + 1 > a.n
            /\ Since(a) \in Int /\ (Reads + 1) - a.n \in Int
        BY <1>1 DEF Since, CountsOK
      <3>2. Within(sequence, Since(a), a)
        BY <2>4 DEF DistanceOK
      <3>. QED
        BY <1>1, <3>1, <3>2, WithinMore
    <2>5. \A a : Since(a)' = Since(a)
      BY <2>1 DEF Since
    <2>6. ASSUME NEW a \in drawn, a.alone, NEW r \in Drawing'
          PROVE  /\ Within(draw'[r].number, Since(a), a)
                 /\ draw'[r].n > a.n /\ Within(draw'[r].number, draw'[r].n - a.n, a)
      <3>1. CASE r = t
        <4>1. /\ Within(sequence, Since(a), a) /\ Within(sequence, (Reads + 1) - a.n, a)
              /\ Reads + 1 > a.n
          BY <2>4, <2>6 DEF DistanceOK
        <4>2. draw'[r].n = Reads + 1 /\ draw'[r].number = sequence
          BY <2>3, <3>1
        <4>3. draw'[r].n - a.n = (Reads + 1) - a.n
          BY <4>2
        <4>4. Within(draw'[r].number, Since(a), a)
          BY <4>1, <4>2, Zenon
        <4>5. Within(draw'[r].number, draw'[r].n - a.n, a)
          BY <4>1, <4>2, <4>3, Zenon
        <4>6. draw'[r].n > a.n
          BY <4>1, <4>2, Zenon
        <4>. QED
          BY <4>4, <4>5, <4>6
      <3>2. CASE r \in Drawing
        BY <2>3, <2>6, <3>2 DEF DistanceOK
      <3>. QED
        BY <2>1, <3>1, <3>2
    <2>7. \A x, k, a : Within(x, k, a)' <=> Within(x, k, a)
      BY DEF Within
    <2>. QED
      BY <2>1, <2>5, <2>6, <2>7 DEF DistanceOK
  <1>4. ASSUME NEW t \in Threads, StoreNumber(t) PROVE DistanceOK'
    <2>. DEFINE d == draw[t]
    <2>1. /\ Drawing' = Drawing \ {t} /\ t \in Drawing /\ draw' = draw
          /\ drawn' = drawn \cup {d} /\ Cardinality(drawn') = Cardinality(drawn) + 1
          /\ sequence' \in {NextNumber(d.number), NextNumber(sequence)}
      BY <1>4, StoreCounts
    <2>2. d \in Draws /\ d.number \in Numbers /\ sequence' \in Numbers
      BY <1>1, <2>1, NextIs
    <2>3. ASSUME NEW a \in drawn, a.alone
          PROVE  /\ Within(sequence', Since(a)', a)
                 /\ \A r \in Drawing' : Within(draw[r].number, Since(a)', a)
                 /\ a.n < d.n => Within(d.number, d.n - a.n, a)
      <3>1. /\ Since(a) \in Int /\ Since(a) + 1 \in Int /\ Since(a)' = Since(a) + 1
            /\ Since(a) <= Since(a) + 1 /\ a \in Draws
        BY <1>1, <2>1 DEF Since
      <3>2. /\ Within(sequence, Since(a), a) /\ Within(d.number, Since(a), a)
            /\ Within(d.number, d.n - a.n, a)
            /\ \A r \in Drawing : Within(draw[r].number, Since(a), a)
        BY <2>1, <2>3 DEF DistanceOK
      <3>3. Within(sequence', Since(a) + 1, a)
        BY <1>1, <2>1, <2>2, <3>1, <3>2, WithinNext
      <3>4. \A r \in Drawing : Within(draw[r].number, Since(a) + 1, a)
        BY <1>1, <3>1, <3>2, WithinMore
      <3>. QED
        BY <2>1, <3>1, <3>2, <3>3, <3>4
    <2>4. ASSUME d.alone
          PROVE  /\ Drawing' = {} /\ Within(sequence', Since(d)', d)
                 /\ \A b \in drawn' : ~(d.n < b.n)
      <3>1. Drawing = {t} /\ d.n = Cardinality(drawn) + 1 /\ d.number = sequence
        BY <2>1, <2>4 DEF AloneOK
      <3>2. Since(d)' = 1
        BY <1>1, <2>1, <3>1 DEF Since
      <3>3. Within(sequence', 1, d)
        BY <2>1, <2>2, <3>1, WithinFirst
      <3>4. Reads = Cardinality(drawn) + 1
        BY <1>1, <3>1, FS_Singleton
      <3>5. \A b \in drawn : b.n <= Reads
        BY DEF CountsOK
      <3>6. \A b \in drawn' : ~(d.n < b.n)
        <4>1. d.n \in Int /\ d.n = Reads /\ \A b \in drawn : b.n \in Int
          BY <1>1, <2>2, <3>1, <3>4
        <4>2. \A b \in drawn : ~(d.n < b.n)
          BY <3>5, <4>1
        <4>3. ~(d.n < d.n)
          BY <4>1
        <4>. QED
          BY <2>1, <4>2, <4>3, Zenon
      <3>7. Drawing' = {}
        BY <2>1, <3>1
      <3>. QED
        BY <3>2, <3>3, <3>6, <3>7
    <2>5. \A x, k, a : Within(x, k, a)' <=> Within(x, k, a)
      BY DEF Within
    <2>6. \A a \in drawn, b \in drawn : a.alone /\ a.n < b.n => Within(b.number, b.n - a.n, a)
      BY DEF DistanceOK
    <2>7. \A a \in drawn, r \in Drawing :
            a.alone => draw[r].n > a.n /\ Within(draw[r].number, draw[r].n - a.n, a)
      BY DEF DistanceOK
    <2>. QED
      BY <2>1, <2>3, <2>4, <2>5, <2>6, <2>7 DEF DistanceOK
  <1>. QED
    BY <1>2, <1>3, <1>4, DrawSteps, ClockCounts DEF DrawsNothing

\* generateId has no lock: a draw that no other overlapped still differs from each of
\* the 1023 draws after it, those that overlap included.
THEOREM AloneDiffer == Spec => []AloneDrawsDiffer
  <1>1. Init => SessionTypeOK /\ CountsOK /\ AloneOK /\ DistanceOK
    BY SessionInit DEF Init, AloneOK, DistanceOK, Drawing
  <1>2. SessionTypeOK /\ CountsOK /\ AloneOK /\ DistanceOK /\ [Next]_vars =>
          (SessionTypeOK /\ CountsOK /\ AloneOK /\ DistanceOK)'
    BY SessionTypeStep, CountsStep, AloneStep, DistanceStep
  <1>3. SessionTypeOK /\ DistanceOK => AloneDrawsDiffer
    <2>. SUFFICES ASSUME SessionTypeOK, DistanceOK, NEW a \in drawn, NEW b \in drawn,
                         a.alone, a.n < b.n, b.n - a.n < SeqMod
                  PROVE  Id(a) # Id(b)
      BY DEF AloneDrawsDiffer
    <2>1. a \in Draws /\ b \in Draws /\ b.n - a.n \in Int
      BY SessionAssumption DEF SessionTypeOK, Draws
    <2>2. Within(b.number, b.n - a.n, a)
      BY DEF DistanceOK
    <2>. QED
      BY <2>1, <2>2, WithinDiffers
  <1>. QED
    BY <1>1, <1>2, <1>3, PTL DEF Spec

-----------------------------------------------------------------------------
(***************************************************************************)
(* Sessions without a token.                                               *)
(***************************************************************************)

\* The sessions there are, and the threads that have added one and not answered yet.
Kept == {s \in Users \X Ids : s[2] \in sessions[s[1]]}
Adding == {t \in Threads : added[t]}

\* A session that is not a token's belongs to a login that will answer, or to a failure.
OrphanInv ==
    /\ IsFiniteSet(tokens) /\ IsFiniteSet(Kept)
    /\ \A t \in Threads : added[t] => call[t] \in {"reply", "put"}
    /\ SessionCount <= Cardinality(tokens) + Cardinality(Adding) + failures

\* The counts are numbers.
LEMMA OrphanCounts ==
  ASSUME IInv, OrphanInv
  PROVE  /\ Cardinality(tokens) \in Nat /\ Cardinality(Kept) \in Nat
         /\ IsFiniteSet(Adding) /\ Cardinality(Adding) \in Nat /\ failures \in Nat
         /\ SessionCount = Cardinality(Kept)
  <1>1. IsFiniteSet(Adding)
    <2>1. IsFiniteSet(Threads) /\ Adding \subseteq Threads
      BY PoolAssumption DEF Adding
    <2>. QED
      BY <2>1, FS_Subset
  <1>2. failures \in Nat
    BY DEF IInv, PoolTypeOK
  <1>3. IsFiniteSet(tokens) /\ IsFiniteSet(Kept)
    BY DEF OrphanInv
  <1>4. SessionCount = Cardinality(Kept)
    BY DEF SessionCount, Kept
  <1>. QED
    BY <1>1, <1>2, <1>3, <1>4, FS_CardinalityType

\* No session yet.
LEMMA OrphanInit == Init => OrphanInv
  <1>. SUFFICES ASSUME Init PROVE OrphanInv
    OBVIOUS
  <1>1. tokens = {} /\ failures = 0 /\ \A t \in Threads : ~added[t]
    BY DEF Init, PoolInit
  <1>2. Kept = {} /\ Adding = {}
    BY <1>1 DEF Init, Kept, Adding
  <1>3. SessionCount = Cardinality(Kept)
    BY DEF SessionCount, Kept
  <1>4. IsFiniteSet({}) /\ Cardinality({}) = 0
    BY FS_EmptySet
  <1>. QED
    BY <1>1, <1>2, <1>3, <1>4 DEF OrphanInv

\* A step that leaves the sessions and the tokens alone, and has no failure.
LEMMA OrphanQuiet ==
  ASSUME OrphanInv, UNCHANGED <<added, sessions, tokens, failures>>,
         \A t \in Threads : added[t] => call'[t] \in {"reply", "put"}
  PROVE  OrphanInv'
  BY DEF OrphanInv, Kept, Adding, SessionCount

\* SADD adds one session and one thread that has added one, or neither.
LEMMA OrphanAdd ==
  ASSUME IInv, SessionTypeOK, TInv, OrphanInv, NEW t \in Threads, Add(t)
  PROVE  OrphanInv'
  <1>. DEFINE d == draw[t]
              k == <<d.user, Id(d)>>
  <1>1. /\ added' = [added EXCEPT ![t] = Id(d) \notin sessions[d.user]]
        /\ sessions' = [sessions EXCEPT ![d.user] = @ \cup {Id(d)}]
        /\ tokens' = tokens /\ failures' = failures
        /\ call[t] = "run" /\ call' = [call EXCEPT ![t] = "reply"]
    BY DEF Add, Run, CallAt
  <1>2. d \in Draws /\ d.user \in Users /\ Id(d) \in Ids
    <2>1. d \in Draws
      BY DEF SessionTypeOK
    <2>2. d.user \in Users /\ d.number \in Numbers /\ d.time \in Nat
      BY <2>1, SessionAssumption DEF Draws, Numbers
    <2>. QED
      BY <2>1, <2>2, IdRemainder
  <1>3. DOMAIN added = Threads /\ DOMAIN sessions = Users /\ DOMAIN call = Threads
    BY DEF TInv, Shape
  <1>4. ~added[t] /\ t \notin Adding
    BY <1>1 DEF OrphanInv, Adding
  <1>5. \A u \in Users : sessions'[u] = IF u = d.user THEN sessions[u] \cup {Id(d)} ELSE sessions[u]
    BY <1>1, <1>2, <1>3
  <1>6. Kept' = Kept \cup {k}
    <2>1. \A s \in Users \X Ids :
            s[2] \in sessions'[s[1]] <=> s[2] \in sessions[s[1]] \/ s = k
      <3>. SUFFICES ASSUME NEW s \in Users \X Ids
                    PROVE  s[2] \in sessions'[s[1]] <=> s[2] \in sessions[s[1]] \/ s = k
        OBVIOUS
      <3>1. s[1] \in Users /\ s[2] \in Ids /\ s = <<s[1], s[2]>>
        OBVIOUS
      <3>2. s = k <=> s[1] = d.user /\ s[2] = Id(d)
        BY <3>1
      <3>3. CASE s[1] = d.user
        BY <1>5, <3>1, <3>2, <3>3
      <3>4. CASE s[1] # d.user
        BY <1>5, <3>1, <3>2, <3>4
      <3>. QED
        BY <3>3, <3>4
    <2>2. k \in Users \X Ids
      BY <1>2
    <2>. QED
      BY <2>1, <2>2 DEF Kept
  <1>7. k \in Kept <=> Id(d) \in sessions[d.user]
    BY <1>2 DEF Kept
  <1>8. \A r \in Threads : added'[r] = IF r = t THEN Id(d) \notin sessions[d.user] ELSE added[r]
    BY <1>1, <1>3
  <1>9. /\ IsFiniteSet(Kept)
        /\ Cardinality(tokens) \in Nat /\ Cardinality(Kept) \in Nat
        /\ IsFiniteSet(Adding) /\ Cardinality(Adding) \in Nat /\ failures \in Nat
        /\ SessionCount = Cardinality(Kept)
    BY OrphanCounts DEF OrphanInv
  <1>10. SessionCount' = Cardinality(Kept')
    BY DEF SessionCount, Kept
  <1>11. SessionCount' <= Cardinality(tokens) + Cardinality(Adding') + failures
    <2>. HIDE DEF k
    <2>1. SessionCount <= Cardinality(tokens) + Cardinality(Adding) + failures
      BY DEF OrphanInv
    <2>2. CASE k \in Kept
      <3>1. Kept' = Kept
        BY <1>6, <2>2
      <3>2. Adding' = Adding
        BY <1>4, <1>7, <1>8, <2>2 DEF Adding
      <3>. QED
        BY <1>9, <1>10, <2>1, <3>1, <3>2
    <2>3. CASE k \notin Kept
      <3>1. Cardinality(Kept') = Cardinality(Kept) + 1
        BY <1>6, <1>9, <2>3, FS_AddElement
      <3>2. Adding' = Adding \cup {t}
        BY <1>7, <1>8, <2>3 DEF Adding
      <3>3. Cardinality(Adding') = Cardinality(Adding) + 1
        BY <1>4, <1>9, <3>2, FS_AddElement
      <3>. QED
        BY <1>9, <1>10, <2>1, <3>1, <3>3
    <2>. QED
      BY <2>2, <2>3
  <1>12. IsFiniteSet(Kept')
    BY <1>6, <1>9, FS_AddElement
  <1>13. \A r \in Threads : added'[r] => call'[r] \in {"reply", "put"}
    BY <1>1, <1>3, <1>8 DEF OrphanInv
  <1>14. IsFiniteSet(tokens)
    BY DEF OrphanInv
  <1>. QED
    BY <1>1, <1>11, <1>12, <1>13, <1>14 DEF OrphanInv

\* A login that ends gives its session to a token, or leaves it behind with a failure.
LEMMA OrphanEnd ==
  ASSUME IInv, TInv, OrphanInv, NEW t \in Threads, Throw(t) \/ Answer(t)
  PROVE  OrphanInv'
  <1>1. /\ sessions' = sessions /\ added' = [added EXCEPT ![t] = FALSE]
        /\ \A r \in Threads : r # t => call'[r] = call[r]
    BY DEF Throw, Answer, Idle, CreateFails, Fail, Put, CallAt, TInv, Shape
  <1>2. DOMAIN added = Threads
    BY DEF TInv, Shape
  <1>3. /\ IsFiniteSet(Kept) /\ IsFiniteSet(tokens)
        /\ Cardinality(tokens) \in Nat /\ Cardinality(Kept) \in Nat
        /\ IsFiniteSet(Adding) /\ Cardinality(Adding) \in Nat /\ failures \in Nat
        /\ SessionCount <= Cardinality(tokens) + Cardinality(Adding) + failures
    BY OrphanCounts DEF OrphanInv
  <1>4. Kept' = Kept /\ SessionCount' = SessionCount /\ SessionCount \in Nat
    BY <1>1, OrphanCounts DEF Kept, SessionCount
  <1>5. Adding' = Adding \ {t}
    BY <1>1, <1>2 DEF Adding
  <1>6. Cardinality(Adding') = IF t \in Adding THEN Cardinality(Adding) - 1 ELSE Cardinality(Adding)
    BY <1>3, <1>5, FS_RemoveElement
  <1>7. \A r \in Threads : added'[r] => call'[r] \in {"reply", "put"}
    BY <1>1, <1>2 DEF OrphanInv
  <1>8. /\ IsFiniteSet(tokens')
        /\ SessionCount <= Cardinality(tokens') + Cardinality(Adding') + failures'
    <2>1. CASE Throw(t)
      <3>1. tokens' = tokens
        BY <2>1 DEF Throw
      <3>2. CASE CreateFails(t)
        <4>1. failures' = failures /\ call[t] = "create"
          BY <3>2 DEF CreateFails, CallAt
        <4>2. t \notin Adding
          BY <4>1 DEF OrphanInv, Adding
        <4>. QED
          BY <1>3, <1>6, <3>1, <4>1, <4>2
      <3>3. CASE Fail(t)
        <4>1. failures' = failures + 1
          BY <3>3 DEF Fail
        <4>2. Cardinality(Adding') \in Int /\ Cardinality(Adding) <= Cardinality(Adding') + 1
          BY <1>3, <1>6
        <4>. QED
          BY <1>3, <1>4, <3>1, <4>1, <4>2
      <3>. QED
        BY <2>1, <3>2, <3>3 DEF Throw
    <2>2. CASE Answer(t)
      <3>1. /\ failures' = failures
            /\ tokens' = IF added[t] THEN tokens \cup {draw[t]} ELSE tokens
        BY <2>2 DEF Answer, Put, Accepted
      <3>2. CASE added[t]
        <4>1. draw[t] \notin tokens /\ t \in Adding
          BY <3>2 DEF TInv, Pending, SameSession, Adding
        <4>2. tokens' = tokens \cup {draw[t]}
          BY <3>1, <3>2
        <4>3. IsFiniteSet(tokens') /\ Cardinality(tokens') = Cardinality(tokens) + 1
          BY <1>3, <4>1, <4>2, FS_AddElement
        <4>. QED
          BY <1>3, <1>6, <3>1, <4>1, <4>3
      <3>3. CASE ~added[t]
        <4>1. t \notin Adding
          BY <3>3 DEF Adding
        <4>. QED
          BY <1>3, <1>6, <3>1, <3>3, <4>1
      <3>. QED
        BY <3>2, <3>3
    <2>. QED
      BY <2>1, <2>2
  <1>. QED
    BY <1>3, <1>4, <1>7, <1>8 DEF OrphanInv

\* Every step of a login, and of the network, keeps the balance.
LEMMA OrphanStep ==
  ASSUME IInv, SessionTypeOK, TInv, OrphanInv, [Next]_vars
  PROVE  OrphanInv'
  <1>1. CASE UNCHANGED vars \/ Tick \/ (NetworkStep /\ UNCHANGED sessionVars)
    <2>1. UNCHANGED <<added, sessions, tokens, failures, call>>
      BY <1>1 DEF vars, poolVars, sessionVars, Tick, NetworkStep, LoseConnections, GoDown,
                  ComeUp, Cut, Histories
    <2>. QED
      BY <2>1, OrphanQuiet DEF OrphanInv
  <1>2. ASSUME NEW t \in Threads, ReadNumber(t) \/ \E u \in Users : ReadClock(t, u)
        PROVE  OrphanInv'
    <2>1. UNCHANGED <<added, sessions, tokens, failures, call>>
      BY <1>2 DEF ReadNumber, ReadClock, poolVars
    <2>. QED
      BY <2>1, OrphanQuiet DEF OrphanInv
  <1>3. ASSUME NEW t \in Threads, StoreNumber(t) \/ PoolStep(t) PROVE OrphanInv'
    <2>1. UNCHANGED <<added, sessions, tokens, failures>>
      BY <1>3 DEF StoreNumber, PoolStep, Begin, Take, FindNone, Create, Reply, sessionVars
    <2>2. /\ \A r \in Threads : r # t => call'[r] = call[r]
          /\ call[t] \in {"none", "get", "create"} \/ call'[t] = "put"
      BY <1>3 DEF StoreNumber, PoolStep, Begin, Take, FindNone, Create, Reply, CallAt,
                  TInv, Shape
    <2>3. \A r \in Threads : added[r] => call'[r] \in {"reply", "put"}
      BY <2>2 DEF OrphanInv
    <2>. QED
      BY <2>1, <2>3, OrphanQuiet
  <1>. QED
    BY <1>1, <1>2, <1>3, OrphanAdd, OrphanEnd DEF Next, ThreadStep

\* A session without a token is the work of a command that failed after Redis had
\* executed SADD: there are no more of them than failed commands.
THEOREM OrphansBounded == Spec => []OrphansFromFailures
  <1>1. Init => IInv /\ SessionTypeOK /\ CountsOK /\ TInv /\ OrphanInv
    BY InvInit, SessionInit, TInit, OrphanInit DEF Init
  <1>2. IInv /\ SessionTypeOK /\ CountsOK /\ TInv /\ OrphanInv /\ [Next]_vars =>
          (IInv /\ SessionTypeOK /\ CountsOK /\ TInv /\ OrphanInv)'
    BY StepsOfThePool, InvStep, SessionTypeStep, CountsStep, ShapeStep, TokensStep, OrphanStep
       DEF TInv
  <1>3. OrphanInv => OrphansFromFailures
    BY DEF OrphanInv, OrphansFromFailures, Adding
  <1>. QED
    BY <1>1, <1>2, <1>3, PTL DEF Spec
=============================================================================
