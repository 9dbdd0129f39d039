---------------------------- MODULE ZSessionService ----------------------------
(***************************************************************************)
(* Sessions over the pool of Redis connections: create_jwt, which a login   *)
(* ends with, draws a session id and adds it to users:<id>:sessions.        *)
(*                                                                         *)
(* generateId reads the clock and a static int16_t, and increments it, with *)
(* no lock: two threads may read one value.  The id is the time shifted to  *)
(* the top 41 bits, a constant, and the remainder of the sequence by 1024.  *)
(* C++'s remainder of a negative number is negative, and the OR with it     *)
(* sets every higher bit: half of the sequence forgets the time.            *)
(*                                                                         *)
(* Left out: the text of the token, which holds the id and the user.        *)
(* removeUser's DEL of the sessions, and who may use a token, are in         *)
(* ZUserAccounts.                                                          *)
(***************************************************************************)
EXTENDS RedisPool

CONSTANTS
    Users,      \* ids with sessions
    SeqMod,     \* 1024: sequence numbers of an id
    SeqHalf,    \* 32768: the sequence runs from -SeqHalf to SeqHalf - 1
    ClockMod,   \* 2^41: microseconds the time of an id tells apart
    MaxClock,   \* bound on the clock
    MaxDraws    \* bound on the ids drawn

ASSUME SessionAssumption ==
    /\ Users # {}
    /\ SeqMod \in Nat \ {0} /\ SeqHalf \in Nat \ {0} /\ ClockMod \in Nat \ {0}
    /\ SeqHalf % SeqMod = 0
    /\ MaxClock \in Nat /\ MaxDraws \in Nat

VARIABLES
    now,       \* the clock, in microseconds
    sequence,  \* _sequenceId
    sessions,  \* per user: users:<id>:sessions
    login,     \* per thread: where its login is
    draw,      \* per thread: the draw of its login
    added,     \* per thread: SADD answered 1
    draws,     \* history: draws so far
    drawn,     \* history: the draws that are complete
    tokens     \* history: the draws whose token was given out

sessionVars == <<now, sequence, sessions, login, draw, added, draws, drawn, tokens>>
vars == <<poolVars, sessionVars>>
drawVars == <<now, sequence, draw, draws, drawn>>

\* -1 stands for 41 bits set.
Ids == (-1..(ClockMod - 1)) \X (0..(SeqMod - 1))

\* A draw: n counts the draws; alone: nobody else was between reading the sequence
\* and storing it while this draw was.
Draws == [n : 0..MaxDraws, user : Users, time : 0..MaxClock,
          number : -SeqHalf..(SeqHalf - 1), alone : BOOLEAN]

Stages == {"idle", "clock", "number", "sadd"}

\* The type invariant: what each variable of create_jwt may hold.
TypeOK ==
    /\ PoolTypeOK
    /\ now \in 0..MaxClock
    /\ sequence \in -SeqHalf..(SeqHalf - 1)
    /\ sessions \in [Users -> SUBSET Ids]
    /\ login \in [Threads -> Stages]
    /\ draw \in [Threads -> Draws]
    /\ added \in [Threads -> BOOLEAN]
    /\ draws \in 0..MaxDraws
    /\ drawn \in SUBSET Draws
    /\ tokens \in SUBSET drawn

NoDraw == [n |-> 0, user |-> CHOOSE u \in Users : TRUE, time |-> 0, number |-> 0,
           alone |-> FALSE]

Init ==
    /\ PoolInit
    /\ now = 0
    /\ sequence = 0
    /\ sessions = [u \in Users |-> {}]
    /\ login = [t \in Threads |-> "idle"]
    /\ draw = [t \in Threads |-> NoDraw]
    /\ added = [t \in Threads |-> FALSE]
    /\ draws = 0
    /\ drawn = {}
    /\ tokens = {}

-----------------------------------------------------------------------------
(***************************************************************************)
(* generateId.                                                             *)
(***************************************************************************)

LoginAt(t, from, to) == login[t] = from /\ login' = [login EXCEPT ![t] = to]

Tick ==
    /\ now < MaxClock
    /\ now' = now + 1
    /\ UNCHANGED <<poolVars, sequence, sessions, login, draw, added, draws, drawn, tokens>>

\* C++'s remainder has the sign of the number.
Remainder(s) == IF s < 0 THEN -((-s) % SeqMod) ELSE s % SeqMod

\* token |= remainder, an int, sign-extended to 64 bits.
Id(d) ==
    LET r == Remainder(d.number)
    IN  IF r < 0 THEN <<-1, r + SeqMod>> ELSE <<d.time % ClockMod, r>>

\* Mutant: the sequence is not incremented.
NextNumberSame(s) == s

\* Mutant: the sequence is wider than 16 bits.
NextNumberWide(s) == s + 1

\* _sequenceId++, an int16_t.
NextNumber(s) == IF s = SeqHalf - 1 THEN -SeqHalf ELSE s + 1

ReadClock(t, u) ==
    /\ draws < MaxDraws
    /\ draws' = draws + 1
    /\ LoginAt(t, "idle", "clock")
    /\ draw' = [draw EXCEPT ![t] = [NoDraw EXCEPT !.user = u, !.time = now]]
    /\ UNCHANGED <<poolVars, now, sequence, sessions, added, drawn, tokens>>

\* The threads between reading the sequence and storing it.
Drawing == {t \in Threads : login[t] = "number"}

ReadNumber(t) ==
    /\ LoginAt(t, "clock", "number")
    /\ draw' = [r \in Threads |->
         IF r = t THEN [draw[t] EXCEPT !.n = Cardinality(drawn) + Cardinality(Drawing) + 1,
                                       !.number = sequence, !.alone = Drawing = {}]
         ELSE IF r \in Drawing THEN [draw[r] EXCEPT !.alone = FALSE]
         ELSE draw[r]]
    /\ UNCHANGED <<poolVars, now, sequence, sessions, added, draws, drawn, tokens>>

\* The value stored is one more than what was read, or than what is there now: the
\* build may read the variable once or twice.  SADD begins.
StoreNumber(t) ==
    /\ LoginAt(t, "number", "sadd")
    /\ sequence' \in {NextNumber(draw[t].number), NextNumber(sequence)}
    /\ drawn' = drawn \cup {draw[t]}
    /\ Begin(t)
    /\ UNCHANGED <<now, sessions, draw, added, draws, tokens>>

-----------------------------------------------------------------------------
(***************************************************************************)
(* SADD users:<id>:sessions.                                               *)
(***************************************************************************)

\* Redis adds the id, and answers whether it was new.
Add(t) ==
    /\ Run(t)
    /\ LET u == draw[t].user
           id == Id(draw[t])
       IN  /\ added' = [added EXCEPT ![t] = id \notin sessions[u]]
           /\ sessions' = [sessions EXCEPT ![u] = @ \cup {id}]
    /\ UNCHANGED <<login, drawVars, tokens>>

Idle(t) ==
    /\ LoginAt(t, "sadd", "idle")
    /\ draw' = [draw EXCEPT ![t] = NoDraw]
    /\ added' = [added EXCEPT ![t] = FALSE]
    /\ UNCHANGED <<now, sequence, sessions, draws, drawn>>

\* An exception leaves create_jwt: the client has no token, whatever Redis did.
Throw(t) ==
    /\ CreateFails(t) \/ Fail(t)
    /\ Idle(t)
    /\ UNCHANGED tokens

\* Mutant: what SADD answers is taken the wrong way round.
AcceptedExisting(t) == ~added[t]

\* SADD answered 1; with 0, the login ends with FailedToGenerateToken.
Accepted(t) == added[t]

Answer(t) ==
    /\ Put(t)
    /\ tokens' = IF Accepted(t) THEN tokens \cup {draw[t]} ELSE tokens
    /\ Idle(t)

\* The steps of a command that only the pool knows.
PoolStep(t) ==
    /\ Take(t) \/ FindNone(t) \/ Create(t) \/ Reply(t)
    /\ UNCHANGED sessionVars

ThreadStep(t) ==
    \/ ReadNumber(t) \/ StoreNumber(t)
    \/ PoolStep(t) \/ Add(t) \/ Throw(t) \/ Answer(t)

Next ==
    \/ Tick
    \/ \E t \in Threads : ThreadStep(t) \/ \E u \in Users : ReadClock(t, u)
    \/ NetworkStep /\ UNCHANGED sessionVars

Spec == Init /\ [][Next]_vars

-----------------------------------------------------------------------------
(***************************************************************************)
(* Properties; those of RedisPool hold here as well.                       *)
(***************************************************************************)

\* What the unsynchronised sequence still gives: the id of a draw that no other
\* overlapped is not the id of any later draw fewer than 1024 draws away, overlapped or
\* not, in whatever microsecond, although draws in between may have set the sequence
\* back, and although the negative half of the int16_t forgets the time.
AloneDrawsDiffer ==
    \A a, b \in drawn :
        a.alone /\ a.n < b.n /\ b.n - a.n < SeqMod => Id(a) # Id(b)

\* SADD's answer makes up for the ids that are not different: every token given out
\* has a session of its own, and the session of no other token of the user.
TokenBacked ==
    \A a \in tokens :
        /\ Id(a) \in sessions[a.user]
        /\ \A b \in tokens : a # b /\ a.user = b.user => Id(a) # Id(b)

SessionCount == Cardinality({s \in Users \X Ids : s[2] \in sessions[s[1]]})

\* A login whose reply is lost leaves a session without a token, which is never
\* removed: there are no more of them than commands that failed.
OrphansFromFailures ==
    SessionCount <= Cardinality(tokens) + Cardinality({t \in Threads : added[t]}) + failures
=============================================================================
