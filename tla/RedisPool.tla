------------------------------- MODULE RedisPool -------------------------------
(***************************************************************************)
(* The pool of Redis connections every handler shares: redis3m's            *)
(* simple_pool, its connection, and the form all of ZDBProxy's commands     *)
(* have: get a connection, run the command, put the connection back, with   *)
(* nothing caught and nothing tried again.                                  *)
(*                                                                         *)
(* The lock of simple_pool covers the look at the set and the insertion,    *)
(* not the making of a connection.  A connection the network has cut looks  *)
(* valid until a command is run over it (hiredis sets c->err then).         *)
(* Commands and replies have no content here: a module that composes this   *)
(* one says what Run does at Redis.                                        *)
(***************************************************************************)
EXTENDS Integers, FiniteSets

CONSTANTS
    Threads,      \* the threads that run commands
    Connections,  \* what connections are made of; one that is freed may come back
    NoConnection, \* the empty connection::ptr_t
    MaxFaults     \* bound on the faults of the network

ASSUME PoolAssumption ==
    /\ IsFiniteSet(Threads)
    /\ NoConnection \notin Connections
    /\ MaxFaults \in Nat

VARIABLES
    pool,      \* simple_pool::connections
    hand,      \* per thread: the connection its command works with
    call,      \* per thread: where its command is
    cut,       \* open connections the network has cut
    up,        \* Redis can be reached
    faults,    \* faults so far
    losses,    \* history: connections cut so far
    failures,  \* history: commands that failed over a connection that was cut
    peak       \* history: the most commands there have been at the same time

poolVars == <<pool, hand, call, cut, up, faults, losses, failures, peak>>

Calls == {"none", "get", "create", "run", "reply", "put"}

Callers == {t \in Threads : call[t] # "none"}
Held == {hand[t] : t \in Threads} \ {NoConnection}
Open == pool \cup Held

PoolTypeOK ==
    /\ pool \in SUBSET Connections
    /\ hand \in [Threads -> Connections \cup {NoConnection}]
    /\ call \in [Threads -> Calls]
    /\ cut \in SUBSET Connections
    /\ up \in BOOLEAN
    /\ faults \in 0..MaxFaults
    /\ losses \in Nat /\ failures \in Nat /\ peak \in Nat

\* ZDBProxy::connect has made a connection and put it back.
PoolInit ==
    /\ \E c \in Connections : pool = {c}
    /\ hand = [t \in Threads |-> NoConnection]
    /\ call = [t \in Threads |-> "none"]
    /\ cut = {}
    /\ up = TRUE
    /\ faults = 0
    /\ losses = 0
    /\ failures = 0
    /\ peak = 1

-----------------------------------------------------------------------------
Network == <<cut, up, faults, losses>>
Histories == <<losses, failures, peak>>

CallAt(t, from, to) == call[t] = from /\ call' = [call EXCEPT ![t] = to]
Hold(t, c) == hand' = [hand EXCEPT ![t] = c]

\* A thread calls a command of ZDBProxy.
Begin(t) ==
    /\ CallAt(t, "none", "get")
    /\ peak' = IF Cardinality(Callers) < peak THEN peak ELSE Cardinality(Callers) + 1
    /\ UNCHANGED <<pool, hand, Network, failures>>

\* Mutant: the connection lent out stays in the set.
ErasedNot(c) == pool

\* connections.erase(it).
Erased(c) == pool \ {c}

\* get() finds a connection in the set, and takes it out.
Take(t) ==
    /\ CallAt(t, "get", "run")
    /\ \E c \in pool : Hold(t, c) /\ pool' = Erased(c)
    /\ UNCHANGED <<Network, failures, peak>>

\* Mutant: every command makes a connection of its own.
MustCreateAlways == TRUE

\* get() makes a connection only when the set is empty.
MustCreate == pool = {}

FindNone(t) ==
    /\ CallAt(t, "get", "create")
    /\ MustCreate
    /\ UNCHANGED <<pool, hand, Network, failures, peak>>

\* redisConnect succeeds, or unable_to_connect leaves the command.
Create(t) ==
    /\ up
    /\ CallAt(t, "create", "run")
    /\ \E c \in Connections \ Open : Hold(t, c)
    /\ UNCHANGED <<pool, Network, failures, peak>>

CreateFails(t) ==
    /\ ~up
    /\ CallAt(t, "create", "none")
    /\ UNCHANGED <<pool, hand, Network, failures, peak>>

\* redisGetReply writes the command, and Redis executes it.
Run(t) ==
    /\ hand[t] \notin cut
    /\ CallAt(t, "run", "reply")
    /\ UNCHANGED <<pool, hand, Network, failures, peak>>

\* The reply is read.
Reply(t) ==
    /\ hand[t] \notin cut
    /\ CallAt(t, "reply", "put")
    /\ UNCHANGED <<pool, hand, Network, failures, peak>>

\* Mutant: the connection is put back whatever happened to it.
PoolAfterFailurePut(c) == pool \cup {c}

\* transport_failure passes over the put, and put would refuse a connection with
\* an error: its last pointer goes, and frees it.
PoolAfterFailure(c) == pool

\* The write or the read fails, and transport_failure leaves the command.
Fail(t) ==
    /\ hand[t] \in cut
    /\ \E from \in {"run", "reply"} : CallAt(t, from, "none")
    /\ pool' = PoolAfterFailure(hand[t])
    /\ cut' = cut \ ({hand[t]} \ pool')
    /\ Hold(t, NoConnection)
    /\ failures' = failures + 1
    /\ UNCHANGED <<up, faults, losses, peak>>

\* put(): c->err is not set, as no command over it has failed.
Put(t) ==
    /\ CallAt(t, "put", "none")
    /\ pool' = pool \cup {hand[t]}
    /\ Hold(t, NoConnection)
    /\ UNCHANGED <<Network, failures, peak>>

\* Connections are cut: some of them, or all when Redis goes down.
Cut(S) ==
    /\ faults < MaxFaults
    /\ faults' = faults + 1
    /\ cut' = cut \cup S
    /\ losses' = losses + Cardinality(S)
    /\ UNCHANGED <<pool, hand, call, failures, peak>>

LoseConnections == up /\ (\E S \in SUBSET (Open \ cut) \ {{}} : Cut(S)) /\ UNCHANGED up
GoDown == up /\ Cut(Open \ cut) /\ up' = FALSE
ComeUp == ~up /\ up' = TRUE /\ UNCHANGED <<pool, hand, call, cut, faults, Histories>>

NetworkStep == LoseConnections \/ GoDown \/ ComeUp

PoolNext ==
    \/ \E t \in Threads :
        \/ Begin(t) \/ Take(t) \/ FindNone(t) \/ Create(t) \/ CreateFails(t)
        \/ Run(t) \/ Reply(t) \/ Fail(t) \/ Put(t)
    \/ NetworkStep

PoolSpec == PoolInit /\ [][PoolNext]_poolVars

-----------------------------------------------------------------------------
(***************************************************************************)
(* Properties.                                                             *)
(***************************************************************************)

\* A connection is in one place: no two commands write to it or read each other's
\* replies, and none is lent out while it is in the set.  simple_pool takes and
\* returns connections under its lock, and an exception drops them.
ExclusiveConnections ==
    /\ pool \cap Held = {}
    /\ \A t, r \in Threads : t # r /\ hand[t] = hand[r] => hand[t] = NoConnection

\* The pool has no limit, and needs none: as a connection is made only when none
\* is idle, and failed ones are not put back, there are never more than there have
\* been commands at the same time.
OpenAtMostPeak == Cardinality(Open) <= peak

\* A connection that was cut is found out by one command, which fails, and is gone:
\* a fault costs as many requests as it cut connections, and no more.
FaultCostsOneCommand == failures + Cardinality(cut) = losses
=============================================================================
