---------------------------- MODULE RedisPoolProofs ----------------------------
(***************************************************************************)
(* Safety of RedisPool for any number of threads, connections and faults:   *)
(* the type invariant, ExclusiveConnections, OpenAtMostPeak and             *)
(* FaultCostsOneCommand.                                                   *)
(***************************************************************************)
EXTENDS RedisPool, TLAPS, FiniteSetTheorems

\* A command has a connection in its hand from get() to put().
HandOK == \A t \in Threads : hand[t] # NoConnection <=> call[t] \in {"run", "reply", "put"}

FiniteOK == IsFiniteSet(pool) /\ IsFiniteSet(cut)

\* The commands that have a connection, or make one.
Working == {t \in Threads : call[t] \in {"create", "run", "reply", "put"}}

PeakOK ==
    /\ Cardinality(Callers) <= peak
    /\ Cardinality(pool) + Cardinality(Working) <= peak

IInv ==
    /\ PoolTypeOK
    /\ HandOK
    /\ ExclusiveConnections
    /\ FiniteOK
    /\ PeakOK
    /\ FaultCostsOneCommand

Step(t) ==
    \/ Begin(t) \/ Take(t) \/ FindNone(t) \/ Create(t) \/ CreateFails(t)
    \/ Run(t) \/ Reply(t) \/ Fail(t) \/ Put(t)
-----------------------------------------------------------------------------
LEMMA Finite ==
  ASSUME NEW S \in SUBSET Threads
  PROVE  IsFiniteSet(S) /\ Cardinality(S) \in Nat
  BY PoolAssumption, FS_Subset, FS_CardinalityType

LEMMA Cards ==
  ASSUME FiniteOK
  PROVE  /\ Cardinality(pool) \in Nat /\ Cardinality(cut) \in Nat
         /\ Cardinality(Callers) \in Nat /\ Cardinality(Working) \in Nat
  BY Finite, FS_CardinalityType DEF FiniteOK, Callers, Working

\* The type invariant is inductive by itself.
LEMMA TypeInit == PoolInit => PoolTypeOK
  BY PoolAssumption DEF PoolInit, PoolTypeOK, Calls

LEMMA HeldType ==
  ASSUME PoolTypeOK
  PROVE  Held \subseteq Connections /\ Open \subseteq Connections
  BY DEF Held, Open, PoolTypeOK

\* The connections at hand are no more than the commands that work.
LEMMA HeldFinite ==
  ASSUME PoolTypeOK, HandOK
  PROVE  IsFiniteSet(Held) /\ Cardinality(Held) \in Nat /\ Cardinality(Held) <= Cardinality(Working)
  <1>. DEFINE f == [t \in Threads |-> hand[t]]
              H == {t \in Threads : hand[t] # NoConnection}
              g == [t \in H |-> hand[t]]
  <1>1. g \in Surjection(H, Held)
    BY DEF Held, Surjection
  <1>2. H \subseteq Working /\ Working \in SUBSET Threads /\ H \in SUBSET Threads
    BY DEF HandOK, Working
  <1>3. IsFiniteSet(Held) /\ Cardinality(Held) <= Cardinality(H)
    <2>. HIDE DEF g, H
    <2>. QED BY <1>1, <1>2, Finite, FS_Surjection
  <1>4. Cardinality(H) <= Cardinality(Working)
    BY <1>2, Finite, FS_Subset
  <1>5. Cardinality(Held) \in Nat /\ Cardinality(H) \in Nat /\ Cardinality(Working) \in Nat
    BY <1>2, <1>3, Finite, FS_CardinalityType
  <1>. QED
    BY <1>3, <1>4, <1>5

LEMMA OpenFinite ==
  ASSUME PoolTypeOK, HandOK, FiniteOK
  PROVE  /\ IsFiniteSet(Open)
         /\ Cardinality(Open) <= Cardinality(pool) + Cardinality(Working)
         /\ \A S \in SUBSET Open : IsFiniteSet(S) /\ Cardinality(S) \in Nat
  <1>1. IsFiniteSet(pool) /\ IsFiniteSet(Held)
    BY HeldFinite DEF FiniteOK
  <1>2. /\ IsFiniteSet(pool \cup Held)
        /\ Cardinality(pool \cup Held) =
             Cardinality(pool) + Cardinality(Held) - Cardinality(pool \cap Held)
    BY <1>1, FS_Union
  <1>3. IsFiniteSet(pool \cap Held)
    BY <1>1, FS_Intersection
  <1>4. Cardinality(pool \cap Held) \in Nat
    BY <1>3, FS_CardinalityType
  <1>5. Cardinality(pool) + Cardinality(Held) - Cardinality(pool \cap Held)
          <= Cardinality(pool) + Cardinality(Working)
    BY <1>4, Cards, HeldFinite
  <1>6. \A S \in SUBSET (pool \cup Held) : IsFiniteSet(S) /\ Cardinality(S) \in Nat
    BY <1>2, FS_Subset, FS_CardinalityType
  <1>. QED
    BY <1>2, <1>5, <1>6 DEF Open

\* What a network step may cut.
LEMMA CutStep ==
  ASSUME PoolTypeOK, HandOK, FiniteOK, NEW S \in SUBSET (Open \ cut), Cut(S)
  PROVE  /\ cut' = cut \cup S /\ S \subseteq Connections /\ S \cap cut = {}
         /\ IsFiniteSet(S) /\ Cardinality(S) \in Nat
         /\ faults' \in 0..MaxFaults
  <1>1. S \in SUBSET Open /\ S \cap cut = {}
    OBVIOUS
  <1>2. IsFiniteSet(S) /\ Cardinality(S) \in Nat
    BY <1>1, OpenFinite
  <1>3. S \subseteq Connections
    BY <1>1, HeldType
  <1>4. cut' = cut \cup S
    BY DEF Cut
  <1>5. faults' \in 0..MaxFaults
    BY PoolAssumption DEF Cut, PoolTypeOK
  <1>. QED
    BY <1>1, <1>2, <1>3, <1>4, <1>5

LEMMA NetworkCases ==
  ASSUME NetworkStep
  PROVE  \/ \E S \in SUBSET (Open \ cut) : Cut(S) /\ up' \in BOOLEAN
         \/ ComeUp
  BY DEF NetworkStep, LoseConnections, GoDown, PoolTypeOK

LEMMA Cases ==
  ASSUME PoolNext
  PROVE  (\E t \in Threads : Step(t)) \/ NetworkStep
  BY DEF PoolNext, Step

LEMMA TypeStep ==
  ASSUME PoolTypeOK, HandOK, FiniteOK, [PoolNext]_poolVars
  PROVE  PoolTypeOK'
  <1>. USE DEF Network, Histories, CallAt, Hold
  <1>1. ASSUME NEW t \in Threads, Begin(t) PROVE PoolTypeOK'
    BY <1>1, Cards DEF Begin, PoolTypeOK, Calls
  <1>2. ASSUME NEW t \in Threads, Take(t) PROVE PoolTypeOK'
    BY <1>2 DEF Take, Erased, PoolTypeOK, Calls
  <1>3. ASSUME NEW t \in Threads, FindNone(t) \/ CreateFails(t) PROVE PoolTypeOK'
    BY <1>3 DEF FindNone, CreateFails, PoolTypeOK, Calls
  <1>4. ASSUME NEW t \in Threads, Create(t) PROVE PoolTypeOK'
    BY <1>4 DEF Create, PoolTypeOK, Calls
  <1>5. ASSUME NEW t \in Threads, Run(t) \/ Reply(t) PROVE PoolTypeOK'
    BY <1>5 DEF Run, Reply, PoolTypeOK, Calls
  <1>6. ASSUME NEW t \in Threads, Fail(t) PROVE PoolTypeOK'
    BY <1>6 DEF Fail, PoolAfterFailure, PoolTypeOK, Calls
  <1>7. ASSUME NEW t \in Threads, Put(t) PROVE PoolTypeOK'
    <2>1. hand[t] \in Connections
      BY <1>7 DEF Put, HandOK, PoolTypeOK
    <2>. QED
      BY <1>7, <2>1 DEF Put, PoolTypeOK, Calls
  <1>8. ASSUME NEW S \in SUBSET (Open \ cut), Cut(S), up' \in BOOLEAN PROVE PoolTypeOK'
    <2>1. /\ cut' \in SUBSET Connections /\ Cardinality(S) \in Nat
          /\ faults' \in 0..MaxFaults
      BY <1>8, CutStep DEF PoolTypeOK
    <2>2. losses' \in Nat
      BY <1>8, <2>1 DEF Cut, PoolTypeOK
    <2>. QED
      BY <1>8, <2>1, <2>2 DEF Cut, PoolTypeOK
  <1>9. ASSUME ComeUp PROVE PoolTypeOK'
    BY <1>9 DEF ComeUp, PoolTypeOK
  <1>10. CASE UNCHANGED poolVars
    BY <1>10 DEF poolVars, PoolTypeOK
  <1>. QED
    BY <1>1, <1>2, <1>3, <1>4, <1>5, <1>6, <1>7, <1>8, <1>9, <1>10, Cases, NetworkCases DEF Step

\* The hands, the set and the cut connections after a step.
LEMMA HandStep ==
  ASSUME PoolTypeOK, HandOK, [PoolNext]_poolVars
  PROVE  HandOK'
  <1>. USE DEF Network, Histories, CallAt, Hold
  <1>1. ASSUME NEW t \in Threads, Step(t) PROVE HandOK'
    <2>1. CASE Begin(t) \/ FindNone(t) \/ CreateFails(t) \/ Run(t) \/ Reply(t)
      BY <2>1 DEF Begin, FindNone, CreateFails, Run, Reply, HandOK, PoolTypeOK
    <2>2. CASE Take(t)
      BY <2>2, PoolAssumption DEF Take, HandOK, PoolTypeOK
    <2>3. CASE Create(t)
      BY <2>3, PoolAssumption DEF Create, HandOK, PoolTypeOK
    <2>4. CASE Fail(t) \/ Put(t)
      BY <2>4 DEF Fail, Put, HandOK, PoolTypeOK
    <2>. QED
      BY <1>1, <2>1, <2>2, <2>3, <2>4 DEF Step
  <1>2. ASSUME NetworkStep PROVE HandOK'
    BY <1>2 DEF NetworkStep, LoseConnections, GoDown, ComeUp, Cut, HandOK
  <1>3. CASE UNCHANGED poolVars
    BY <1>3 DEF poolVars, HandOK
  <1>. QED
    BY <1>1, <1>2, <1>3, Cases

\* ExclusiveConnections without the set of hands.
Exclusive ==
    /\ \A t \in Threads : hand[t] # NoConnection => hand[t] \notin pool
    /\ \A t, r \in Threads : t # r /\ hand[t] = hand[r] => hand[t] = NoConnection

LEMMA ExclusiveIff ==
  PoolTypeOK => (Exclusive <=> ExclusiveConnections)
  BY PoolAssumption DEF Exclusive, ExclusiveConnections, Held, PoolTypeOK

LEMMA ExclusiveStep ==
  ASSUME PoolTypeOK, HandOK, Exclusive, [PoolNext]_poolVars
  PROVE  Exclusive'
  <1>. USE DEF Network, Histories, CallAt, Hold
  <1>1. ASSUME NEW t \in Threads, Step(t) PROVE Exclusive'
    <2>1. CASE Begin(t) \/ FindNone(t) \/ CreateFails(t) \/ Run(t) \/ Reply(t)
      BY <2>1 DEF Begin, FindNone, CreateFails, Run, Reply, Exclusive
    <2>2. CASE Take(t)
      BY <2>2, PoolAssumption DEF Take, Erased, Exclusive, PoolTypeOK
    <2>3. CASE Create(t)
      BY <2>3, PoolAssumption DEF Create, Exclusive, PoolTypeOK, Open, Held
    <2>4. CASE Fail(t)
      BY <2>4 DEF Fail, PoolAfterFailure, Exclusive, PoolTypeOK
    <2>5. CASE Put(t)
      BY <2>5 DEF Put, Exclusive, PoolTypeOK
    <2>. QED
      BY <1>1, <2>1, <2>2, <2>3, <2>4, <2>5 DEF Step
  <1>2. ASSUME NetworkStep PROVE Exclusive'
    BY <1>2 DEF NetworkStep, LoseConnections, GoDown, ComeUp, Cut, Exclusive
  <1>3. CASE UNCHANGED poolVars
    BY <1>3 DEF poolVars, Exclusive
  <1>. QED
    BY <1>1, <1>2, <1>3, Cases

LEMMA FiniteStep ==
  ASSUME PoolTypeOK, HandOK, FiniteOK, [PoolNext]_poolVars
  PROVE  FiniteOK'
  <1>. USE DEF Network, Histories, CallAt, Hold
  <1>1. ASSUME NEW t \in Threads, Step(t) PROVE FiniteOK'
    <2>1. CASE Take(t)
      BY <2>1, FS_RemoveElement DEF Take, Erased, FiniteOK
    <2>2. CASE Put(t)
      BY <2>2, FS_AddElement DEF Put, FiniteOK
    <2>3. CASE Fail(t)
      <3>1. pool' = pool /\ cut' \in SUBSET cut
        BY <2>3 DEF Fail, PoolAfterFailure
      <3>. QED
        BY <3>1, FS_Subset DEF FiniteOK
    <2>4. CASE Begin(t) \/ FindNone(t) \/ Create(t) \/ CreateFails(t) \/ Run(t) \/ Reply(t)
      BY <2>4 DEF Begin, FindNone, Create, CreateFails, Run, Reply, FiniteOK
    <2>. QED
      BY <1>1, <2>1, <2>2, <2>3, <2>4 DEF Step
  <1>2. ASSUME NEW S \in SUBSET (Open \ cut), Cut(S) PROVE FiniteOK'
    <2>1. IsFiniteSet(S) /\ cut' = cut \cup S /\ pool' = pool
      BY <1>2, CutStep DEF Cut
    <2>. QED
      BY <2>1, FS_Union DEF FiniteOK
  <1>3. CASE ComeUp \/ UNCHANGED poolVars
    BY <1>3 DEF ComeUp, poolVars, FiniteOK
  <1>. QED
    BY <1>1, <1>2, <1>3, Cases, NetworkCases

\* What a step does to the two sets of commands PeakOK counts.
LEMMA CommandSets ==
  ASSUME PoolTypeOK, HandOK, NEW t \in Threads
  PROVE  /\ Begin(t) => Callers' = Callers \cup {t} /\ t \notin Callers /\ Working' = Working
         /\ Take(t) \/ FindNone(t) =>
              Callers' = Callers /\ Working' = Working \cup {t} /\ t \notin Working
         /\ CreateFails(t) \/ Fail(t) \/ Put(t) =>
              Callers' = Callers \ {t} /\ Working' = Working \ {t} /\ t \in Working /\ t \in Callers
         /\ Create(t) \/ Run(t) \/ Reply(t) => Callers' = Callers /\ Working' = Working
  <1>. USE DEF CallAt, Callers, Working, PoolTypeOK
  <1>1. Begin(t) => Callers' = Callers \cup {t} /\ t \notin Callers /\ Working' = Working
    BY DEF Begin
  <1>2. Take(t) \/ FindNone(t) =>
              Callers' = Callers /\ Working' = Working \cup {t} /\ t \notin Working
    BY DEF Take, FindNone
  <1>3. CreateFails(t) \/ Put(t) =>
          Callers' = Callers \ {t} /\ Working' = Working \ {t} /\ t \in Working /\ t \in Callers
    BY DEF CreateFails, Put
  <1>4. Fail(t) =>
          Callers' = Callers \ {t} /\ Working' = Working \ {t} /\ t \in Working /\ t \in Callers
    BY DEF Fail
  <1>5. Create(t) \/ Run(t) \/ Reply(t) => Callers' = Callers /\ Working' = Working
    BY DEF Create, Run, Reply
  <1>. QED
    BY <1>1, <1>2, <1>3, <1>4, <1>5

LEMMA PeakStep ==
  ASSUME PoolTypeOK, HandOK, FiniteOK, Exclusive, PeakOK, [PoolNext]_poolVars
  PROVE  PeakOK'
  <1>1. /\ Callers \in SUBSET Threads /\ Working \in SUBSET Threads /\ Working \subseteq Callers
        /\ IsFiniteSet(Callers) /\ IsFiniteSet(Working) /\ IsFiniteSet(pool)
        /\ Cardinality(Callers) \in Nat /\ Cardinality(Working) \in Nat
        /\ Cardinality(pool) \in Nat /\ peak \in Nat
    BY Finite, Cards DEF Callers, Working, FiniteOK, PoolTypeOK
  <1>2. ASSUME NEW t \in Threads, Begin(t) PROVE PeakOK'
    <2>1. Cardinality(Callers') = Cardinality(Callers) + 1
      BY <1>1, <1>2, CommandSets, FS_AddElement
    <2>2. peak' = IF Cardinality(Callers) < peak THEN peak ELSE Cardinality(Callers) + 1
      BY <1>2 DEF Begin
    <2>3. pool' = pool /\ Working' = Working
      BY <1>2, CommandSets DEF Begin
    <2>. QED
      BY <1>1, <2>1, <2>2, <2>3 DEF PeakOK
  <1>3. ASSUME NEW t \in Threads, Take(t) PROVE PeakOK'
    <2>1. Callers' = Callers /\ Cardinality(Working') = Cardinality(Working) + 1
      BY <1>1, <1>3, CommandSets, FS_AddElement
    <2>2. PICK c \in pool : pool' = pool \ {c} /\ peak' = peak
      BY <1>3 DEF Take, Erased
    <2>3. Cardinality(pool') = Cardinality(pool) - 1
      BY <1>1, <2>2, FS_RemoveElement
    <2>. QED
      BY <1>1, <2>1, <2>2, <2>3 DEF PeakOK
  <1>4. ASSUME NEW t \in Threads, FindNone(t) PROVE PeakOK'
    <2>1. /\ Callers' = Callers /\ pool' = {} /\ peak' = peak
          /\ Working' \in SUBSET Callers
      BY <1>1, <1>4, CommandSets DEF FindNone, MustCreate, Callers, CallAt
    <2>2. Cardinality(Working') <= Cardinality(Callers) /\ Cardinality(Working') \in Nat
      BY <1>1, <2>1, FS_Subset, FS_CardinalityType
    <2>3. Cardinality(pool') = 0
      BY <2>1, FS_EmptySet
    <2>. QED
      BY <1>1, <2>1, <2>2, <2>3 DEF PeakOK
  <1>5. ASSUME NEW t \in Threads, CreateFails(t) \/ Fail(t) \/ Put(t) PROVE PeakOK'
    <2>1. /\ Cardinality(Callers') = Cardinality(Callers) - 1
          /\ Cardinality(Working') = Cardinality(Working) - 1
      BY <1>1, <1>5, CommandSets, FS_RemoveElement
    <2>2. peak' = peak /\ (pool' = pool \/ pool' = pool \cup {hand[t]})
      BY <1>5 DEF CreateFails, Fail, Put, PoolAfterFailure
    <2>3. Cardinality(pool') <= Cardinality(pool) + 1 /\ Cardinality(pool') \in Nat
      <3>1. CASE pool' = pool
        BY <1>1, <3>1
      <3>2. CASE pool' = pool \cup {hand[t]}
        <4>1. Cardinality(pool \cup {hand[t]}) =
                IF hand[t] \in pool THEN Cardinality(pool) ELSE Cardinality(pool) + 1
          BY <1>1, FS_AddElement
        <4>. QED
          BY <1>1, <3>2, <4>1
      <3>. QED
        BY <2>2, <3>1, <3>2
    <2>. QED
      BY <1>1, <2>1, <2>2, <2>3 DEF PeakOK
  <1>6. ASSUME NEW t \in Threads, Create(t) \/ Run(t) \/ Reply(t) PROVE PeakOK'
    <2>1. Callers' = Callers /\ Working' = Working
      BY <1>6, CommandSets
    <2>2. pool' = pool /\ peak' = peak
      BY <1>6 DEF Create, Run, Reply
    <2>. QED
      BY <2>1, <2>2 DEF PeakOK
  <1>7. CASE NetworkStep \/ UNCHANGED poolVars
    <2>1. pool' = pool /\ peak' = peak /\ call' = call
      BY <1>7 DEF NetworkStep, LoseConnections, GoDown, ComeUp, Cut, Histories, poolVars
    <2>. QED
      BY <2>1 DEF PeakOK, Callers, Working
  <1>. QED
    BY <1>2, <1>3, <1>4, <1>5, <1>6, <1>7, Cases DEF Step

LEMMA CostStep ==
  ASSUME PoolTypeOK, HandOK, FiniteOK, Exclusive, FaultCostsOneCommand, [PoolNext]_poolVars
  PROVE  FaultCostsOneCommand'
  <1>1. IsFiniteSet(cut) /\ Cardinality(cut) \in Nat /\ failures \in Nat /\ losses \in Nat
    BY Cards DEF FiniteOK, PoolTypeOK
  <1>2. ASSUME NEW t \in Threads, Fail(t) PROVE FaultCostsOneCommand'
    <2>1. hand[t] \in cut /\ hand[t] \notin pool
      BY <1>2, PoolAssumption DEF Fail, Exclusive, PoolTypeOK
    <2>2. cut' = cut \ {hand[t]} /\ failures' = failures + 1 /\ losses' = losses
      BY <1>2, <2>1 DEF Fail, PoolAfterFailure
    <2>3. Cardinality(cut') = Cardinality(cut) - 1
      BY <1>1, <2>1, <2>2, FS_RemoveElement
    <2>. QED
      BY <1>1, <2>2, <2>3 DEF FaultCostsOneCommand
  <1>3. ASSUME NEW t \in Threads, Step(t), ~Fail(t) PROVE FaultCostsOneCommand'
    <2>1. cut' = cut /\ failures' = failures /\ losses' = losses
      BY <1>3 DEF Step, Begin, Take, FindNone, Create, CreateFails, Run, Reply, Put, Network
    <2>. QED
      BY <2>1 DEF FaultCostsOneCommand
  <1>4. ASSUME NEW S \in SUBSET (Open \ cut), Cut(S) PROVE FaultCostsOneCommand'
    <2>1. cut' = cut \cup S /\ S \cap cut = {} /\ IsFiniteSet(S) /\ Cardinality(S) \in Nat
      BY <1>4, CutStep
    <2>2. Cardinality(cut') = Cardinality(cut) + Cardinality(S)
      <3>1. cut \cap S = {}
        BY <2>1
      <3>2. Cardinality(cut \cup S) = Cardinality(cut) + Cardinality(S) - Cardinality(cut \cap S)
        BY <1>1, <2>1, FS_Union
      <3>. QED
        BY <1>1, <2>1, <3>1, <3>2, FS_EmptySet
    <2>3. losses' = losses + Cardinality(S) /\ failures' = failures
      BY <1>4 DEF Cut
    <2>. QED
      BY <1>1, <2>1, <2>2, <2>3 DEF FaultCostsOneCommand
  <1>5. CASE ComeUp \/ UNCHANGED poolVars
    BY <1>5 DEF ComeUp, Histories, poolVars, FaultCostsOneCommand
  <1>. QED
    BY <1>2, <1>3, <1>4, <1>5, Cases, NetworkCases

-----------------------------------------------------------------------------
LEMMA InvInit == PoolInit => IInv
  <1>. SUFFICES ASSUME PoolInit PROVE IInv
    OBVIOUS
  <1>1. PoolTypeOK /\ HandOK
    BY TypeInit DEF PoolInit, HandOK
  <1>2. Exclusive
    BY DEF PoolInit, Exclusive
  <1>3. FiniteOK /\ Cardinality(pool) = 1 /\ Cardinality(cut) = 0
    BY FS_Singleton, FS_EmptySet DEF PoolInit, FiniteOK
  <1>4. Callers = {} /\ Working = {}
    BY DEF PoolInit, Callers, Working
  <1>5. PeakOK
    BY <1>3, <1>4, FS_EmptySet DEF PoolInit, PeakOK
  <1>6. FaultCostsOneCommand
    BY <1>3 DEF PoolInit, FaultCostsOneCommand
  <1>. QED
    BY <1>1, <1>2, <1>3, <1>5, <1>6, ExclusiveIff DEF IInv

LEMMA InvStep == IInv /\ [PoolNext]_poolVars => IInv'
  <1>. SUFFICES ASSUME IInv, [PoolNext]_poolVars PROVE IInv'
    OBVIOUS
  <1>1. PoolTypeOK /\ HandOK /\ FiniteOK /\ PeakOK /\ FaultCostsOneCommand /\ Exclusive
    BY ExclusiveIff DEF IInv
  <1>2. PoolTypeOK' /\ HandOK' /\ FiniteOK' /\ Exclusive'
    BY <1>1, TypeStep, HandStep, FiniteStep, ExclusiveStep
  <1>3. PeakOK' /\ FaultCostsOneCommand'
    BY <1>1, PeakStep, CostStep
  <1>4. ExclusiveConnections'
    <2>1. PoolTypeOK' => (Exclusive' <=> ExclusiveConnections')
      BY ExclusiveIff, PTL
    <2>. QED
      BY <1>2, <2>1
  <1>. QED
    BY <1>2, <1>3, <1>4 DEF IInv

LEMMA Invariant == PoolSpec => []IInv
  BY InvInit, InvStep, PTL DEF PoolSpec

\* The pool's variables keep their types.
THEOREM TypeCorrect == PoolSpec => []PoolTypeOK
  <1>1. IInv => PoolTypeOK
    BY DEF IInv
  <1>. QED
    BY <1>1, Invariant, PTL

\* No connection is in two places: simple_pool lends each to one command at a time.
THEOREM ExclusiveSafe == PoolSpec => []ExclusiveConnections
  <1>1. IInv => ExclusiveConnections
    BY DEF IInv
  <1>. QED
    BY <1>1, Invariant, PTL

\* The pool that has no limit never has more connections open than there have been
\* commands at the same time.
THEOREM PeakSafe == PoolSpec => []OpenAtMostPeak
  <1>1. IInv => OpenAtMostPeak
    <2>. SUFFICES ASSUME IInv PROVE OpenAtMostPeak
      OBVIOUS
    <2>1. Cardinality(Open) <= Cardinality(pool) + Cardinality(Working)
      BY OpenFinite DEF IInv
    <2>2. Cardinality(pool) + Cardinality(Working) <= peak
      BY DEF IInv, PeakOK
    <2>3. Cardinality(Open) \in Nat /\ peak \in Nat
      BY OpenFinite DEF IInv, PoolTypeOK
    <2>4. Cardinality(pool) \in Nat /\ Cardinality(Working) \in Nat
      BY Cards DEF IInv
    <2>. QED
      BY <2>1, <2>2, <2>3, <2>4 DEF OpenAtMostPeak
  <1>. QED
    BY <1>1, Invariant, PTL

\* Each connection that was cut costs one command.
THEOREM FaultCost == PoolSpec => []FaultCostsOneCommand
  <1>1. IInv => FaultCostsOneCommand
    BY DEF IInv
  <1>. QED
    BY <1>1, Invariant, PTL
=============================================================================
