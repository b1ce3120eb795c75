--------------------------- MODULE LogSpaceProofs ---------------------------
(***************************************************************************)
(* The safety of LogSpace and its refinement of SharedLogSpec, for any     *)
(* numbers of engines, storages, shards and log entries.  LogSpaceFacts    *)
(* states the inductive invariant, LogSpaceSteps proves it step by step    *)
(* and LogSpaceRefinesSteps maps each step, all three from facts about     *)
(* finite sets that are proved here.                                       *)
(***************************************************************************)
EXTENDS LogSpaceSteps, LogSpaceRefinesSteps, FiniteSetTheorems, WellFoundedInduction

-----------------------------------------------------------------------------
(* Facts about finite sets.                                                 *)

\* Every non-empty set of naturals has a least element: the intervals 0..x of
\* its elements are finite sets, well-founded by strict inclusion.
LEMMA NaturalsAreWellOrdered ==
    ASSUME NEW S \in SUBSET Nat, S # {}
    PROVE  \E x \in S : \A y \in S : x <= y
<1> DEFINE R == StrictSubsetOrdering(Nat)
           T == {0..x : x \in S}
<1>1. IsWellFoundedOn(R, FiniteSubsetsOf(Nat))
    BY FS_StrictSubsetOrderingWellFounded
<1>2. ASSUME NEW x \in S PROVE 0..x \in FiniteSubsetsOf(Nat)
    <2>1. x \in Int /\ 0 \in Int /\ 0..x \in SUBSET Nat
        OBVIOUS
    <2>2. IsFiniteSet(0..x)
        BY <2>1, FS_Interval
    <2>3. QED
        BY <2>1, <2>2 DEF FiniteSubsetsOf
<1>3. T \subseteq FiniteSubsetsOf(Nat) /\ T # {}
    BY <1>2, Zenon
<1>4. \E X \in T : \A Y \in T : ~(<<Y, X>> \in R)
    <2> HIDE DEF R, T
    <2>1. QED BY <1>1, <1>3, WFMin
<1>5. PICK x \in S : \A y \in S : ~(<<0..y, 0..x>> \in R)
    BY <1>4, Zenon
<1>6. ASSUME NEW y \in S, y < x PROVE FALSE
    <2>1. 0..y \subseteq 0..x /\ 0..y # 0..x /\ 0..y \in SUBSET Nat /\ 0..x \in SUBSET Nat
        <3>1. x \in 0..x /\ x \notin 0..y
            BY <1>6
        <3>2. QED BY <1>6, <3>1
    <2>2. <<0..y, 0..x>> \in R
        BY <2>1 DEF StrictSubsetOrdering
    <2>3. QED BY <2>2, <1>5
<1>7. QED
    BY <1>6

\* The entries that a metalog orders from finitely many shards are finitely
\* many, those of one more shard come on top, and they grow with the shards.
LEMMA EntriesAreCounted ==
    ASSUME NEW m \in MetaLogProto, NEW A \in SUBSET Engines
    PROVE  Counted(m, A)
<1>1. /\ m.deltas \in [Engines -> 0..MaxLocalId]
      /\ \A e \in Engines : m.deltas[e] \in Nat /\ m.deltas[e] <= MaxLocalId
    BY BoundAssumption DEF MetaLogProto
<1>2. IsFiniteSet(Engines \X (1..MaxLocalId))
    <2>1. IsFiniteSet(1..MaxLocalId)
        <3>1. 1 \in Int /\ MaxLocalId \in Int BY BoundAssumption
        <3>2. QED BY <3>1, FS_Interval
    <2>2. IsFiniteSet(Engines) BY NodeAssumption
    <2>3. QED BY <2>1, <2>2, FS_Product, Zenon
<1>3. ASSUME NEW X \in SUBSET Engines
      PROVE  /\ EntriesOf(m, X) \in SUBSET (Engines \X (1..MaxLocalId))
             /\ IsFiniteSet(EntriesOf(m, X)) /\ Cardinality(EntriesOf(m, X)) \in Nat
    <2>1. EntriesOf(m, X) \in SUBSET (Engines \X (1..MaxLocalId))
        BY <1>1, BoundAssumption DEF EntriesOf
    <2>2. IsFiniteSet(EntriesOf(m, X))
        BY <1>2, <2>1, FS_Subset
    <2>3. QED
        BY <2>1, <2>2, FS_CardinalityType
<1>4. ASSUME NEW e \in Engines \ A
      PROVE  Cardinality(EntriesOf(m, A \cup {e})) = Cardinality(EntriesOf(m, A)) + m.deltas[e]
    <2> DEFINE D == {e} \X (1..m.deltas[e])
    <2>1. EntriesOf(m, A \cup {e}) = EntriesOf(m, A) \cup D
        BY Zenon DEF EntriesOf
    <2>2. EntriesOf(m, A) \cap D = {}
        <3> SUFFICES ASSUME NEW x \in EntriesOf(m, A), x \in D PROVE FALSE
            OBVIOUS
        <3>1. PICK f \in A : x \in {f} \X (1..m.deltas[f])
            BY Zenon DEF EntriesOf
        <3>2. x[1] = f /\ x[1] = e
            BY <3>1
        <3>3. QED
            BY <1>4, <3>2
    <2>3. IsFiniteSet(D) /\ Cardinality(D) = m.deltas[e]
        <3>1. IsFiniteSet(1..m.deltas[e]) /\ Cardinality(1..m.deltas[e]) = m.deltas[e]
            <4>1. ASSUME NEW d \in Nat PROVE IsFiniteSet(1..d) /\ Cardinality(1..d) = d
                <5>1. 1 \in Int /\ d \in Int
                    OBVIOUS
                <5>2. IsFiniteSet(1..d) /\ Cardinality(1..d) = IF 1 > d THEN 0 ELSE d - 1 + 1
                    BY <5>1, FS_Interval, Zenon
                <5>3. QED
                    BY <5>2
            <4>2. QED
                BY <1>1, <1>4, <4>1
        <3>2. IsFiniteSet({e}) /\ Cardinality({e}) = 1
            BY FS_Singleton, Zenon
        <3>3. IsFiniteSet(D) /\ Cardinality(D) = Cardinality({e}) * Cardinality(1..m.deltas[e])
            BY <3>1, <3>2, FS_Product, Zenon
        <3>4. QED
            BY <1>1, <3>1, <3>2, <3>3
    <2>4. IsFiniteSet(EntriesOf(m, A)) /\ Cardinality(EntriesOf(m, A)) \in Nat
        BY <1>3
    <2> HIDE DEF D
    <2>5. Cardinality(EntriesOf(m, A) \cup D)
            = Cardinality(EntriesOf(m, A)) + Cardinality(D) - Cardinality(EntriesOf(m, A) \cap D)
        BY <2>3, <2>4, FS_Union
    <2>6. Cardinality(EntriesOf(m, A) \cap D) = 0
        BY <2>2, FS_EmptySet, Zenon
    <2>7. Cardinality(EntriesOf(m, A \cup {e})) = Cardinality(EntriesOf(m, A) \cup D)
        BY <2>1, Zenon
    <2>8. m.deltas[e] \in Nat
        BY <1>1, <1>4
    <2>9. QED
        BY <2>3, <2>4, <2>5, <2>6, <2>7, <2>8
<1>5. ASSUME NEW B \in SUBSET A
      PROVE  Cardinality(EntriesOf(m, B)) <= Cardinality(EntriesOf(m, A))
    <2>1. EntriesOf(m, B) \in SUBSET EntriesOf(m, A)
        BY Zenon DEF EntriesOf
    <2>2. QED
        BY <1>3, <2>1, FS_Subset
<1>6. A = {} => Cardinality(EntriesOf(m, A)) = 0
    <2>1. EntriesOf(m, {}) = {}
        BY Zenon DEF EntriesOf
    <2>2. QED
        BY <2>1, FS_EmptySet, Zenon
<1>7. QED
    BY <1>3, <1>4, <1>5, <1>6, Zenon DEF Counted

\* The first n local ids of an engine are n.
LEMMA LocalIdsAreCounted == LocalIdsCounted
<1> SUFFICES ASSUME NEW e \in Engines, NEW n \in Nat PROVE Cardinality({e} \X (0 .. (n - 1))) = n
    BY Zenon DEF LocalIdsCounted
<1>1. IsFiniteSet(0 .. (n - 1)) /\ Cardinality(0 .. (n - 1)) = n
    <2>1. 0 \in Int /\ n - 1 \in Int
        OBVIOUS
    <2>2. /\ IsFiniteSet(0 .. (n - 1))
          /\ Cardinality(0 .. (n - 1)) = IF 0 > n - 1 THEN 0 ELSE (n - 1) - 0 + 1
        BY <2>1, FS_Interval, Zenon
    <2>3. QED
        BY <2>2
<1>2. IsFiniteSet({e}) /\ Cardinality({e}) = 1
    BY FS_Singleton, Zenon
<1>3. Cardinality({e} \X (0 .. (n - 1))) = Cardinality({e}) * Cardinality(0 .. (n - 1))
    BY <1>1, <1>2, FS_Product, Zenon
<1>4. QED
    BY <1>1, <1>2, <1>3

\* Finitely many engines have a greatest node id: of the unbounded sets of
\* engines, one with fewest members would stay unbounded without one of them.
LEMMA EnginesAreBounded == EnginesBounded
<1> DEFINE Bounded(A) == \E u \in Nat : \A e \in A : e <= u
           sizes == {Cardinality(A) : A \in {B \in SUBSET Engines : ~Bounded(B)}}
<1>1. ASSUME NEW A \in SUBSET Engines PROVE IsFiniteSet(A) /\ Cardinality(A) \in Nat
    <2>1. IsFiniteSet(A)
        BY NodeAssumption, FS_Subset, Zenon
    <2>2. QED
        BY <2>1, FS_CardinalityType
<1>2. sizes \in SUBSET Nat
    BY <1>1
<1>3. ASSUME ~Bounded(Engines) PROVE FALSE
    <2>1. sizes # {}
        BY <1>3, Zenon
    <2>2. PICK x \in sizes : \A y \in sizes : x <= y
        BY <1>2, <2>1, NaturalsAreWellOrdered, Zenon
    <2>3. PICK A \in SUBSET Engines : ~Bounded(A) /\ x = Cardinality(A)
        BY <2>2, Zenon
    <2>4. PICK a \in A : TRUE
        <3>1. A # {}
            <4>1. 0 \in Nat /\ \A e \in {} : e <= 0
                OBVIOUS
            <4>2. QED
                BY <2>3, <4>1, Zenon
        <3>2. QED
            BY <3>1
    <2>5. IsFiniteSet(A) /\ Cardinality(A) \in Nat
        BY <1>1
    <2>6. Cardinality(A \ {a}) = Cardinality(A) - 1
        BY <2>4, <2>5, FS_RemoveElement, Zenon
    <2>7. Bounded(A \ {a})
        <3>1. ASSUME ~Bounded(A \ {a}) PROVE FALSE
            <4>1. A \ {a} \in SUBSET Engines
                OBVIOUS
            <4>2. Cardinality(A \ {a}) \in sizes
                BY <3>1, <4>1, Zenon
            <4> HIDE DEF sizes
            <4>3. x <= Cardinality(A \ {a})
                BY <2>2, <4>2, Zenon
            <4>4. QED
                BY <2>3, <2>5, <2>6, <4>3
        <3>2. QED
            BY <3>1
    <2>8. PICK u \in Nat : \A e \in A \ {a} : e <= u
        BY <2>7
    <2>9. a \in Nat /\ A \subseteq Nat
        BY NodeAssumption
    <2>10. u + a \in Nat /\ \A e \in A : e <= u + a
        <3>1. ASSUME NEW e \in A PROVE e <= u + a
            <4>1. e \in Nat /\ (e <= u \/ e = a)
                BY <2>8, <2>9
            <4>2. QED
                BY <2>9, <4>1
        <3>2. QED
            BY <2>9, <3>1
    <2>11. QED
        BY <2>3, <2>10, Zenon
<1>4. QED
    BY <1>3, Zenon DEF EnginesBounded

\* The facts about finite sets hold.
LEMMA SetFactsHold == SetFacts
<1>1. WellOrdered
    BY NaturalsAreWellOrdered, Zenon DEF WellOrdered
<1>2. QED
    BY <1>1, LocalIdsAreCounted, EnginesAreBounded, EntriesAreCounted, Zenon DEF SetFacts

-----------------------------------------------------------------------------
(* The theorems.                                                            *)

\* The invariant holds in every reachable state.
THEOREM Invariance == Spec => []IInv
<1>1. IInv /\ [Next]_vars => IInv'
    BY SetFactsHold, NextIInv
<1>2. QED
    BY InitIInv, <1>1, PTL DEF Spec

\* Skipping metalogs in lite mode (LogSpaceBase::CanApplyMetaLog) loses no entry
\* and finds every one pending, with any numbers of engines, storages and shards.
THEOREM LiteMode == Spec => []LiteModeSkipsNothing
<1>1. IInv => LiteModeSkipsNothing
    BY DEF IInv
<1>2. QED
    BY <1>1, Invariance, PTL

\* All engines and storages agree on one total order of the log entries, which
\* keeps each engine's append order, and no discarded append is in it.
THEOREM TotalOrder == Spec => []OneTotalOrder
<1>1. IInv => OneTotalOrder
    BY SetFactsHold, OrderIsTotal
<1>2. QED
    BY <1>1, Invariance, PTL

\* An acknowledged entry is on every storage node of its shard, and finalizing a
\* storage node discards none.
THEOREM Acked == Spec => []AckedIsStored
<1>1. IInv => AckedIsStored
    BY SetFactsHold, AckedIsHeld
<1>2. QED
    BY <1>1, Invariance, PTL

\* Engines, storages and the seal implement the shared log that functions are
\* promised, and go by metalogs that MetaLogSpec allows: every append that
\* returned has one position in one growing log, and no failed append is in it.
THEOREM Refinement == Spec => ImplementsSharedLog
<1>1. Init => NumbersUsed /\ SharedLog!Init /\ Metalog!Init
    BY SetFactsHold, InitIInv, InitRefines
<1>2. IInv /\ NumbersUsed /\ [Next]_vars => NumbersUsed'
    BY SetFactsHold, NextNumbersUsed
<1>3. IInv /\ IInv' /\ NumbersUsed /\ [Next]_vars => [SharedLog!Next]_(SharedLog!vars)
    BY SetFactsHold, NextSharedLogStep
<1>4. IInv /\ IInv' /\ [Next]_vars => [Metalog!Next]_(Metalog!vars)
    BY SetFactsHold, NextMetaLogStep
<1>5. QED
    BY <1>1, <1>2, <1>3, <1>4, Invariance, PTL
       DEF Spec, ImplementsSharedLog, SharedLog!Spec, Metalog!Spec
=============================================================================
