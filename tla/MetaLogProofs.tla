--------------------------- MODULE MetaLogProofs ---------------------------
(***************************************************************************)
(* Proofs about MetaLog, for any numbers of sequencers, engines, storages  *)
(* and log entries: its invariant, and that it implements MetaLogSpec.     *)
(***************************************************************************)
EXTENDS MetaLogRefines, FiniteSetTheorems, WellFoundedInduction, TLAPS

-----------------------------------------------------------------------------
(* Facts about the operators of the model.                                  *)

\* Every non-empty set of naturals has a least element: the intervals 0..x of
\* its elements are finite sets, well-founded by strict inclusion.
LEMMA LeastNatural ==
    ASSUME NEW S \in SUBSET Nat, S # {}
    PROVE  \E x \in S : \A y \in S : x <= y
<1> DEFINE R == StrictSubsetOrdering(Nat)
           T == {0..x : x \in S}
<1>1. IsWellFoundedOn(R, FiniteSubsetsOf(Nat))
    BY FS_StrictSubsetOrderingWellFounded
<1>2. ASSUME NEW x \in S PROVE 0..x \in FiniteSubsetsOf(Nat)
    <2>1. x \in Int /\ 0 \in Int /\ 0..x \in SUBSET Nat
        OBVIOUS
    <2>2. IsFiniteSet(0..x)
        BY <2>1, FS_Interval
    <2>3. QED
        BY <2>1, <2>2 DEF FiniteSubsetsOf
<1>3. T \subseteq FiniteSubsetsOf(Nat) /\ T # {}
    BY <1>2, Zenon
<1>4. \E X \in T : \A Y \in T : ~(<<Y, X>> \in R)
    <2> HIDE DEF R, T
    <2>1. QED BY <1>1, <1>3, WFMin
<1>5. PICK x \in S : \A y \in S : ~(<<0..y, 0..x>> \in R)
    BY <1>4, Zenon
<1>6. ASSUME NEW y \in S, y < x PROVE FALSE
    <2>1. 0..y \subseteq 0..x /\ 0..y # 0..x /\ 0..y \in SUBSET Nat /\ 0..x \in SUBSET Nat
        <3>1. x \in 0..x /\ x \notin 0..y
            BY <1>6
        <3>2. QED BY <1>6, <3>1
    <2>2. <<0..y, 0..x>> \in R
        BY <2>1 DEF StrictSubsetOrdering
    <2>3. QED BY <2>2, <1>5
<1>7. QED
    BY <1>6

\* Min picks the least element of a non-empty set of naturals.
LEMMA MinIsLeast ==
    ASSUME NEW S \in SUBSET Nat, S # {}
    PROVE  Min(S) \in S /\ \A x \in S : Min(S) <= x
BY LeastNatural, Zenon DEF Min

\* GetShardReplicatedPosition is the least progress of the shard's storages.
LEMMA ShardPosition ==
    ASSUME NEW prog \in [Engines -> [Storages -> 0..MaxLocalId]], NEW e \in Engines
    PROVE  /\ GetShardReplicatedPosition(prog, e) \in 0..MaxLocalId
           /\ \A s \in StorageNodes[e] : GetShardReplicatedPosition(prog, e) <= prog[e][s]
           /\ \E s \in StorageNodes[e] : GetShardReplicatedPosition(prog, e) = prog[e][s]
<1> DEFINE P == {prog[e][s] : s \in StorageNodes[e]}
<1>1. /\ P \in SUBSET Nat /\ P # {}
      /\ \A s \in StorageNodes[e] : prog[e][s] \in 0..MaxLocalId
    BY ShardAssumption, NumberAssumption
<1>2. Min(P) \in P /\ \A x \in P : Min(P) <= x
    BY <1>1, MinIsLeast, Zenon
<1>3. QED
    BY <1>1, <1>2, Zenon DEF GetShardReplicatedPosition

\* The entries of a cut are finitely many.
LEMMA LogsOfFinite ==
    ASSUME NEW deltas \in [Engines -> 0..MaxLocalId]
    PROVE  Cardinality(LogsOf(deltas)) \in Nat
<1>1. IsFiniteSet(1..MaxLocalId)
    <2>1. 1 \in Int /\ MaxLocalId \in Int BY NumberAssumption
    <2>2. QED BY <2>1, FS_Interval
<1>2. IsFiniteSet(Engines \X (1..MaxLocalId))
    <2>1. IsFiniteSet(Engines) BY ShardAssumption
    <2>2. QED BY <1>1, <2>1, FS_Product, Zenon
<1>3. LogsOf(deltas) \in SUBSET (Engines \X (1..MaxLocalId))
    BY NumberAssumption DEF LogsOf
<1>4. IsFiniteSet(LogsOf(deltas))
    BY <1>2, <1>3, FS_Subset
<1>5. QED
    BY <1>4, FS_CardinalityType

\* The sequence number a log ends at, which the cuts add up to, is a natural.
LEMMA SeqnumPositionType ==
    ASSUME NEW log \in Seq(MetaLogProto)
    PROVE  seqnum_position(log) \in Nat
<1>1. CASE log = <<>>
    BY <1>1 DEF seqnum_position
<1>2. CASE log # <<>>
    <2>1. log[Len(log)] \in MetaLogProto
        BY <1>2
    <2>2. /\ log[Len(log)].deltas \in [Engines -> 0..MaxLocalId]
          /\ log[Len(log)].start \in Nat
        BY <2>1 DEF MetaLogProto
    <2>3. Cardinality(LogsOf(log[Len(log)].deltas)) \in Nat
        BY <2>2, LogsOfFinite
    <2>4. QED
        BY <1>2, <2>2, <2>3 DEF seqnum_position
<1>3. QED
    BY <1>1, <1>2

\* AdvanceMetaLogProgress keeps what was applied and appends, in order,
\* pending metalogs with consecutive sequence numbers.
LEMMA Advance ==
    ASSUME NEW log \in Seq(MetaLogProto), NEW pend \in SUBSET MetaLogProto,
           NEW n \in AdvanceMetaLogProgress(Len(log), pend)
    PROVE  /\ n \in Nat /\ n >= Len(log)
           /\ AppliedUpTo(log, pend, n) \in Seq(MetaLogProto)
           /\ Len(AppliedUpTo(log, pend, n)) = n
           /\ \A i \in 1..n :
                 /\ i <= Len(log) => AppliedUpTo(log, pend, n)[i] = log[i]
                 /\ i > Len(log) => /\ AppliedUpTo(log, pend, n)[i] \in pend
                                    /\ AppliedUpTo(log, pend, n)[i].seqnum = i - 1
<1> DEFINE new == AppliedUpTo(log, pend, n)
<1>1. Len(log) \in Nat
    OBVIOUS
<1>2. n \in Nat /\ n >= Len(log)
    BY <1>1 DEF AdvanceMetaLogProgress
<1>3. ASSUME NEW i \in 1..n, i > Len(log)
      PROVE  new[i] \in pend /\ new[i].seqnum = i - 1
    <2>1. i - 1 \in Len(log) .. (n - 1)
        BY <1>1, <1>2, <1>3
    <2>2. \E m \in pend : m.seqnum = i - 1
        BY <2>1 DEF AdvanceMetaLogProgress
    <2>3. new[i] = CHOOSE m \in pend : m.seqnum = i - 1
        BY <1>1, <1>2, <1>3 DEF AppliedUpTo
    <2>4. QED
        BY <2>2, <2>3
<1>4. \A i \in 1..n : i <= Len(log) => new[i] = log[i]
    BY <1>1, <1>2 DEF AppliedUpTo
<1>5. new \in [1..n -> MetaLogProto]
    <2>1. \A i \in 1..n : new[i] \in MetaLogProto
        BY <1>1, <1>2, <1>3, <1>4
    <2>2. new = [i \in 1..n |-> new[i]]
        BY DEF AppliedUpTo
    <2>3. QED
        BY <2>1, <2>2
<1>6. new \in Seq(MetaLogProto) /\ Len(new) = n
    <2>1. new \in Seq(MetaLogProto)
        BY <1>2, <1>5
    <2>2. DOMAIN new = 1..n
        BY DEF AppliedUpTo
    <2>3. QED
        BY <1>2, <2>1, <2>2
<1>7. QED
    BY <1>2, <1>3, <1>4, <1>6

-----------------------------------------------------------------------------
(* Quora.                                                                   *)

Majority == Cardinality(Backups) - (Cardinality(Backups) \div 2)

AtLeast(prog, v) == {b \in Backups : prog[b] >= v}

\* The sets of backups that a median or a quorum counts are finite.
LEMMA BackupSubsets ==
    ASSUME NEW S \in SUBSET Backups
    PROVE  /\ IsFiniteSet(S) /\ Cardinality(S) \in Nat
           /\ Cardinality(S) <= Cardinality(Backups)
           /\ Cardinality(Backups) \in Nat
<1>1. IsFiniteSet(Backups) BY SequencerAssumption
<1>2. IsFiniteSet(S) /\ Cardinality(S) <= Cardinality(Backups) BY <1>1, FS_Subset
<1>3. QED BY <1>1, <1>2, FS_CardinalityType

\* The median is the position of some backup, and a majority (half of the
\* backups, rounded up) has reached it.
LEMMA MedianIsReached ==
    ASSUME NEW prog \in [Backups -> Nat], NEW v \in MedianProgress(prog)
    PROVE  /\ \E b \in Backups : v = prog[b]
           /\ Cardinality(AtLeast(prog, v)) >= Majority
           /\ Cardinality({b \in Backups : prog[b] <= v}) > Cardinality(Backups) \div 2
<1> DEFINE Below == {b \in Backups : prog[b] < v}
<1>1. PICK x \in Backups :
          /\ v = prog[x]
          /\ Cardinality({y \in Backups : prog[y] < prog[x]}) <= Cardinality(Backups) \div 2
          /\ Cardinality(Backups) \div 2 < Cardinality({y \in Backups : prog[y] <= prog[x]})
    BY DEF MedianProgress
<1>2. Cardinality(Below) <= Cardinality(Backups) \div 2
    BY <1>1
<1>3. AtLeast(prog, v) = Backups \ Below
    BY <1>1 DEF AtLeast
<1>4. Cardinality(Backups \ Below) = Cardinality(Backups) - Cardinality(Below)
    <2>1. Backups \cap Below = Below OBVIOUS
    <2>2. QED BY <2>1, FS_Difference, SequencerAssumption, Zenon
<1>5. Cardinality(Below) \in Nat /\ Cardinality(Backups) \in Nat
    BY BackupSubsets
<1>6. Cardinality(AtLeast(prog, v)) >= Majority
    BY <1>2, <1>3, <1>4, <1>5 DEF Majority
<1>7. QED
    BY <1>1, <1>6

\* A seal quorum contains the primary or one of any majority of the backups.
LEMMA QuoraMeet ==
    ASSUME NEW resp \in SUBSET Sequencers, Cardinality(resp) >= SealQuorum,
           NEW A \in SUBSET Backups, Cardinality(A) >= Majority
    PROVE  Primary \in resp \/ \E b \in A : b \in resp
<1>1. /\ IsFiniteSet(Backups) /\ Primary \notin Backups
      /\ IsFiniteSet(A) /\ Cardinality(A) \in Nat /\ Cardinality(Backups) \in Nat
    BY SequencerAssumption, BackupSubsets
<1>2. IsFiniteSet(Sequencers) /\ Cardinality(Sequencers) = Cardinality(Backups) + 1
    BY <1>1, FS_AddElement DEF Sequencers
<1>3. IsFiniteSet(A \cup {Primary}) /\ Cardinality(A \cup {Primary}) = Cardinality(A) + 1
    <2>1. Primary \notin A BY <1>1
    <2>2. QED BY <1>1, <2>1, FS_AddElement
<1>4. IsFiniteSet(resp) /\ Cardinality(resp) \in Nat
    BY <1>2, FS_Subset, FS_CardinalityType
<1>5. Cardinality(A \cup {Primary}) + Cardinality(resp) > Cardinality(Sequencers)
    BY <1>1, <1>2, <1>3, <1>4 DEF Majority, SealQuorum
<1>6. A \cup {Primary} \subseteq Sequencers
    BY DEF Sequencers
<1>7. (A \cup {Primary}) \cap resp # {}
    BY <1>2, <1>5, <1>6, FS_MajoritiesIntersect
<1>8. QED
    BY <1>7


-----------------------------------------------------------------------------
(* The inductive invariant.                                                 *)

\* The last cut is held by all storages of each shard, and a dirty shard has
\* entries past it.
CutsDurable ==
    \A e \in Engines : \A s \in StorageNodes[e] :
        /\ lastCut[e] <= shardProg[e][s]
        /\ e \in dirty => lastCut[e] < shardProg[e][s]

\* m is a metalog of the primary.
Held(m) ==
    m.seqnum < Len(applied[Primary]) /\ m = applied[Primary][m.seqnum + 1]

Numbered ==
    \A i \in 1..Len(applied[Primary]) : applied[Primary][i].seqnum = i - 1

\* Every metalog that waits, travels or was published is the primary's.
AllHeld ==
    /\ \A n \in Sequencers : \A m \in pending[n] : Held(m)
    /\ \A b \in Backups : \A m \in metaLogs[b] : Held(m)
    /\ \A n \in Sequencers : \A m \in freezeTail[n] : Held(m)
    /\ \A m \in propagated : Held(m) /\ m.seqnum < replicated
    /\ \A m \in finalTail : Held(m)

MajorityAcked == Cardinality(AtLeast(replicaProg, replicated)) >= Majority

\* A sequencer that answered the freeze stays as its answer says.
Frozen ==
    /\ seal # "done" => \A n \in Sequencers : phase[n] \in {"normal", "frozen"}
    /\ \A n \in Sequencers : phase[n] = "frozen" => freezeTail[n] = TailOf(applied[n])
    /\ \A n \in sealResp : phase[n] # "normal"

\* The final position bounds what the members of the seal quorum may still
\* contribute to the replicated position.
SealBounds ==
    seal = "done" =>
        /\ Cardinality(sealResp) >= SealQuorum
        /\ finalPos <= Len(applied[Primary])
        /\ Primary \in sealResp => replicated <= finalPos
        /\ \A b \in sealResp \cap Backups :
              /\ replicaProg[b] <= finalPos
              /\ \A pos \in metaProg[b] : pos <= finalPos

IInv ==
    /\ TypeOK
    /\ CutsDurable
    /\ Numbered
    /\ SequencersAgree
    /\ AllHeld
    /\ ProgressIsReal
    /\ MajorityAcked
    /\ Frozen
    /\ SealBounds

-----------------------------------------------------------------------------
(* Frame lemmas: what each conjunct of the invariant depends on.            *)

\* CutsDurable is about the storages' reports and the last cut.
LEMMA SameCuts ==
    ASSUME CutsDurable, UNCHANGED <<shardProg, lastCut, dirty>>
    PROVE  CutsDurable'
BY Zenon DEF CutsDurable

\* Numbered and SequencersAgree are about the applied metalogs.
LEMMA SameLogs ==
    ASSUME Numbered, SequencersAgree, UNCHANGED applied
    PROVE  Numbered' /\ SequencersAgree'
BY Zenon DEF Numbered, SequencersAgree, metalog_position

\* AllHeld is about the metalogs that wait, travel or were published.
LEMMA SameHeld ==
    ASSUME AllHeld, UNCHANGED <<applied, pending, metaLogs, freezeTail, propagated,
                                finalTail, replicated>>
    PROVE  AllHeld'
BY Zenon DEF AllHeld, Held

\* ProgressIsReal is about the positions and the acknowledgements.
LEMMA SameProgress ==
    ASSUME ProgressIsReal, UNCHANGED <<applied, metaProg, replicaProg, replicated>>
    PROVE  ProgressIsReal'
BY Zenon DEF ProgressIsReal, metalog_position

\* MajorityAcked is about the acknowledgements.
LEMMA SameAcks ==
    ASSUME MajorityAcked, UNCHANGED <<replicaProg, replicated>>
    PROVE  MajorityAcked'
BY Zenon DEF MajorityAcked, AtLeast

\* Frozen is about the sequencers' phases and freeze/ znodes.
LEMMA SameFrozen ==
    ASSUME Frozen, UNCHANGED <<applied, phase, freezeTail, seal, sealResp>>
    PROVE  Frozen'
BY Zenon DEF Frozen, TailOf

\* SealBounds is about the seal and the acknowledgements.
LEMMA SameSeal ==
    ASSUME SealBounds, UNCHANGED <<applied, replicaProg, replicated, metaProg, seal,
                                   sealResp, finalPos>>
    PROVE  SealBounds'
BY Zenon DEF SealBounds

\* The initial state satisfies the invariant.
LEMMA InitIInv == Init => IInv
<1> SUFFICES ASSUME Init PROVE IInv
    OBVIOUS
<1>1. TypeOK
    BY NumberAssumption DEF Init, TypeOK
<1>2. CutsDurable
    BY ShardAssumption DEF Init, CutsDurable
<1>3. Numbered /\ SequencersAgree /\ AllHeld
    BY DEF Init, Numbered, SequencersAgree, AllHeld, Sequencers, metalog_position
<1>4. ProgressIsReal
    BY DEF Init, ProgressIsReal, Sequencers, metalog_position
<1>5. MajorityAcked
    <2>1. AtLeast(replicaProg, replicated) = Backups
        BY DEF Init, AtLeast
    <2>2. QED
        BY <2>1, BackupSubsets DEF MajorityAcked, Majority
<1>6. Frozen /\ SealBounds
    BY DEF Init, Frozen, SealBounds
<1>7. QED
    BY <1>1, <1>2, <1>3, <1>4, <1>5, <1>6 DEF IInv

\* A storage's report only raises what the primary knows of it.
LEMMA OnRecvShardProgressIInv ==
    ASSUME IInv, NEW s \in Storages, NEW progress \in [SourceEngineNodes(s) -> 0..MaxLocalId],
           OnRecvShardProgress(s, progress)
    PROVE  IInv'
<1> DEFINE Raised == {e \in SourceEngineNodes(s) : progress[e] > shardProg[e][s]}
<1>1. /\ shardProg' = [e \in Engines |->
             IF e \in Raised THEN [shardProg[e] EXCEPT ![s] = progress[e]] ELSE shardProg[e]]
      /\ dirty' = dirty \cup
             {e \in Raised : GetShardReplicatedPosition(shardProg', e) > lastCut[e]}
      /\ UNCHANGED <<lastCut, replicaProg, replicated, seqVars, netVars, sealVars>>
    BY DEF OnRecvShardProgress
<1>2. TypeOK
    BY DEF IInv
<1>3. shardProg' \in [Engines -> [Storages -> 0..MaxLocalId]]
    BY <1>1, <1>2 DEF TypeOK, SourceEngineNodes
<1>4. \A e \in Engines : \A t \in Storages : shardProg[e][t] <= shardProg'[e][t]
    <2> SUFFICES ASSUME NEW e \in Engines, NEW t \in Storages
                 PROVE  shardProg[e][t] <= shardProg'[e][t]
        OBVIOUS
    <2>1. shardProg[e] \in [Storages -> 0..MaxLocalId]
        BY <1>2 DEF TypeOK
    <2>2. CASE e \in Raised
        <3>1. shardProg'[e] = [shardProg[e] EXCEPT ![s] = progress[e]]
            BY <1>1, <2>2
        <3>2. progress[e] > shardProg[e][s] /\ progress[e] \in 0..MaxLocalId
            BY <2>2
        <3>3. QED
            BY <2>1, <3>1, <3>2, NumberAssumption
    <2>3. CASE e \notin Raised
        BY <1>1, <2>1, <2>3, NumberAssumption
    <2>4. QED
        BY <2>2, <2>3
<1>5. TypeOK'
    <2>1. dirty' \subseteq Engines
        BY <1>1, <1>2, Zenon DEF TypeOK, SourceEngineNodes
    <2>2. QED
        BY <1>1, <1>2, <1>3, <2>1, Zenon DEF TypeOK, seqVars, netVars, sealVars
<1>6. CutsDurable'
    <2> SUFFICES ASSUME NEW e \in Engines, NEW t \in StorageNodes[e]
                 PROVE  /\ lastCut[e] <= shardProg'[e][t]
                        /\ e \in dirty' => lastCut[e] < shardProg'[e][t]
        BY <1>1 DEF CutsDurable
    <2>1. /\ lastCut[e] \in Nat /\ t \in Storages
          /\ shardProg[e][t] \in Nat /\ shardProg'[e][t] \in Nat
        BY <1>2, <1>3, ShardAssumption, NumberAssumption DEF TypeOK
    <2>2. lastCut[e] <= shardProg[e][t] /\ (e \in dirty => lastCut[e] < shardProg[e][t])
        BY DEF IInv, CutsDurable
    <2>3. shardProg[e][t] <= shardProg'[e][t]
        BY <1>4, <2>1
    <2>4. CASE e \in dirty
        BY <2>1, <2>2, <2>3, <2>4
    <2>5. CASE e \notin dirty /\ e \in dirty'
        <3>1. GetShardReplicatedPosition(shardProg', e) > lastCut[e]
            BY <1>1, <2>5
        <3>2. /\ GetShardReplicatedPosition(shardProg', e) \in 0..MaxLocalId
              /\ GetShardReplicatedPosition(shardProg', e) <= shardProg'[e][t]
            BY <1>3, ShardPosition
        <3>3. QED
            BY <2>1, <3>1, <3>2, NumberAssumption
    <2>6. QED
        BY <2>1, <2>2, <2>3, <2>4, <2>5
<1>7. /\ Numbered' /\ SequencersAgree' /\ AllHeld' /\ ProgressIsReal'
      /\ MajorityAcked' /\ Frozen' /\ SealBounds'
    <2>1. UNCHANGED <<applied, pending, phase, metaLogs, metaProg, propagated, replicaProg,
                      replicated, freezeTail, seal, sealResp, finalPos, finalTail>>
        BY <1>1, Zenon DEF seqVars, netVars, sealVars
    <2>2. QED
        BY <2>1, SameLogs, SameHeld, SameProgress, SameAcks, SameFrozen, SameSeal, Zenon DEF IInv
<1>8. QED
    BY <1>5, <1>6, <1>7 DEF IInv


\* A new cut ends where all storages of its shards have reported to be, and the
\* primary's log grows by it alone.
LEMMA MarkNextCutIInv ==
    ASSUME IInv, MarkNextCutIfDoable
    PROVE  IInv'
<1> DEFINE log == applied[Primary]
           m == [seqnum |-> Len(log), start |-> seqnum_position(log),
                 starts |-> lastCut, deltas |-> NextCutDeltas]
<1>1. /\ phase[Primary] = "normal" /\ replicated = Len(log)
      /\ applied' = [applied EXCEPT ![Primary] = Append(@, m)]
      /\ metaLogs' = [b \in Backups |-> metaLogs[b] \cup {m}]
      /\ lastCut' = [e \in Engines |-> lastCut[e] + NextCutDeltas[e]]
      /\ dirty' = {}
      /\ UNCHANGED <<shardProg, replicaProg, replicated, pending, phase,
                     metaProg, propagated, sealVars>>
    BY DEF MarkNextCutIfDoable, MarkNextCut, metalog_position
<1>2. TypeOK /\ Primary \in Sequencers
    BY DEF IInv, Sequencers
<1>3. log \in Seq(MetaLogProto) /\ Len(log) \in Nat
    BY <1>2 DEF TypeOK
<1>4. ASSUME NEW e \in Engines
      PROVE  /\ NextCutDeltas[e] \in 0..MaxLocalId
             /\ lastCut[e] + NextCutDeltas[e] \in 0..MaxLocalId
             /\ \A s \in StorageNodes[e] : lastCut[e] + NextCutDeltas[e] <= shardProg[e][s]
    <2>1. /\ GetShardReplicatedPosition(shardProg, e) \in 0..MaxLocalId
          /\ \A s \in StorageNodes[e] : GetShardReplicatedPosition(shardProg, e) <= shardProg[e][s]
          /\ \E s \in StorageNodes[e] : GetShardReplicatedPosition(shardProg, e) = shardProg[e][s]
        BY <1>2, ShardPosition, Zenon DEF TypeOK
    <2>2. \A s \in StorageNodes[e] : lastCut[e] <= shardProg[e][s]
        BY DEF IInv, CutsDurable
    <2>3. lastCut[e] \in 0..MaxLocalId
        BY <1>2 DEF TypeOK
    <2>4. lastCut[e] <= GetShardReplicatedPosition(shardProg, e)
        BY <2>1, <2>2
    <2>5. NextCutDeltas[e] = IF e \in dirty
              THEN GetShardReplicatedPosition(shardProg, e) - lastCut[e] ELSE 0
        BY DEF NextCutDeltas
    <2>6. QED
        BY <2>1, <2>2, <2>3, <2>4, <2>5, NumberAssumption
<1>5. m \in MetaLogProto
    <2>1. NextCutDeltas \in [Engines -> 0..MaxLocalId]
        BY <1>4 DEF NextCutDeltas
    <2>2. seqnum_position(log) \in Nat
        BY <1>3, SeqnumPositionType
    <2>3. QED
        BY <1>2, <1>3, <2>1, <2>2, Zenon DEF MetaLogProto, TypeOK
<1> HIDE DEF m
<1>6. /\ applied'[Primary] \in Seq(MetaLogProto)
      /\ Len(applied'[Primary]) = Len(log) + 1
      /\ \A i \in 1..Len(log) : applied'[Primary][i] = log[i]
      /\ applied'[Primary][Len(log) + 1] = m
    <2>1. applied'[Primary] = Append(log, m)
        BY <1>1, <1>2 DEF TypeOK
    <2>2. QED
        BY <1>3, <1>5, <2>1
<1>7. \A n \in Backups : applied'[n] = applied[n]
    BY <1>1, <1>2, SequencerAssumption DEF TypeOK, Sequencers
<1>8. m.seqnum = Len(log)
    BY DEF m
<1>9. TypeOK'
    <2>1. applied' \in [Sequencers -> Seq(MetaLogProto)]
        BY <1>1, <1>2, <1>6 DEF TypeOK
    <2>2. lastCut' \in [Engines -> 0..MaxLocalId]
        BY <1>1, <1>4
    <2>3. metaLogs' \in [Backups -> SUBSET MetaLogProto]
        BY <1>1, <1>2, <1>5 DEF TypeOK
    <2>4. QED
        BY <1>1, <1>2, <2>1, <2>2, <2>3 DEF TypeOK, sealVars
<1>10. CutsDurable'
    BY <1>1, <1>4 DEF CutsDurable
<1>11. Numbered'
    <2> SUFFICES ASSUME NEW i \in 1..Len(applied'[Primary])
                 PROVE  applied'[Primary][i].seqnum = i - 1
        BY DEF Numbered
    <2>1. CASE i \in 1..Len(log)
        BY <1>6, <2>1, Zenon DEF IInv, Numbered
    <2>2. CASE i = Len(log) + 1
        BY <1>3, <1>6, <1>8, <2>2
    <2>3. QED
        BY <1>3, <1>6, <2>1, <2>2
<1>12. SequencersAgree'
    <2> SUFFICES ASSUME NEW n \in Sequencers, NEW i \in 1..Len(applied'[n])
                 PROVE  i <= Len(applied'[Primary]) /\ applied'[n][i] = applied'[Primary][i]
        BY DEF SequencersAgree, metalog_position
    <2>1. CASE n = Primary
        BY <1>3, <1>6, <2>1
    <2>2. CASE n \in Backups
        <3>1. i <= Len(log) /\ applied[n][i] = log[i] /\ i \in 1..Len(log)
            BY <1>3, <1>7, <2>2 DEF IInv, SequencersAgree, metalog_position
        <3>2. QED
            BY <1>3, <1>6, <1>7, <2>2, <3>1
    <2>3. QED
        BY <2>1, <2>2 DEF Sequencers
<1>13. \A x \in MetaLogProto : Held(x) => Held(x)'
    <2> SUFFICES ASSUME NEW x \in MetaLogProto, Held(x)
                 PROVE  /\ x.seqnum < Len(applied'[Primary])
                        /\ x = applied'[Primary][x.seqnum + 1]
        BY DEF Held
    <2>1. x.seqnum \in Nat
        BY DEF MetaLogProto
    <2>2. x.seqnum < Len(log) /\ x = log[x.seqnum + 1] /\ x.seqnum + 1 \in 1..Len(log)
        BY <1>3, <2>1 DEF Held
    <2>3. QED
        BY <1>3, <1>6, <2>1, <2>2
<1>14. \A x : x = m => Held(x)'
    BY <1>3, <1>6, <1>8 DEF Held
<1>15. AllHeld'
    <2>1. \A n \in Sequencers : \A x \in pending'[n] : Held(x)'
        BY <1>1, <1>2, <1>13 DEF IInv, AllHeld, TypeOK
    <2>2. \A b \in Backups : \A x \in metaLogs'[b] : Held(x)'
        BY <1>1, <1>2, <1>13, <1>14 DEF IInv, AllHeld, TypeOK
    <2>3. \A n \in Sequencers : \A x \in freezeTail'[n] : Held(x)'
        BY <1>1, <1>2, <1>13 DEF IInv, AllHeld, TypeOK, sealVars
    <2>4. \A x \in propagated' : Held(x)' /\ x.seqnum < replicated'
        BY <1>1, <1>2, <1>13 DEF IInv, AllHeld, TypeOK
    <2>5. \A x \in finalTail' : Held(x)'
        BY <1>1, <1>2, <1>13, Zenon DEF IInv, AllHeld, TypeOK, sealVars
    <2>6. QED
        BY <2>1, <2>2, <2>3, <2>4, <2>5 DEF AllHeld
<1>16. ProgressIsReal'
    <2>1. \A b \in Backups : /\ \A pos \in metaProg[b] : pos <= Len(applied[b])
                             /\ replicaProg[b] <= Len(applied[b])
        BY DEF IInv, ProgressIsReal, metalog_position
    <2>2. metaProg' = metaProg /\ replicaProg' = replicaProg /\ replicated' = Len(log)
        BY <1>1
    <2>3. \A b \in Backups : /\ \A pos \in metaProg'[b] : pos <= Len(applied'[b])
                             /\ replicaProg'[b] <= Len(applied'[b])
        BY <1>7, <2>1, <2>2, Zenon
    <2>4. /\ replicated' <= Len(applied'[Primary])
          /\ Len(applied'[Primary]) <= replicated' + 1
        BY <1>3, <1>6, <2>2
    <2>5. QED
        BY <2>3, <2>4 DEF ProgressIsReal, metalog_position
<1>17. MajorityAcked'
    BY <1>1, Zenon DEF IInv, MajorityAcked
<1>18. Frozen'
    <2>1. \A n \in Sequencers : phase[n] = "frozen" => applied'[n] = applied[n]
        BY <1>1, <1>7 DEF Sequencers
    <2>2. QED
        BY <1>1, <2>1 DEF IInv, Frozen, sealVars, TailOf
<1>19. SealBounds'
    <2>1. finalPos \in Nat
        BY <1>2 DEF TypeOK
    <2>2. QED
        BY <1>1, <1>3, <1>6, <2>1 DEF IInv, SealBounds, sealVars
<1>20. QED
    BY <1>9, <1>10, <1>11, <1>12, <1>15, <1>16, <1>17, <1>18, <1>19 DEF IInv

\* A backup's position is a position it reached, so the median of the backups'
\* positions is held by a majority when it becomes the replicated position.
LEMMA OnRecvMetaLogProgressIInv ==
    ASSUME IInv, NEW b \in Backups, OnRecvMetaLogProgress(b)
    PROVE  IInv' /\ replicated' >= replicated
<1>1. PICK pos \in metaProg[b] :
        /\ metaProg' = [metaProg EXCEPT ![b] = @ \ {pos}]
        /\ \/ /\ phase[Primary] = "normal" /\ pos > replicaProg[b]
              /\ replicaProg' = [replicaProg EXCEPT ![b] = pos]
              /\ replicated' \in UpdateMetaLogReplicatedPosition(replicaProg')
              /\ propagated' = propagated \cup
                     {applied[Primary][i] : i \in (replicated + 1) .. replicated'}
           \/ /\ phase[Primary] # "normal" \/ pos <= replicaProg[b]
              /\ UNCHANGED <<replicaProg, replicated, propagated>>
        /\ UNCHANGED <<shardProg, lastCut, dirty, seqVars, metaLogs, sealVars>>
    BY Zenon DEF OnRecvMetaLogProgress
<1>2. /\ TypeOK /\ Primary \in Sequencers /\ Backups \subseteq Sequencers
      /\ UNCHANGED <<shardProg, lastCut, dirty, applied, pending, phase, metaLogs,
                     freezeTail, seal, sealResp, othersSealed, finalPos, finalTail>>
    BY <1>1 DEF IInv, Sequencers, seqVars, sealVars
<1>3. /\ pos \in Nat /\ replicated \in Nat /\ replicaProg \in [Backups -> Nat]
      /\ applied[Primary] \in Seq(MetaLogProto) /\ Len(applied[Primary]) \in Nat
    BY <1>2 DEF TypeOK
<1>4. \A x \in Backups : metaProg'[x] \subseteq metaProg[x]
    BY <1>1, <1>2, Zenon DEF TypeOK
<1>5. metaProg' \in [Backups -> SUBSET Nat]
    BY <1>1, <1>2, Zenon DEF TypeOK
<1>6. CASE UNCHANGED <<replicaProg, replicated, propagated>>
    <2>1. TypeOK'
        BY <1>2, <1>5, <1>6 DEF TypeOK
    <2>2. CutsDurable' /\ Numbered' /\ SequencersAgree' /\ AllHeld' /\ MajorityAcked' /\ Frozen'
        BY <1>2, <1>6, SameCuts, SameLogs, SameHeld, SameAcks, SameFrozen, Zenon DEF IInv
    <2>3. ProgressIsReal'
        BY <1>2, <1>4, <1>6, Zenon DEF IInv, ProgressIsReal, metalog_position
    <2>4. SealBounds'
        BY <1>2, <1>4, <1>6 DEF IInv, SealBounds
    <2>5. QED
        BY <1>3, <1>6, <2>1, <2>2, <2>3, <2>4 DEF IInv
<1>7. CASE /\ phase[Primary] = "normal" /\ pos > replicaProg[b]
           /\ replicaProg' = [replicaProg EXCEPT ![b] = pos]
           /\ replicated' \in UpdateMetaLogReplicatedPosition(replicaProg')
           /\ propagated' = propagated \cup
                  {applied[Primary][i] : i \in (replicated + 1) .. replicated'}
    <2>1. /\ replicaProg' \in [Backups -> Nat]
          /\ \A x \in Backups : replicaProg[x] <= replicaProg'[x]
          /\ \A x \in Backups : replicaProg'[x] = replicaProg[x] \/ (x = b /\ replicaProg'[x] = pos)
        BY <1>3, <1>7
    <2>2. \A x \in Backups : Len(applied[x]) \in Nat /\ Len(applied[x]) <= Len(applied[Primary])
        <3> SUFFICES ASSUME NEW x \in Backups
                     PROVE  Len(applied[x]) \in Nat /\ Len(applied[x]) <= Len(applied[Primary])
            OBVIOUS
        <3>1. applied[x] \in Seq(MetaLogProto) /\ Len(applied[x]) \in Nat
            BY <1>2 DEF TypeOK
        <3>2. CASE Len(applied[x]) = 0
            BY <1>3, <3>1, <3>2
        <3>3. CASE Len(applied[x]) # 0
            <4>1. Len(applied[x]) \in 1..Len(applied[x])
                BY <3>1, <3>3
            <4>2. QED
                BY <1>2, <3>1, <4>1 DEF IInv, SequencersAgree, metalog_position
        <3>4. QED BY <3>2, <3>3
    <2>3. \A x \in Backups : replicaProg'[x] <= Len(applied[x])
        BY <2>1 DEF IInv, ProgressIsReal, metalog_position
    <2>4. /\ replicated <= Len(applied[Primary]) /\ Len(applied[Primary]) <= replicated + 1
        BY DEF IInv, ProgressIsReal, metalog_position
    <2>5. /\ replicated' \in Nat /\ replicated' <= Len(applied[Primary])
          /\ replicated <= replicated' /\ MajorityAcked'
        <3>1. CASE replicated = Len(applied[Primary])
            <4>1. replicated' = replicated
                BY <1>7, <3>1 DEF UpdateMetaLogReplicatedPosition, metalog_position
            <4>2. AtLeast(replicaProg, replicated) \subseteq AtLeast(replicaProg', replicated)
                BY <1>3, <2>1 DEF AtLeast
            <4>3. Cardinality(AtLeast(replicaProg, replicated)) <= Cardinality(AtLeast(replicaProg', replicated))
                <5>1. IsFiniteSet(AtLeast(replicaProg', replicated))
                    BY BackupSubsets, Zenon DEF AtLeast
                <5>2. QED
                    BY <4>2, <5>1, FS_Subset, Zenon
            <4>4. /\ Cardinality(AtLeast(replicaProg, replicated)) \in Nat
                  /\ Cardinality(AtLeast(replicaProg', replicated)) \in Nat
                  /\ Cardinality(Backups) \in Nat
                BY BackupSubsets DEF AtLeast
            <4>5. QED
                BY <1>3, <2>4, <4>1, <4>3, <4>4 DEF IInv, MajorityAcked, Majority
        <3>2. CASE replicated # Len(applied[Primary])
            <4> DEFINE New == {x \in Backups : replicaProg'[x] <= replicated'}
                       Old == AtLeast(replicaProg, replicated)
            <4>1. replicated' \in MedianProgress(replicaProg')
                BY <1>7, <3>2 DEF UpdateMetaLogReplicatedPosition, metalog_position
            <4>2. /\ \E x \in Backups : replicated' = replicaProg'[x]
                  /\ Cardinality(AtLeast(replicaProg', replicated')) >= Majority
                  /\ Cardinality(New) > Cardinality(Backups) \div 2
                BY <2>1, <4>1, MedianIsReached
            <4>3. replicated' \in Nat /\ replicated' <= Len(applied[Primary])
                <5>1. PICK x \in Backups : replicated' = replicaProg'[x]
                    BY <4>2, Zenon
                <5>2. /\ replicaProg'[x] \in Nat /\ replicaProg'[x] <= Len(applied[x])
                      /\ Len(applied[x]) \in Nat /\ Len(applied[x]) <= Len(applied[Primary])
                    BY <2>1, <2>2, <2>3, Zenon
                <5>3. QED
                    BY <1>3, <5>1, <5>2
            <4>4. Cardinality(Old) >= Majority
                BY Zenon DEF IInv, MajorityAcked
            <4>5. New \cap Old # {}
                <5>1. /\ New \subseteq Backups /\ Old \subseteq Backups /\ IsFiniteSet(Backups)
                      /\ Cardinality(New) \in Nat /\ Cardinality(Old) \in Nat
                      /\ Cardinality(Backups) \in Nat
                    BY BackupSubsets, SequencerAssumption, Zenon DEF AtLeast
                <5> HIDE DEF New, Old
                <5>2. Cardinality(New) + Cardinality(Old) > Cardinality(Backups)
                    BY <4>2, <4>4, <5>1 DEF Majority
                <5>3. QED
                    BY <5>1, <5>2, FS_MajoritiesIntersect
            <4>6. replicated <= replicated'
                <5>1. PICK x \in Backups : replicaProg'[x] <= replicated' /\ replicaProg[x] >= replicated
                    BY <4>5 DEF AtLeast
                <5>2. QED
                    BY <1>3, <2>1, <4>3, <5>1
            <4>7. QED
                BY <4>2, <4>3, <4>6 DEF MajorityAcked
        <3>3. QED
            BY <3>1, <3>2
    <2>6. \A i \in (replicated + 1) .. replicated' :
             /\ applied[Primary][i] \in MetaLogProto /\ Held(applied[Primary][i])
             /\ applied[Primary][i].seqnum < replicated'
        <3> SUFFICES ASSUME NEW i \in (replicated + 1) .. replicated'
                     PROVE  /\ applied[Primary][i] \in MetaLogProto /\ Held(applied[Primary][i])
                            /\ applied[Primary][i].seqnum < replicated'
            OBVIOUS
        <3>1. i \in 1..Len(applied[Primary])
            BY <1>3, <2>5
        <3>2. applied[Primary][i] \in MetaLogProto /\ applied[Primary][i].seqnum = i - 1
            BY <1>3, <3>1 DEF IInv, Numbered
        <3>3. QED
            BY <1>3, <2>5, <3>1, <3>2 DEF Held
    <2>7. TypeOK'
        <3>1. propagated' \subseteq MetaLogProto
            BY <1>2, <1>7, <2>6, Zenon DEF TypeOK
        <3>2. QED
            BY <1>2, <1>5, <2>1, <2>5, <3>1 DEF TypeOK
    <2>8. CutsDurable' /\ Numbered' /\ SequencersAgree' /\ Frozen'
        BY <1>2, Zenon DEF IInv, CutsDurable, Numbered, SequencersAgree, Frozen, metalog_position
    <2>9. AllHeld'
        <3>1. \A x \in propagated' : Held(x) /\ x.seqnum < replicated'
            <4> SUFFICES ASSUME NEW x \in propagated' PROVE Held(x) /\ x.seqnum < replicated'
                OBVIOUS
            <4>1. CASE x \in propagated
                <5>1. Held(x) /\ x.seqnum < replicated /\ x.seqnum \in Nat
                    BY <1>2, <4>1, Zenon DEF IInv, AllHeld, TypeOK, MetaLogProto
                <5>2. QED
                    BY <1>3, <2>5, <5>1
            <4>2. CASE x \notin propagated
                BY <1>7, <2>6, <4>2
            <4>3. QED BY <4>1, <4>2
        <3>2. \A x : Held(x)' <=> Held(x)
            BY <1>2 DEF Held
        <3>3. QED
            BY <1>2, <3>1, <3>2, Zenon DEF IInv, AllHeld
    <2>10. ProgressIsReal'
        <3>1. \A x \in Backups : \A q \in metaProg'[x] : q <= Len(applied[x])
            BY <1>4 DEF IInv, ProgressIsReal, metalog_position
        <3>2. Len(applied[Primary]) <= replicated' + 1
            BY <1>3, <2>4, <2>5
        <3>3. QED
            BY <1>2, <2>3, <2>5, <3>1, <3>2 DEF ProgressIsReal, metalog_position
    <2>11. SealBounds'
        <3> SUFFICES ASSUME seal = "done"
                     PROVE  /\ Cardinality(sealResp) >= SealQuorum
                            /\ finalPos <= Len(applied[Primary])
                            /\ Primary \in sealResp => replicated' <= finalPos
                            /\ \A x \in sealResp \cap Backups :
                                  /\ replicaProg'[x] <= finalPos
                                  /\ \A q \in metaProg'[x] : q <= finalPos
            BY <1>2 DEF SealBounds
        <3>1. Primary \notin sealResp
            BY <1>7 DEF IInv, Frozen
        <3>2. QED
            BY <1>4, <2>1, <3>1 DEF IInv, SealBounds
    <2>12. QED
        BY <2>5, <2>7, <2>8, <2>9, <2>10, <2>11 DEF IInv
<1>8. QED
    BY <1>1, <1>6, <1>7


\* When a sequencer extends its own log with metalogs of the primary, and
\* never the primary its own, what the invariant says of logs is preserved.
LEMMA AdvanceAgrees ==
    ASSUME TypeOK, Numbered, SequencersAgree,
           NEW n \in Sequencers, NEW pend \in SUBSET MetaLogProto,
           \A m \in pend : Held(m),
           NEW q \in AdvanceMetaLogProgress(metalog_position(n), pend)
    PROVE  /\ AppliedUpTo(applied[n], pend, q) \in Seq(MetaLogProto)
           /\ Len(AppliedUpTo(applied[n], pend, q)) = q
           /\ q \in Nat /\ q >= Len(applied[n])
           /\ q <= Len(applied[Primary])
           /\ \A i \in 1..q : AppliedUpTo(applied[n], pend, q)[i] = applied[Primary][i]
<1> DEFINE new == AppliedUpTo(applied[n], pend, q)
<1>1. /\ applied[n] \in Seq(MetaLogProto) /\ Len(applied[n]) \in Nat
      /\ applied[Primary] \in Seq(MetaLogProto) /\ Len(applied[Primary]) \in Nat
    BY DEF TypeOK, Sequencers
<1>2. /\ q \in Nat /\ q >= Len(applied[n])
      /\ new \in Seq(MetaLogProto) /\ Len(new) = q
      /\ \A i \in 1..q :
            /\ i <= Len(applied[n]) => new[i] = applied[n][i]
            /\ i > Len(applied[n]) => new[i] \in pend /\ new[i].seqnum = i - 1
    BY <1>1, Advance, Zenon DEF metalog_position
<1> HIDE DEF new
<1>3. ASSUME NEW i \in 1..q
      PROVE  i <= Len(applied[Primary]) /\ new[i] = applied[Primary][i]
    <2>1. CASE i <= Len(applied[n])
        <3>1. i \in 1..Len(applied[n])
            BY <1>1, <1>2, <2>1
        <3>2. QED
            BY <1>2, <2>1, <3>1 DEF SequencersAgree, metalog_position
    <2>2. CASE i > Len(applied[n])
        <3>1. new[i].seqnum = i - 1 /\ Held(new[i])
            BY <1>2, <2>2
        <3>2. i - 1 < Len(applied[Primary]) /\ new[i] = applied[Primary][(i - 1) + 1]
            BY <3>1 DEF Held
        <3>3. QED
            BY <1>1, <1>2, <3>2
    <2>3. i <= Len(applied[n]) \/ i > Len(applied[n])
        <3>1. i \in Int /\ Len(applied[n]) \in Int
            BY <1>1, <1>2
        <3>2. QED
            BY <3>1
    <2>4. QED
        BY <2>1, <2>2, <2>3, Zenon
<1>4. q <= Len(applied[Primary])
    <2>1. CASE q = 0 BY <1>1, <2>1
    <2>2. CASE q # 0
        <3>1. q \in 1..q BY <1>2, <2>2
        <3>2. QED BY <1>3, <3>1
    <2>3. QED BY <2>1, <2>2
<1>5. QED
    BY <1>2, <1>3, <1>4, Zenon DEF new

\* A backup applies metalogs of the primary's log in order, and acknowledges
\* the position it reached.
LEMMA OnRecvNewMetaLogsIInv ==
    ASSUME IInv, NEW b \in Backups, OnRecvNewMetaLogs(b)
    PROVE  IInv'
<1>1. PICK m \in metaLogs[b] :
        /\ metaLogs' = [metaLogs EXCEPT ![b] = @ \ {m}]
        /\ \/ /\ phase[b] = "normal"
              /\ LET pos  == metalog_position(b)
                     pend == ProvideMetaLogs(pos, pending[b], {m})
                 IN  \E n \in AdvanceMetaLogProgress(pos, pend) :
                        /\ applied' = [applied EXCEPT ![b] = AppliedUpTo(@, pend, n)]
                        /\ pending' = [pending EXCEPT ![b] = PendingFrom(pend, n)]
                        /\ metaProg' = IF n > pos
                               THEN [metaProg EXCEPT ![b] = @ \cup {n}]
                               ELSE metaProg
           \/ /\ phase[b] # "normal"
              /\ UNCHANGED <<applied, pending, metaProg>>
        /\ UNCHANGED <<primaryVars, phase, propagated, sealVars>>
    BY Zenon DEF OnRecvNewMetaLogs
<1>2. /\ TypeOK /\ Primary \in Sequencers /\ b \in Sequencers /\ b # Primary
      /\ UNCHANGED <<shardProg, lastCut, dirty, replicaProg, replicated, phase, propagated,
                     freezeTail, seal, sealResp, othersSealed, finalPos, finalTail>>
    BY <1>1, SequencerAssumption, Zenon DEF IInv, Sequencers, primaryVars, sealVars
<1>3. /\ metaLogs' \in [Backups -> SUBSET MetaLogProto]
      /\ \A x \in Backups : metaLogs'[x] \subseteq metaLogs[x]
    BY <1>1, <1>2, Zenon DEF TypeOK
<1>4. CASE UNCHANGED <<applied, pending, metaProg>>
    <2>1. TypeOK'
        BY <1>2, <1>3, <1>4, Zenon DEF TypeOK
    <2>2. AllHeld'
        BY <1>2, <1>3, <1>4, Zenon DEF IInv, AllHeld, Held
    <2>3. QED
        BY <1>2, <1>4, <2>1, <2>2, SameCuts, SameLogs, SameProgress, SameAcks, SameFrozen,
            SameSeal, Zenon DEF IInv
<1>5. ASSUME phase[b] = "normal",
             NEW pend, pend = ProvideMetaLogs(metalog_position(b), pending[b], {m}),
             NEW q \in AdvanceMetaLogProgress(metalog_position(b), pend),
             applied' = [applied EXCEPT ![b] = AppliedUpTo(@, pend, q)],
             pending' = [pending EXCEPT ![b] = PendingFrom(pend, q)],
             metaProg' = IF q > metalog_position(b)
                         THEN [metaProg EXCEPT ![b] = @ \cup {q}] ELSE metaProg
      PROVE  IInv'
    <2>1. pend \in SUBSET MetaLogProto /\ \A x \in pend : Held(x)
        BY <1>2, <1>5, Zenon DEF IInv, TypeOK, AllHeld, ProvideMetaLogs
    <2>2. /\ AppliedUpTo(applied[b], pend, q) \in Seq(MetaLogProto)
          /\ Len(AppliedUpTo(applied[b], pend, q)) = q
          /\ q \in Nat /\ q >= Len(applied[b]) /\ q <= Len(applied[Primary])
          /\ \A i \in 1..q : AppliedUpTo(applied[b], pend, q)[i] = applied[Primary][i]
        BY <1>2, <1>5, <2>1, AdvanceAgrees, Zenon DEF IInv
    <2>3. /\ applied'[b] = AppliedUpTo(applied[b], pend, q)
          /\ \A n \in Sequencers : n # b => applied'[n] = applied[n]
          /\ applied'[Primary] = applied[Primary]
          /\ applied' \in [Sequencers -> Seq(MetaLogProto)]
        BY <1>2, <1>5, <2>2, Zenon DEF TypeOK
    <2>4. \A x : Held(x)' <=> Held(x)
        BY <2>3, Zenon DEF Held
    <2>5. /\ pending' \in [Sequencers -> SUBSET MetaLogProto]
          /\ \A n \in Sequencers : \A x \in pending'[n] : Held(x)
        BY <1>2, <1>5, <2>1, Zenon DEF TypeOK, IInv, AllHeld, PendingFrom
    <2>6. /\ metaProg' \in [Backups -> SUBSET Nat]
          /\ \A x \in Backups : x # b => metaProg'[x] = metaProg[x]
          /\ metaProg'[b] \subseteq metaProg[b] \cup {q}
        BY <1>2, <1>5, <2>2, Zenon DEF TypeOK
    <2>7. TypeOK'
        BY <1>2, <1>3, <2>3, <2>5, <2>6, Zenon DEF TypeOK
    <2>8. SequencersAgree'
        <3> SUFFICES ASSUME NEW n \in Sequencers, NEW i \in 1..Len(applied'[n])
                     PROVE  i <= Len(applied[Primary]) /\ applied'[n][i] = applied[Primary][i]
            BY <2>3 DEF SequencersAgree, metalog_position
        <3>1. CASE n = b
            <4>1. Len(applied'[n]) = q
                BY <2>2, <2>3, <3>1, Zenon
            <4>2. i \in 1..q /\ i <= q /\ i \in Nat
                BY <2>2, <4>1
            <4>3. Len(applied[Primary]) \in Nat
                BY <1>2 DEF TypeOK
            <4>4. q \in Nat /\ q <= Len(applied[Primary])
                BY <2>2, Zenon
            <4>5. i <= Len(applied[Primary])
                BY <4>2, <4>3, <4>4
            <4>6. QED
                BY <2>2, <2>3, <3>1, <4>2, <4>5, Zenon
        <3>2. CASE n # b
            BY <2>3, <3>2, Zenon DEF IInv, SequencersAgree, metalog_position
        <3>3. QED BY <3>1, <3>2, Zenon
    <2>9. AllHeld'
        BY <1>2, <1>3, <2>4, <2>5, Zenon DEF IInv, AllHeld
    <2>10. ProgressIsReal'
        <3>1. ASSUME NEW x \in Backups
              PROVE  /\ \A pos \in metaProg'[x] : pos <= Len(applied'[x])
                     /\ replicaProg[x] <= Len(applied'[x])
            <4>1. /\ \A pos \in metaProg[x] : pos <= Len(applied[x])
                  /\ replicaProg[x] <= Len(applied[x])
                BY DEF IInv, ProgressIsReal, metalog_position
            <4>2. CASE x # b
                <5>1. x \in Sequencers BY Zenon DEF Sequencers
                <5>2. QED BY <2>3, <2>6, <4>1, <4>2, <5>1, Zenon
            <4>3. CASE x = b
                <5>1. Len(applied'[x]) = q
                    BY <2>2, <2>3, <4>3, Zenon
                <5>2. /\ replicaProg[x] \in Nat /\ Len(applied[x]) \in Nat
                      /\ metaProg[x] \subseteq Nat
                    BY <1>2, <4>3 DEF TypeOK
                <5>3. q \in Nat /\ Len(applied[x]) <= q
                    BY <2>2, <4>3, Zenon
                <5>4. \A pos \in metaProg'[x] : pos = q \/ pos \in metaProg[x]
                    BY <2>6, <4>3, Zenon
                <5>5. QED BY <4>1, <5>1, <5>2, <5>3, <5>4
            <4>4. QED BY <4>2, <4>3
        <3>2. QED
            BY <1>2, <2>3, <3>1, Zenon DEF IInv, ProgressIsReal, metalog_position
    <2>11. Frozen'
        <3>1. \A n \in Sequencers : phase[n] = "frozen" => applied'[n] = applied[n]
            BY <1>5, <2>3, Zenon
        <3>2. QED
            <4>1. \A n \in Sequencers : phase'[n] = "frozen" => freezeTail'[n] = TailOf(applied'[n])
                BY <1>2, <3>1, Zenon DEF IInv, Frozen
            <4>2. seal' # "done" => \A n \in Sequencers : phase'[n] \in {"normal", "frozen"}
                BY <1>2, Zenon DEF IInv, Frozen
            <4>3. \A n \in sealResp' : phase'[n] # "normal"
                BY <1>2, Zenon DEF IInv, Frozen
            <4>4. QED
                BY <4>1, <4>2, <4>3, Zenon DEF Frozen, TailOf
    <2>12. SealBounds'
        <3>1. b \notin sealResp
            BY <1>5, Zenon DEF IInv, Frozen
        <3>2. \A x \in sealResp \cap Backups : metaProg'[x] = metaProg[x]
            BY <2>6, <3>1
        <3>3. QED
            BY <1>2, <2>3, <3>2, Zenon DEF IInv, SealBounds
    <2>13. CutsDurable' /\ Numbered' /\ MajorityAcked'
        BY <1>2, <2>3, Zenon DEF IInv, CutsDurable, Numbered, MajorityAcked
    <2>14. QED
        BY <2>7, <2>8, <2>9, <2>10, <2>11, <2>12, <2>13, Zenon DEF IInv
<1>6. QED
    BY <1>1, <1>4, <1>5, Zenon


\* A lost message leaves every sequencer's state alone.
LEMMA LoseMessageIInv ==
    ASSUME IInv, NEW b \in Backups, LoseMessage(b)
    PROVE  IInv'
<1>1. UNCHANGED <<shardProg, lastCut, dirty, replicaProg, replicated, applied, pending, phase,
                  propagated, freezeTail, seal, sealResp, othersSealed, finalPos, finalTail>>
    BY DEF LoseMessage, primaryVars, seqVars, sealVars
<1>2. /\ metaLogs' \in [Backups -> SUBSET MetaLogProto] /\ metaProg' \in [Backups -> SUBSET Nat]
      /\ \A x \in Backups : metaLogs'[x] \subseteq metaLogs[x] /\ metaProg'[x] \subseteq metaProg[x]
    BY Zenon DEF LoseMessage, IInv, TypeOK
<1>3. TypeOK'
    BY <1>1, <1>2, Zenon DEF IInv, TypeOK
<1>4. AllHeld'
    BY <1>1, <1>2, Zenon DEF IInv, AllHeld, Held
<1>5. ProgressIsReal' /\ SealBounds'
    BY <1>1, <1>2, Zenon DEF IInv, ProgressIsReal, SealBounds, metalog_position
<1>6. QED
    BY <1>1, <1>3, <1>4, <1>5, SameCuts, SameLogs, SameAcks, SameFrozen, Zenon DEF IInv

\* Publishing view/freeze changes no sequencer.
LEMMA FreezeViewIInv ==
    ASSUME IInv, FreezeView
    PROVE  IInv'
<1>1. /\ seal = "none" /\ seal' = "ongoing"
      /\ UNCHANGED <<shardProg, lastCut, dirty, replicaProg, replicated, applied, pending,
                     phase, metaLogs, metaProg, propagated, freezeTail, sealResp,
                     othersSealed, finalPos, finalTail>>
    BY Zenon DEF FreezeView, primaryVars, seqVars, netVars
<1>2. TypeOK'
    BY <1>1, Zenon DEF IInv, TypeOK
<1>3. Frozen' /\ SealBounds'
    BY <1>1 DEF IInv, Frozen, SealBounds, TailOf
<1>4. QED
    BY <1>1, <1>2, <1>3, SameCuts, SameLogs, SameHeld, SameProgress, SameAcks, Zenon DEF IInv

\* A frozen sequencer publishes a tail of the log it holds, and holds no more
\* after it.
LEMMA OnViewFrozenIInv ==
    ASSUME IInv, NEW n \in Sequencers, OnViewFrozen(n)
    PROVE  IInv'
<1>1. /\ phase[n] = "normal" /\ phase' = [phase EXCEPT ![n] = "frozen"]
      /\ freezeTail' = [freezeTail EXCEPT ![n] = TailOf(applied[n])]
      /\ UNCHANGED <<shardProg, lastCut, dirty, replicaProg, replicated, applied, pending,
                     metaLogs, metaProg, propagated, seal, sealResp, othersSealed,
                     finalPos, finalTail>>
    BY Zenon DEF OnViewFrozen, primaryVars, netVars
<1>2. TypeOK /\ Primary \in Sequencers
    BY DEF IInv, Sequencers
<1>3. TailOf(applied[n]) \subseteq MetaLogProto /\ \A m \in TailOf(applied[n]) : Held(m)
    <2> SUFFICES ASSUME NEW i \in 1..Len(applied[n])
                 PROVE  applied[n][i] \in MetaLogProto /\ Held(applied[n][i])
        BY DEF TailOf
    <2>1. /\ applied[n] \in Seq(MetaLogProto) /\ Len(applied[n]) \in Nat
          /\ Len(applied[Primary]) \in Nat
        BY <1>2 DEF TypeOK
    <2>2. i <= Len(applied[Primary]) /\ applied[n][i] = applied[Primary][i]
        BY Zenon DEF IInv, SequencersAgree, metalog_position
    <2>3. i \in 1..Len(applied[Primary])
        <3>1. i \in Nat /\ 1 <= i
            BY <2>1
        <3>2. Len(applied[Primary]) \in Nat /\ i <= Len(applied[Primary])
            BY <2>1, <2>2, Zenon
        <3>3. QED
            BY <3>1, <3>2
    <2>4. applied[Primary][i].seqnum = i - 1
        BY <2>3, Zenon DEF IInv, Numbered
    <2>5. applied[n][i] \in MetaLogProto
        BY <2>1
    <2>6. i - 1 < Len(applied[Primary]) /\ i = (i - 1) + 1
        BY <2>1, <2>3
    <2>7. QED
        BY <2>2, <2>4, <2>5, <2>6, Zenon DEF Held
<1>4. TypeOK'
    BY <1>1, <1>2, <1>3, Zenon DEF TypeOK
<1>5. AllHeld'
    <2>1. \A x : Held(x)' <=> Held(x)
        BY <1>1 DEF Held
    <2>2. \A x \in Sequencers : \A m \in freezeTail'[x] : Held(m)
        BY <1>1, <1>2, <1>3, Zenon DEF IInv, AllHeld, TypeOK
    <2>3. QED
        BY <1>1, <2>1, <2>2, Zenon DEF IInv, AllHeld
<1>6. Frozen'
    <2>1. seal # "done" => \A x \in Sequencers : phase'[x] \in {"normal", "frozen"}
        BY <1>1, <1>2, Zenon DEF IInv, Frozen, TypeOK
    <2>2. \A x \in Sequencers : phase'[x] = "frozen" => freezeTail'[x] = TailOf(applied[x])
        BY <1>1, <1>2, Zenon DEF IInv, Frozen, TypeOK
    <2>3. \A x \in sealResp : phase'[x] # "normal"
        BY <1>1, <1>2, Zenon DEF IInv, Frozen, TypeOK
    <2>4. QED
        BY <1>1, <2>1, <2>2, <2>3, Zenon DEF Frozen, TailOf
<1>7. QED
    BY <1>1, <1>4, <1>5, <1>6, SameCuts, SameLogs, SameProgress, SameAcks, SameSeal, Zenon DEF IInv

\* Finalizing with the responses of a quorum of frozen sequencers.
LEMMA CheckAllSealedIInv ==
    ASSUME IInv, seal = "ongoing", NEW others,
           sealResp' \in SUBSET Sequencers, \A n \in sealResp' : phase[n] # "normal",
           othersSealed' \in BOOLEAN,
           CheckAllSealed(sealResp', others),
           UNCHANGED <<primaryVars, seqVars, netVars, freezeTail>>
    PROVE  IInv'
<1>1. UNCHANGED <<shardProg, lastCut, dirty, replicaProg, replicated, applied, pending, phase,
                  metaLogs, metaProg, propagated, freezeTail>>
    BY DEF primaryVars, seqVars, netVars
<1>2. TypeOK /\ Primary \in Sequencers
    BY Zenon DEF IInv, Sequencers
<1>3. CASE UNCHANGED <<seal, finalTail, finalPos>>
    <2>1. TypeOK'
        BY <1>1, <1>2, <1>3, Zenon DEF TypeOK
    <2>2. Frozen' /\ SealBounds'
        BY <1>1, <1>3, Zenon DEF IInv, Frozen, SealBounds
    <2>3. QED
        BY <1>1, <1>3, <2>1, <2>2, SameCuts, SameLogs, SameHeld, SameProgress, SameAcks,
            Zenon DEF IInv
<1>4. CASE /\ Cardinality(sealResp') >= SealQuorum
           /\ seal' = "done"
           /\ finalTail' = UNION {freezeTail[n] : n \in sealResp'}
           /\ finalPos' \in FinalPositions(finalTail')
    <2>1. finalTail' \subseteq MetaLogProto /\ \A m \in finalTail' : Held(m)
        <3>1. \A n \in sealResp' :
                 freezeTail[n] \subseteq MetaLogProto /\ \A m \in freezeTail[n] : Held(m)
            BY <1>2, Zenon DEF IInv, TypeOK, AllHeld
        <3>2. QED
            BY <1>4, <3>1, Zenon
    <2>2. Len(applied[Primary]) \in Nat
        BY <1>2 DEF TypeOK
    <2>3. finalPos' \in Nat /\ finalPos' <= Len(applied[Primary])
        <3>1. CASE finalTail' = {}
            BY <1>4, <2>2, <3>1 DEF FinalPositions
        <3>2. CASE finalTail' # {}
            <4>1. PICK m \in finalTail' : finalPos' = m.seqnum + 1
                BY <1>4, <3>2 DEF FinalPositions
            <4>2. m.seqnum \in Nat /\ m.seqnum < Len(applied[Primary])
                BY <2>1 DEF Held, MetaLogProto
            <4>3. QED
                BY <2>2, <4>1, <4>2
        <3>3. QED BY <3>1, <3>2
    <2>4. ASSUME NEW n \in sealResp' PROVE Len(applied[n]) <= finalPos'
        <3>1. /\ n \in Sequencers /\ freezeTail[n] = TailOf(applied[n])
            BY DEF IInv, Frozen
        <3>2. applied[n] \in Seq(MetaLogProto) /\ Len(applied[n]) \in Nat
            BY <1>2, <3>1 DEF TypeOK
        <3>3. CASE Len(applied[n]) = 0
            BY <2>3, <3>3
        <3>4. CASE Len(applied[n]) # 0
            <4> DEFINE last == applied[n][Len(applied[n])]
            <4>1. Len(applied[n]) \in 1..Len(applied[n])
                BY <3>2, <3>4
            <4>2. last \in TailOf(applied[n])
                BY <3>2, <4>1, NumberAssumption DEF TailOf
            <4>3. last \in finalTail'
                BY <1>4, <3>1, <4>2, Zenon
            <4>4. last.seqnum = Len(applied[n]) - 1
                <5>1. /\ Len(applied[n]) <= Len(applied[Primary])
                      /\ last = applied[Primary][Len(applied[n])]
                    BY <3>1, <4>1, Zenon DEF IInv, SequencersAgree, metalog_position
                <5>2. Len(applied[n]) \in 1..Len(applied[Primary])
                    BY <2>2, <3>2, <3>4, <5>1
                <5>3. QED
                    BY <5>1, <5>2 DEF IInv, Numbered
            <4>5. PICK m \in finalTail' :
                      finalPos' = m.seqnum + 1 /\ \A y \in finalTail' : y.seqnum <= m.seqnum
                BY <1>4, <4>3, Zenon DEF FinalPositions
            <4>6. m.seqnum \in Nat
                BY <2>1, <4>5 DEF MetaLogProto
            <4>7. Len(applied[n]) - 1 <= m.seqnum
                BY <4>3, <4>4, <4>5
            <4>8. QED
                BY <3>2, <4>5, <4>6, <4>7
        <3>5. QED BY <3>3, <3>4
    <2>5. SealBounds'
        <3>1. Primary \in sealResp' => replicated <= finalPos'
            <4>1. replicated <= Len(applied[Primary]) /\ replicated \in Nat
                BY <1>2, Zenon DEF IInv, ProgressIsReal, metalog_position, TypeOK
            <4>2. QED BY <2>2, <2>3, <2>4, <4>1
        <3>2. ASSUME NEW b \in sealResp' \cap Backups
              PROVE  replicaProg[b] <= finalPos' /\ \A pos \in metaProg[b] : pos <= finalPos'
            <4>1. /\ \A pos \in metaProg[b] : pos <= Len(applied[b])
                  /\ replicaProg[b] <= Len(applied[b])
                BY Zenon DEF IInv, ProgressIsReal, metalog_position
            <4>2. /\ metaProg[b] \subseteq Nat /\ replicaProg[b] \in Nat
                  /\ Len(applied[b]) \in Nat
                BY <1>2 DEF TypeOK, Sequencers
            <4>3. Len(applied[b]) <= finalPos'
                BY <2>4
            <4>4. finalPos' \in Nat
                BY <2>3, Zenon
            <4>5. QED BY <4>1, <4>2, <4>3, <4>4
        <3>3. QED
            BY <1>1, <1>4, <2>3, <3>1, <3>2, Zenon DEF SealBounds
    <2>6. TypeOK'
        BY <1>1, <1>2, <1>4, <2>1, <2>3, Zenon DEF TypeOK
    <2>7. AllHeld'
        <3>1. \A x : Held(x)' <=> Held(x)
            BY <1>1 DEF Held
        <3>2. QED
            BY <1>1, <2>1, <3>1, Zenon DEF IInv, AllHeld
    <2>8. Frozen'
        BY <1>1, <1>4, Zenon DEF IInv, Frozen
    <2>9. QED
        BY <1>1, <2>5, <2>6, <2>7, <2>8, SameCuts, SameLogs, SameProgress, SameAcks,
            Zenon DEF IInv
<1>5. QED
    BY <1>3, <1>4, Zenon DEF CheckAllSealed

\* The controller's step on a response of this physical log.
LEMMA OnFreezeZNodeCreatedIInv ==
    ASSUME IInv, NEW n \in Sequencers, OnFreezeZNodeCreated(n)
    PROVE  IInv'
<1>1. /\ sealResp' = sealResp \cup {n} /\ sealResp \in SUBSET Sequencers
      /\ othersSealed' \in BOOLEAN /\ seal = "ongoing"
    BY DEF OnFreezeZNodeCreated, IInv, TypeOK
<1>2. \A x \in sealResp' : phase[x] # "normal"
    BY <1>1, Zenon DEF OnFreezeZNodeCreated, IInv, Frozen
<1>3. QED
    BY <1>1, <1>2, CheckAllSealedIInv DEF OnFreezeZNodeCreated

\* The controller's step on the last response of another physical log.
LEMMA OnOtherFreezeZNodeCreatedIInv ==
    ASSUME IInv, OnOtherFreezeZNodeCreated
    PROVE  IInv'
<1>1. /\ sealResp' = sealResp /\ sealResp \in SUBSET Sequencers
      /\ othersSealed' \in BOOLEAN /\ seal = "ongoing"
      /\ \A x \in sealResp' : phase[x] # "normal"
    BY DEF OnOtherFreezeZNodeCreated, IInv, TypeOK, Frozen
<1>2. CheckAllSealed(sealResp', TRUE)
    BY <1>1, Zenon DEF OnOtherFreezeZNodeCreated
<1>3. QED
    BY <1>1, <1>2, CheckAllSealedIInv, Zenon DEF OnOtherFreezeZNodeCreated


\* Finalizing extends a log with published metalogs, which are the primary's.
LEMMA OnViewFinalizedIInv ==
    ASSUME IInv, NEW n \in Sequencers, OnViewFinalized(n)
    PROVE  IInv'
<1>1. /\ seal = "done" /\ phase[n] = "frozen"
      /\ UNCHANGED <<shardProg, lastCut, dirty, replicaProg, replicated, metaLogs, metaProg,
                     propagated, freezeTail, seal, sealResp, othersSealed, finalPos, finalTail>>
    BY Zenon DEF OnViewFinalized, primaryVars, netVars, sealVars
<1>2. TypeOK /\ Primary \in Sequencers
    BY DEF IInv, Sequencers
<1>3. /\ phase' \in [Sequencers -> {"normal", "frozen", "finalized", "ahead",
                                    "insufficient", "uncommon", "see_future"}]
      /\ phase'[n] \notin {"normal", "frozen"}
      /\ \A x \in Sequencers : x # n => phase'[x] = phase[x]
    BY <1>2, Zenon DEF OnViewFinalized, TypeOK
<1>4. CASE UNCHANGED <<applied, pending>>
    <2>1. TypeOK'
        BY <1>1, <1>2, <1>3, <1>4, Zenon DEF TypeOK
    <2>2. Frozen'
        <3>1. \A x \in sealResp : x \in Sequencers BY <1>2 DEF TypeOK
        <3>2. \A x \in sealResp : phase'[x] # "normal"
            BY <1>3, <3>1, Zenon DEF IInv, Frozen
        <3>3. \A x \in Sequencers : phase'[x] = "frozen" => phase[x] = "frozen"
            BY <1>3, Zenon
        <3>4. QED BY <1>1, <1>4, <3>2, <3>3, Zenon DEF IInv, Frozen, TailOf
    <2>3. QED
        BY <1>1, <1>4, <2>1, <2>2, SameCuts, SameLogs, SameHeld, SameProgress, SameAcks,
            SameSeal, Zenon DEF IInv
<1>5. ASSUME metalog_position(n) < finalPos,
             NEW pend, pend = ProvideMetaLogs(metalog_position(n), pending[n], finalTail),
             NEW q \in AdvanceMetaLogProgress(metalog_position(n), pend),
             applied' = [applied EXCEPT ![n] = AppliedUpTo(@, pend, q)],
             pending' = [pending EXCEPT ![n] = PendingFrom(pend, q)]
      PROVE  IInv'
    <2>1. pend \in SUBSET MetaLogProto /\ \A x \in pend : Held(x)
        BY <1>2, <1>5, Zenon DEF IInv, TypeOK, AllHeld, ProvideMetaLogs
    <2>2. /\ AppliedUpTo(applied[n], pend, q) \in Seq(MetaLogProto)
          /\ Len(AppliedUpTo(applied[n], pend, q)) = q
          /\ q \in Nat /\ q >= Len(applied[n]) /\ q <= Len(applied[Primary])
          /\ \A i \in 1..q : AppliedUpTo(applied[n], pend, q)[i] = applied[Primary][i]
        BY <1>2, <1>5, <2>1, AdvanceAgrees, Zenon DEF IInv
    <2>3. n # Primary
        <3>1. finalPos <= Len(applied[Primary]) /\ Len(applied[n]) < finalPos
            BY <1>1, <1>5, Zenon DEF IInv, SealBounds, metalog_position
        <3>2. Len(applied[n]) \in Nat /\ Len(applied[Primary]) \in Nat /\ finalPos \in Nat
            BY <1>2 DEF TypeOK
        <3>3. QED BY <3>1, <3>2
    <2>4. /\ applied'[n] = AppliedUpTo(applied[n], pend, q)
          /\ \A x \in Sequencers : x # n => applied'[x] = applied[x]
          /\ applied'[Primary] = applied[Primary]
          /\ applied' \in [Sequencers -> Seq(MetaLogProto)]
        BY <1>2, <1>5, <2>2, <2>3, Zenon DEF TypeOK
    <2>5. \A x : Held(x)' <=> Held(x)
        BY <2>4, Zenon DEF Held
    <2>6. /\ pending' \in [Sequencers -> SUBSET MetaLogProto]
          /\ \A y \in Sequencers : \A x \in pending'[y] : Held(x)
        BY <1>2, <1>5, <2>1, Zenon DEF TypeOK, IInv, AllHeld, PendingFrom
    <2>7. TypeOK'
        BY <1>1, <1>2, <1>3, <2>4, <2>6, Zenon DEF TypeOK
    <2>8. SequencersAgree'
        <3> SUFFICES ASSUME NEW x \in Sequencers, NEW i \in 1..Len(applied'[x])
                     PROVE  i <= Len(applied[Primary]) /\ applied'[x][i] = applied[Primary][i]
            BY <2>4, Zenon DEF SequencersAgree, metalog_position
        <3>1. CASE x = n
            <4>1. Len(applied'[x]) = q
                BY <2>2, <2>4, <3>1, Zenon
            <4>2. i \in 1..q /\ i <= q /\ i \in Nat
                BY <2>2, <4>1
            <4>3. Len(applied[Primary]) \in Nat
                BY <1>2 DEF TypeOK
            <4>4. q \in Nat /\ q <= Len(applied[Primary])
                BY <2>2, Zenon
            <4>5. i <= Len(applied[Primary])
                BY <4>2, <4>3, <4>4
            <4>6. QED
                BY <2>2, <2>4, <3>1, <4>2, <4>5, Zenon
        <3>2. CASE x # n
            BY <2>4, <3>2, Zenon DEF IInv, SequencersAgree, metalog_position
        <3>3. QED BY <3>1, <3>2
    <2>9. AllHeld'
        BY <1>1, <2>5, <2>6, Zenon DEF IInv, AllHeld
    <2>10. ProgressIsReal'
        <3>1. ASSUME NEW x \in Backups
              PROVE  /\ \A pos \in metaProg[x] : pos <= Len(applied'[x])
                     /\ replicaProg[x] <= Len(applied'[x])
            <4>1. /\ \A pos \in metaProg[x] : pos <= Len(applied[x])
                  /\ replicaProg[x] <= Len(applied[x])
                BY DEF IInv, ProgressIsReal, metalog_position
            <4>2. CASE x # n
                <5>1. x \in Sequencers BY DEF Sequencers
                <5>2. QED BY <2>4, <4>1, <4>2, <5>1, Zenon
            <4>3. CASE x = n
                <5>1. Len(applied'[x]) = q
                    BY <2>2, <2>4, <4>3, Zenon
                <5>2. /\ replicaProg[x] \in Nat /\ Len(applied[x]) \in Nat
                      /\ metaProg[x] \subseteq Nat
                    BY <1>2, <4>3 DEF TypeOK
                <5>3. q \in Nat /\ Len(applied[x]) <= q
                    BY <2>2, <4>3, Zenon
                <5>4. QED BY <4>1, <5>1, <5>2, <5>3
            <4>4. QED BY <4>2, <4>3
        <3>2. QED
            BY <1>1, <2>4, <3>1, Zenon DEF IInv, ProgressIsReal, metalog_position
    <2>11. Frozen'
        <3>1. \A x \in Sequencers : phase'[x] = "frozen" => applied'[x] = applied[x]
            BY <1>3, <2>4, Zenon
        <3>2. \A x \in Sequencers : phase'[x] = "frozen" => phase[x] = "frozen"
            BY <1>3
        <3>3. \A x \in sealResp : phase'[x] # "normal"
            BY <1>2, <1>3, Zenon DEF IInv, Frozen, TypeOK
        <3>4. QED
            <4>1. \A x \in Sequencers : phase'[x] = "frozen" => freezeTail'[x] = TailOf(applied'[x])
                BY <1>1, <3>1, <3>2, Zenon DEF IInv, Frozen
            <4>2. QED
                BY <1>1, <3>3, <4>1, Zenon DEF Frozen, TailOf
    <2>12. SealBounds' /\ CutsDurable' /\ Numbered' /\ MajorityAcked'
        BY <1>1, <2>4, Zenon DEF IInv, CutsDurable, Numbered, MajorityAcked, SealBounds
    <2>13. QED
        BY <2>7, <2>8, <2>9, <2>10, <2>11, <2>12 DEF IInv
<1>6. QED
    BY <1>4, <1>5, Zenon DEF OnViewFinalized

-----------------------------------------------------------------------------
(* The theorems.                                                            *)

\* Every step keeps the invariant.
LEMMA NextIInv ==
    ASSUME IInv, [Next]_vars
    PROVE  IInv' /\ replicated' >= replicated
<1>1. CASE UNCHANGED vars
    <2>1. UNCHANGED <<shardProg, lastCut, dirty, replicaProg, replicated, applied, pending,
                      phase, metaLogs, metaProg, propagated, freezeTail, seal, sealResp,
                      othersSealed, finalPos, finalTail>>
        BY <1>1 DEF vars, primaryVars, seqVars, netVars, sealVars
    <2>2. QED
        <3>1. TypeOK'
            BY <2>1, Zenon DEF IInv, TypeOK
        <3>2. replicated' >= replicated
            BY <2>1 DEF IInv, TypeOK
        <3>3. QED
            BY <2>1, <3>1, <3>2, SameCuts, SameLogs, SameHeld, SameProgress, SameAcks,
                SameFrozen, SameSeal, Zenon DEF IInv
<1>2. replicated \in Nat
    BY DEF IInv, TypeOK
<1>3. CASE StorageReport
    <2>1. IInv' BY <1>3, OnRecvShardProgressIInv DEF StorageReport
    <2>2. replicated' = replicated BY <1>3, Zenon DEF StorageReport, OnRecvShardProgress
    <2>3. QED BY <1>2, <2>1, <2>2
<1>4. CASE MarkNextCutIfDoable
    <2>1. IInv' BY <1>4, MarkNextCutIInv
    <2>2. replicated' = replicated BY <1>4, Zenon DEF MarkNextCutIfDoable, MarkNextCut
    <2>3. QED BY <1>2, <2>1, <2>2
<1>5. ASSUME NEW b \in Backups, OnRecvNewMetaLogs(b) PROVE IInv' /\ replicated' >= replicated
    <2>1. IInv' BY <1>5, OnRecvNewMetaLogsIInv
    <2>2. replicated' = replicated BY <1>5, Zenon DEF OnRecvNewMetaLogs, primaryVars
    <2>3. QED BY <1>2, <2>1, <2>2
<1>6. ASSUME NEW b \in Backups, OnRecvMetaLogProgress(b) PROVE IInv' /\ replicated' >= replicated
    BY <1>6, OnRecvMetaLogProgressIInv
<1>7. ASSUME NEW b \in Backups, LoseMessage(b) PROVE IInv' /\ replicated' >= replicated
    <2>1. IInv' BY <1>7, LoseMessageIInv
    <2>2. replicated' = replicated BY <1>7 DEF LoseMessage, primaryVars
    <2>3. QED BY <1>2, <2>1, <2>2
<1>8. CASE FreezeView
    <2>1. IInv' BY <1>8, FreezeViewIInv
    <2>2. replicated' = replicated BY <1>8 DEF FreezeView, primaryVars
    <2>3. QED BY <1>2, <2>1, <2>2
<1>9. ASSUME NEW n \in Sequencers, OnViewFrozen(n) PROVE IInv' /\ replicated' >= replicated
    <2>1. IInv' BY <1>9, OnViewFrozenIInv
    <2>2. replicated' = replicated BY <1>9, Zenon DEF OnViewFrozen, primaryVars
    <2>3. QED BY <1>2, <2>1, <2>2
<1>10. ASSUME NEW n \in Sequencers, OnFreezeZNodeCreated(n) PROVE IInv' /\ replicated' >= replicated
    <2>1. IInv' BY <1>10, OnFreezeZNodeCreatedIInv
    <2>2. replicated' = replicated BY <1>10 DEF OnFreezeZNodeCreated, primaryVars
    <2>3. QED BY <1>2, <2>1, <2>2
<1>11. CASE OnOtherFreezeZNodeCreated
    <2>1. IInv' BY <1>11, OnOtherFreezeZNodeCreatedIInv
    <2>2. replicated' = replicated BY <1>11 DEF OnOtherFreezeZNodeCreated, primaryVars
    <2>3. QED BY <1>2, <2>1, <2>2
<1>12. ASSUME NEW n \in Sequencers, OnViewFinalized(n) PROVE IInv' /\ replicated' >= replicated
    <2>1. IInv' BY <1>12, OnViewFinalizedIInv
    <2>2. replicated' = replicated BY <1>12, Zenon DEF OnViewFinalized, primaryVars
    <2>3. QED BY <1>2, <2>1, <2>2
<1>13. CASE UNCHANGED vars
    <2>1. replicated' = replicated BY <1>13 DEF vars, primaryVars
    <2>2. QED BY <1>1, <1>2, <1>13, <2>1
<1>14. QED
    BY <1>3, <1>4, <1>5, <1>6, <1>7, <1>8, <1>9, <1>10, <1>11, <1>12, <1>13 DEF Next

\* The inductive invariant holds in every reachable state.
THEOREM Invariance == Spec => []IInv
<1>1. Init => IInv
    BY InitIInv
<1>2. IInv /\ [Next]_vars => IInv'
    BY NextIInv
<1>3. QED
    BY <1>1, <1>2, PTL DEF Spec

\* The variables keep their types.
THEOREM TypeCorrect == Spec => []TypeOK
<1>1. IInv => TypeOK
    BY DEF IInv
<1>2. QED
    BY <1>1, Invariance, PTL

\* Every sequencer's metalog is a prefix of the primary's, however METALOGS
\* messages are lost, delayed and reordered.
THEOREM Agreement == Spec => []SequencersAgree
<1>1. IInv => SequencersAgree
    BY DEF IInv
<1>2. QED
    BY <1>1, Invariance, PTL

\* What the primary takes for replicated is what backups really hold, and the
\* primary is at most one metalog ahead of it.
THEOREM RealProgress == Spec => []ProgressIsReal
<1>1. IInv => ProgressIsReal
    BY DEF IInv
<1>2. QED
    BY <1>1, Invariance, PTL

\* After a seal the replicated position never passes the final one.
LEMMA ReplicatedBelowFinal ==
    ASSUME IInv, seal = "done"
    PROVE  replicated <= finalPos
<1>1. /\ replicated \in Nat /\ finalPos \in Nat /\ sealResp \in SUBSET Sequencers
      /\ replicaProg \in [Backups -> Nat]
    BY Zenon DEF IInv, TypeOK
<1>2. /\ Cardinality(sealResp) >= SealQuorum
      /\ Primary \in sealResp => replicated <= finalPos
      /\ \A b \in sealResp \cap Backups : replicaProg[b] <= finalPos
    BY Zenon DEF IInv, SealBounds
<1>3. /\ AtLeast(replicaProg, replicated) \in SUBSET Backups
      /\ Cardinality(AtLeast(replicaProg, replicated)) >= Majority
    BY DEF IInv, MajorityAcked, AtLeast
<1>4. Primary \in sealResp \/ \E b \in AtLeast(replicaProg, replicated) : b \in sealResp
    BY <1>1, <1>2, <1>3, QuoraMeet
<1>5. CASE Primary \in sealResp
    BY <1>2, <1>5
<1>6. ASSUME NEW b \in AtLeast(replicaProg, replicated), b \in sealResp
      PROVE  replicated <= finalPos
    <2>1. replicaProg[b] >= replicated /\ replicaProg[b] <= finalPos /\ replicaProg[b] \in Nat
        BY <1>1, <1>2, <1>6 DEF AtLeast
    <2>2. QED BY <1>1, <2>1
<1>7. QED
    BY <1>4, <1>5, <1>6

\* A seal keeps every metalog that an engine or a storage may have applied.
THEOREM SealSafety == Spec => []FinalCoversPropagated
<1>1. IInv => FinalCoversPropagated
    <2> SUFFICES ASSUME IInv, seal = "done", NEW m \in propagated
                 PROVE  m.seqnum < finalPos
        BY DEF FinalCoversPropagated
    <2>1. m.seqnum < replicated /\ m.seqnum \in Nat /\ replicated \in Nat /\ finalPos \in Nat
        BY Zenon DEF IInv, AllHeld, TypeOK, MetaLogProto
    <2>2. QED
        BY <2>1, ReplicatedBelowFinal
<1>2. QED
    BY <1>1, Invariance, PTL

\* LogSpaceBase::Finalize never sees the future.
THEOREM NeverFarAhead == Spec => []AtMostOneAhead
<1>1. IInv => AtMostOneAhead
    <2> SUFFICES ASSUME IInv, seal = "done", NEW n \in Sequencers
                 PROVE  Len(applied[n]) <= finalPos + 1
        BY DEF AtMostOneAhead, metalog_position
    <2>1. /\ Len(applied[n]) \in Nat /\ Len(applied[Primary]) \in Nat
          /\ replicated \in Nat /\ finalPos \in Nat
        BY DEF IInv, TypeOK, Sequencers
    <2>2. Len(applied[n]) <= Len(applied[Primary])
        <3>1. CASE Len(applied[n]) = 0
            BY <2>1, <3>1
        <3>2. CASE Len(applied[n]) # 0
            <4>1. Len(applied[n]) \in 1..Len(applied[n]) BY <2>1, <3>2
            <4>2. QED BY <4>1 DEF IInv, SequencersAgree, metalog_position
        <3>3. QED BY <3>1, <3>2
    <2>3. Len(applied[Primary]) <= replicated + 1
        BY DEF IInv, ProgressIsReal, metalog_position
    <2>4. replicated <= finalPos
        BY ReplicatedBelowFinal
    <2>5. QED
        BY <2>1, <2>2, <2>3, <2>4
<1>2. QED
    BY <1>1, Invariance, PTL

\* The replicated position never moves back, in whatever order META_PROG
\* messages arrive.
THEOREM ReplicatedMonotone == Spec => ReplicatedNeverDecreases
<1>1. IInv /\ [Next]_vars => [replicated' >= replicated]_vars
    BY NextIInv
<1>2. QED
    BY <1>1, Invariance, PTL DEF Spec, ReplicatedNeverDecreases


-----------------------------------------------------------------------------
(* The primary's cuts follow one another.                                   *)

\* Where the first i cuts of the primary end in shard e.
CutEnd(i, e) ==
    IF i = 0 THEN 0 ELSE applied[Primary][i].starts[e] + applied[Primary][i].deltas[e]

\* Each cut starts where the one before it ends and orders something, and the
\* last one ends at last_cut_.
CutsChained ==
    /\ \A i \in 1..Len(applied[Primary]) :
          /\ \A e \in Engines : applied[Primary][i].starts[e] = CutEnd(i - 1, e)
          /\ \E e \in Engines : applied[Primary][i].deltas[e] > 0
    /\ \A e \in Engines : lastCut[e] = CutEnd(Len(applied[Primary]), e)

\* Only a new cut changes the primary's metalog: its final position is not past
\* the end of it, so that it has nothing to catch up with.
LEMMA PrimaryLogKept ==
    ASSUME IInv, [Next]_vars, ~MarkNextCutIfDoable
    PROVE  applied'[Primary] = applied[Primary] /\ lastCut' = lastCut
<1>1. TypeOK /\ SealBounds /\ Primary \in Sequencers
    BY DEF IInv, Sequencers
<1>2. CASE StorageReport
    BY <1>2, Zenon DEF StorageReport, OnRecvShardProgress, seqVars
<1>3. ASSUME NEW b \in Backups, OnRecvNewMetaLogs(b)
      PROVE  applied'[Primary] = applied[Primary] /\ lastCut' = lastCut
    <2>1. b # Primary
        BY SequencerAssumption
    <2>2. applied' = applied \/ \E x : applied' = [applied EXCEPT ![b] = x]
        BY <1>3, Zenon DEF OnRecvNewMetaLogs
    <2>3. lastCut' = lastCut
        BY <1>3, Zenon DEF OnRecvNewMetaLogs, primaryVars
    <2>4. QED
        BY <1>1, <2>1, <2>2, <2>3 DEF TypeOK
<1>4. ASSUME NEW b \in Backups, OnRecvMetaLogProgress(b) \/ LoseMessage(b)
      PROVE  applied'[Primary] = applied[Primary] /\ lastCut' = lastCut
    BY <1>4, Zenon DEF OnRecvMetaLogProgress, LoseMessage, seqVars, primaryVars
<1>5. CASE FreezeView \/ OnOtherFreezeZNodeCreated
    BY <1>5, Zenon DEF FreezeView, OnOtherFreezeZNodeCreated, seqVars, primaryVars
<1>6. ASSUME NEW n \in Sequencers, OnViewFrozen(n) \/ OnFreezeZNodeCreated(n)
      PROVE  applied'[Primary] = applied[Primary] /\ lastCut' = lastCut
    BY <1>6, Zenon DEF OnViewFrozen, OnFreezeZNodeCreated, seqVars, primaryVars
<1>7. ASSUME NEW n \in Sequencers, OnViewFinalized(n)
      PROVE  applied'[Primary] = applied[Primary] /\ lastCut' = lastCut
    <2>1. lastCut' = lastCut /\ seal = "done"
        BY <1>7, Zenon DEF OnViewFinalized, primaryVars
    <2>2. \/ applied' = applied
          \/ Len(applied[n]) < finalPos /\ \E x : applied' = [applied EXCEPT ![n] = x]
        BY <1>7, Zenon DEF OnViewFinalized, metalog_position
    <2>3. finalPos <= Len(applied[Primary]) /\ finalPos \in Nat /\ Len(applied[Primary]) \in Nat
        BY <1>1, <2>1 DEF SealBounds, TypeOK
    <2>4. QED
        BY <1>1, <2>1, <2>2, <2>3 DEF TypeOK
<1>8. CASE UNCHANGED vars
    BY <1>8, Zenon DEF vars, seqVars, primaryVars
<1>9. QED
    BY <1>2, <1>3, <1>4, <1>5, <1>6, <1>7, <1>8 DEF Next

\* A new cut begins at last_cut_ and orders new entries of the dirty shards.
LEMMA MarkNextCutChained ==
    ASSUME IInv, CutsChained, MarkNextCutIfDoable
    PROVE  /\ CutsChained'
           /\ \A i \in 1..Len(applied[Primary]) : applied'[Primary][i] = applied[Primary][i]
           /\ Len(applied[Primary]) \in Nat
<1> DEFINE log == applied[Primary]
           m == [seqnum |-> Len(log), start |-> seqnum_position(log),
                 starts |-> lastCut, deltas |-> NextCutDeltas]
<1>1. /\ applied' = [applied EXCEPT ![Primary] = Append(@, m)]
      /\ lastCut' = [e \in Engines |-> lastCut[e] + NextCutDeltas[e]]
      /\ dirty # {}
    BY DEF MarkNextCutIfDoable, MarkNextCut, metalog_position
<1>2. TypeOK /\ CutsDurable /\ Primary \in Sequencers
    BY DEF IInv, Sequencers
<1>3. log \in Seq(MetaLogProto) /\ Len(log) \in Nat
    BY <1>2 DEF TypeOK
<1>4. m.starts = lastCut /\ m.deltas = NextCutDeltas
    OBVIOUS
<1>5. PICK e0 \in Engines : NextCutDeltas[e0] > 0
    <2>1. PICK e \in dirty : e \in Engines
        BY <1>1, <1>2 DEF TypeOK
    <2>2. \A s \in StorageNodes[e] : lastCut[e] < shardProg[e][s]
        BY <1>2, <2>1 DEF CutsDurable
    <2>3. /\ GetShardReplicatedPosition(shardProg, e) \in 0..MaxLocalId
          /\ \E s \in StorageNodes[e] : GetShardReplicatedPosition(shardProg, e) = shardProg[e][s]
        BY <1>2, <2>1, ShardPosition, Zenon DEF TypeOK
    <2>4. lastCut[e] \in 0..MaxLocalId
        BY <1>2, <2>1 DEF TypeOK
    <2>5. NextCutDeltas[e] = GetShardReplicatedPosition(shardProg, e) - lastCut[e]
        BY <2>1 DEF NextCutDeltas
    <2>6. QED
        BY <2>1, <2>2, <2>3, <2>4, <2>5, NumberAssumption
<1> HIDE DEF m
<1>6. /\ Len(applied'[Primary]) = Len(log) + 1
      /\ \A i \in 1..Len(log) : applied'[Primary][i] = log[i]
      /\ applied'[Primary][Len(log) + 1] = m
    <2>1. applied'[Primary] = Append(log, m)
        BY <1>1, <1>2 DEF TypeOK
    <2>2. QED
        BY <1>3, <2>1
<1>7. PICK n \in Nat : n = Len(log)
    BY <1>3
<1>8. \A i \in 0..n, e \in Engines : CutEnd(i, e)' = CutEnd(i, e)
    BY <1>3, <1>6, <1>7 DEF CutEnd
<1>9. \A e \in Engines : m.starts[e] = CutEnd(n, e)'
    BY <1>4, <1>7, <1>8 DEF CutsChained
<1>10. \A e \in Engines : lastCut'[e] = CutEnd(n + 1, e)'
    BY <1>1, <1>4, <1>6, <1>7 DEF CutEnd
<1>11. ASSUME NEW i \in 1..n + 1
       PROVE  /\ \A e \in Engines : applied'[Primary][i].starts[e] = CutEnd(i - 1, e)'
              /\ \E e \in Engines : applied'[Primary][i].deltas[e] > 0
    <2>1. CASE i = n + 1
        <3>1. i - 1 = n /\ applied'[Primary][i] = m
            BY <1>6, <1>7, <2>1
        <3>2. QED
            BY <1>4, <1>5, <1>9, <3>1
    <2>2. CASE i # n + 1
        <3>1. i \in 1..n /\ i - 1 \in 0..n
            BY <1>7, <2>2
        <3>2. applied'[Primary][i] = log[i] /\ i \in 1..Len(log)
            BY <1>6, <1>7, <3>1
        <3>3. QED
            BY <1>8, <3>1, <3>2, Zenon DEF CutsChained
    <2>3. QED
        BY <2>1, <2>2
<1>12. CutsChained'
    <2>1. Len(applied'[Primary]) = n + 1
        BY <1>6, <1>7
    <2>2. QED
        BY <1>10, <1>11, <2>1 DEF CutsChained
<1>13. QED
    BY <1>3, <1>6, <1>12

\* Every step keeps the chain.
LEMMA NextChained ==
    ASSUME IInv, CutsChained, [Next]_vars
    PROVE  CutsChained'
<1>1. CASE MarkNextCutIfDoable
    BY <1>1, MarkNextCutChained
<1>2. CASE ~MarkNextCutIfDoable
    <2>1. applied'[Primary] = applied[Primary] /\ lastCut' = lastCut
        BY <1>2, PrimaryLogKept
    <2>2. QED
        BY <2>1 DEF CutsChained, CutEnd
<1>3. QED
    BY <1>1, <1>2

-----------------------------------------------------------------------------
(* The decided cuts.                                                        *)

\* The replicated metalogs are decided, and the primary holds what is decided.
DecidedIsHeld ==
    /\ NumDecided \in Nat /\ replicated \in Nat /\ Len(applied[Primary]) \in Nat
    /\ replicated <= NumDecided /\ NumDecided <= Len(applied[Primary])
    /\ Len(applied[Primary]) <= replicated + 1

\* The seal's final position lies between the replicated metalogs and the end of
\* the primary's metalog, which is at most one further.
LEMMA DecidedBounds == IInv => DecidedIsHeld
<1> SUFFICES ASSUME IInv PROVE DecidedIsHeld
    OBVIOUS
<1>1. /\ replicated \in Nat /\ finalPos \in Nat /\ Len(applied[Primary]) \in Nat
    BY DEF IInv, TypeOK, Sequencers
<1>2. replicated <= Len(applied[Primary]) /\ Len(applied[Primary]) <= replicated + 1
    BY Zenon DEF IInv, ProgressIsReal, metalog_position
<1>3. seal = "done" => replicated <= finalPos /\ finalPos <= Len(applied[Primary])
    BY ReplicatedBelowFinal DEF IInv, SealBounds
<1>4. QED
    BY <1>1, <1>2, <1>3 DEF NumDecided, DecidedIsHeld

\* No step revises the primary's metalogs.
LEMMA PrefixKept ==
    ASSUME IInv, CutsChained, [Next]_vars
    PROVE  \A i \in 1..Len(applied[Primary]) : applied'[Primary][i] = applied[Primary][i]
BY MarkNextCutChained, PrimaryLogKept

\* A step decides at most one cut, none once the view is sealed, and no cut in
\* the step that makes it.
LEMMA OneCutPerStep ==
    ASSUME IInv, CutsChained, [Next]_vars
    PROVE  /\ NumDecided' = NumDecided \/ NumDecided' = NumDecided + 1
           /\ seal = "done" => NumDecided' = NumDecided /\ seal' = "done"
           /\ NumDecided' = NumDecided + 1 => /\ ~MarkNextCutIfDoable
                                               /\ NumDecided = replicated
                                               /\ NumDecided' = Len(applied[Primary])
<1>1. DecidedIsHeld
    BY DecidedBounds
<1>2. IInv' /\ replicated' >= replicated
    BY NextIInv
<1>3. IInv' => DecidedIsHeld'
    BY DecidedBounds, PTL
<1>4. CASE seal = "done"
    <2>1. seal' = "done" /\ finalPos' = finalPos
        BY <1>4, Zenon DEF Next, StorageReport, OnRecvShardProgress, MarkNextCutIfDoable, MarkNextCut,
           OnRecvNewMetaLogs, OnRecvMetaLogProgress, LoseMessage, FreezeView, OnViewFrozen,
           OnFreezeZNodeCreated, OnOtherFreezeZNodeCreated, OnViewFinalized, sealVars, vars
    <2>2. QED
        BY <1>1, <1>4, <2>1 DEF NumDecided, DecidedIsHeld
<1>5. CASE seal # "done" /\ MarkNextCutIfDoable
    <2>1. seal' = seal /\ replicated' = replicated
        BY <1>5, Zenon DEF MarkNextCutIfDoable, MarkNextCut, sealVars
    <2>2. QED
        BY <1>1, <1>5, <2>1 DEF NumDecided, DecidedIsHeld
<1>6. CASE seal # "done" /\ ~MarkNextCutIfDoable
    <2>1. applied'[Primary] = applied[Primary] /\ NumDecided = replicated
        BY <1>6, PrimaryLogKept DEF NumDecided
    <2>2. QED
        BY <1>1, <1>2, <1>3, <1>6, <2>1 DEF DecidedIsHeld
<1>7. QED
    BY <1>4, <1>5, <1>6

\* What is durable in the abstract state, and its cuts.
Durable == [e \in Engines |-> GetShardReplicatedPosition(shardProg, e)]

Cuts == [i \in 1..NumDecided |-> EndOf(applied[Primary][i])]

\* As long as no further cut is decided the cuts stay as they are.
LEMMA CutsKept ==
    ASSUME IInv, CutsChained, [Next]_vars, NumDecided' = NumDecided
    PROVE  Cuts' = Cuts
<1>1. DecidedIsHeld
    BY DecidedBounds
<1>2. \A i \in 1..NumDecided : applied'[Primary][i] = applied[Primary][i]
    BY <1>1, PrefixKept DEF DecidedIsHeld
<1>3. QED
    BY <1>2, Zenon DEF Cuts, EndOf

\* The abstract cuts end where the primary's metalogs do.
CutsAreEnds ==
    /\ Cuts \in Seq([Engines -> Int]) /\ Len(Cuts) = NumDecided
    /\ \A i \in 1..NumDecided, e \in Engines : Cuts[i][e] = CutEnd(i, e)
    /\ \A e \in Engines : Abstract!Ordered(e) = CutEnd(NumDecided, e)

\* Where the decided cuts end is what Ordered reads in the abstract state.
LEMMA CutsRead == IInv => CutsAreEnds
<1> SUFFICES ASSUME IInv PROVE CutsAreEnds
    OBVIOUS
<1>1. DecidedIsHeld /\ TypeOK
    BY DecidedBounds DEF IInv
<1>2. \A i \in 1..NumDecided :
          /\ applied[Primary][i] \in MetaLogProto
          /\ EndOf(applied[Primary][i]) \in [Engines -> Int]
    <2> SUFFICES ASSUME NEW i \in 1..NumDecided
                 PROVE  /\ applied[Primary][i] \in MetaLogProto
                        /\ EndOf(applied[Primary][i]) \in [Engines -> Int]
        OBVIOUS
    <2>1. applied[Primary][i] \in MetaLogProto
        BY <1>1 DEF TypeOK, DecidedIsHeld, Sequencers
    <2>2. QED
        BY <2>1, NumberAssumption DEF MetaLogProto, EndOf
<1>3. Cuts \in [1..NumDecided -> [Engines -> Int]]
    BY <1>2 DEF Cuts
<1>4. Cuts \in Seq([Engines -> Int]) /\ Len(Cuts) = NumDecided
    <2>1. Cuts \in Seq([Engines -> Int])
        BY <1>1, <1>3 DEF DecidedIsHeld
    <2>2. DOMAIN Cuts = 1..NumDecided
        BY DEF Cuts
    <2>3. QED
        BY <1>1, <2>1, <2>2 DEF DecidedIsHeld
<1>5. \A i \in 1..NumDecided, e \in Engines : Cuts[i][e] = CutEnd(i, e)
    BY <1>1 DEF Cuts, EndOf, CutEnd
<1>6. ASSUME NEW e \in Engines PROVE Abstract!Ordered(e) = CutEnd(NumDecided, e)
    <2>1. Abstract!Ordered(e) = IF Cuts = <<>> THEN 0 ELSE Cuts[Len(Cuts)][e]
        BY Zenon DEF Abstract!Ordered, Cuts
    <2>2. CASE NumDecided = 0
        BY <1>4, <2>1, <2>2 DEF CutEnd
    <2>3. CASE NumDecided # 0
        BY <1>1, <1>4, <1>5, <2>1, <2>3 DEF DecidedIsHeld
    <2>4. QED
        BY <2>2, <2>3
<1>7. QED
    BY <1>4, <1>5, <1>6 DEF CutsAreEnds

-----------------------------------------------------------------------------
(* Each step is a step of MetaLogSpec or leaves its state alone.            *)

\* The progress that storages report never shrinks what is durable.
LEMMA DurableGrows ==
    ASSUME IInv, StorageReport
    PROVE  \A e \in Engines : Durable'[e] >= Durable[e]
<1>0. PICK s \in Storages : \E progress \in [SourceEngineNodes(s) -> 0..MaxLocalId] :
          OnRecvShardProgress(s, progress)
    BY Zenon DEF StorageReport
<1>1. PICK progress \in [SourceEngineNodes(s) -> 0..MaxLocalId] :
          OnRecvShardProgress(s, progress)
    BY <1>0
<1>2. OnRecvShardProgress(s, progress) => IInv'
    BY OnRecvShardProgressIInv
<1>3. /\ shardProg \in [Engines -> [Storages -> 0..MaxLocalId]]
      /\ shardProg' \in [Engines -> [Storages -> 0..MaxLocalId]]
    BY <1>1, <1>2, Zenon DEF IInv, TypeOK
<1> SUFFICES ASSUME NEW e \in Engines PROVE Durable'[e] >= Durable[e]
    OBVIOUS
<1>4. /\ GetShardReplicatedPosition(shardProg, e) \in 0..MaxLocalId
      /\ \A t \in StorageNodes[e] : GetShardReplicatedPosition(shardProg, e) <= shardProg[e][t]
    BY <1>3, ShardPosition, Zenon
<1>5. /\ GetShardReplicatedPosition(shardProg', e) \in 0..MaxLocalId
      /\ \E t \in StorageNodes[e] : GetShardReplicatedPosition(shardProg', e) = shardProg'[e][t]
    BY <1>3, ShardPosition, Zenon
<1>6. ASSUME NEW t \in StorageNodes[e] PROVE shardProg[e][t] <= shardProg'[e][t]
    <2>1. t \in Storages /\ shardProg[e] \in [Storages -> 0..MaxLocalId]
        BY <1>3, ShardAssumption
    <2>2. \/ shardProg'[e] = shardProg[e]
          \/ /\ shardProg'[e] = [shardProg[e] EXCEPT ![s] = progress[e]]
             /\ progress[e] > shardProg[e][s]
        BY <1>1 DEF OnRecvShardProgress
    <2>3. QED
        BY <1>3, <2>1, <2>2, NumberAssumption
<1>7. Durable[e] = GetShardReplicatedPosition(shardProg, e)
      /\ Durable'[e] = GetShardReplicatedPosition(shardProg', e)
    BY Zenon DEF Durable, GetShardReplicatedPosition
<1>8. PICK t \in StorageNodes[e] : GetShardReplicatedPosition(shardProg', e) = shardProg'[e][t]
    BY <1>5
<1>9. shardProg[e][t] <= shardProg'[e][t] /\ GetShardReplicatedPosition(shardProg, e) <= shardProg[e][t]
      /\ shardProg[e][t] \in 0..MaxLocalId /\ shardProg'[e][t] \in 0..MaxLocalId
    BY <1>3, <1>4, <1>6, ShardAssumption
<1>10. QED
    BY <1>4, <1>5, <1>7, <1>8, <1>9, NumberAssumption

\* The cut that a step decides is the primary's last one, which starts where the
\* decided ones end, orders something, and only what is durable.
LEMMA LastCutDecided ==
    ASSUME IInv, CutsChained, [Next]_vars, NumDecided' = NumDecided + 1
    PROVE  Abstract!DecideCut
<1>1. /\ DecidedIsHeld /\ CutsAreEnds /\ IInv' /\ TypeOK /\ CutsDurable
    BY DecidedBounds, CutsRead, NextIInv DEF IInv
<1>2. IInv' => CutsAreEnds'
    BY CutsRead, PTL
<1>3. ~MarkNextCutIfDoable /\ NumDecided + 1 = Len(applied[Primary])
    BY OneCutPerStep
<1>4. applied'[Primary] = applied[Primary]
    BY <1>3, PrimaryLogKept
<1>5. PICK n \in Nat : n = NumDecided
    BY <1>1 DEF DecidedIsHeld
<1>6. /\ Len(Cuts) = n /\ Len(Cuts') = n + 1
      /\ \A i \in 1..n : Cuts'[i] = Cuts[i]
    <2>1. Len(Cuts) = n /\ Len(Cuts') = n + 1
        BY <1>1, <1>2, <1>5 DEF CutsAreEnds
    <2>2. ASSUME NEW i \in 1..n PROVE Cuts'[i] = Cuts[i]
        <3>1. i \in 1..n + 1
            OBVIOUS
        <3>2. Cuts[i] = EndOf(applied[Primary][i]) /\ Cuts'[i] = EndOf(applied'[Primary][i])
            BY <1>5, <3>1 DEF Cuts, EndOf
        <3>3. QED
            BY <1>4, <3>2
    <2>3. QED
        BY <2>1, <2>2
<1>7. ASSUME NEW e \in Engines
      PROVE  /\ Cuts'[n + 1][e] = lastCut[e]
             /\ lastCut[e] = Abstract!Ordered(e) + applied[Primary][n + 1].deltas[e]
             /\ Abstract!Ordered(e) \in Int
             /\ applied[Primary][n + 1].deltas[e] \in Nat
             /\ lastCut[e] <= Durable[e] /\ Durable[e] \in Int
    <2>1. applied[Primary][n + 1] \in MetaLogProto
        BY <1>1, <1>3, <1>5 DEF TypeOK, Sequencers
    <2>2. /\ applied[Primary][n + 1].starts[e] \in Int
          /\ applied[Primary][n + 1].deltas[e] \in Nat
        BY <2>1, NumberAssumption DEF MetaLogProto
    <2>3. /\ lastCut[e] = CutEnd(n + 1, e)
          /\ applied[Primary][n + 1].starts[e] = CutEnd(n, e)
        <3>1. n + 1 \in 1..Len(applied[Primary]) /\ (n + 1) - 1 = n
            BY <1>3, <1>5
        <3>2. QED
            BY <1>3, <1>5, <3>1 DEF CutsChained
    <2>4. CutEnd(n + 1, e) = applied[Primary][n + 1].starts[e] + applied[Primary][n + 1].deltas[e]
        BY <1>5 DEF CutEnd
    <2>5. Abstract!Ordered(e) = CutEnd(n, e)
        BY <1>1, <1>5 DEF CutsAreEnds
    <2>6. Cuts'[n + 1][e] = CutEnd(n + 1, e)
        <3>1. n + 1 \in 1..n + 1 /\ n + 1 = NumDecided'
            BY <1>5
        <3>2. Cuts'[n + 1][e] = CutEnd(n + 1, e)'
            BY <1>1, <1>2, <3>1 DEF CutsAreEnds
        <3>3. QED
            BY <1>4, <3>2 DEF CutEnd
    <2>7. PICK s \in StorageNodes[e] :
              /\ Durable[e] = shardProg[e][s]
              /\ Durable[e] \in 0..MaxLocalId
        BY <1>1, ShardPosition, Zenon DEF TypeOK, Durable
    <2>8. lastCut[e] <= Durable[e] /\ Durable[e] \in Int
        BY <1>1, <2>7, NumberAssumption DEF CutsDurable
    <2>9. QED
        BY <2>2, <2>3, <2>4, <2>5, <2>6, <2>8
<1>8. PICK e0 \in Engines : applied[Primary][n + 1].deltas[e0] > 0
    <2>1. n + 1 \in 1..Len(applied[Primary])
        BY <1>3, <1>5
    <2>2. QED
        BY <2>1 DEF CutsChained
<1>9. /\ \A e \in Engines : Cuts'[Len(Cuts')][e] \in Abstract!Ordered(e) .. Durable[e]
      /\ \E e \in Engines : Cuts'[Len(Cuts')][e] > Abstract!Ordered(e)
    <2>1. ASSUME NEW e \in Engines
          PROVE  Cuts'[Len(Cuts')][e] \in Abstract!Ordered(e) .. Durable[e]
        BY <1>6, <1>7
    <2>2. Cuts'[Len(Cuts')][e0] > Abstract!Ordered(e0)
        BY <1>6, <1>7, <1>8
    <2>3. QED
        BY <2>1, <2>2
<1>10. QED
    BY <1>5, <1>6, <1>9, Zenon DEF Abstract!DecideCut, Cuts, Durable

\* A step of the sequencers or the controller.
LEMMA NextRefines ==
    ASSUME IInv, CutsChained, [Next]_vars
    PROVE  [Abstract!Next]_(Abstract!vars)
<1> DEFINE sealed == seal = "done"
<1>1. /\ NumDecided' = NumDecided \/ NumDecided' = NumDecided + 1
      /\ sealed => NumDecided' = NumDecided /\ sealed'
    BY OneCutPerStep
<1>2. CASE StorageReport
    <2>1. UNCHANGED <<applied, seal, finalPos, replicated>>
        BY <1>2, Zenon DEF StorageReport, OnRecvShardProgress, seqVars, sealVars
    <2>2. Cuts' = Cuts
        BY <2>1, Zenon DEF Cuts, NumDecided, EndOf
    <2>3. Abstract!Store
        BY <1>2, <2>1, <2>2, DurableGrows, Zenon DEF Abstract!Store, Cuts, Durable
    <2>4. QED
        BY <2>3 DEF Abstract!Next
<1>3. CASE ~StorageReport
    <2>1. shardProg' = shardProg
        BY <1>3, Zenon DEF Next, MarkNextCutIfDoable, MarkNextCut, OnRecvNewMetaLogs,
           OnRecvMetaLogProgress, LoseMessage, FreezeView, OnViewFrozen, OnFreezeZNodeCreated,
           OnOtherFreezeZNodeCreated, OnViewFinalized, primaryVars, vars
    <2>2. Durable' = Durable
        BY <2>1, Zenon DEF Durable, GetShardReplicatedPosition
    <2>3. CASE NumDecided' = NumDecided
        <3>1. Cuts' = Cuts
            BY <2>3, CutsKept
        <3>2. CASE sealed' = sealed
            BY <2>2, <3>1, <3>2, Zenon DEF Abstract!vars, Cuts, Durable
        <3>3. CASE ~sealed /\ sealed'
            <4>1. Abstract!Seal
                BY <2>2, <3>1, <3>3, Zenon DEF Abstract!Seal, Cuts, Durable
            <4>2. QED
                BY <4>1 DEF Abstract!Next
        <3>4. QED
            BY <1>1, <3>2, <3>3
    <2>4. CASE NumDecided' = NumDecided + 1
        <3>1. Abstract!DecideCut /\ ~sealed
            <4>1. DecidedIsHeld
                BY DecidedBounds
            <4>2. QED
                BY <1>1, <2>4, <4>1, LastCutDecided DEF DecidedIsHeld
        <3>2. CASE sealed'
            <4>1. Abstract!Seal
                BY <2>2, <3>1, <3>2, Zenon DEF Abstract!Seal, Durable
            <4>2. QED
                BY <4>1 DEF Abstract!Next
        <3>3. CASE ~sealed'
            <4>1. Abstract!Propagate
                BY <2>2, <3>1, <3>3, Zenon DEF Abstract!Propagate, Durable
            <4>2. QED
                BY <4>1 DEF Abstract!Next
        <3>4. QED
            BY <3>2, <3>3
    <2>5. QED
        BY <1>1, <2>3, <2>4
<1>4. QED
    BY <1>2, <1>3

\* Nothing is ordered at first.
LEMMA InitRefines == Init => CutsChained /\ Abstract!Init
<1> SUFFICES ASSUME Init PROVE CutsChained /\ Abstract!Init
    OBVIOUS
<1>1. Primary \in Sequencers /\ applied[Primary] = <<>> /\ Len(applied[Primary]) = 0
    BY DEF Init, Sequencers
<1>2. CutsChained
    BY <1>1 DEF CutsChained, CutEnd, Init
<1>3. Cuts = <<>>
    <2>1. NumDecided = 0
        BY DEF Init, NumDecided
    <2>2. QED
        BY <2>1 DEF Cuts
<1>4. Durable = [e \in Engines |-> 0]
    <2>1. ASSUME NEW e \in Engines PROVE GetShardReplicatedPosition(shardProg, e) = 0
        <3>1. /\ shardProg \in [Engines -> [Storages -> 0..MaxLocalId]]
              /\ \A s \in StorageNodes[e] : shardProg[e][s] = 0
            BY ShardAssumption, NumberAssumption DEF Init
        <3>2. QED
            BY <3>1, ShardPosition, Zenon
    <2>2. QED
        BY <2>1, Zenon DEF Durable
<1>5. Abstract!Init
    BY <1>3, <1>4, Zenon DEF Abstract!Init, Cuts, Durable, Init
<1>6. QED
    BY <1>2, <1>5

\* The sequencers and the controller implement MetaLogSpec, whatever METALOGS
\* and META_PROG messages are lost or late and whenever the view is sealed: the
\* cuts that engines and storages are told of grow one at a time, order durable
\* entries only, and a seal adds at most the one that was being replicated.
THEOREM Refinement == Spec => ImplementsMetaLogSpec
<1>1. Init => CutsChained /\ Abstract!Init
    BY InitRefines
<1>2. IInv /\ CutsChained /\ [Next]_vars => CutsChained'
    BY NextChained
<1>3. IInv /\ CutsChained /\ [Next]_vars => [Abstract!Next]_(Abstract!vars)
    BY NextRefines
<1>4. QED
    BY <1>1, <1>2, <1>3, Invariance, PTL DEF Spec, ImplementsMetaLogSpec, Abstract!Spec
=============================================================================
