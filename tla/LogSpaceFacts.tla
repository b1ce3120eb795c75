--------------------------- MODULE LogSpaceFacts ----------------------------
(***************************************************************************)
(* The inductive invariant of LogSpace, lemmas about the operators of      *)
(* LogSpace that its proof needs, and what it implies.                     *)
(***************************************************************************)
EXTENDS LogSpace, TLAPS

-----------------------------------------------------------------------------
(* The inductive invariant.                                                 *)

\* A NEW_LOGS metalog.
MetaLogProto ==
    [start : Nat, starts : [Engines -> 0..MaxLocalId], deltas : [Engines -> 0..MaxLocalId]]

\* Where the first p metalogs end in shard e.
EndAt(p, e) == IF p = 0 THEN 0 ELSE ShardEnd(p - 1, e)

\* Every variable has the type its C++ counterpart gives it.
TypeOK ==
    /\ nextLocalId \in [Engines -> 0..MaxLocalId]
    /\ pendingAppends \in [Engines -> SUBSET Nat]
    /\ acked \in [Engines -> SUBSET LogEntries]
    /\ discarded \in [Engines -> SUBSET Nat]
    /\ pendingEntries \in [Storages -> SUBSET (Engines \X Nat)]
    /\ live \in [Storages -> SUBSET LogEntries]
    /\ stored = [s \in Storages |-> stored[s]]
    /\ \A s \in Storages : stored[s] \in [SourceEngineNodes(s) -> 0..MaxLocalId]
    /\ storedDirty \in [Storages -> BOOLEAN]
    /\ reported = [s \in Storages |-> reported[s]]
    /\ \A s \in Storages : reported[s] \in [SourceEngineNodes(s) -> 0..MaxLocalId]
    /\ position \in [Nodes -> Nat]
    /\ progress = [n \in Nodes |-> progress[n]]
    /\ \A n \in Nodes : progress[n] \in [InterestedShards(n) -> Nat]
    /\ pendingMeta \in [Nodes -> SUBSET Nat]
    /\ phase \in [Nodes -> {"normal", "frozen", "finalized", "missing_entry", "insufficient"}]
    /\ replicate \subseteq (Engines \X Nat) \X Storages
    /\ inbox \in [Nodes -> SUBSET Nat]
    /\ metalogs \in Seq(MetaLogProto)
    /\ view \in {"normal", "frozen", "finalized"}

\* Metalogs follow one another, in local ids and in sequence numbers, and leave
\* no local id out.
Chained ==
    /\ \A i, j \in 1..Len(metalogs) : i < j =>
          /\ \A e \in Engines : EndAt(i, e) <= metalogs[j].starts[e]
          /\ metalogs[i].start + Cardinality(EntriesOf(metalogs[i], Engines))
                <= metalogs[j].start
    /\ \A e \in Engines : \A p \in 1..Len(metalogs) : \A id \in 0 .. (EndAt(p, e) - 1) :
          \E i \in 1..p : id \in metalogs[i].starts[e] .. (EndAt(i, e) - 1)

\* A node has heard of decided metalogs only, and its shard progress is where
\* the metalogs below its position end, received or not.
Following ==
    \A n \in Nodes :
        /\ position[n] <= Len(metalogs)
        /\ \A e \in InterestedShards(n) : progress[n][e] = EndAt(position[n], e)
        /\ \A i \in pendingMeta[n] : position[n] <= i /\ i < Len(metalogs)
        /\ \A i \in inbox[n] : i < Len(metalogs)

\* The primary orders what storages reported, which they hold.
Reported ==
    \A e \in Engines : \A s \in StorageNodes[e] :
        /\ EndAt(Len(metalogs), e) <= reported[s][e]
        /\ reported[s][e] <= stored[s][e]
        /\ stored[s][e] <= nextLocalId[e]

\* REPLICATE messages and pending entries are of issued local ids.
Issued ==
    /\ \A r \in replicate : r[2] \in StorageNodes[r[1][1]] /\ r[1][2] < nextLocalId[r[1][1]]
    /\ \A s \in Storages : \A x \in pendingEntries[s] : x[2] < nextLocalId[x[1]]

\* What is not ordered yet is pending.
Pending ==
    /\ \A e \in Engines : phase[e] # "finalized" =>
          pendingAppends[e] = progress[e][e] .. (nextLocalId[e] - 1)
    /\ \A s \in Storages : phase[s] # "finalized" =>
          \A e \in SourceEngineNodes(s) : \A id \in progress[s][e] .. (stored[s][e] - 1) :
              <<e, id>> \in pendingEntries[s]

\* A finalized node has applied all metalogs there will be, and only a finalized
\* engine discarded appends, none of which is ordered.
Final ==
    /\ \A n \in Nodes : phase[n] = "finalized" =>
          view = "finalized" /\ position[n] = Len(metalogs)
    /\ \A e \in Engines : \A id \in discarded[e] :
          phase[e] = "finalized" /\ EndAt(Len(metalogs), e) <= id

\* The inductive invariant.  LiteModeSkipsNothing is part of it: what a node has
\* seen of a shard is needed to know what is pending.
IInv ==
    /\ TypeOK
    /\ Chained
    /\ Following
    /\ Reported
    /\ Issued
    /\ Pending
    /\ Final
    /\ LiteModeSkipsNothing

-----------------------------------------------------------------------------
(* Facts about finite sets, which LogSpaceProofs proves from the library.   *)

\* Every non-empty set of naturals has a least element.
WellOrdered == \A S \in SUBSET Nat : S # {} => \E x \in S : \A y \in S : x <= y

\* The entries that a metalog orders from some shards are finitely many, those
\* of one more shard come on top, and they grow with the shards.
Counted(m, A) ==
    /\ Cardinality(EntriesOf(m, A)) \in Nat
    /\ A = {} => Cardinality(EntriesOf(m, A)) = 0
    /\ \A e \in Engines \ A :
          Cardinality(EntriesOf(m, A \cup {e})) = Cardinality(EntriesOf(m, A)) + m.deltas[e]
    /\ \A B \in SUBSET A : Cardinality(EntriesOf(m, B)) <= Cardinality(EntriesOf(m, A))

\* The first n local ids of an engine are n.
LocalIdsCounted == \A e \in Engines, n \in Nat : Cardinality({e} \X (0 .. (n - 1))) = n

\* The engines have a greatest node id.
EnginesBounded == \E u \in Nat : \A e \in Engines : e <= u

\* The facts about sets that the lemmas below assume.
SetFacts ==
    /\ WellOrdered /\ LocalIdsCounted /\ EnginesBounded
    /\ \A m \in MetaLogProto : \A A \in SUBSET Engines : Counted(m, A)

\* Sets of naturals are well-ordered.
LEMMA LeastNatural ==
    ASSUME SetFacts, NEW S \in SUBSET Nat, S # {}
    PROVE  \E x \in S : \A y \in S : x <= y
BY Zenon DEF SetFacts, WellOrdered

\* Min picks the least element of a non-empty set of naturals.
LEMMA MinIsLeast ==
    ASSUME SetFacts, NEW S \in SUBSET Nat, S # {}
    PROVE  Min(S) \in S /\ \A x \in S : Min(S) <= x
BY Zenon DEF SetFacts, WellOrdered, Min

\* Max picks the greatest element of a bounded non-empty set of naturals: the
\* least of its upper bounds belongs to it.
LEMMA MaxIsGreatest ==
    ASSUME SetFacts, NEW S \in SUBSET Nat, S # {}, NEW u \in Nat, \A x \in S : x <= u
    PROVE  Max(S) \in S /\ \A x \in S : x <= Max(S)
<1> DEFINE B == {b \in Nat : \A x \in S : x <= b}
<1>1. B \in SUBSET Nat /\ B # {}
    OBVIOUS
<1>2. PICK b \in B : \A c \in B : b <= c
    BY <1>1, LeastNatural, Zenon
<1>3. ASSUME b \notin S PROVE FALSE
    <2>1. \A x \in S : x < b /\ x \in Nat
        BY <1>2, <1>3
    <2>2. PICK x0 \in S : x0 < b /\ x0 \in Nat
        BY <2>1, Zenon
    <2>3. b \in Nat /\ b - 1 \in B
        BY <1>2, <2>1, <2>2
    <2>4. QED
        BY <1>2, <2>3
<1>4. \E x \in S : \A y \in S : x >= y
    BY <1>2, <1>3
<1>5. Max(S) \in S /\ \A y \in S : Max(S) >= y
    BY <1>4, Zenon DEF Max
<1>6. QED
    BY <1>5

\* The entries of a metalog are countable.
LEMMA CountEntries ==
    ASSUME SetFacts, NEW m \in MetaLogProto, NEW A \in SUBSET Engines
    PROVE  /\ Cardinality(EntriesOf(m, A)) \in Nat
           /\ \A e \in Engines \ A : Cardinality(EntriesOf(m, A \cup {e}))
                                          = Cardinality(EntriesOf(m, A)) + m.deltas[e]
           /\ \A B \in SUBSET A : Cardinality(EntriesOf(m, B)) <= Cardinality(EntriesOf(m, A))
BY Zenon DEF SetFacts, Counted

-----------------------------------------------------------------------------
(* The entries of one metalog.                                              *)

\* The engines whose entries precede those of e in a metalog.
Before(e) == {f \in Engines : f < e}

\* The sequence numbers of shard e in a metalog are consecutive, after those of
\* the lower engines, and within those of the metalog.
LEMMA EntriesOfShard ==
    ASSUME SetFacts, NEW m \in MetaLogProto, NEW e \in Engines
    PROVE  /\ Cardinality(EntriesOf(m, Before(e))) \in Nat
           /\ Cardinality(EntriesOf(m, Engines)) \in Nat
           /\ Cardinality(EntriesOf(m, Before(e))) + m.deltas[e]
                <= Cardinality(EntriesOf(m, Engines))
           /\ \A f \in Engines : e < f =>
                Cardinality(EntriesOf(m, Before(e))) + m.deltas[e]
                  <= Cardinality(EntriesOf(m, Before(f)))
           /\ NewLogsOf(m, e) \subseteq LogEntries
           /\ \A x \in NewLogsOf(m, e) :
                /\ x.engine = e
                /\ x.localid \in m.starts[e] .. (m.starts[e] + m.deltas[e] - 1)
                /\ x.seqnum = m.start + Cardinality(EntriesOf(m, Before(e)))
                                 + (x.localid - m.starts[e])
           /\ \A id \in m.starts[e] .. (m.starts[e] + m.deltas[e] - 1) :
                \E x \in NewLogsOf(m, e) : x.localid = id
<1> DEFINE b == Cardinality(EntriesOf(m, Before(e)))
<1>1. /\ m.start \in Nat /\ m.starts[e] \in Nat /\ m.deltas[e] \in Nat
      /\ e \in Nat /\ Engines \subseteq Nat
    BY BoundAssumption, NodeAssumption DEF MetaLogProto
<1>2. e \in Engines \ Before(e) /\ Before(e) \in SUBSET Engines
    BY <1>1 DEF Before
<1>3. /\ b \in Nat /\ Cardinality(EntriesOf(m, Engines)) \in Nat
      /\ Cardinality(EntriesOf(m, Before(e) \cup {e})) = b + m.deltas[e]
    BY <1>2, CountEntries
<1>4. b + m.deltas[e] <= Cardinality(EntriesOf(m, Engines))
    <2>1. Before(e) \cup {e} \in SUBSET Engines
        BY <1>2
    <2>2. QED
        BY <1>3, <2>1, CountEntries
<1>5. ASSUME NEW f \in Engines, e < f
      PROVE  b + m.deltas[e] <= Cardinality(EntriesOf(m, Before(f)))
    <2>1. Before(e) \cup {e} \in SUBSET Before(f) /\ Before(f) \in SUBSET Engines
        <3>1. ASSUME NEW g \in Before(e) \cup {e} PROVE g \in Before(f)
            <4>1. g \in Engines /\ g \in Nat /\ f \in Nat /\ (g < e \/ g = e)
                BY <1>1 DEF Before
            <4>2. g < f
                BY <1>1, <1>5, <4>1
            <4>3. QED
                BY <4>1, <4>2 DEF Before
        <3>2. QED
            BY <3>1 DEF Before
    <2>2. QED
        BY <1>3, <2>1, CountEntries
<1>6. NewLogsOf(m, e) = {[seqnum |-> m.start + b + i, engine |-> e, localid |-> m.starts[e] + i] :
                            i \in 0 .. (m.deltas[e] - 1)}
    BY Zenon DEF NewLogsOf, Before
<1> HIDE DEF b
<1>7. ASSUME NEW x \in NewLogsOf(m, e)
      PROVE  /\ x \in LogEntries /\ x.engine = e
             /\ x.localid \in m.starts[e] .. (m.starts[e] + m.deltas[e] - 1)
             /\ x.seqnum = m.start + b + (x.localid - m.starts[e])
    <2>1. PICK i \in 0 .. (m.deltas[e] - 1) :
              x = [seqnum |-> m.start + b + i, engine |-> e, localid |-> m.starts[e] + i]
        BY <1>6, <1>7
    <2>2. x.engine = e /\ x.localid = m.starts[e] + i /\ x.seqnum = m.start + b + i
        BY <2>1
    <2>3. m.starts[e] + i \in Nat /\ m.start + b + i \in Nat
        BY <1>1, <1>3
    <2>4. x \in LogEntries
        BY <2>1, <2>3 DEF LogEntries
    <2>5. QED
        BY <1>1, <1>3, <2>2, <2>4
<1>8. ASSUME NEW id \in m.starts[e] .. (m.starts[e] + m.deltas[e] - 1)
      PROVE  \E x \in NewLogsOf(m, e) : x.localid = id
    <2>1. id - m.starts[e] \in 0 .. (m.deltas[e] - 1) /\ m.starts[e] + (id - m.starts[e]) = id
        BY <1>1
    <2>2. [seqnum |-> m.start + b + (id - m.starts[e]), engine |-> e,
           localid |-> m.starts[e] + (id - m.starts[e])] \in NewLogsOf(m, e)
        BY <1>6, <2>1
    <2>3. QED
        BY <2>1, <2>2
<1>9. QED
    BY <1>3, <1>4, <1>5, <1>7, <1>8, Zenon DEF b

-----------------------------------------------------------------------------
(* The chain of metalogs.                                                   *)

\* Metalogs have their type.
LEMMA MetaLogTypes ==
    ASSUME SetFacts, TypeOK
    PROVE  /\ Len(metalogs) \in Nat
           /\ \A i \in 1..Len(metalogs) :
                /\ metalogs[i] \in MetaLogProto
                /\ metalogs[i].start \in Nat
                /\ Cardinality(EntriesOf(metalogs[i], Engines)) \in Nat
                /\ \A e \in Engines :
                     /\ metalogs[i].starts[e] \in Nat /\ metalogs[i].deltas[e] \in Nat
                     /\ EndAt(i, e) = metalogs[i].starts[e] + metalogs[i].deltas[e]
                     /\ EndAt(i, e) = ShardEnd(i - 1, e)
           /\ \A p \in 0..Len(metalogs), e \in Engines : EndAt(p, e) \in Nat
<1>1. metalogs \in Seq(MetaLogProto) /\ Len(metalogs) \in Nat
    BY DEF TypeOK
<1>2. ASSUME NEW i \in 1..Len(metalogs)
      PROVE  /\ metalogs[i] \in MetaLogProto
             /\ metalogs[i].start \in Nat
             /\ Cardinality(EntriesOf(metalogs[i], Engines)) \in Nat
             /\ \A e \in Engines :
                  /\ metalogs[i].starts[e] \in Nat /\ metalogs[i].deltas[e] \in Nat
                  /\ EndAt(i, e) = metalogs[i].starts[e] + metalogs[i].deltas[e]
                  /\ EndAt(i, e) = ShardEnd(i - 1, e)
    <2>1. metalogs[i] \in MetaLogProto
        BY <1>1
    <2>2. /\ metalogs[i].start \in Nat
          /\ \A e \in Engines : metalogs[i].starts[e] \in Nat /\ metalogs[i].deltas[e] \in Nat
        BY <2>1, BoundAssumption DEF MetaLogProto
    <2>3. Cardinality(EntriesOf(metalogs[i], Engines)) \in Nat
        BY <2>1, CountEntries
    <2>4. i # 0 /\ (i - 1) + 1 = i
        BY <1>1
    <2>5. \A e \in Engines : /\ EndAt(i, e) = metalogs[i].starts[e] + metalogs[i].deltas[e]
                              /\ EndAt(i, e) = ShardEnd(i - 1, e)
        BY <2>4 DEF EndAt, ShardEnd
    <2>6. QED
        BY <2>1, <2>2, <2>3, <2>5
<1>3. ASSUME NEW p \in 0..Len(metalogs), NEW e \in Engines PROVE EndAt(p, e) \in Nat
    <2>1. CASE p = 0
        BY <2>1 DEF EndAt
    <2>2. CASE p # 0
        <3>1. p \in 1..Len(metalogs)
            BY <1>1, <2>2
        <3>2. /\ metalogs[p].starts[e] \in Nat /\ metalogs[p].deltas[e] \in Nat
              /\ EndAt(p, e) = metalogs[p].starts[e] + metalogs[p].deltas[e]
            BY <1>2, <3>1, Zenon
        <3>3. QED
            BY <1>1, <3>2
    <2>3. QED
        BY <2>1, <2>2
<1>4. QED
    BY <1>1, <1>2, <1>3

\* Later metalogs end later, and start where no earlier one reaches.
LEMMA EndsGrow ==
    ASSUME SetFacts, TypeOK, Chained, NEW e \in Engines
    PROVE  \A p, q \in 0..Len(metalogs) : p <= q =>
              /\ EndAt(p, e) <= EndAt(q, e)
              /\ p < q => EndAt(p, e) <= metalogs[q].starts[e]
<1>1. Len(metalogs) \in Nat
    BY MetaLogTypes
<1> SUFFICES ASSUME NEW p \in 0..Len(metalogs), NEW q \in 0..Len(metalogs), p <= q
             PROVE  /\ EndAt(p, e) <= EndAt(q, e)
                    /\ p < q => EndAt(p, e) <= metalogs[q].starts[e]
    OBVIOUS
<1>2. EndAt(p, e) \in Nat /\ EndAt(q, e) \in Nat
    BY MetaLogTypes
<1>3. CASE p = q
    BY <1>1, <1>2, <1>3
<1>4. CASE p < q
    <2>1. q \in 1..Len(metalogs)
        BY <1>1, <1>4
    <2>2. /\ metalogs[q].starts[e] \in Nat /\ metalogs[q].deltas[e] \in Nat
          /\ EndAt(q, e) = metalogs[q].starts[e] + metalogs[q].deltas[e]
        BY <2>1, MetaLogTypes
    <2>3. EndAt(p, e) <= metalogs[q].starts[e]
        <3>1. CASE p = 0
            <4>1. EndAt(p, e) = 0
                BY <3>1 DEF EndAt
            <4>2. QED
                BY <2>2, <4>1
        <3>2. CASE p # 0
            <4>1. p \in 1..Len(metalogs)
                BY <1>1, <3>2
            <4>2. QED
                BY <1>4, <2>1, <4>1 DEF Chained
        <3>3. QED
            BY <3>1, <3>2
    <2>4. QED
        BY <1>2, <2>2, <2>3
<1>5. QED
    BY <1>1, <1>3, <1>4

-----------------------------------------------------------------------------
(* A node in lite mode.                                                     *)

\* The metalogs that a node is given are decided and not below its position.
Pendable(n, pend) ==
    /\ pend \in SUBSET Nat
    /\ \A i \in pend : position[n] <= i /\ i < Len(metalogs)

\* A node follows shards of engines.
LEMMA Interested ==
    ASSUME NEW n \in Nodes
    PROVE  /\ InterestedShards(n) \subseteq Engines
           /\ n \in Engines => InterestedShards(n) = {n}
           /\ n \in Storages => InterestedShards(n) = SourceEngineNodes(n)
BY NodeAssumption DEF InterestedShards, SourceEngineNodes, Nodes

\* AdvanceMetaLogProgress applies an initial part of the pending metalogs: the
\* position moves past them, the rest stays at or above it.
LEMMA AdvanceBounds ==
    ASSUME SetFacts, TypeOK, Chained, Following, NEW n \in Nodes, NEW pend, Pendable(n, pend)
    PROVE  LET app == Applied(n, pend)
               q   == PositionAfter(n, app)
           IN  /\ app \subseteq pend
               /\ \A i \in app, j \in pend : j <= i => j \in app
               /\ app # {} => /\ Max(app) \in app /\ q = Max(app) + 1
                              /\ \A i \in app : i <= Max(app)
               /\ app = {} => q = position[n]
               /\ q \in Nat /\ position[n] <= q /\ q <= Len(metalogs)
               /\ \A i \in pend \ app : q <= i /\ i < Len(metalogs)
               /\ \A e \in InterestedShards(n) :
                    EndAt(q, e) = IF app = {} THEN progress[n][e] ELSE ShardEnd(Max(app), e)
<1> DEFINE app == Applied(n, pend)
           q == PositionAfter(n, app)
<1>1. /\ position[n] \in Nat /\ position[n] <= Len(metalogs) /\ Len(metalogs) \in Nat
      /\ pend \in SUBSET Nat /\ \A i \in pend : position[n] <= i /\ i < Len(metalogs)
    BY MetaLogTypes DEF TypeOK, Following, Pendable
<1>2. app \subseteq pend /\ app \in SUBSET Nat
    BY <1>1, Zenon DEF Applied
<1>3. ASSUME NEW i \in app, NEW j \in pend, j <= i PROVE j \in app
    <2>1. \A k \in pend : k <= i => CanApplyMetaLog(n, pend, k)
        BY DEF Applied
    <2>2. \A k \in pend : k <= j => k <= i
        BY <1>1, <1>2, <1>3
    <2>3. QED
        BY <1>3, <2>1, <2>2 DEF Applied
<1>4. app # {} => Max(app) \in app /\ \A i \in app : i <= Max(app)
    <2>1. \A i \in app : i <= Len(metalogs)
        BY <1>1, <1>2
    <2>2. QED
        BY <1>1, <1>2, <2>1, MaxIsGreatest, Zenon
<1>5. /\ app # {} => q = Max(app) + 1
      /\ app = {} => q = position[n]
    BY DEF PositionAfter
<1> HIDE DEF app, q
<1>6. q \in Nat /\ position[n] <= q /\ q <= Len(metalogs)
    <2>1. CASE app = {}
        BY <1>1, <1>5, <2>1
    <2>2. CASE app # {}
        <3>1. Max(app) \in pend
            BY <1>2, <1>4, <2>2, Zenon
        <3>2. Max(app) \in Nat /\ position[n] <= Max(app) /\ Max(app) < Len(metalogs)
            BY <1>1, <3>1, Zenon
        <3>3. QED
            BY <1>1, <1>5, <2>2, <3>2
    <2>3. QED
        BY <2>1, <2>2
<1>7. ASSUME NEW i \in pend \ app PROVE q <= i /\ i < Len(metalogs)
    <2>1. CASE app = {}
        BY <1>1, <1>5, <2>1
    <2>2. CASE app # {}
        <3>1. Max(app) \in app /\ Max(app) \in Nat /\ i \in Nat /\ i \in pend /\ i \notin app
            BY <1>1, <1>2, <1>4, <2>2, Zenon
        <3>2. ~(i <= Max(app))
            BY <1>3, <3>1
        <3>3. QED
            BY <1>1, <1>5, <2>2, <3>1, <3>2
    <2>3. QED
        BY <2>1, <2>2
<1>8. ASSUME NEW e \in InterestedShards(n)
      PROVE  EndAt(q, e) = IF app = {} THEN progress[n][e] ELSE ShardEnd(Max(app), e)
    <2>1. CASE app = {}
        BY <1>5, <2>1 DEF Following
    <2>2. CASE app # {}
        <3>1. q # 0 /\ q - 1 = Max(app)
            <4>1. Max(app) \in Nat
                BY <1>2, <1>4, <2>2, Zenon
            <4>2. QED
                BY <1>5, <2>2, <4>1
        <3>2. QED
            BY <2>2, <3>1 DEF EndAt
    <2>3. QED
        BY <2>1, <2>2
<1>9. QED
    BY <1>2, <1>3, <1>4, <1>5, <1>6, <1>7, <1>8, Zenon DEF app, q

\* A metalog that a node passes without having applied it orders nothing from
\* the shards that the node follows: CanApplyMetaLog compares the start of the
\* next one with where the shards are.
LEMMA SkippedIsEmpty ==
    ASSUME SetFacts, TypeOK, Chained, Following, NEW n \in Nodes, NEW pend, Pendable(n, pend),
           NEW e \in InterestedShards(n), NEW k \in Nat, position[n] <= k,
           k < PositionAfter(n, Applied(n, pend)), k \notin Applied(n, pend)
    PROVE  metalogs[k + 1].deltas[e] = 0
<1> DEFINE app == Applied(n, pend)
           q == PositionAfter(n, app)
           S == {j \in app : k < j}
<1>1. /\ position[n] \in Nat /\ Len(metalogs) \in Nat /\ e \in Engines
      /\ pend \in SUBSET Nat /\ \A i \in pend : position[n] <= i /\ i < Len(metalogs)
    BY MetaLogTypes, Interested DEF TypeOK, Pendable
<1>2. /\ app \subseteq pend
      /\ \A i \in app, j \in pend : j <= i => j \in app
      /\ app # {} => Max(app) \in app /\ q = Max(app) + 1
      /\ app = {} => q = position[n]
      /\ q \in Nat /\ q <= Len(metalogs)
    BY AdvanceBounds, Zenon
<1>3. k < q /\ k \notin app
    OBVIOUS
<1>4. \A j \in app : \A x \in InterestedShards(n) :
          ShardStart(j, x) <= ProgressBefore(n, pend, j, x)
    BY <1>1, <1>2 DEF Applied, CanApplyMetaLog
<1> HIDE DEF app, q
<1>5. Max(app) \in S /\ S \in SUBSET Nat
    <2>1. app # {}
        BY <1>1, <1>2, <1>3
    <2>2. Max(app) \in app /\ q = Max(app) + 1 /\ Max(app) \in Nat
        BY <1>1, <1>2, <2>1, Zenon
    <2>3. k # Max(app)
        BY <1>3, <2>2
    <2>4. k < Max(app)
        BY <1>3, <2>2, <2>3
    <2>5. QED
        BY <1>1, <1>2, <2>2, <2>4, Zenon
<1>6. PICK j \in S : \A i \in S : j <= i
    BY <1>5, LeastNatural, Zenon
<1>7. j \in app /\ j \in pend /\ j \in Nat /\ k < j /\ j < Len(metalogs)
    BY <1>1, <1>2, <1>6
<1>8. ASSUME NEW i \in pend, i < j PROVE i < k
    <2>1. i \in Nat /\ i \in app
        BY <1>1, <1>2, <1>7, <1>8
    <2>2. i # k
        BY <1>3, <2>1
    <2>3. ~(k < i)
        BY <1>6, <1>7, <1>8, <2>1
    <2>4. QED
        BY <2>1, <2>2, <2>3
<1>9. /\ k \in 0..Len(metalogs) /\ k + 1 \in 1..Len(metalogs) /\ k + 1 \in 0..Len(metalogs)
      /\ j + 1 \in 1..Len(metalogs) /\ j + 1 \in 0..Len(metalogs)
      /\ k < k + 1 /\ k + 1 < j + 1 /\ k <= k + 1 /\ k + 1 <= j + 1
      /\ position[n] \in 0..Len(metalogs)
    BY <1>1, <1>7
<1>10. /\ EndAt(k, e) \in Nat
       /\ metalogs[k + 1].starts[e] \in Nat /\ metalogs[k + 1].deltas[e] \in Nat
       /\ EndAt(k + 1, e) = metalogs[k + 1].starts[e] + metalogs[k + 1].deltas[e]
       /\ metalogs[j + 1].starts[e] \in Nat
    BY <1>1, <1>9, MetaLogTypes, Zenon
<1>11. /\ EndAt(k, e) <= metalogs[k + 1].starts[e]
       /\ EndAt(k + 1, e) <= metalogs[j + 1].starts[e]
    BY <1>1, <1>9, EndsGrow
<1>12. metalogs[j + 1].starts[e] <= EndAt(k, e)
    <2> DEFINE earlier == {i \in pend : i < j}
    <2>1. metalogs[j + 1].starts[e]
            <= IF earlier = {} THEN progress[n][e] ELSE ShardEnd(Max(earlier), e)
        BY <1>4, <1>7, Zenon DEF ShardStart, ProgressBefore
    <2>2. CASE earlier = {}
        <3>1. progress[n][e] = EndAt(position[n], e)
            BY DEF Following
        <3>2. EndAt(position[n], e) <= EndAt(k, e) /\ EndAt(position[n], e) \in Nat
            BY <1>1, <1>9, EndsGrow, MetaLogTypes, Zenon
        <3>3. QED
            BY <1>10, <2>1, <2>2, <3>1, <3>2
    <2>3. CASE earlier # {}
        <3>1. earlier \in SUBSET Nat /\ \A i \in earlier : i <= Len(metalogs)
            <4>1. ASSUME NEW i \in earlier PROVE i \in Nat /\ i <= Len(metalogs)
                <5>1. i \in Nat /\ i < Len(metalogs)
                    BY <1>1
                <5>2. QED
                    BY <1>1, <5>1
            <4>2. QED
                BY <4>1, Zenon
        <3>2. Max(earlier) \in earlier
            BY <1>1, <2>3, <3>1, MaxIsGreatest, Zenon
        <3> HIDE DEF earlier
        <3>3. Max(earlier) \in Nat /\ Max(earlier) < k
            BY <1>1, <1>8, <3>2, Zenon DEF earlier
        <3>4. Max(earlier) + 1 \in 0..Len(metalogs) /\ Max(earlier) + 1 <= k
              /\ Max(earlier) + 1 # 0 /\ (Max(earlier) + 1) - 1 = Max(earlier)
            BY <1>1, <1>9, <3>3
        <3>5. EndAt(Max(earlier) + 1, e) <= EndAt(k, e) /\ EndAt(Max(earlier) + 1, e) \in Nat
            BY <1>1, <1>9, <3>4, EndsGrow, MetaLogTypes
        <3>6. EndAt(Max(earlier) + 1, e) = ShardEnd(Max(earlier), e)
            BY <3>4 DEF EndAt
        <3>7. QED
            BY <1>10, <2>1, <2>3, <3>5, <3>6
    <2>4. QED
        BY <2>2, <2>3
<1>13. QED
    BY <1>10, <1>11, <1>12

\* The entries of shard e that the metalogs of app order.
New(e, app) == UNION {NewLogsOf(metalogs[i + 1], e) : i \in app}

\* Applying the metalogs of app takes node n to position q in shard e.
TakesTo(n, e, app, q) ==
    /\ OrderedEntries(e, q) = OrderedEntries(e, position[n]) \cup New(e, app)
    /\ New(e, app) \subseteq LogEntries
    /\ \A x \in New(e, app) :
          x.engine = e /\ x.localid \in progress[n][e] .. (EndAt(q, e) - 1)
    /\ \A id \in progress[n][e] .. (EndAt(q, e) - 1) : \E x \in New(e, app) : x.localid = id

\* What a node applies is what the metalogs between its old and its new position
\* order from its shards: all of it, and nothing it had before.
LEMMA AppliedEntries ==
    ASSUME SetFacts, TypeOK, Chained, Following, NEW n \in Nodes, NEW pend, Pendable(n, pend),
           NEW e \in InterestedShards(n)
    PROVE  TakesTo(n, e, Applied(n, pend), PositionAfter(n, Applied(n, pend)))
<1> DEFINE app == Applied(n, pend)
           q == PositionAfter(n, app)
<1>1. /\ position[n] \in Nat /\ Len(metalogs) \in Nat /\ e \in Engines
      /\ pend \in SUBSET Nat /\ \A i \in pend : position[n] <= i /\ i < Len(metalogs)
      /\ progress[n][e] = EndAt(position[n], e)
    BY MetaLogTypes, Interested DEF TypeOK, Pendable, Following
<1>2. /\ app \subseteq pend /\ app \in SUBSET Nat
      /\ q \in Nat /\ position[n] <= q /\ q <= Len(metalogs)
      /\ \A i \in app : i < q
    <2>1. /\ app \subseteq pend
          /\ app # {} => q = Max(app) + 1 /\ \A i \in app : i <= Max(app)
          /\ app # {} => Max(app) \in app
          /\ q \in Nat /\ position[n] <= q /\ q <= Len(metalogs)
        BY AdvanceBounds, Zenon
    <2>2. ASSUME NEW i \in app PROVE i < q
        <3>1. i \in Nat /\ Max(app) \in Nat /\ i <= Max(app) /\ q = Max(app) + 1
            BY <1>1, <2>1, Zenon
        <3>2. QED
            BY <3>1
    <2>3. app \in SUBSET Nat
        BY <1>1, <2>1, Zenon
    <2>4. QED
        BY <2>1, <2>2, <2>3, Zenon
<1>3. ASSUME NEW k \in Nat, position[n] <= k, k < q, k \notin app
      PROVE  metalogs[k + 1].deltas[e] = 0
    BY <1>3, SkippedIsEmpty
<1> HIDE DEF app, q
<1>4. \A i \in 1..Len(metalogs) : NewLogsOf(metalogs[i], e) \subseteq LogEntries
    BY <1>1, MetaLogTypes, EntriesOfShard
<1>5. ASSUME NEW i \in 1..Len(metalogs), NEW x \in NewLogsOf(metalogs[i], e)
      PROVE  x.engine = e /\ x.localid \in metalogs[i].starts[e] .. (EndAt(i, e) - 1)
    <2>1. /\ metalogs[i] \in MetaLogProto
          /\ metalogs[i].starts[e] \in Nat /\ metalogs[i].deltas[e] \in Nat
          /\ EndAt(i, e) = metalogs[i].starts[e] + metalogs[i].deltas[e]
        BY <1>1, MetaLogTypes, Zenon
    <2>2. /\ x.engine = e
          /\ x.localid \in metalogs[i].starts[e] .. (metalogs[i].starts[e] + metalogs[i].deltas[e] - 1)
        BY <1>1, <1>5, <2>1, EntriesOfShard, Zenon
    <2>3. QED
        BY <1>1, <2>1, <2>2
<1>6. \A i \in app : i \in Nat /\ i + 1 \in 1..q /\ i + 1 \in 1..Len(metalogs)
                      /\ position[n] <= i
    <2> SUFFICES ASSUME NEW i \in app
                 PROVE  /\ i \in Nat /\ i + 1 \in 1..q /\ i + 1 \in 1..Len(metalogs)
                        /\ position[n] <= i
        OBVIOUS
    <2>1. i \in Nat /\ position[n] <= i /\ i < Len(metalogs) /\ i < q
        BY <1>1, <1>2
    <2>2. QED
        BY <1>1, <1>2, <2>1
<1>7. ASSUME NEW i \in 1..q, i > position[n],
             NEW id \in metalogs[i].starts[e] .. (EndAt(i, e) - 1)
      PROVE  i - 1 \in app
    <2>1. i \in 1..Len(metalogs) /\ i - 1 \in Nat /\ position[n] <= i - 1 /\ i - 1 < q
          /\ (i - 1) + 1 = i
        BY <1>1, <1>2, <1>7
    <2>2. /\ metalogs[i].starts[e] \in Nat /\ metalogs[i].deltas[e] \in Nat
          /\ EndAt(i, e) = metalogs[i].starts[e] + metalogs[i].deltas[e]
        BY <1>1, <2>1, MetaLogTypes, Zenon
    <2>3. metalogs[i].deltas[e] # 0
        BY <1>1, <2>2
    <2>4. QED
        BY <1>3, <2>1, <2>3
<1>8. OrderedEntries(e, q) = OrderedEntries(e, position[n]) \cup New(e, app)
    <2>1. ASSUME NEW x \in OrderedEntries(e, q)
          PROVE  x \in OrderedEntries(e, position[n]) \cup New(e, app)
        <3>1. PICK i \in 1..q : x \in NewLogsOf(metalogs[i], e)
            BY Zenon DEF OrderedEntries
        <3>2. CASE i <= position[n]
            <4>1. i \in 1..position[n]
                BY <1>1, <1>2, <3>2
            <4>2. QED
                BY <3>1, <4>1, Zenon DEF OrderedEntries
        <3>3. CASE i > position[n]
            <4>1. i \in 1..Len(metalogs)
                BY <1>1, <1>2
            <4>2. x.localid \in metalogs[i].starts[e] .. (EndAt(i, e) - 1)
                BY <1>5, <3>1, <4>1
            <4>3. i - 1 \in app /\ (i - 1) + 1 = i
                BY <1>2, <1>7, <3>3, <4>2
            <4>4. QED
                BY <3>1, <4>3 DEF New
        <3>4. QED
            BY <1>1, <1>2, <3>2, <3>3
    <2>2. ASSUME NEW x \in OrderedEntries(e, position[n]) PROVE x \in OrderedEntries(e, q)
        <3>1. PICK i \in 1..position[n] : x \in NewLogsOf(metalogs[i], e)
            BY Zenon DEF OrderedEntries
        <3>2. i \in 1..q
            BY <1>1, <1>2
        <3>3. QED
            BY <3>1, <3>2, Zenon DEF OrderedEntries
    <2>3. ASSUME NEW x \in New(e, app) PROVE x \in OrderedEntries(e, q)
        <3>1. PICK i \in app : x \in NewLogsOf(metalogs[i + 1], e)
            BY Zenon DEF New
        <3>2. i + 1 \in 1..q
            BY <1>6
        <3>3. QED
            BY <3>1, <3>2, Zenon DEF OrderedEntries
    <2>4. QED
        BY <2>1, <2>2, <2>3, Zenon
<1>9. New(e, app) \subseteq LogEntries
    BY <1>4, <1>6, Zenon DEF New
<1>10. ASSUME NEW x \in New(e, app)
       PROVE  x.engine = e /\ x.localid \in progress[n][e] .. (EndAt(q, e) - 1)
    <2>1. PICK i \in app : x \in NewLogsOf(metalogs[i + 1], e)
        BY Zenon DEF New
    <2>2. /\ i \in Nat /\ i + 1 \in 1..Len(metalogs) /\ position[n] <= i /\ i + 1 <= q
          /\ i + 1 \in 0..Len(metalogs) /\ q \in 0..Len(metalogs)
          /\ position[n] \in 0..Len(metalogs) /\ position[n] < i + 1 /\ position[n] <= i + 1
        BY <1>1, <1>2, <1>6
    <2>3. x.engine = e /\ x.localid \in metalogs[i + 1].starts[e] .. (EndAt(i + 1, e) - 1)
        BY <1>5, <2>1, <2>2
    <2>4. /\ EndAt(position[n], e) <= metalogs[i + 1].starts[e]
          /\ EndAt(i + 1, e) <= EndAt(q, e)
        BY <1>1, <2>2, EndsGrow
    <2>5. /\ EndAt(position[n], e) \in Nat /\ EndAt(i + 1, e) \in Nat /\ EndAt(q, e) \in Nat
          /\ metalogs[i + 1].starts[e] \in Nat
        BY <1>1, <2>2, MetaLogTypes, Zenon
    <2>6. QED
        BY <1>1, <2>3, <2>4, <2>5
<1>11. ASSUME NEW id \in progress[n][e] .. (EndAt(q, e) - 1)
       PROVE  \E x \in New(e, app) : x.localid = id
    <2>1. /\ q \in 0..Len(metalogs) /\ position[n] \in 0..Len(metalogs)
          /\ EndAt(q, e) \in Nat /\ EndAt(position[n], e) \in Nat
        <3>1. q \in 0..Len(metalogs) /\ position[n] \in 0..Len(metalogs)
            BY <1>1, <1>2
        <3>2. QED
            BY <1>1, <3>1, MetaLogTypes
    <2>2. id \in Nat /\ id < EndAt(q, e) /\ EndAt(position[n], e) <= id
        BY <1>1, <2>1
    <2>3. q # 0
        <3>1. q = 0 => EndAt(q, e) = 0
            BY DEF EndAt
        <3>2. QED
            BY <2>1, <2>2, <3>1
    <2>4. q \in 1..Len(metalogs) /\ id \in 0 .. (EndAt(q, e) - 1)
        BY <1>2, <2>1, <2>2, <2>3
    <2>5. PICK i \in 1..q : id \in metalogs[i].starts[e] .. (EndAt(i, e) - 1)
        BY <1>1, <2>4 DEF Chained
    <2>6. i \in 1..Len(metalogs) /\ i \in 0..Len(metalogs) /\ EndAt(i, e) \in Nat
        <3>1. i \in 1..Len(metalogs) /\ i \in 0..Len(metalogs)
            BY <1>1, <1>2
        <3>2. QED
            BY <1>1, <3>1, MetaLogTypes
    <2>7. i > position[n]
        <3>1. i <= position[n] => EndAt(i, e) <= EndAt(position[n], e)
            BY <1>1, <2>1, <2>6, EndsGrow
        <3>2. id < EndAt(i, e)
            BY <2>2, <2>5, <2>6
        <3>3. QED
            BY <1>1, <2>1, <2>2, <2>6, <3>1, <3>2
    <2>8. i - 1 \in app /\ (i - 1) + 1 = i
        BY <1>2, <1>7, <2>5, <2>7
    <2>9. PICK x \in NewLogsOf(metalogs[i], e) : x.localid = id
        <3>1. /\ metalogs[i] \in MetaLogProto
              /\ metalogs[i].starts[e] \in Nat /\ metalogs[i].deltas[e] \in Nat
              /\ EndAt(i, e) = metalogs[i].starts[e] + metalogs[i].deltas[e]
            BY <1>1, <2>6, MetaLogTypes, Zenon
        <3>2. id \in metalogs[i].starts[e] .. (metalogs[i].starts[e] + metalogs[i].deltas[e] - 1)
            BY <1>1, <2>5, <3>1
        <3>3. QED
            <4>1. \A j \in metalogs[i].starts[e]
                           .. (metalogs[i].starts[e] + metalogs[i].deltas[e] - 1) :
                      \E y \in NewLogsOf(metalogs[i], e) : y.localid = j
                BY <1>1, <3>1, EntriesOfShard, Zenon
            <4>2. QED
                BY <3>2, <4>1, Zenon
    <2>10. x \in New(e, app)
        BY <2>8, <2>9 DEF New
    <2>11. QED
        BY <2>9, <2>10
<1>12. QED
    BY <1>8, <1>9, <1>10, <1>11, Zenon DEF TakesTo, app, q

-----------------------------------------------------------------------------
(* The next metalog.                                                        *)

\* Ordered reads where the last metalog ends.
LEMMA OrderedIsEnd ==
    ASSUME SetFacts, TypeOK, NEW e \in Engines
    PROVE  Ordered(e) = EndAt(Len(metalogs), e) /\ Ordered(e) \in Nat
<1>1. metalogs \in Seq(MetaLogProto) /\ Len(metalogs) \in Nat
    BY DEF TypeOK
<1>2. metalogs = <<>> <=> Len(metalogs) = 0
    BY <1>1
<1>3. Ordered(e) = EndAt(Len(metalogs), e)
    BY <1>2 DEF Ordered, EndAt
<1>4. Len(metalogs) \in 0..Len(metalogs)
    BY <1>1
<1>5. QED
    BY <1>3, <1>4, MetaLogTypes

\* ReportedByAll is what one storage of the shard reported, and all did.
LEMMA ReportedIsLeast ==
    ASSUME SetFacts, TypeOK, NEW e \in Engines
    PROVE  /\ ReportedByAll(e) \in Nat
           /\ \E s \in StorageNodes[e] : ReportedByAll(e) = reported[s][e]
           /\ \A s \in StorageNodes[e] : reported[s][e] \in Nat /\ ReportedByAll(e) <= reported[s][e]
<1> DEFINE R == {reported[s][e] : s \in StorageNodes[e]}
<1>1. ASSUME NEW s \in StorageNodes[e] PROVE reported[s][e] \in Nat
    <2>1. s \in Storages /\ e \in SourceEngineNodes(s)
        BY NodeAssumption DEF SourceEngineNodes
    <2>2. reported[s] \in [SourceEngineNodes(s) -> 0..MaxLocalId]
        BY <2>1, Zenon DEF TypeOK
    <2>3. QED
        BY <2>1, <2>2, BoundAssumption
<1>2. R \in SUBSET Nat /\ R # {}
    BY <1>1, NodeAssumption
<1>3. Min(R) \in R /\ \A x \in R : Min(R) <= x
    <2> HIDE DEF R
    <2>1. QED
        BY <1>2, MinIsLeast, Zenon
<1>4. QED
    BY <1>1, <1>2, <1>3, Zenon DEF ReportedByAll

\* All metalogs end at or below seqnum_position_.
LEMMA SeqnumPositionIsLast ==
    ASSUME SetFacts, TypeOK, Chained
    PROVE  /\ SeqnumPosition \in Nat
           /\ \A i \in 1..Len(metalogs) :
                metalogs[i].start + Cardinality(EntriesOf(metalogs[i], Engines)) <= SeqnumPosition
<1>1. metalogs \in Seq(MetaLogProto) /\ Len(metalogs) \in Nat
    BY DEF TypeOK
<1>2. CASE metalogs = <<>>
    BY <1>1, <1>2 DEF SeqnumPosition
<1>3. CASE metalogs # <<>>
    <2>1. Len(metalogs) \in 1..Len(metalogs)
        BY <1>1, <1>3
    <2>2. \A i \in 1..Len(metalogs) :
              metalogs[i].start \in Nat /\ Cardinality(EntriesOf(metalogs[i], Engines)) \in Nat
        BY MetaLogTypes, Zenon
    <2>3. SeqnumPosition = metalogs[Len(metalogs)].start
                             + Cardinality(EntriesOf(metalogs[Len(metalogs)], Engines))
        BY <1>3 DEF SeqnumPosition
    <2>4. ASSUME NEW i \in 1..Len(metalogs), i # Len(metalogs)
          PROVE  metalogs[i].start + Cardinality(EntriesOf(metalogs[i], Engines))
                    <= metalogs[Len(metalogs)].start
        <3>1. i < Len(metalogs)
            BY <1>1, <2>4
        <3>2. QED
            BY <2>1, <3>1 DEF Chained
    <2> DEFINE T(i) == metalogs[i].start
               C(i) == Cardinality(EntriesOf(metalogs[i], Engines))
    <2>5. \A i \in 1..Len(metalogs) :
              /\ T(i) \in Nat /\ C(i) \in Nat
              /\ i # Len(metalogs) => T(i) + C(i) <= T(Len(metalogs))
        BY <2>2, <2>4, Zenon
    <2>6. SeqnumPosition = T(Len(metalogs)) + C(Len(metalogs))
        BY <2>3, Zenon
    <2>7. SeqnumPosition \in Nat /\ \A i \in 1..Len(metalogs) : T(i) + C(i) <= SeqnumPosition
        <3> HIDE DEF T, C
        <3>1. T(Len(metalogs)) \in Nat /\ C(Len(metalogs)) \in Nat
            BY <2>1, <2>5, Zenon
        <3>2. ASSUME NEW i \in 1..Len(metalogs) PROVE T(i) + C(i) <= SeqnumPosition
            <4>1. CASE i = Len(metalogs)
                BY <2>6, <3>1, <4>1
            <4>2. CASE i # Len(metalogs)
                <5>1. /\ T(i) \in Nat /\ C(i) \in Nat /\ T(i) + C(i) <= T(Len(metalogs))
                    BY <2>5, <4>2, Zenon
                <5>2. QED
                    BY <2>6, <3>1, <5>1
            <4>3. QED
                BY <4>1, <4>2, Zenon
        <3>3. QED
            BY <2>6, <3>1, <3>2
    <2>8. QED
        BY <2>7, Zenon
<1>4. QED
    BY <1>2, <1>3

\* What NextMetaLogs puts into a metalog.
LEMMA NextMetaLogForm ==
    ASSUME SetFacts, TypeOK, NEW m \in NextMetaLogs
    PROVE  /\ m = [start |-> m.start, starts |-> m.starts, deltas |-> m.deltas]
           /\ m.start = SeqnumPosition
           /\ m.starts \in [Engines -> 0..MaxLocalId] /\ m.deltas \in [Engines -> 0..MaxLocalId]
           /\ \A e \in Engines :
                /\ m.starts[e] \in Nat /\ m.deltas[e] \in Nat
                /\ m.starts[e] = Ordered(e)
                /\ m.starts[e] + m.deltas[e] <= ReportedByAll(e)
           /\ \E e \in Engines : m.deltas[e] > 0
<1>1. PICK to \in [Engines -> 0..MaxLocalId] :
          /\ \A e \in Engines : to[e] \in Ordered(e) .. ReportedByAll(e)
          /\ \E e \in Engines : to[e] > Ordered(e)
          /\ m = [start  |-> SeqnumPosition,
                  starts |-> [e \in Engines |-> Ordered(e)],
                  deltas |-> [e \in Engines |-> to[e] - Ordered(e)]]
    BY Zenon DEF NextMetaLogs
<1>2. /\ m.start = SeqnumPosition
      /\ m.starts = [e \in Engines |-> Ordered(e)]
      /\ m.deltas = [e \in Engines |-> to[e] - Ordered(e)]
    BY <1>1
<1>3. ASSUME NEW e \in Engines
      PROVE  /\ m.starts[e] = Ordered(e) /\ m.deltas[e] = to[e] - Ordered(e)
             /\ to[e] \in Nat /\ to[e] <= MaxLocalId /\ Ordered(e) \in Nat
             /\ Ordered(e) <= to[e] /\ to[e] <= ReportedByAll(e)
    <2>1. Ordered(e) \in Nat /\ ReportedByAll(e) \in Nat
        BY OrderedIsEnd, ReportedIsLeast, Zenon
    <2>2. to[e] \in 0..MaxLocalId /\ to[e] \in Ordered(e) .. ReportedByAll(e)
        BY <1>1
    <2>3. m.starts[e] = Ordered(e) /\ m.deltas[e] = to[e] - Ordered(e)
        BY <1>2
    <2>4. QED
        BY <2>1, <2>2, <2>3, BoundAssumption
<1>4. ASSUME NEW e \in Engines
      PROVE  /\ m.starts[e] \in 0..MaxLocalId /\ m.deltas[e] \in 0..MaxLocalId
             /\ m.starts[e] \in Nat /\ m.deltas[e] \in Nat
             /\ m.starts[e] + m.deltas[e] <= ReportedByAll(e)
             /\ to[e] > Ordered(e) => m.deltas[e] > 0
    BY <1>3, BoundAssumption
<1>5. m.starts \in [Engines -> 0..MaxLocalId] /\ m.deltas \in [Engines -> 0..MaxLocalId]
    BY <1>2, <1>4
<1>6. m = [start |-> m.start, starts |-> m.starts, deltas |-> m.deltas]
    BY <1>1, <1>2
<1>7. \E e \in Engines : m.deltas[e] > 0
    BY <1>1, <1>4
<1>8. QED
    BY <1>2, <1>3, <1>4, <1>5, <1>6, <1>7

\* The next metalog starts where the last one ends, in every shard and in the
\* sequence numbers, and orders what all storages of the shard have reported.
LEMMA NextMetaLogIsNext ==
    ASSUME SetFacts, TypeOK, Chained, NEW m \in NextMetaLogs
    PROVE  /\ m \in MetaLogProto
           /\ \A i \in 1..Len(metalogs) :
                metalogs[i].start + Cardinality(EntriesOf(metalogs[i], Engines)) <= m.start
           /\ \A e \in Engines :
                /\ m.starts[e] \in Nat /\ m.deltas[e] \in Nat
                /\ m.starts[e] = EndAt(Len(metalogs), e)
                /\ \A s \in StorageNodes[e] : m.starts[e] + m.deltas[e] <= reported[s][e]
<1>1. m \in MetaLogProto
    <2>1. SeqnumPosition \in Nat
        BY SeqnumPositionIsLast, Zenon
    <2>2. /\ m = [start |-> m.start, starts |-> m.starts, deltas |-> m.deltas]
          /\ m.start = SeqnumPosition /\ m.starts \in [Engines -> 0..MaxLocalId]
          /\ m.deltas \in [Engines -> 0..MaxLocalId]
        BY NextMetaLogForm, Zenon
    <2>3. QED
        BY <2>1, <2>2, Zenon DEF MetaLogProto
<1>2. \A i \in 1..Len(metalogs) :
          metalogs[i].start + Cardinality(EntriesOf(metalogs[i], Engines)) <= m.start
    BY NextMetaLogForm, SeqnumPositionIsLast, Zenon
<1>3. ASSUME NEW e \in Engines
      PROVE  /\ m.starts[e] \in Nat /\ m.deltas[e] \in Nat
             /\ m.starts[e] = EndAt(Len(metalogs), e)
    BY NextMetaLogForm, OrderedIsEnd, Zenon
<1>4. ASSUME NEW e \in Engines, NEW s \in StorageNodes[e]
      PROVE  m.starts[e] + m.deltas[e] <= reported[s][e]
    <2>1. m.starts[e] \in Nat /\ m.deltas[e] \in Nat /\ m.starts[e] + m.deltas[e] <= ReportedByAll(e)
        BY NextMetaLogForm, Zenon
    <2>2. /\ ReportedByAll(e) \in Nat /\ reported[s][e] \in Nat
          /\ ReportedByAll(e) <= reported[s][e]
        BY ReportedIsLeast, Zenon
    <2>3. QED
        BY <2>1, <2>2
<1>5. QED
    BY <1>1, <1>2, <1>3, <1>4, Zenon

\* One more metalog leaves the ones before it as they were.
LEMMA Appended ==
    ASSUME SetFacts, TypeOK, NEW m \in MetaLogProto, metalogs' = Append(metalogs, m)
    PROVE  /\ Len(metalogs) \in Nat
           /\ metalogs' \in Seq(MetaLogProto) /\ Len(metalogs') = Len(metalogs) + 1
           /\ \A i \in 1..Len(metalogs) : metalogs'[i] = metalogs[i]
           /\ metalogs'[Len(metalogs) + 1] = m
           /\ \A p \in 0..Len(metalogs), e \in Engines : EndAt(p, e)' = EndAt(p, e)
           /\ \A e \in Engines : \A p \in Nat : p = Len(metalogs) + 1 =>
                EndAt(p, e)' = m.starts[e] + m.deltas[e]
           /\ \A p \in 0..Len(metalogs), e \in Engines : OrderedEntries(e, p)' = OrderedEntries(e, p)
<1>1. metalogs \in Seq(MetaLogProto) /\ Len(metalogs) \in Nat
    BY DEF TypeOK
<1>2. /\ metalogs' \in Seq(MetaLogProto) /\ Len(metalogs') = Len(metalogs) + 1
      /\ \A i \in 1..Len(metalogs) : metalogs'[i] = metalogs[i]
      /\ metalogs'[Len(metalogs) + 1] = m
    BY <1>1
<1>3. ASSUME NEW p \in 0..Len(metalogs), NEW e \in Engines PROVE EndAt(p, e)' = EndAt(p, e)
    <2>1. CASE p = 0
        BY <2>1 DEF EndAt
    <2>2. CASE p # 0
        <3>1. p \in 1..Len(metalogs) /\ (p - 1) + 1 = p
            BY <1>1, <2>2
        <3>2. metalogs'[(p - 1) + 1] = metalogs[(p - 1) + 1]
            BY <1>2, <3>1, Zenon
        <3>3. QED
            BY <2>2, <3>2 DEF EndAt, ShardEnd
    <2>3. QED
        BY <2>1, <2>2
<1>4. ASSUME NEW e \in Engines, NEW p \in Nat, p = Len(metalogs) + 1
      PROVE  EndAt(p, e)' = m.starts[e] + m.deltas[e]
    <2>1. p # 0 /\ (p - 1) + 1 = Len(metalogs) + 1
        BY <1>1, <1>4
    <2>2. QED
        BY <1>2, <2>1 DEF EndAt, ShardEnd
<1>5. ASSUME NEW p \in 0..Len(metalogs), NEW e \in Engines
      PROVE  OrderedEntries(e, p)' = OrderedEntries(e, p)
    <2>1. \A i \in 1..p : metalogs'[i] = metalogs[i]
        BY <1>1, <1>2
    <2>2. {NewLogsOf(metalogs'[i], e) : i \in 1..p} = {NewLogsOf(metalogs[i], e) : i \in 1..p}
        BY <2>1
    <2>3. QED
        BY <2>2 DEF OrderedEntries
<1>6. QED
    BY <1>1, <1>2, <1>3, <1>4, <1>5

-----------------------------------------------------------------------------
(* What the invariant implies.                                              *)

\* What is ordered was issued, and stored by all storages of the shard.
LEMMA OrderedIsStored ==
    ASSUME SetFacts, TypeOK, Chained, Reported, NEW e \in Engines, NEW p \in 0..Len(metalogs)
    PROVE  /\ EndAt(p, e) \in Nat /\ nextLocalId[e] \in Nat /\ EndAt(p, e) <= nextLocalId[e]
           /\ \A s \in StorageNodes[e] : /\ s \in Storages /\ e \in SourceEngineNodes(s)
                                          /\ stored[s][e] \in Nat /\ EndAt(p, e) <= stored[s][e]
<1>1. /\ Len(metalogs) \in Nat /\ Len(metalogs) \in 0..Len(metalogs)
      /\ EndAt(p, e) \in Nat /\ EndAt(Len(metalogs), e) \in Nat
    <2>1. Len(metalogs) \in Nat
        BY MetaLogTypes
    <2>2. Len(metalogs) \in 0..Len(metalogs)
        BY <2>1
    <2>3. QED
        BY <2>1, <2>2, MetaLogTypes
<1>2. EndAt(p, e) <= EndAt(Len(metalogs), e)
    <2>1. p <= Len(metalogs)
        BY <1>1
    <2>2. QED
        BY <1>1, <2>1, EndsGrow
<1>3. nextLocalId[e] \in Nat
    BY BoundAssumption DEF TypeOK
<1>4. ASSUME NEW s \in StorageNodes[e]
      PROVE  /\ s \in Storages /\ e \in SourceEngineNodes(s)
             /\ stored[s][e] \in Nat /\ EndAt(p, e) <= stored[s][e]
             /\ EndAt(p, e) <= nextLocalId[e]
    <2>1. s \in Storages /\ e \in SourceEngineNodes(s)
        BY NodeAssumption DEF SourceEngineNodes
    <2>2. stored[s][e] \in Nat /\ reported[s][e] \in Nat
        BY <2>1, BoundAssumption DEF TypeOK
    <2>3. /\ EndAt(Len(metalogs), e) <= reported[s][e] /\ reported[s][e] <= stored[s][e]
          /\ stored[s][e] <= nextLocalId[e]
        BY DEF Reported
    <2>4. QED
        BY <1>1, <1>2, <1>3, <2>1, <2>2, <2>3
<1>5. PICK s \in StorageNodes[e] : TRUE
    BY NodeAssumption
<1>6. QED
    BY <1>1, <1>3, <1>4, <1>5

\* An entry of shard e below position p: the metalog that orders it.
LEMMA OrderedBy ==
    ASSUME SetFacts, TypeOK, NEW e \in Engines, NEW p \in 0..Len(metalogs), NEW x \in OrderedEntries(e, p)
    PROVE  \E i \in 1..p :
             /\ x.engine = e /\ x \in LogEntries
             /\ x.localid \in metalogs[i].starts[e] .. (EndAt(i, e) - 1)
             /\ x.seqnum = metalogs[i].start + Cardinality(EntriesOf(metalogs[i], Before(e)))
                              + (x.localid - metalogs[i].starts[e])
<1>1. Len(metalogs) \in Nat
    BY MetaLogTypes, Zenon
<1>2. PICK i \in 1..p : x \in NewLogsOf(metalogs[i], e)
    BY DEF OrderedEntries
<1>3. i \in 1..Len(metalogs)
    BY <1>1
<1>4. /\ metalogs[i] \in MetaLogProto
      /\ EndAt(i, e) = metalogs[i].starts[e] + metalogs[i].deltas[e]
      /\ metalogs[i].starts[e] \in Nat /\ metalogs[i].deltas[e] \in Nat
    BY <1>3, MetaLogTypes, Zenon
<1>5. /\ x \in LogEntries /\ x.engine = e
      /\ x.localid \in metalogs[i].starts[e] .. (metalogs[i].starts[e] + metalogs[i].deltas[e] - 1)
      /\ x.seqnum = metalogs[i].start + Cardinality(EntriesOf(metalogs[i], Before(e)))
                       + (x.localid - metalogs[i].starts[e])
    <2>1. /\ NewLogsOf(metalogs[i], e) \subseteq LogEntries
          /\ \A y \in NewLogsOf(metalogs[i], e) :
                /\ y.engine = e
                /\ y.localid \in metalogs[i].starts[e]
                                   .. (metalogs[i].starts[e] + metalogs[i].deltas[e] - 1)
                /\ y.seqnum = metalogs[i].start + Cardinality(EntriesOf(metalogs[i], Before(e)))
                                 + (y.localid - metalogs[i].starts[e])
        BY <1>4, EntriesOfShard, Zenon
    <2>2. QED
        BY <1>2, <2>1, Zenon
<1>6. x.localid \in metalogs[i].starts[e] .. (EndAt(i, e) - 1)
    BY <1>4, <1>5
<1>7. QED
    BY <1>5, <1>6, Zenon
\* Metalog i orders entry x.
OrderedAt(x, i) ==
    /\ i \in 1..Len(metalogs) /\ x \in LogEntries
    /\ x.localid \in metalogs[i].starts[x.engine] .. (EndAt(i, x.engine) - 1)
    /\ x.seqnum = metalogs[i].start + Cardinality(EntriesOf(metalogs[i], Before(x.engine)))
                     + (x.localid - metalogs[i].starts[x.engine])

\* Entries of a later metalog come later, and those of one metalog come in the
\* order of their engines, then of their local ids.
LEMMA OrderOfTwo ==
    ASSUME SetFacts, TypeOK, Chained, NEW x, NEW y, NEW i, NEW j, OrderedAt(x, i), OrderedAt(y, j)
    PROVE  /\ i < j => x.seqnum < y.seqnum /\ (x.engine = y.engine => x.localid < y.localid)
           /\ i = j /\ x.engine < y.engine => x.seqnum < y.seqnum
           /\ i = j /\ x.engine = y.engine => /\ x.seqnum < y.seqnum <=> x.localid < y.localid
                                              /\ x.seqnum = y.seqnum => x.localid = y.localid
<1>1. /\ x.engine \in Engines /\ y.engine \in Engines /\ x.seqnum \in Nat /\ y.seqnum \in Nat
      /\ x.localid \in Nat /\ y.localid \in Nat /\ Engines \subseteq Nat
      /\ i \in 1..Len(metalogs) /\ j \in 1..Len(metalogs) /\ Len(metalogs) \in Nat
    BY MetaLogTypes, NodeAssumption, Zenon DEF OrderedAt, LogEntries
<1> DEFINE bx == Cardinality(EntriesOf(metalogs[i], Before(x.engine)))
           by == Cardinality(EntriesOf(metalogs[j], Before(y.engine)))
           ci == Cardinality(EntriesOf(metalogs[i], Engines))
           mi == metalogs[i]
           mj == metalogs[j]
<1>2. /\ mi \in MetaLogProto /\ mj \in MetaLogProto /\ mi.start \in Nat /\ mj.start \in Nat
      /\ mi.starts[x.engine] \in Nat /\ mi.deltas[x.engine] \in Nat
      /\ mj.starts[y.engine] \in Nat /\ mj.deltas[y.engine] \in Nat
      /\ EndAt(i, x.engine) = mi.starts[x.engine] + mi.deltas[x.engine]
      /\ EndAt(j, y.engine) = mj.starts[y.engine] + mj.deltas[y.engine]
    BY <1>1, MetaLogTypes, Zenon
<1>3. /\ bx \in Nat /\ ci \in Nat /\ bx + mi.deltas[x.engine] <= ci
      /\ \A f \in Engines : x.engine < f =>
            bx + mi.deltas[x.engine] <= Cardinality(EntriesOf(mi, Before(f)))
    BY <1>1, <1>2, EntriesOfShard, Zenon
<1>4. by \in Nat
    BY <1>1, <1>2, EntriesOfShard, Zenon
<1> DEFINE ax == mi.starts[x.engine]
           dx == mi.deltas[x.engine]
           lx == x.localid
           ay == mj.starts[y.engine]
           dy == mj.deltas[y.engine]
           ly == y.localid
           tx == mi.start
           ty == mj.start
<1>5. /\ ax \in Nat /\ dx \in Nat /\ lx \in Nat /\ ay \in Nat /\ dy \in Nat /\ ly \in Nat
      /\ tx \in Nat /\ ty \in Nat /\ bx \in Nat /\ by \in Nat /\ ci \in Nat
    BY <1>1, <1>2, <1>3, <1>4, Zenon
<1>6. /\ lx \in ax .. ((ax + dx) - 1) /\ ly \in ay .. ((ay + dy) - 1)
      /\ x.seqnum = tx + bx + (lx - ax) /\ y.seqnum = ty + by + (ly - ay)
      /\ bx + dx <= ci
    BY <1>2, <1>3, Zenon DEF OrderedAt
<1>7. ASSUME i < j
      PROVE  x.seqnum < y.seqnum /\ (x.engine = y.engine => x.localid < y.localid)
    <2>1. tx + ci <= ty
        BY <1>1, <1>7, Zenon DEF Chained
    <2>2. x.engine = y.engine => ax + dx <= ay
        BY <1>1, <1>2, <1>7, Zenon DEF Chained
    <2> HIDE DEF ax, dx, lx, ay, dy, ly, tx, ty, bx, by, ci
    <2>3. x.seqnum < y.seqnum /\ (x.engine = y.engine => lx < ly)
        BY <1>5, <1>6, <2>1, <2>2
    <2>4. QED
        BY <2>3 DEF lx, ly
<1>8. ASSUME i = j, x.engine < y.engine PROVE x.seqnum < y.seqnum
    <2>1. bx + dx <= by /\ tx = ty
        BY <1>1, <1>3, <1>8, Zenon
    <2> HIDE DEF ax, dx, lx, ay, dy, ly, tx, ty, bx, by, ci
    <2>2. QED
        BY <1>5, <1>6, <2>1
<1>9. ASSUME i = j, x.engine = y.engine
      PROVE  /\ x.seqnum < y.seqnum <=> x.localid < y.localid
             /\ x.seqnum = y.seqnum => x.localid = y.localid
    <2>1. bx = by /\ tx = ty /\ ax = ay
        BY <1>9, Zenon
    <2> HIDE DEF ax, dx, lx, ay, dy, ly, tx, ty, bx, by, ci
    <2>2. /\ x.seqnum < y.seqnum <=> lx < ly
          /\ x.seqnum = y.seqnum => lx = ly
        BY <1>5, <1>6, <2>1
    <2>3. QED
        BY <2>2 DEF lx, ly
<1>10. QED
    BY <1>7, <1>8, <1>9

\* No sequence number names two entries, no entry has two, and each engine's
\* entries keep the order of their local ids.
LEMMA OrderOfAll ==
    ASSUME SetFacts, TypeOK, Chained, NEW x, NEW y, NEW i, NEW j, OrderedAt(x, i), OrderedAt(y, j)
    PROVE  /\ x.seqnum = y.seqnum => x = y
           /\ x.engine = y.engine => (x.localid < y.localid <=> x.seqnum < y.seqnum)
<1>1. Len(metalogs) \in Nat
    BY MetaLogTypes, Zenon
<1>2. /\ i \in Nat /\ j \in Nat /\ x \in LogEntries /\ y \in LogEntries
      /\ x.engine \in Nat /\ y.engine \in Nat /\ x.seqnum \in Nat /\ y.seqnum \in Nat
      /\ x.localid \in Nat /\ y.localid \in Nat
    <2>1. /\ i \in 1..Len(metalogs) /\ j \in 1..Len(metalogs)
          /\ x \in LogEntries /\ y \in LogEntries
        BY Zenon DEF OrderedAt
    <2>2. Engines \subseteq Nat
        BY NodeAssumption
    <2>3. ASSUME NEW z \in LogEntries
          PROVE  z.engine \in Nat /\ z.seqnum \in Nat /\ z.localid \in Nat
        BY <2>2, Zenon DEF LogEntries
    <2>4. i \in Nat /\ j \in Nat
        BY <1>1, <2>1
    <2>5. QED
        BY <2>1, <2>3, <2>4, Zenon
<1>3. /\ i < j => x.seqnum < y.seqnum /\ (x.engine = y.engine => x.localid < y.localid)
      /\ i = j /\ x.engine < y.engine => x.seqnum < y.seqnum
      /\ i = j /\ x.engine = y.engine => /\ x.seqnum < y.seqnum <=> x.localid < y.localid
                                         /\ x.seqnum = y.seqnum => x.localid = y.localid
    BY OrderOfTwo, Zenon
<1>4. /\ j < i => y.seqnum < x.seqnum /\ (y.engine = x.engine => y.localid < x.localid)
      /\ j = i /\ y.engine < x.engine => y.seqnum < x.seqnum
    BY OrderOfTwo, Zenon
<1>5. x.engine = y.engine => (x.localid < y.localid <=> x.seqnum < y.seqnum)
    BY <1>2, <1>3, <1>4
<1>6. x.seqnum = y.seqnum => x.engine = y.engine /\ x.localid = y.localid
    BY <1>2, <1>3, <1>4
<1>7. ASSUME x.seqnum = y.seqnum PROVE x = y
    <2>1. /\ x = [seqnum |-> x.seqnum, engine |-> x.engine, localid |-> x.localid]
          /\ y = [seqnum |-> y.seqnum, engine |-> y.engine, localid |-> y.localid]
        BY <1>2 DEF LogEntries
    <2>2. QED
        BY <1>6, <1>7, <2>1
<1>8. QED
    BY <1>5, <1>7

\* What any node knows to be ordered, some metalog orders.
LEMMA KnownIsOrdered ==
    ASSUME SetFacts, IInv, NEW x, \/ \E e \in Engines : x \in acked[e]
                        \/ \E s \in Storages : x \in live[s]
    PROVE  \E i : OrderedAt(x, i)
<1>1. TypeOK /\ Following /\ LiteModeSkipsNothing /\ Len(metalogs) \in Nat
    BY MetaLogTypes DEF IInv
<1>2. \A n \in Nodes : position[n] \in 0..Len(metalogs)
    BY <1>1 DEF TypeOK, Following
<1>3. PICK n \in Nodes : \E e \in Engines : x \in OrderedEntries(e, position[n])
    <2>1. CASE \E e \in Engines : x \in acked[e]
        BY <1>1, <2>1 DEF LiteModeSkipsNothing, Nodes
    <2>2. CASE \E s \in Storages : x \in live[s]
        <3>1. PICK s \in Storages : x \in live[s]
            BY <2>2
        <3>2. live[s] = UNION {OrderedEntries(e, position[s]) : e \in SourceEngineNodes(s)}
            BY <1>1, Zenon DEF LiteModeSkipsNothing, StoredEntries
        <3>3. PICK e \in SourceEngineNodes(s) : x \in OrderedEntries(e, position[s])
            BY <3>1, <3>2
        <3>4. QED
            BY <3>3 DEF SourceEngineNodes, Nodes
    <2>3. QED
        BY <2>1, <2>2
<1>4. PICK e \in Engines : x \in OrderedEntries(e, position[n])
    BY <1>3
<1>5. PICK i \in 1..position[n] :
             /\ x.engine = e /\ x \in LogEntries
             /\ x.localid \in metalogs[i].starts[e] .. (EndAt(i, e) - 1)
             /\ x.seqnum = metalogs[i].start + Cardinality(EntriesOf(metalogs[i], Before(e)))
                              + (x.localid - metalogs[i].starts[e])
    BY <1>1, <1>2, <1>4, OrderedBy, Zenon
<1>6. i \in 1..Len(metalogs)
    BY <1>1, <1>2
<1>7. QED
    BY <1>5, <1>6, Zenon DEF OrderedAt

\* The invariant implies the total order.
LEMMA OrderIsTotal ==
    ASSUME SetFacts, IInv
    PROVE  OneTotalOrder
<1> DEFINE known == UNION ({acked[e] : e \in Engines} \cup {live[s] : s \in Storages})
<1>1. TypeOK /\ Chained /\ Final /\ Len(metalogs) \in Nat /\ metalogs \in Seq(MetaLogProto)
    BY MetaLogTypes, Zenon DEF IInv, TypeOK
<1>2. ASSUME NEW x \in known, NEW y \in known
      PROVE  /\ x.seqnum = y.seqnum => x = y
             /\ x.engine = y.engine => (x.localid < y.localid <=> x.seqnum < y.seqnum)
    <2>1. PICK i : OrderedAt(x, i)
        BY KnownIsOrdered, Zenon
    <2>2. PICK j : OrderedAt(y, j)
        BY KnownIsOrdered
    <2>3. QED
        BY <1>1, <2>1, <2>2, OrderOfAll, Zenon
<1>3. ASSUME NEW e \in Engines, NEW id \in discarded[e] PROVE id >= Ordered(e)
    <2>1. metalogs = <<>> <=> Len(metalogs) = 0
        BY <1>1
    <2>2. Ordered(e) = EndAt(Len(metalogs), e)
        BY <2>1 DEF Ordered, EndAt
    <2>3. Len(metalogs) \in 0..Len(metalogs) /\ id \in Nat
        BY <1>1 DEF TypeOK
    <2>4. EndAt(Len(metalogs), e) \in Nat
        BY <1>1, <2>3, MetaLogTypes
    <2>5. EndAt(Len(metalogs), e) <= id
        BY <1>1 DEF Final
    <2>6. QED
        BY <2>2, <2>3, <2>4, <2>5
<1>4. QED
    BY <1>2, <1>3, Zenon DEF OneTotalOrder

\* The invariant implies that acknowledged entries are stored.
LEMMA AckedIsHeld ==
    ASSUME SetFacts, IInv
    PROVE  AckedIsStored
<1> SUFFICES ASSUME NEW e \in Engines, NEW x \in acked[e], NEW s \in StorageNodes[e]
             PROVE  \/ x \in live[s]
                    \/ <<e, x.localid>> \in pendingEntries[s] /\ phase[s] # "finalized"
    BY Zenon DEF AckedIsStored
<1>1. /\ TypeOK /\ Chained /\ Following /\ Reported /\ Pending /\ Final /\ LiteModeSkipsNothing
      /\ Len(metalogs) \in Nat
    BY MetaLogTypes DEF IInv
<1>2. /\ e \in Nodes /\ s \in Nodes /\ s \in Storages /\ e \in SourceEngineNodes(s)
      /\ InterestedShards(s) = SourceEngineNodes(s)
    BY NodeAssumption DEF Nodes, SourceEngineNodes, InterestedShards
<1>3. /\ position[e] \in 0..Len(metalogs) /\ position[s] \in 0..Len(metalogs)
      /\ position[e] \in Nat /\ position[s] \in Nat /\ position[e] <= Len(metalogs)
    BY <1>1, <1>2 DEF TypeOK, Following
<1>4. x \in OrderedEntries(e, position[e])
    BY <1>1, Zenon DEF LiteModeSkipsNothing
<1>5. PICK i \in 1..position[e] : x \in NewLogsOf(metalogs[i], e)
    BY <1>4 DEF OrderedEntries
<1>9. i \in Nat /\ 1 <= i /\ i <= position[e]
    <2>1. position[e] \in Nat
        BY <1>3
    <2>2. QED
        BY <2>1
<1>6. CASE i <= position[s]
    <2>1. i \in 1..position[s]
        BY <1>3, <1>6, <1>9
    <2>2. x \in OrderedEntries(e, position[s])
        BY <1>5, <2>1, Zenon DEF OrderedEntries
    <2>3. live[s] = StoredEntries(s, position[s])
        BY <1>1, <1>2, Zenon DEF LiteModeSkipsNothing
    <2>4. x \in live[s]
        BY <1>2, <2>2, <2>3, Zenon DEF StoredEntries
    <2>5. QED
        BY <2>4
<1>7. CASE position[s] < i
    <2>1. i \in 1..Len(metalogs) /\ i \in 0..Len(metalogs)
        BY <1>1, <1>3, <1>9
    <2>2. phase[s] # "finalized"
        <3>1. position[s] # Len(metalogs)
            BY <1>1, <1>3, <1>7, <1>9
        <3>2. QED
            BY <1>1, <1>2, <3>1, Zenon DEF Final
    <2>3. /\ metalogs[i] \in MetaLogProto
          /\ EndAt(i, e) = metalogs[i].starts[e] + metalogs[i].deltas[e]
          /\ metalogs[i].starts[e] \in Nat /\ metalogs[i].deltas[e] \in Nat
        BY <2>1, <1>1, MetaLogTypes, Zenon
    <2>4. x.localid \in metalogs[i].starts[e] .. (metalogs[i].starts[e] + metalogs[i].deltas[e] - 1)
        BY <1>5, <2>3, EntriesOfShard, Zenon
    <2>5. progress[s][e] = EndAt(position[s], e) /\ EndAt(position[s], e) \in Nat
        BY <1>1, <1>2, <1>3, MetaLogTypes, Zenon DEF Following
    <2>6. EndAt(position[s], e) <= metalogs[i].starts[e]
        <3>1. position[s] <= i
            BY <1>3, <1>7, <2>1
        <3>2. QED
            BY <1>1, <1>3, <1>7, <2>1, <3>1, EndsGrow, Zenon
    <2>7. stored[s][e] \in Nat /\ EndAt(i, e) <= stored[s][e]
        BY <1>1, <2>1, OrderedIsStored
    <2>8. x.localid \in progress[s][e] .. (stored[s][e] - 1)
        <3>1. x.localid \in metalogs[i].starts[e] .. (EndAt(i, e) - 1) /\ EndAt(i, e) \in Nat
            BY <2>3, <2>4
        <3>2. QED
            <4>1. PICK a \in Nat : a = progress[s][e] /\ a <= metalogs[i].starts[e]
                BY <2>5, <2>6, Zenon
            <4>2. PICK b \in Nat : b = metalogs[i].starts[e]
                BY <2>3, Zenon
            <4>3. PICK c \in Nat : c = EndAt(i, e) /\ c <= stored[s][e]
                BY <2>7, <3>1, Zenon
            <4>4. PICK d \in Nat : d = stored[s][e]
                BY <2>7, Zenon
            <4>5. x.localid \in b .. (c - 1) /\ a <= b /\ c <= d
                BY <3>1, <4>1, <4>2, <4>3, <4>4, Zenon
            <4>6. x.localid \in a .. (d - 1)
                BY <4>5
            <4>7. QED
                BY <4>1, <4>4, <4>6, Zenon
    <2>9. <<e, x.localid>> \in pendingEntries[s]
        BY <1>1, <1>2, <2>2, <2>8, Zenon DEF Pending
    <2>10. QED
        BY <2>2, <2>9
<1>8. i <= position[s] \/ position[s] < i
    BY <1>3, <1>9
<1>10. QED
    BY <1>6, <1>7, <1>8, Zenon
=============================================================================
