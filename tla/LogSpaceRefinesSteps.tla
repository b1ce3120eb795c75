------------------------ MODULE LogSpaceRefinesSteps ------------------------
(***************************************************************************)
(* The steps of the proof that LogSpace implements SharedLogSpec and       *)
(* MetaLogSpec, each from the inductive invariant of LogSpaceFacts.        *)
(***************************************************************************)
EXTENDS LogSpaceRefines, LogSpaceFacts

-----------------------------------------------------------------------------
(* The metalogs leave no sequence number out.                               *)

\* Each sequence number of a metalog belongs to the last engine that starts at
\* or below it.
LEMMA EngineOfOffset ==
    ASSUME SetFacts, NEW m \in MetaLogProto, NEW r \in Nat, r < Cardinality(EntriesOf(m, Engines))
    PROVE  \E e \in Engines : /\ Cardinality(EntriesOf(m, Before(e))) <= r
                              /\ r < Cardinality(EntriesOf(m, Before(e))) + m.deltas[e]
<1> DEFINE b(e) == Cardinality(EntriesOf(m, Before(e)))
           S == {e \in Engines : b(e) <= r}
<1>1. Engines \in SUBSET Nat /\ \A e \in Engines : m.deltas[e] \in Nat /\ Before(e) \in SUBSET Engines
    BY NodeAssumption, BoundAssumption DEF MetaLogProto, Before
<1>2. /\ \A e \in Engines : b(e) \in Nat
      /\ Cardinality(EntriesOf(m, Engines)) \in Nat
      /\ Cardinality(EntriesOf(m, {})) = 0
    <2>1. Counted(m, {}) /\ Counted(m, Engines) /\ \A e \in Engines : Counted(m, Before(e))
        <3>1. {} \in SUBSET Engines /\ Engines \in SUBSET Engines
            OBVIOUS
        <3>2. QED
            BY <1>1, <3>1 DEF SetFacts
    <2>2. QED
        BY <2>1, Zenon DEF Counted
<1>3. \A e \in Engines :
          /\ e \notin Before(e)
          /\ Cardinality(EntriesOf(m, Before(e) \cup {e})) = b(e) + m.deltas[e]
    <2>1. ASSUME NEW e \in Engines PROVE e \notin Before(e)
        BY <1>1 DEF Before
    <2>2. ASSUME NEW e \in Engines
          PROVE  Cardinality(EntriesOf(m, Before(e) \cup {e})) = b(e) + m.deltas[e]
        <3>1. Counted(m, Before(e)) /\ e \in Engines \ Before(e)
            BY <1>1, <2>1, Zenon DEF SetFacts
        <3>2. QED
            BY <3>1, Zenon DEF Counted
    <2>3. QED
        BY <2>1, <2>2, Zenon
<1> HIDE DEF b
<1>4. Engines # {}
    BY <1>2
<1>5. PICK e0 \in Engines : \A f \in Engines : e0 <= f
    BY <1>1, <1>4, LeastNatural, Zenon
<1>6. e0 \in S
    <2>1. Before(e0) = {}
        BY <1>1, <1>5 DEF Before
    <2>2. QED
        BY <1>2, <2>1 DEF b
<1>7. PICK u \in Nat : \A e \in Engines : e <= u
    BY Zenon DEF SetFacts, EnginesBounded
<1>8. Max(S) \in S /\ \A x \in S : x <= Max(S)
    <2>1. S \in SUBSET Nat /\ S # {} /\ \A x \in S : x <= u
        BY <1>1, <1>6, <1>7, Zenon
    <2> HIDE DEF S
    <2>2. QED
        BY <2>1, MaxIsGreatest, Zenon
<1>9. PICK e \in Engines : b(e) <= r /\ \A x \in Engines : b(x) <= r => x <= e
    BY <1>8, Zenon
<1>10. ASSUME b(e) + m.deltas[e] <= r PROVE FALSE
    <2> DEFINE F == {f \in Engines : e < f}
    <2>1. CASE F = {}
        <3>1. Engines = Before(e) \cup {e}
            <4>1. ASSUME NEW x \in Engines PROVE x = e \/ x < e
                <5>1. x \in Nat /\ e \in Nat /\ ~(e < x)
                    BY <1>1, <2>1
                <5>2. QED
                    BY <5>1
            <4>2. QED
                BY <4>1, Zenon DEF Before
        <3>2. Cardinality(EntriesOf(m, Engines)) = b(e) + m.deltas[e]
            BY <1>3, <3>1
        <3>3. QED
            BY <1>1, <1>2, <1>10, <3>2
    <2>2. CASE F # {}
        <3>1. PICK f \in F : \A x \in F : f <= x
            <4>1. F \in SUBSET Nat
                BY <1>1, Zenon
            <4> HIDE DEF F
            <4>2. QED
                BY <2>2, <4>1, LeastNatural, Zenon
        <3>2. f \in Engines /\ e < f /\ f \in Nat /\ e \in Nat
            BY <1>1, <3>1
        <3>3. ASSUME NEW x PROVE x \in Before(f) <=> x \in Before(e) \cup {e}
            <4>1. x \in Before(f) => x \in Engines /\ x \in Nat /\ x < f
                BY <1>1 DEF Before
            <4>2. x \in Before(f) => x <= e
                BY <1>1, <3>1, <3>2, <4>1
            <4>3. x \in Before(f) => x \in Before(e) \cup {e}
                BY <1>1, <3>2, <4>1, <4>2 DEF Before
            <4>4. x \in Before(e) \cup {e} => x \in Engines /\ x \in Nat /\ x <= e
                BY <1>1 DEF Before
            <4>5. x \in Before(e) \cup {e} => x \in Before(f)
                BY <3>2, <4>4 DEF Before
            <4>6. QED
                BY <4>3, <4>5, Zenon
        <3>4. Before(f) = Before(e) \cup {e}
            BY <3>3, Zenon
        <3>5. b(f) = b(e) + m.deltas[e]
            BY <1>3, <3>4 DEF b
        <3>6. b(f) <= r
            BY <1>10, <3>5
        <3>7. QED
            BY <1>9, <3>2, <3>6
    <2>3. QED
        BY <2>1, <2>2
<1>11. b(e) \in Nat /\ m.deltas[e] \in Nat
    BY <1>1, <1>2, Zenon
<1>12. r < b(e) + m.deltas[e]
    BY <1>10, <1>11
<1>13. QED
    BY <1>9, <1>12 DEF b

\* An entry that metalog i orders is among those that it lists.
LEMMA OrderedIsListed ==
    ASSUME SetFacts, TypeOK, NEW x, NEW i, OrderedAt(x, i)
    PROVE  x \in OrderedEntries(x.engine, Len(metalogs))
<1>1. PICK e \in Engines : e = x.engine
    BY Zenon DEF OrderedAt, LogEntries
<1>2. i \in 1..Len(metalogs)
    BY Zenon DEF OrderedAt
<1>3. PICK m \in MetaLogProto : m = metalogs[i] /\ EndAt(i, e) = m.starts[e] + m.deltas[e]
    BY <1>2, MetaLogTypes, Zenon
<1>4. /\ x \in LogEntries
      /\ x.localid \in m.starts[e] .. ((m.starts[e] + m.deltas[e]) - 1)
      /\ x.seqnum = m.start + Cardinality(EntriesOf(m, Before(e))) + (x.localid - m.starts[e])
    BY <1>1, <1>3, Zenon DEF OrderedAt
<1>5. PICK y \in NewLogsOf(m, e) : y.localid = x.localid
    <2>1. \A id \in m.starts[e] .. (m.starts[e] + m.deltas[e] - 1) :
              \E y \in NewLogsOf(m, e) : y.localid = id
        BY EntriesOfShard
    <2>2. x.localid \in m.starts[e] .. (m.starts[e] + m.deltas[e] - 1)
        <3>1. m.starts[e] \in Nat /\ m.deltas[e] \in Nat
            BY BoundAssumption DEF MetaLogProto
        <3>2. QED
            BY <1>4, <3>1
    <2>3. QED
        BY <2>1, <2>2, Zenon
<1>6. /\ y \in LogEntries /\ y.engine = e
      /\ y.seqnum = m.start + Cardinality(EntriesOf(m, Before(e))) + (y.localid - m.starts[e])
    <2>1. /\ NewLogsOf(m, e) \subseteq LogEntries
          /\ \A z \in NewLogsOf(m, e) :
                /\ z.engine = e
                /\ z.seqnum = m.start + Cardinality(EntriesOf(m, Before(e)))
                                 + (z.localid - m.starts[e])
        BY EntriesOfShard
    <2>2. QED
        BY <2>1, Zenon
<1>7. y = x
    <2>1. y.seqnum = x.seqnum /\ y.engine = x.engine /\ y.localid = x.localid
        BY <1>1, <1>4, <1>5, <1>6, Zenon
    <2>2. /\ x = [seqnum |-> x.seqnum, engine |-> x.engine, localid |-> x.localid]
          /\ y = [seqnum |-> y.seqnum, engine |-> y.engine, localid |-> y.localid]
        BY <1>4, <1>6 DEF LogEntries
    <2>3. QED
        BY <2>1, <2>2, Zenon
<1>8. QED
    BY <1>1, <1>2, <1>3, <1>5, <1>7, Zenon DEF OrderedEntries

\* Every sequence number below seqnum_position_ is that of some entry.
NumbersUsed ==
    \A q \in 0 .. (SeqnumPosition - 1) : \E x, i : OrderedAt(x, i) /\ x.seqnum = q

\* The ordered entry x is the one that EntryAt finds, below seqnum_position_
\* and among the appends of its engine that are ordered.
Found(x) ==
    /\ x.engine \in Engines /\ x.seqnum \in Nat /\ x.localid \in Nat
    /\ EntryAt(x.seqnum) = <<x.engine, x.localid>>
    /\ x.seqnum < SeqnumPosition
    /\ x.localid < EndAt(Len(metalogs), x.engine)
    /\ x.localid < nextLocalId[x.engine]

\* Every ordered entry is found.
AllFound == \A x, i : OrderedAt(x, i) => Found(x)

\* EntryAt finds the one entry of a sequence number.
LEMMA OrderedIsFound ==
    ASSUME SetFacts, IInv
    PROVE  AllFound
<1> SUFFICES ASSUME NEW x, NEW i, OrderedAt(x, i) PROVE Found(x)
    BY Zenon DEF AllFound
<1> DEFINE e == x.engine
           m == metalogs[i]
           E == UNION {OrderedEntries(f, Len(metalogs)) : f \in Engines}
<1>1. TypeOK /\ Chained /\ Reported /\ Len(metalogs) \in Nat /\ Len(metalogs) \in 0..Len(metalogs)
    <2>1. TypeOK /\ Chained /\ Reported
        BY Zenon DEF IInv
    <2>2. Len(metalogs) \in Nat
        BY <2>1, MetaLogTypes, Zenon
    <2>3. QED
        BY <2>1, <2>2
<1>2. /\ e \in Engines /\ x \in LogEntries /\ i \in 1..Len(metalogs)
      /\ x.localid \in m.starts[e] .. (EndAt(i, e) - 1)
      /\ x.seqnum = m.start + Cardinality(EntriesOf(m, Before(e))) + (x.localid - m.starts[e])
      /\ x.seqnum \in Nat /\ x.localid \in Nat
    BY Zenon DEF OrderedAt, LogEntries
<1>3. x \in E
    BY <1>1, <1>2, OrderedIsListed, Zenon
<1>4. ASSUME NEW y \in E, y.seqnum = x.seqnum PROVE y = x
    <2>1. PICK f \in Engines : y \in OrderedEntries(f, Len(metalogs))
        BY <1>4, Zenon
    <2>2. PICK j \in 1..Len(metalogs) :
             /\ y.engine = f /\ y \in LogEntries
             /\ y.localid \in metalogs[j].starts[f] .. (EndAt(j, f) - 1)
             /\ y.seqnum = metalogs[j].start + Cardinality(EntriesOf(metalogs[j], Before(f)))
                              + (y.localid - metalogs[j].starts[f])
        BY <1>1, <2>1, OrderedBy, Zenon
    <2>3. OrderedAt(y, j)
        BY <2>2, Zenon DEF OrderedAt
    <2>4. QED
        BY <1>1, <1>4, <2>3, OrderOfAll, Zenon
<1>5. EntryAt(x.seqnum) = <<x.engine, x.localid>>
    <2>1. (CHOOSE y \in E : y.seqnum = x.seqnum) = x
        <3> HIDE DEF E
        <3>1. QED
            BY <1>3, <1>4
    <2>2. QED
        BY <2>1, Zenon DEF EntryAt
<1>6. /\ m \in MetaLogProto /\ m.start \in Nat /\ m.starts[e] \in Nat /\ m.deltas[e] \in Nat
      /\ EndAt(i, e) = m.starts[e] + m.deltas[e]
    BY <1>1, <1>2, MetaLogTypes, Zenon
<1>7. x.seqnum < SeqnumPosition
    <2> DEFINE b == Cardinality(EntriesOf(m, Before(e)))
               c == Cardinality(EntriesOf(m, Engines))
    <2>1. b \in Nat /\ c \in Nat /\ b + m.deltas[e] <= c
        BY <1>2, <1>6, EntriesOfShard, Zenon
    <2>2. SeqnumPosition \in Nat /\ m.start + c <= SeqnumPosition
        BY <1>1, <1>2, SeqnumPositionIsLast, Zenon
    <2>3. x.seqnum = m.start + b + (x.localid - m.starts[e])
        BY <1>2, Zenon
    <2>4. x.localid \in m.starts[e] .. ((m.starts[e] + m.deltas[e]) - 1)
        BY <1>2, <1>6, Zenon
    <2> HIDE DEF b, c, m, e
    <2>5. m.start \in Nat /\ m.starts[e] \in Nat /\ m.deltas[e] \in Nat /\ x.localid \in Nat
        BY <1>2, <1>6, Zenon
    <2>6. QED
        BY <2>1, <2>2, <2>3, <2>4, <2>5
<1>8. x.localid < EndAt(Len(metalogs), e)
    <2>1. i \in 0..Len(metalogs) /\ i <= Len(metalogs)
        BY <1>1, <1>2
    <2>2. EndAt(i, e) <= EndAt(Len(metalogs), e)
        BY <1>1, <1>2, <2>1, EndsGrow, Zenon
    <2>3. EndAt(i, e) \in Nat /\ EndAt(Len(metalogs), e) \in Nat
        BY <1>1, <1>2, <2>1, MetaLogTypes, Zenon
    <2>4. x.localid < EndAt(i, e)
        BY <1>2, <1>6
    <2> HIDE DEF e
    <2>5. QED
        BY <1>2, <2>2, <2>3, <2>4
<1>9. x.localid < nextLocalId[e]
    <2>1. /\ EndAt(Len(metalogs), e) \in Nat /\ nextLocalId[e] \in Nat
          /\ EndAt(Len(metalogs), e) <= nextLocalId[e]
        BY <1>1, <1>2, OrderedIsStored, Zenon
    <2> HIDE DEF e
    <2>2. QED
        BY <1>2, <1>8, <2>1
<1>10. QED
    BY <1>2, <1>5, <1>7, <1>8, <1>9, Zenon DEF Found

\* A further metalog orders what was ordered before the way it was.
LEMMA OrderedStays ==
    ASSUME SetFacts, TypeOK, NEW m \in MetaLogProto, metalogs' = Append(metalogs, m),
           NEW x, NEW i, OrderedAt(x, i)
    PROVE  OrderedAt(x, i)'
<1>1. /\ Len(metalogs) \in Nat /\ Len(metalogs') = Len(metalogs) + 1
      /\ \A j \in 1..Len(metalogs) : metalogs'[j] = metalogs[j]
      /\ \A p \in 0..Len(metalogs), e \in Engines : EndAt(p, e)' = EndAt(p, e)
    BY Appended, Zenon
<1>2. i \in 1..Len(metalogs) /\ x \in LogEntries /\ x.engine \in Engines
    BY Zenon DEF OrderedAt, LogEntries
<1>3. i \in 0..Len(metalogs) /\ i \in 1..Len(metalogs')
    BY <1>1, <1>2
<1>4. metalogs'[i] = metalogs[i] /\ EndAt(i, x.engine)' = EndAt(i, x.engine)
    BY <1>1, <1>2, <1>3, Zenon
<1>5. QED
    BY <1>2, <1>3, <1>4, Zenon DEF OrderedAt

\* A metalog takes the sequence numbers from seqnum_position_ on, at least one,
\* and leaves none of them out.
LEMMA DecideUsesNumbers ==
    ASSUME SetFacts, TypeOK, Chained, NumbersUsed, NEW m \in NextMetaLogs,
           metalogs' = Append(metalogs, m)
    PROVE  NumbersUsed' /\ SeqnumPosition \in Nat /\ SeqnumPosition' \in Nat
                        /\ SeqnumPosition < SeqnumPosition'
<1> DEFINE b(e) == Cardinality(EntriesOf(m, Before(e)))
           c == Cardinality(EntriesOf(m, Engines))
<1>1. /\ m \in MetaLogProto /\ m.start = SeqnumPosition /\ SeqnumPosition \in Nat
      /\ \A e \in Engines : m.starts[e] \in Nat /\ m.deltas[e] \in Nat
      /\ \E e \in Engines : m.deltas[e] > 0
    BY NextMetaLogIsNext, NextMetaLogForm, SeqnumPositionIsLast, Zenon
<1>2. PICK L \in Nat : L = Len(metalogs)
    BY MetaLogTypes, Zenon
<1>3. L + 1 \in Nat /\ Len(metalogs') = L + 1 /\ metalogs'[L + 1] = m /\ L + 1 \in 1..(L + 1)
    <2>1. Len(metalogs') = L + 1 /\ metalogs'[L + 1] = m
        BY <1>1, <1>2, Appended, Zenon
    <2>2. QED
        BY <2>1
<1>4. \A e \in Engines : EndAt(L + 1, e)' = m.starts[e] + m.deltas[e]
    BY <1>1, <1>2, <1>3, Appended, Zenon
<1>5. SeqnumPosition' = SeqnumPosition + c
    <2>1. metalogs' # <<>>
        BY <1>3
    <2>2. SeqnumPosition' = m.start + c
        BY <1>3, <2>1, Zenon DEF SeqnumPosition
    <2>3. QED
        BY <1>1, <2>2
<1>6. \A e \in Engines : b(e) \in Nat /\ c \in Nat /\ b(e) + m.deltas[e] <= c
    BY <1>1, EntriesOfShard, Zenon
<1>7. c \in Nat /\ 0 < c
    <2>1. PICK e \in Engines : m.deltas[e] > 0 /\ m.deltas[e] \in Nat
        BY <1>1, Zenon
    <2>2. b(e) \in Nat /\ c \in Nat /\ b(e) + m.deltas[e] <= c
        BY <1>6, Zenon
    <2> HIDE DEF b, c
    <2>3. QED
        BY <2>1, <2>2
<1>8. SeqnumPosition' \in Nat /\ SeqnumPosition < SeqnumPosition'
    <2> HIDE DEF c
    <2>1. QED
        BY <1>1, <1>5, <1>7
<1>9. ASSUME NEW q \in Nat, q < SeqnumPosition'
      PROVE  \E x, i : OrderedAt(x, i)' /\ x.seqnum = q
    <2>1. CASE q < SeqnumPosition
        <3>1. q \in 0 .. (SeqnumPosition - 1)
            BY <1>1, <2>1
        <3>2. PICK x, i : OrderedAt(x, i) /\ x.seqnum = q
            BY <3>1, Zenon DEF NumbersUsed
        <3>3. OrderedAt(x, i)'
            BY <1>1, <3>2, OrderedStays
        <3>4. QED
            BY <3>2, <3>3, Zenon
    <2>2. CASE ~(q < SeqnumPosition)
        <3>1. PICK r \in Nat : q = SeqnumPosition + r /\ r < c
            <4> HIDE DEF c
            <4>1. q - SeqnumPosition \in Nat /\ q - SeqnumPosition < c
                BY <1>1, <1>5, <1>7, <1>9, <2>2
            <4>2. q = SeqnumPosition + (q - SeqnumPosition)
                BY <1>1
            <4>3. QED
                BY <4>1, <4>2, Zenon
        <3>2. PICK e \in Engines : b(e) <= r /\ r < b(e) + m.deltas[e]
            BY <1>1, <3>1, EngineOfOffset, Zenon
        <3>3. b(e) \in Nat /\ m.deltas[e] \in Nat /\ m.starts[e] \in Nat
            BY <1>1, <1>6, Zenon
        <3> DEFINE id == m.starts[e] + (r - b(e))
                   x == [seqnum |-> q, engine |-> e, localid |-> id]
        <3>4. id \in Nat /\ id \in m.starts[e] .. ((m.starts[e] + m.deltas[e]) - 1)
              /\ q = m.start + b(e) + (id - m.starts[e])
            <4>1. PICK s \in Nat : s = m.starts[e]
                BY <3>3
            <4>2. PICK d \in Nat : d = m.deltas[e]
                BY <3>3
            <4>3. PICK k \in Nat : k = b(e)
                BY <3>3
            <4>4. PICK p \in Nat : p = SeqnumPosition /\ p = m.start
                BY <1>1
            <4>5. k <= r /\ r < k + d /\ q = p + r
                BY <3>1, <3>2, <4>2, <4>3, <4>4, Zenon
            <4>6. s + (r - k) \in Nat /\ s + (r - k) \in s .. ((s + d) - 1)
                  /\ q = p + k + ((s + (r - k)) - s)
                BY <4>5
            <4>7. QED
                BY <4>1, <4>2, <4>3, <4>4, <4>6, Zenon
        <3>5. x \in LogEntries /\ x.seqnum = q /\ x.engine = e /\ x.localid = id
            <4> HIDE DEF id
            <4>1. QED
                BY <3>4 DEF LogEntries
        <3>6. OrderedAt(x, L + 1)'
            <4> HIDE DEF id, x
            <4>1. x.localid \in metalogs'[L + 1].starts[x.engine] .. (EndAt(L + 1, x.engine)' - 1)
                BY <1>3, <1>4, <3>4, <3>5, Zenon
            <4>2. x.seqnum = metalogs'[L + 1].start
                                + Cardinality(EntriesOf(metalogs'[L + 1], Before(x.engine)))
                                + (x.localid - metalogs'[L + 1].starts[x.engine])
                BY <1>3, <3>4, <3>5, Zenon
            <4>3. L + 1 \in 1..Len(metalogs')
                BY <1>3, Zenon
            <4>4. QED
                BY <3>5, <4>1, <4>2, <4>3 DEF OrderedAt
        <3>7. QED
            BY <3>5, <3>6, Zenon
    <2>3. QED
        BY <2>1, <2>2, Zenon
<1>10. NumbersUsed'
    <2>1. PICK p \in Nat : p = SeqnumPosition'
        BY <1>8, Zenon
    <2>2. \A q \in 0 .. (p - 1) : q \in Nat /\ q < p
        OBVIOUS
    <2>3. \A q \in 0 .. (p - 1) : \E x, i : OrderedAt(x, i)' /\ x.seqnum = q
        BY <1>9, <2>1, <2>2, Zenon
    <2>4. QED
        BY <2>1, <2>3, Zenon DEF NumbersUsed
<1>11. QED
    BY <1>1, <1>8, <1>10, Zenon

-----------------------------------------------------------------------------
(* The state of SharedLogSpec.                                              *)

\* The appends that engines gave a local id.
Appends == UNION {{e} \X (0 .. (nextLocalId[e] - 1)) : e \in Engines}

\* The log.
Log == [i \in 1..SeqnumPosition |-> EntryAt(i - 1)]

\* The appends that returned, with their positions.
Succeeded == UNION {{[entry |-> <<e, x.localid>>, position |-> x.seqnum + 1] :
                        x \in acked[e]} : e \in Engines}

\* The appends that returned DISCARDED.
Failed == UNION {{e} \X discarded[e] : e \in Engines}

\* What is at position i of the log.
LEMMA LogAt ==
    ASSUME SetFacts, IInv, NumbersUsed, NEW i \in 1..SeqnumPosition
    PROVE  \E x, k : /\ OrderedAt(x, k) /\ Found(x) /\ x.seqnum = i - 1
                     /\ Log[i] = <<x.engine, x.localid>>
<1>1. SeqnumPosition \in Nat
    BY SeqnumPositionIsLast, Zenon DEF IInv
<1>2. i - 1 \in 0 .. (SeqnumPosition - 1)
    BY <1>1
<1>3. PICK x, k : OrderedAt(x, k) /\ x.seqnum = i - 1
    BY <1>2, Zenon DEF NumbersUsed
<1>4. Found(x)
    BY <1>3, OrderedIsFound, Zenon DEF AllFound
<1>5. Log[i] = EntryAt(i - 1)
    BY Zenon DEF Log
<1>6. EntryAt(x.seqnum) = <<x.engine, x.localid>>
    BY <1>4, Zenon DEF Found
<1>7. QED
    BY <1>3, <1>4, <1>5, <1>6, Zenon

\* The log is of appends, each engine's in their order.
LogIsRight ==
    /\ SeqnumPosition \in Nat /\ Len(Log) = SeqnumPosition
    /\ \A i \in 1..SeqnumPosition :
          /\ Log[i] \in Appends
          /\ \A j \in 1..(i - 1) : Log[j][1] = Log[i][1] => Log[j][2] < Log[i][2]

\* LogIsRight holds as long as no sequence number was left out.
LEMMA LogRight ==
    ASSUME SetFacts, IInv, NumbersUsed
    PROVE  LogIsRight
<1>1. SeqnumPosition \in Nat /\ TypeOK /\ Chained
    BY SeqnumPositionIsLast, Zenon DEF IInv
<1>2. Len(Log) = SeqnumPosition
    BY <1>1 DEF Log
<1>3. ASSUME NEW i \in 1..SeqnumPosition PROVE Log[i] \in Appends
    <2>1. PICK x : Found(x) /\ Log[i] = <<x.engine, x.localid>>
        BY LogAt, Zenon
    <2>2. /\ x.engine \in Engines /\ x.localid \in Nat /\ x.localid < nextLocalId[x.engine]
        BY <2>1, Zenon DEF Found
    <2>3. nextLocalId[x.engine] \in Nat
        BY <1>1, <2>2, BoundAssumption DEF TypeOK
    <2>4. x.localid \in 0 .. (nextLocalId[x.engine] - 1)
        BY <2>2, <2>3
    <2>5. QED
        BY <2>1, <2>2, <2>4 DEF Appends
<1>4. ASSUME NEW i \in 1..SeqnumPosition, NEW j \in 1..(i - 1), Log[j][1] = Log[i][1]
      PROVE  Log[j][2] < Log[i][2]
    <2>1. j \in 1..SeqnumPosition /\ j - 1 < i - 1
        BY <1>1
    <2>2. PICK x, k : OrderedAt(x, k) /\ x.seqnum = i - 1 /\ Log[i] = <<x.engine, x.localid>>
        BY LogAt, Zenon
    <2>3. PICK y, l : OrderedAt(y, l) /\ y.seqnum = j - 1 /\ Log[j] = <<y.engine, y.localid>>
        BY <2>1, LogAt, Zenon
    <2>4. y.engine = x.engine
        BY <1>4, <2>2, <2>3
    <2>5. y.seqnum < x.seqnum
        BY <2>1, <2>2, <2>3, Zenon
    <2>6. y.localid < x.localid
        BY <1>1, <2>2, <2>3, <2>4, <2>5, OrderOfAll, Zenon
    <2>7. QED
        BY <2>2, <2>3, <2>6
<1>5. QED
    BY <1>1, <1>2, <1>3, <1>4, Zenon DEF LogIsRight

\* Positions that were returned are those of the log, and no failed append is in it.
RepliesAreRight ==
    /\ \A r \in Succeeded : r.position \in 1..SeqnumPosition /\ r.entry = Log[r.position]
    /\ \A x \in Failed : view = "finalized" /\ \A i \in 1..SeqnumPosition : x # Log[i]

\* RepliesAreRight holds, since acknowledged entries are ordered and discarded
\* ones are not.
LEMMA RepliesRight ==
    ASSUME SetFacts, IInv, NumbersUsed
    PROVE  RepliesAreRight
<1>1. SeqnumPosition \in Nat /\ TypeOK /\ Final
    BY SeqnumPositionIsLast, Zenon DEF IInv
<1>2. ASSUME NEW r \in Succeeded PROVE r.position \in 1..SeqnumPosition /\ r.entry = Log[r.position]
    <2>1. PICK e \in Engines : r \in {[entry |-> <<e, x.localid>>, position |-> x.seqnum + 1] :
                                         x \in acked[e]}
        BY <1>2, Zenon DEF Succeeded
    <2>2. PICK x \in acked[e] : r = [entry |-> <<e, x.localid>>, position |-> x.seqnum + 1]
        BY <2>1
    <2>3. PICK k : OrderedAt(x, k)
        BY KnownIsOrdered, Zenon
    <2>4. /\ EntryAt(x.seqnum) = <<x.engine, x.localid>> /\ x.seqnum \in Nat
          /\ x.seqnum < SeqnumPosition
        BY <2>3, OrderedIsFound, Zenon DEF AllFound, Found
    <2>5. x.engine = e
        <3>1. PICK p \in 0..Len(metalogs) : x \in OrderedEntries(e, p)
            <4>1. acked[e] = OrderedEntries(e, position[e]) /\ e \in Nodes
                BY Zenon DEF IInv, LiteModeSkipsNothing, Nodes
            <4>2. Len(metalogs) \in Nat /\ position[e] \in Nat /\ position[e] <= Len(metalogs)
                BY <1>1, <4>1, MetaLogTypes, Zenon DEF IInv, TypeOK, Following
            <4>3. position[e] \in 0..Len(metalogs)
                BY <4>2
            <4>4. QED
                BY <4>1, <4>3, Zenon
        <3>2. QED
            BY <1>1, <3>1, OrderedBy, Zenon
    <2>6. r.position = x.seqnum + 1 /\ r.entry = <<x.engine, x.localid>>
        BY <2>2, <2>5
    <2>7. x.seqnum + 1 \in 1..SeqnumPosition /\ (x.seqnum + 1) - 1 = x.seqnum
        BY <1>1, <2>4
    <2>8. Log[x.seqnum + 1] = EntryAt(x.seqnum)
        BY <2>7, Zenon DEF Log
    <2>9. QED
        BY <2>4, <2>6, <2>7, <2>8, Zenon
<1>3. ASSUME NEW x \in Failed PROVE view = "finalized" /\ \A i \in 1..SeqnumPosition : x # Log[i]
    <2>1. PICK e \in Engines : x \in {e} \X discarded[e]
        BY <1>3, Zenon DEF Failed
    <2>2. PICK id \in discarded[e] : x = <<e, id>>
        BY <2>1
    <2>3. view = "finalized" /\ EndAt(Len(metalogs), e) <= id
        BY <1>1, Zenon DEF Final, Nodes
    <2>4. ASSUME NEW i \in 1..SeqnumPosition, x = Log[i] PROVE FALSE
        <3>1. PICK y : Found(y) /\ Log[i] = <<y.engine, y.localid>>
            BY LogAt, Zenon
        <3>2. y.engine = e /\ y.localid = id
            BY <2>2, <2>4, <3>1
        <3>3. id < EndAt(Len(metalogs), e) /\ id \in Nat
            BY <3>1, <3>2, Zenon DEF Found
        <3>4. EndAt(Len(metalogs), e) \in Nat
            <4>1. Len(metalogs) \in Nat
                BY <1>1, MetaLogTypes, Zenon
            <4>2. Len(metalogs) \in 0..Len(metalogs)
                BY <4>1
            <4>3. QED
                BY <1>1, <4>2, MetaLogTypes, Zenon
        <3>5. QED
            BY <2>3, <3>3, <3>4
    <2>5. QED
        BY <2>3, <2>4, Zenon
<1>4. QED
    BY <1>2, <1>3, Zenon DEF RepliesAreRight

-----------------------------------------------------------------------------
(* What a step of LogSpace is to SharedLogSpec and to MetaLogSpec.          *)

\* A metalog is decided, possibly by the seal.
Decides(m) ==
    /\ metalogs' = Append(metalogs, m) /\ view # "finalized"
    /\ UNCHANGED <<nextLocalId, acked, discarded, reported>>

\* The view is sealed without a further metalog.
Seals ==
    /\ view # "finalized" /\ view' = "finalized"
    /\ UNCHANGED <<metalogs, nextLocalId, acked, discarded, reported>>

\* An engine gives an append its local id.
Issues(e) ==
    /\ nextLocalId' = [nextLocalId EXCEPT ![e] = @ + 1]
    /\ UNCHANGED <<metalogs, view, acked, discarded, reported>>

\* Appends return, a storage reports, or nothing of this happens.
Returns ==
    /\ UNCHANGED <<metalogs, nextLocalId>> /\ (view' = "finalized" <=> view = "finalized")
    /\ \A e \in Engines :
          /\ acked[e] \subseteq acked'[e] /\ discarded[e] \subseteq discarded'[e]
          /\ \A id \in discarded'[e] \ discarded[e] :
                phase[e] # "finalized" /\ id \in pendingAppends[e]
    /\ reported' = reported \/ \E s \in Storages : reported' = [reported EXCEPT ![s] = stored[s]]

\* Every step is one of these.
LEMMA StepKinds ==
    ASSUME TypeOK, [Next]_vars
    PROVE  \/ \E m \in NextMetaLogs : Decides(m)
           \/ Seals
           \/ \E e \in Engines : Issues(e)
           \/ Returns
<1>1. ASSUME UNCHANGED <<metalogs, nextLocalId, acked, discarded, reported>>,
             view' = "finalized" <=> view = "finalized"
      PROVE  Returns
    BY <1>1, Zenon DEF Returns
<1>2. ASSUME NEW e \in Engines, NEW new, NEW final \in BOOLEAN, ProducerOnNewLogs(e, new, final),
             final => phase[e] # "finalized", UNCHANGED <<metalogs, nextLocalId, view, reported>>
      PROVE  Returns
    <2> DEFINE ids == {x.localid : x \in new}
               gone == IF final THEN pendingAppends[e] \ ids ELSE {}
    <2>1. /\ acked' = [acked EXCEPT ![e] = @ \cup new]
          /\ discarded' = [discarded EXCEPT ![e] = @ \cup gone]
        BY <1>2, Zenon DEF ProducerOnNewLogs
    <2>2. \A id \in gone : phase[e] # "finalized" /\ id \in pendingAppends[e]
        BY <1>2, Zenon
    <2> HIDE DEF gone
    <2>3. acked \in [Engines -> SUBSET LogEntries] /\ discarded \in [Engines -> SUBSET Nat]
        BY Zenon DEF TypeOK
    <2>4. ASSUME NEW x \in Engines
          PROVE  /\ acked[x] \subseteq acked'[x] /\ discarded[x] \subseteq discarded'[x]
                 /\ \A id \in discarded'[x] \ discarded[x] :
                       phase[x] # "finalized" /\ id \in pendingAppends[x]
        <3>1. CASE x = e
            <4>1. acked'[e] = acked[e] \cup new /\ discarded'[e] = discarded[e] \cup gone
                BY <2>1, <2>3, Zenon
            <4>2. QED
                BY <2>2, <3>1, <4>1, Zenon
        <3>2. CASE x # e
            <4>1. acked'[x] = acked[x] /\ discarded'[x] = discarded[x]
                BY <2>1, <2>3, <3>2, Zenon
            <4>2. QED
                BY <4>1, Zenon
        <3>3. QED
            BY <3>1, <3>2, Zenon
    <2>5. QED
        BY <1>2, <2>4, Zenon DEF Returns
<1>3. CASE UNCHANGED vars
    BY <1>1, <1>3, Zenon DEF vars, engineVars, storageVars, metaVars
<1>4. ASSUME NEW e \in Engines, HandleLocalAppend(e) PROVE Issues(e)
    BY <1>4, Zenon DEF HandleLocalAppend, Issues, storageVars, metaVars
<1>5. ASSUME NEW e \in Engines, EngineOnRecvNewMetaLogs(e) PROVE Returns
    <2>1. PICK i \in inbox[e] :
              /\ ProducerOnNewLogs(e, NewLogs(e, Applied(e, Provided(e, {i}))), FALSE)
              /\ UNCHANGED <<nextLocalId, storageVars, replicate, metaVars>>
        BY <1>5, Zenon DEF EngineOnRecvNewMetaLogs
    <2>2. FALSE \in BOOLEAN /\ UNCHANGED <<metalogs, nextLocalId, view, reported>>
        BY <2>1, Zenon DEF storageVars, metaVars
    <2>3. QED
        BY <1>2, <2>1, <2>2, Zenon
<1>6. ASSUME NEW e \in Engines, EngineOnViewFrozen(e) PROVE Returns
    BY <1>1, <1>6, Zenon DEF EngineOnViewFrozen, engineVars, storageVars, metaVars
<1>7. ASSUME NEW n, NEW app, FinalizeFails(n, app) PROVE Returns
    BY <1>1, <1>7, Zenon DEF FinalizeFails, engineVars, storageVars, metaVars
<1>8. ASSUME NEW e \in Engines, EngineOnViewFinalized(e) PROVE Returns
    <2> DEFINE pend == Provided(e, FinalTail)
               app == Applied(e, pend)
    <2>1. CASE FinalizeFails(e, app)
        BY <1>7, <2>1, Zenon
    <2>2. CASE /\ ProducerOnNewLogs(e, NewLogs(e, app), TRUE)
               /\ UNCHANGED <<nextLocalId, storageVars, netVars, metaVars>>
        <3>1. /\ TRUE \in BOOLEAN /\ phase[e] # "finalized"
              /\ UNCHANGED <<metalogs, nextLocalId, view, reported>>
            <4>1. phase[e] = "frozen"
                BY <1>8, Zenon DEF EngineOnViewFinalized
            <4>2. QED
                BY <2>2, <4>1 DEF storageVars, metaVars
        <3> HIDE DEF app
        <3>2. QED
            BY <1>2, <2>2, <3>1, Zenon
    <2>3. QED
        BY <1>8, <2>1, <2>2, Zenon DEF EngineOnViewFinalized
<1>9. ASSUME NEW s \in Storages, HandleReplicateRequest(s) PROVE Returns
    BY <1>1, <1>9, Zenon DEF HandleReplicateRequest, engineVars, metaVars
<1>10. ASSUME NEW s \in Storages, SendShardProgressIfNeeded(s) PROVE Returns
    BY <1>10, Zenon DEF SendShardProgressIfNeeded, Returns, engineVars, metaVars
<1>11. ASSUME NEW s \in Storages, StorageOnRecvNewMetaLogs(s) PROVE Returns
    BY <1>1, <1>11, Zenon DEF StorageOnRecvNewMetaLogs, engineVars, metaVars
<1>12. ASSUME NEW s \in Storages, StorageOnViewFinalized(s) PROVE Returns
    <2> DEFINE app == Applied(s, Provided(s, FinalTail))
    <2>1. CASE FinalizeFails(s, app)
        BY <1>7, <2>1, Zenon
    <2>2. CASE UNCHANGED <<engineVars, stored, storedDirty, reported, netVars, metaVars>>
        BY <1>1, <2>2, Zenon DEF engineVars, metaVars
    <2>3. QED
        BY <1>12, <2>1, <2>2, Zenon DEF StorageOnViewFinalized
<1>13. ASSUME PropagateMetaLog PROVE \E m \in NextMetaLogs : Decides(m)
    BY <1>13, Zenon DEF PropagateMetaLog, DecideMetaLog, Decides, engineVars, storageVars
<1>14. ASSUME FreezeView PROVE Returns
    <2>1. view # "finalized" /\ view' # "finalized"
        BY <1>14 DEF FreezeView
    <2>2. QED
        BY <1>1, <1>14, <2>1, Zenon DEF FreezeView, engineVars, storageVars
<1>15. ASSUME FinalizeView PROVE Seals \/ \E m \in NextMetaLogs : Decides(m)
    <2>1. view # "finalized" /\ view' = "finalized"
        BY <1>15 DEF FinalizeView
    <2>2. UNCHANGED <<nextLocalId, acked, discarded, reported>>
        BY <1>15, Zenon DEF FinalizeView, engineVars, storageVars
    <2>3. UNCHANGED metalogs \/ \E m \in NextMetaLogs : metalogs' = Append(metalogs, m)
        BY <1>15, Zenon DEF FinalizeView, DecideMetaLog
    <2>4. QED
        BY <2>1, <2>2, <2>3, Zenon DEF Seals, Decides
<1>16. QED
    BY <1>3, <1>4, <1>5, <1>6, <1>8, <1>9, <1>10, <1>11, <1>12, <1>13, <1>14, <1>15, Zenon DEF Next

-----------------------------------------------------------------------------
(* The steps of MetaLogSpec.                                                *)

\* What storages reported of each shard.
Durable == [e \in Engines |-> ReportedByAll(e)]

\* The cuts that the metalogs make.
Cuts == [i \in 1..Len(metalogs) |-> [e \in Engines |-> ShardEnd(i - 1, e)]]

\* The cuts are where the metalogs end.
LEMMA CutsRead ==
    ASSUME SetFacts, TypeOK
    PROVE  /\ Len(Cuts) = Len(metalogs)
           /\ \A i \in 1..Len(metalogs), e \in Engines : Cuts[i][e] = EndAt(i, e)
           /\ \A e \in Engines : Metalog!Ordered(e) = EndAt(Len(metalogs), e)
<1>1. Len(metalogs) \in Nat
    BY MetaLogTypes, Zenon
<1>2. Len(Cuts) = Len(metalogs) /\ (Cuts = <<>> <=> Len(metalogs) = 0)
    BY <1>1 DEF Cuts
<1>3. ASSUME NEW i \in 1..Len(metalogs), NEW e \in Engines PROVE Cuts[i][e] = EndAt(i, e)
    <2>1. Cuts[i][e] = ShardEnd(i - 1, e)
        BY Zenon DEF Cuts
    <2>2. QED
        BY <2>1, MetaLogTypes, Zenon
<1>4. ASSUME NEW e \in Engines PROVE Metalog!Ordered(e) = EndAt(Len(metalogs), e)
    <2>1. Metalog!Ordered(e) = IF Cuts = <<>> THEN 0 ELSE Cuts[Len(Cuts)][e]
        BY Zenon DEF Metalog!Ordered, Cuts
    <2>2. CASE Len(metalogs) = 0
        BY <1>2, <2>1, <2>2 DEF EndAt
    <2>3. CASE Len(metalogs) # 0
        <3>1. Len(metalogs) \in 1..Len(metalogs)
            BY <1>1, <2>3
        <3>2. Cuts[Len(metalogs)][e] = EndAt(Len(metalogs), e)
            BY <1>3, <3>1, Zenon
        <3>3. QED
            BY <1>2, <2>1, <2>3, <3>2, Zenon
    <2>4. QED
        BY <2>2, <2>3
<1>5. QED
    BY <1>2, <1>3, <1>4, Zenon

\* A metalog is a further cut of durable entries.
LEMMA DecidesCut ==
    ASSUME SetFacts, IInv, TypeOK', NEW m \in NextMetaLogs, Decides(m)
    PROVE  Metalog!DecideCut
<1>1. PICK L \in Nat : L = Len(metalogs)
    BY MetaLogTypes, Zenon DEF IInv
<1>2. TypeOK /\ Chained /\ m \in MetaLogProto
    BY NextMetaLogIsNext, Zenon DEF IInv
<1>3. /\ Len(metalogs') = L + 1
      /\ \A i \in 1..L : metalogs'[i] = metalogs[i]
      /\ metalogs'[L + 1] = m
    BY <1>1, <1>2, Appended, Zenon DEF Decides
<1>4. Len(Cuts) = L /\ \A e \in Engines : Metalog!Ordered(e) = EndAt(L, e)
    BY <1>1, <1>2, CutsRead, Zenon
<1>5. Cuts' = [i \in 1..(L + 1) |-> [e \in Engines |-> ShardEnd(i - 1, e)']]
    BY <1>3, Zenon DEF Cuts
<1>6. Len(Cuts') = L + 1
    BY <1>5
<1>7. ASSUME NEW i \in 1..L PROVE Cuts'[i] = Cuts[i]
    <2>1. i \in 1..(L + 1) /\ (i - 1) + 1 = i
        OBVIOUS
    <2>2. metalogs'[(i - 1) + 1] = metalogs[(i - 1) + 1]
        BY <1>3, <2>1, Zenon
    <2>3. \A e \in Engines : ShardEnd(i - 1, e)' = ShardEnd(i - 1, e)
        BY <2>2, Zenon DEF ShardEnd
    <2>4. /\ Cuts'[i] = [e \in Engines |-> ShardEnd(i - 1, e)']
          /\ Cuts[i] = [e \in Engines |-> ShardEnd(i - 1, e)]
        BY <1>1, <1>5, <2>1, Zenon DEF Cuts
    <2>5. QED
        BY <2>3, <2>4, Zenon
<1>8. ASSUME NEW e \in Engines PROVE Cuts'[L + 1][e] = m.starts[e] + m.deltas[e]
    <2>1. L + 1 \in 1..(L + 1) /\ ((L + 1) - 1) + 1 = L + 1
        OBVIOUS
    <2>2. Cuts'[L + 1][e] = ShardEnd((L + 1) - 1, e)'
        BY <1>5, <2>1, Zenon
    <2>3. ShardEnd((L + 1) - 1, e)' = m.starts[e] + m.deltas[e]
        BY <1>3, <2>1, Zenon DEF ShardEnd
    <2>4. QED
        BY <2>2, <2>3, Zenon
<1>9. ASSUME NEW e \in Engines
      PROVE  /\ Cuts'[L + 1][e] \in Metalog!Ordered(e) .. Durable[e]
             /\ m.deltas[e] > 0 => Cuts'[L + 1][e] > Metalog!Ordered(e)
    <2>1. PICK s \in Nat : s = m.starts[e] /\ s = Metalog!Ordered(e)
        BY <1>1, <1>2, <1>4, NextMetaLogIsNext, Zenon
    <2>2. PICK d \in Nat : d = m.deltas[e] /\ s + d <= ReportedByAll(e)
        BY <1>2, <2>1, NextMetaLogForm, Zenon
    <2>3. PICK r \in Nat : r = ReportedByAll(e) /\ r = Durable[e]
        BY <1>2, ReportedIsLeast, Zenon DEF Durable
    <2>4. s + d \in s .. r /\ (d > 0 => s + d > s)
        BY <2>2, <2>3
    <2>5. QED
        BY <1>8, <2>1, <2>2, <2>3, <2>4, Zenon
<1>10. PICK e0 \in Engines : m.deltas[e0] > 0
    BY <1>2, NextMetaLogForm, Zenon
<1>11. /\ Len(Cuts') = Len(Cuts) + 1
       /\ \A i \in 1..Len(Cuts) : Cuts'[i] = Cuts[i]
       /\ \A e \in Engines : Cuts'[Len(Cuts')][e] \in Metalog!Ordered(e) .. Durable[e]
       /\ \E e \in Engines : Cuts'[Len(Cuts')][e] > Metalog!Ordered(e)
    BY <1>4, <1>6, <1>7, <1>9, <1>10, Zenon
<1>12. QED
    BY <1>11, Zenon DEF Metalog!DecideCut, Cuts, Durable

\* What storages report never shrinks what is durable.
LEMMA DurableGrows ==
    ASSUME SetFacts, IInv, TypeOK', Returns
    PROVE  \A e \in Engines : Durable'[e] >= Durable[e]
<1> SUFFICES ASSUME NEW e \in Engines PROVE Durable'[e] >= Durable[e]
    OBVIOUS
<1>1. TypeOK /\ Reported
    BY Zenon DEF IInv
<1>2. Durable[e] = ReportedByAll(e) /\ Durable'[e] = ReportedByAll(e)'
    BY Zenon DEF Durable, ReportedByAll
<1>3. PICK d \in Nat : d = ReportedByAll(e) /\ \A s \in StorageNodes[e] : d <= reported[s][e]
    BY <1>1, ReportedIsLeast, Zenon
<1>4. PICK n \in Nat : n = ReportedByAll(e)' /\ \E s \in StorageNodes[e] : n = reported'[s][e]
    <2>1. (SetFacts /\ TypeOK => /\ ReportedByAll(e) \in Nat
                                 /\ \E s \in StorageNodes[e] : ReportedByAll(e) = reported[s][e])'
        BY ReportedIsLeast, PTL
    <2>2. QED
        BY <2>1
<1>5. PICK s \in StorageNodes[e] : n = reported'[s][e]
    BY <1>4, Zenon
<1>6. /\ s \in Storages /\ e \in SourceEngineNodes(s) /\ reported[s][e] \in Nat
      /\ reported[s][e] <= stored[s][e]
    <2>1. s \in Storages /\ e \in SourceEngineNodes(s)
        BY NodeAssumption DEF SourceEngineNodes
    <2>2. QED
        BY <1>1, <2>1, ReportedIsLeast, Zenon DEF Reported
<1>7. reported'[s][e] = reported[s][e] \/ reported'[s][e] = stored[s][e]
    <2>1. CASE reported' = reported
        BY <2>1, Zenon
    <2>2. CASE \E t \in Storages : reported' = [reported EXCEPT ![t] = stored[t]]
        <3>1. PICK t \in Storages : reported' = [reported EXCEPT ![t] = stored[t]]
            BY <2>2, Zenon
        <3>2. reported = [x \in Storages |-> reported[x]]
            BY <1>1, Zenon DEF TypeOK
        <3>3. reported'[s] = IF s = t THEN stored[s] ELSE reported[s]
            BY <1>6, <3>1, <3>2
        <3>4. QED
            BY <3>3, Zenon
    <2>3. QED
        BY <2>1, <2>2, Zenon DEF Returns
<1>8. PICK r \in Nat : r = reported[s][e]
    BY <1>6, Zenon
<1>9. d <= r /\ (n = r \/ r <= n)
    BY <1>3, <1>5, <1>6, <1>7, <1>8, Zenon
<1>10. n >= d
    BY <1>9
<1>11. QED
    BY <1>2, <1>3, <1>4, <1>10, Zenon

\* Every step of LogSpace is one of MetaLogSpec or leaves its state alone.
LEMMA NextMetaLogStep ==
    ASSUME SetFacts, IInv, IInv', [Next]_vars
    PROVE  [Metalog!Next]_(Metalog!vars)
<1> DEFINE sealed == view = "finalized"
<1>1. TypeOK /\ TypeOK'
    BY Zenon DEF IInv
<1>2. ASSUME UNCHANGED metalogs PROVE Cuts' = Cuts
    BY <1>2, Zenon DEF Cuts, ShardEnd
<1>3. ASSUME UNCHANGED reported PROVE Durable' = Durable
    BY <1>3, Zenon DEF Durable, ReportedByAll
<1>4. ASSUME NEW m \in NextMetaLogs, Decides(m) PROVE Metalog!Next
    <2>1. Metalog!DecideCut /\ Durable' = Durable /\ ~sealed
        BY <1>1, <1>3, <1>4, DecidesCut, Zenon DEF Decides
    <2>2. CASE sealed'
        BY <2>1, <2>2, Zenon DEF Metalog!Next, Metalog!Seal, Durable
    <2>3. CASE ~sealed'
        BY <2>1, <2>3, Zenon DEF Metalog!Next, Metalog!Propagate, Durable
    <2>4. QED
        BY <2>2, <2>3
<1>5. ASSUME Seals PROVE Metalog!Next
    <2>1. Cuts' = Cuts /\ Durable' = Durable /\ ~sealed /\ sealed'
        BY <1>2, <1>3, <1>5, Zenon DEF Seals
    <2>2. QED
        BY <2>1, Zenon DEF Metalog!Next, Metalog!Seal, Cuts, Durable
<1>6. ASSUME NEW e \in Engines, Issues(e) PROVE UNCHANGED Metalog!vars
    <2>1. Cuts' = Cuts /\ Durable' = Durable /\ sealed' = sealed
        BY <1>2, <1>3, <1>6, Zenon DEF Issues
    <2>2. QED
        BY <2>1, Zenon DEF Metalog!vars, Cuts, Durable
<1>7. ASSUME Returns PROVE Metalog!Next
    <2>1. /\ Cuts' = Cuts /\ \A e \in Engines : Durable'[e] >= Durable[e]
        BY <1>1, <1>2, <1>7, DurableGrows, Zenon DEF Returns
    <2>2. sealed' = sealed
        BY <1>7 DEF Returns
    <2>3. QED
        BY <2>1, <2>2, Zenon DEF Metalog!Next, Metalog!Store, Cuts, Durable
<1>8. QED
    BY <1>1, <1>4, <1>5, <1>6, <1>7, StepKinds, Zenon

-----------------------------------------------------------------------------
(* The steps of SharedLogSpec.                                              *)

\* A step leaves the log alone unless it decides a metalog.
LEMMA LogKept ==
    ASSUME UNCHANGED metalogs
    PROVE  Log' = Log /\ SeqnumPosition' = SeqnumPosition
<1>1. SeqnumPosition' = SeqnumPosition
    BY Zenon DEF SeqnumPosition
<1>2. ASSUME NEW q PROVE EntryAt(q)' = EntryAt(q)
    BY DEF EntryAt, OrderedEntries
<1>3. QED
    BY <1>1, <1>2 DEF Log

\* A metalog extends the log.
LEMMA DecidesExtension ==
    ASSUME SetFacts, IInv, IInv', NumbersUsed, NumbersUsed', NEW m \in NextMetaLogs, Decides(m)
    PROVE  SharedLog!Extend
<1>1. LogIsRight
    BY LogRight
<1>2. LogIsRight'
    <2>1. SetFacts /\ IInv' /\ NumbersUsed' => LogIsRight'
        BY LogRight, PTL
    <2>2. QED
        BY <2>1
<1>3. AllFound'
    <2>1. SetFacts /\ IInv' => AllFound'
        BY OrderedIsFound, PTL
    <2>2. QED
        BY <2>1
<1>4. TypeOK /\ Chained /\ m \in MetaLogProto /\ metalogs' = Append(metalogs, m)
    BY NextMetaLogIsNext, Zenon DEF IInv, Decides
<1>5. PICK p \in Nat : p = SeqnumPosition /\ p = Len(Log)
    BY <1>1, Zenon DEF LogIsRight
<1>6. PICK p1 \in Nat : p1 = SeqnumPosition' /\ p1 = Len(Log')
    BY <1>2, Zenon DEF LogIsRight
<1>7. p < p1
    BY <1>4, <1>5, <1>6, DecideUsesNumbers, Zenon
<1>8. Appends' = Appends
    BY Zenon DEF Appends, Decides
<1>9. ASSUME NEW i \in 1..p PROVE Log'[i] = Log[i]
    <2>1. PICK x, k : OrderedAt(x, k) /\ x.seqnum = i - 1 /\ Log[i] = <<x.engine, x.localid>>
        BY <1>5, LogAt, Zenon
    <2>2. OrderedAt(x, k)'
        BY <1>4, <2>1, OrderedStays
    <2>3. EntryAt(x.seqnum)' = <<x.engine, x.localid>>
        BY <1>3, <2>2, Zenon DEF AllFound, Found
    <2>4. i \in 1..p1
        BY <1>7
    <2>5. Log'[i] = EntryAt(i - 1)'
        BY <1>6, <2>4, Zenon DEF Log
    <2>6. QED
        BY <2>1, <2>3, <2>5, Zenon
<1>10. ASSUME NEW i \in (p + 1)..p1
       PROVE  /\ Log'[i] \in Appends
              /\ \A j \in 1..(i - 1) : Log'[j][1] = Log'[i][1] => Log'[j][2] < Log'[i][2]
    <2>1. i \in 1..p1
        OBVIOUS
    <2>2. QED
        BY <1>2, <1>6, <1>8, <2>1, Zenon DEF LogIsRight
<1>11. /\ Len(Log') > Len(Log)
       /\ \A i \in 1..Len(Log) : Log'[i] = Log[i]
       /\ \A i \in (Len(Log) + 1)..Len(Log') :
             /\ Log'[i] \in Appends
             /\ \A j \in 1..(i - 1) : Log'[j][1] = Log'[i][1] => Log'[j][2] < Log'[i][2]
    <2>1. p1 > p
        BY <1>7
    <2>2. QED
        BY <1>5, <1>6, <1>9, <1>10, <2>1, Zenon
<1>12. QED
    BY <1>11, Zenon DEF SharedLog!Extend, Log, Appends

\* An append takes the next local id of its engine.
LEMMA IssuesAppend ==
    ASSUME SetFacts, TypeOK, NEW e \in Engines, Issues(e)
    PROVE  SharedLog!Issue
<1>1. PICK n \in Nat : n = nextLocalId[e]
    BY BoundAssumption DEF TypeOK
<1>2. /\ nextLocalId'[e] = n + 1 /\ \A f \in Engines : f # e => nextLocalId'[f] = nextLocalId[f]
    BY <1>1 DEF Issues, TypeOK
<1>3. ASSUME NEW x PROVE x \in Appends <=> \E f \in Engines : x \in {f} \X (0 .. (nextLocalId[f] - 1))
    BY Zenon DEF Appends
<1>4. ASSUME NEW x
      PROVE  x \in Appends' <=> \E f \in Engines : x \in {f} \X (0 .. (nextLocalId'[f] - 1))
    BY Zenon DEF Appends
<1>5. ASSUME NEW x PROVE x \in {e} \X (0 .. ((n + 1) - 1)) <=> x \in {e} \X (0 .. (n - 1)) \/ x = <<e, n>>
    <2>1. ASSUME NEW i PROVE i \in 0 .. ((n + 1) - 1) <=> i \in 0 .. (n - 1) \/ i = n
        OBVIOUS
    <2>2. QED
        BY <2>1
<1>6. ASSUME NEW x PROVE x \in Appends' <=> x \in Appends \/ x = <<e, n>>
    <2>1. ASSUME x \in Appends' PROVE x \in Appends \/ x = <<e, n>>
        <3>1. PICK f \in Engines : x \in {f} \X (0 .. (nextLocalId'[f] - 1))
            BY <1>4, <2>1, Zenon
        <3>2. CASE f = e
            <4>1. x \in {e} \X (0 .. ((n + 1) - 1))
                BY <1>2, <3>1, <3>2, Zenon
            <4>2. QED
                BY <1>1, <1>3, <1>5, <4>1, Zenon
        <3>3. CASE f # e
            BY <1>2, <1>3, <3>1, <3>3, Zenon
        <3>4. QED
            BY <3>2, <3>3, Zenon
    <2>2. ASSUME x \in Appends \/ x = <<e, n>> PROVE x \in Appends'
        <3>1. CASE x = <<e, n>>
            BY <1>2, <1>4, <1>5, <3>1, Zenon
        <3>2. CASE x \in Appends
            <4>1. PICK f \in Engines : x \in {f} \X (0 .. (nextLocalId[f] - 1))
                BY <1>3, <3>2, Zenon
            <4>2. CASE f = e
                BY <1>1, <1>2, <1>4, <1>5, <4>1, <4>2, Zenon
            <4>3. CASE f # e
                BY <1>2, <1>4, <4>1, <4>3, Zenon
            <4>4. QED
                BY <4>2, <4>3, Zenon
        <3>3. QED
            BY <2>2, <3>1, <3>2, Zenon
    <2>3. QED
        BY <2>1, <2>2, Zenon
<1>7. Appends' = Appends \cup {<<e, n>>}
    BY <1>6, Zenon
<1>8. Cardinality({x \in Appends : x[1] = e}) = n
    <2>1. ASSUME NEW x PROVE x \in Appends /\ x[1] = e <=> x \in {e} \X (0 .. (n - 1))
        <3>1. ASSUME x \in Appends, x[1] = e PROVE x \in {e} \X (0 .. (n - 1))
            <4>1. PICK f \in Engines : x \in {f} \X (0 .. (nextLocalId[f] - 1))
                BY <1>3, <3>1, Zenon
            <4>2. f = e
                BY <3>1, <4>1
            <4>3. QED
                BY <1>1, <4>1, <4>2, Zenon
        <3>2. ASSUME x \in {e} \X (0 .. (n - 1)) PROVE x \in Appends /\ x[1] = e
            <4>1. x[1] = e
                BY <3>2
            <4>2. QED
                BY <1>1, <1>3, <3>2, <4>1, Zenon
        <3>3. QED
            BY <3>1, <3>2, Zenon
    <2>2. {x \in Appends : x[1] = e} = {e} \X (0 .. (n - 1))
        BY <2>1, Zenon
    <2>3. QED
        BY <2>2, Zenon DEF SetFacts, LocalIdsCounted
<1>9. UNCHANGED metalogs /\ UNCHANGED view /\ UNCHANGED acked /\ UNCHANGED discarded
    BY Zenon DEF Issues
<1>10. Log' = Log /\ Succeeded' = Succeeded /\ Failed' = Failed
    <2>1. Log' = Log
        BY <1>9, LogKept, Zenon
    <2>2. Succeeded' = Succeeded
        BY <1>9 DEF Succeeded
    <2>3. Failed' = Failed
        BY <1>9 DEF Failed
    <2>4. QED
        BY <2>1, <2>2, <2>3
<1>11. (view = "finalized")' = (view = "finalized")
    BY <1>9, Zenon
<1>12. \E f \in Engines : Appends' = Appends \cup {<<f, Cardinality({x \in Appends : x[1] = f})>>}
    BY <1>7, <1>8, Zenon
<1>13. UNCHANGED <<Log, Succeeded, Failed, (view = "finalized")>>
    BY <1>10, <1>11, Zenon
<1>14. ASSUME NEW S PROVE SharedLog!Cardinality(S) = Cardinality(S)
    BY DEF Cardinality, SharedLog!Cardinality
<1>15. QED
    BY <1>12, <1>13, <1>14, Zenon DEF SharedLog!Issue, Appends, Log, Succeeded, Failed

\* What LogProducer::OnNewLogs and OnFinalized tell functions is what the log says.
LEMMA ReturnsReturn ==
    ASSUME SetFacts, IInv, IInv', NumbersUsed, NumbersUsed', Returns
    PROVE  SharedLog!Return
<1>1. RepliesAreRight'
    <2>1. SetFacts /\ IInv' /\ NumbersUsed' => RepliesAreRight'
        BY RepliesRight, PTL
    <2>2. QED
        BY <2>1
<1>2. TypeOK /\ Pending
    BY Zenon DEF IInv
<1>3. UNCHANGED metalogs /\ UNCHANGED nextLocalId /\ (view' = "finalized" <=> view = "finalized")
    BY Zenon DEF Returns
<1>4. Log' = Log /\ SeqnumPosition' = SeqnumPosition
    BY <1>3, LogKept, Zenon
<1>5. Appends' = Appends
    BY <1>3 DEF Appends
<1>6. Len(Log) = SeqnumPosition
    BY LogRight, Zenon DEF LogIsRight
<1>7. ASSUME NEW r \in Succeeded PROVE r \in Succeeded'
    <2>1. PICK e \in Engines : r \in {[entry |-> <<e, x.localid>>, position |-> x.seqnum + 1] :
                                         x \in acked[e]}
        BY <1>7, Zenon DEF Succeeded
    <2>2. PICK x \in acked[e] : r = [entry |-> <<e, x.localid>>, position |-> x.seqnum + 1]
        BY <2>1
    <2>3. x \in acked'[e]
        BY <2>2, Zenon DEF Returns
    <2>4. r \in {[entry |-> <<e, y.localid>>, position |-> y.seqnum + 1] : y \in acked'[e]}
        BY <2>2, <2>3, Zenon
    <2>5. QED
        BY <2>4 DEF Succeeded
<1>8. ASSUME NEW x \in Failed PROVE x \in Failed'
    <2>1. PICK e \in Engines : x \in {e} \X discarded[e]
        BY <1>8, Zenon DEF Failed
    <2>2. discarded[e] \subseteq discarded'[e]
        BY Zenon DEF Returns
    <2>3. x \in {e} \X discarded'[e]
        BY <2>1, <2>2
    <2>4. QED
        BY <2>3, Zenon DEF Failed
<1>9. ASSUME NEW r \in Succeeded' \ Succeeded
      PROVE  r.position \in 1..Len(Log) /\ r.entry = Log[r.position]
    <2>1. r.position \in 1..SeqnumPosition' /\ r.entry = Log'[r.position]
        BY <1>1, <1>9, Zenon DEF RepliesAreRight
    <2>2. QED
        BY <1>4, <1>6, <2>1, Zenon
<1>10. ASSUME NEW x \in Failed' \ Failed
       PROVE  view = "finalized" /\ x \in Appends /\ x \notin SharedLog!Entries(Log)
    <2>1. view = "finalized" /\ \A i \in 1..Len(Log) : x # Log[i]
        <3>1. view' = "finalized" /\ \A i \in 1..SeqnumPosition' : x # Log'[i]
            BY <1>1, <1>10, Zenon DEF RepliesAreRight
        <3>2. QED
            BY <1>3, <1>4, <1>6, <3>1, Zenon
    <2>2. x \notin SharedLog!Entries(Log)
        BY <2>1, Zenon DEF SharedLog!Entries
    <2>3. PICK e \in Engines : x \in {e} \X discarded'[e]
        BY <1>10, Zenon DEF Failed
    <2>4. PICK id \in discarded'[e] : x = <<e, id>>
        BY <2>3
    <2>5. id \notin discarded[e]
        <3>1. ASSUME id \in discarded[e] PROVE FALSE
            <4>1. x \in {e} \X discarded[e]
                BY <2>4, <3>1
            <4>2. QED
                BY <1>10, <4>1, Zenon DEF Failed
        <3>2. QED
            BY <3>1, Zenon
    <2>6. phase[e] # "finalized" /\ id \in pendingAppends[e]
        BY <2>4, <2>5, Zenon DEF Returns
    <2>7. id \in progress[e][e] .. (nextLocalId[e] - 1)
        BY <1>2, <2>6, Zenon DEF Pending
    <2>8. progress[e][e] \in Nat /\ nextLocalId[e] \in Nat
        <3>1. e \in Nodes /\ e \in InterestedShards(e)
            BY Zenon DEF Nodes, InterestedShards
        <3>2. progress[e] \in [InterestedShards(e) -> Nat] /\ nextLocalId \in [Engines -> 0..MaxLocalId]
            BY <1>2, <3>1, Zenon DEF TypeOK
        <3>3. QED
            BY <3>1, <3>2, BoundAssumption
    <2>9. id \in 0 .. (nextLocalId[e] - 1)
        BY <2>7, <2>8
    <2>10. x \in {e} \X (0 .. (nextLocalId[e] - 1))
        BY <2>4, <2>9
    <2>11. x \in Appends
        BY <2>10, Zenon DEF Appends
    <2>12. QED
        BY <2>1, <2>2, <2>11, Zenon
<1>11. (view = "finalized")' = (view = "finalized")
    BY <1>3, Zenon
<1>12. UNCHANGED <<Appends, Log, (view = "finalized")>>
    BY <1>4, <1>5, <1>11, Zenon
<1>13. QED
    BY <1>7, <1>8, <1>9, <1>10, <1>12, Zenon DEF SharedLog!Return, Appends, Log, Succeeded, Failed

\* Deciding a metalog is a step of the shared log, which may seal it.
LEMMA DecidesOrder ==
    ASSUME SetFacts, IInv, IInv', NumbersUsed, NumbersUsed', NEW m \in NextMetaLogs, Decides(m)
    PROVE  SharedLog!Order \/ SharedLog!Seal
<1>1. SharedLog!Extend
    BY DecidesExtension, Zenon
<1>2. UNCHANGED nextLocalId /\ UNCHANGED acked /\ UNCHANGED discarded /\ view # "finalized"
    BY Zenon DEF Decides
<1>3. Appends' = Appends
    BY <1>2 DEF Appends
<1>4. Succeeded' = Succeeded
    BY <1>2 DEF Succeeded
<1>5. Failed' = Failed
    BY <1>2 DEF Failed
<1>6. CASE view' = "finalized"
    <2>1. ~(view = "finalized") /\ (view = "finalized")' = TRUE
        BY <1>2, <1>6, Zenon
    <2>2. UNCHANGED <<Appends, Succeeded, Failed>>
        BY <1>3, <1>4, <1>5, Zenon
    <2>3. QED
        BY <1>1, <2>1, <2>2, Zenon DEF SharedLog!Seal, Appends, Succeeded, Failed
<1>7. CASE view' # "finalized"
    <2>1. ~(view = "finalized") /\ (view = "finalized")' = (view = "finalized")
        BY <1>2, <1>7, Zenon
    <2>2. UNCHANGED <<Appends, Succeeded, Failed, (view = "finalized")>>
        BY <1>3, <1>4, <1>5, <2>1, Zenon
    <2>3. QED
        BY <1>1, <2>1, <2>2, Zenon DEF SharedLog!Order, Appends, Succeeded, Failed
<1>8. QED
    BY <1>6, <1>7, Zenon

\* Sealing without a further metalog leaves the log as it is.
LEMMA SealsSeal ==
    ASSUME Seals
    PROVE  SharedLog!Seal
<1>1. /\ UNCHANGED metalogs /\ UNCHANGED nextLocalId /\ UNCHANGED acked /\ UNCHANGED discarded
      /\ view # "finalized" /\ view' = "finalized"
    BY Zenon DEF Seals
<1>2. Log' = Log
    BY <1>1, LogKept, Zenon
<1>3. Appends' = Appends
    BY <1>1 DEF Appends
<1>4. Succeeded' = Succeeded
    BY <1>1 DEF Succeeded
<1>5. Failed' = Failed
    BY <1>1 DEF Failed
<1>6. ~(view = "finalized") /\ (view = "finalized")' = TRUE
    BY <1>1, Zenon
<1>7. UNCHANGED Log /\ UNCHANGED <<Appends, Succeeded, Failed>>
    BY <1>2, <1>3, <1>4, <1>5, Zenon
<1>8. QED
    BY <1>6, <1>7, Zenon DEF SharedLog!Seal, Appends, Log, Succeeded, Failed

\* Sequence numbers stay used without a gap.
LEMMA NextNumbersUsed ==
    ASSUME SetFacts, IInv, NumbersUsed, [Next]_vars
    PROVE  NumbersUsed'
<1>1. TypeOK /\ Chained
    BY Zenon DEF IInv
<1>2. CASE \E m \in NextMetaLogs : Decides(m)
    <2>1. PICK m \in NextMetaLogs : Decides(m)
        BY <1>2
    <2>2. m \in MetaLogProto /\ metalogs' = Append(metalogs, m)
        BY <1>1, <2>1, NextMetaLogIsNext, Zenon DEF IInv, Decides
    <2>3. QED
        BY <1>1, <2>1, <2>2, DecideUsesNumbers, Zenon
<1>3. CASE UNCHANGED metalogs
    <2>1. SeqnumPosition' = SeqnumPosition
        BY <1>3, LogKept, Zenon
    <2>2. ASSUME NEW x, NEW i, OrderedAt(x, i) PROVE OrderedAt(x, i)'
        BY <1>3, <2>2 DEF OrderedAt, EndAt, ShardEnd, EntriesOf, Before
    <2>3. ASSUME NEW q \in 0 .. (SeqnumPosition - 1) PROVE (\E x, i : OrderedAt(x, i) /\ x.seqnum = q)'
        <3>1. PICK x, i : OrderedAt(x, i) /\ x.seqnum = q
            BY <2>3, Zenon DEF NumbersUsed
        <3>2. QED
            BY <2>2, <3>1, Zenon
    <2>4. QED
        BY <2>1, <2>3, Zenon DEF NumbersUsed
<1>4. QED
    BY <1>1, <1>2, <1>3, StepKinds, Zenon DEF Seals, Issues, Returns

\* Every step is one of SharedLogSpec.
LEMMA NextSharedLogStep ==
    ASSUME SetFacts, IInv, IInv', NumbersUsed, [Next]_vars
    PROVE  [SharedLog!Next]_(SharedLog!vars)
<1>1. TypeOK
    BY Zenon DEF IInv
<1>2. NumbersUsed'
    BY NextNumbersUsed
<1>3. CASE \E m \in NextMetaLogs : Decides(m)
    BY <1>2, <1>3, DecidesOrder, Zenon DEF SharedLog!Next
<1>4. CASE Seals
    BY <1>4, SealsSeal, Zenon DEF SharedLog!Next
<1>5. CASE \E e \in Engines : Issues(e)
    BY <1>1, <1>5, IssuesAppend, Zenon DEF SharedLog!Next
<1>6. CASE Returns
    BY <1>2, <1>6, ReturnsReturn, Zenon DEF SharedLog!Next
<1>7. QED
    BY <1>1, <1>3, <1>4, <1>5, <1>6, StepKinds, Zenon

\* The first state is one of both.
LEMMA InitRefines ==
    ASSUME SetFacts, Init, IInv
    PROVE  NumbersUsed /\ SharedLog!Init /\ Metalog!Init
<1>1. metalogs = <<>> /\ Len(metalogs) = 0 /\ view = "normal"
    BY DEF Init
<1>2. SeqnumPosition = 0
    BY <1>1 DEF SeqnumPosition
<1>3. NumbersUsed
    BY <1>2 DEF NumbersUsed
<1>4. Log = <<>>
    BY <1>2 DEF Log
<1>5. Appends = {}
    BY DEF Init, Appends
<1>6. Succeeded = {}
    BY DEF Init, Succeeded
<1>7. Failed = {}
    BY DEF Init, Failed
<1>8. (view = "finalized") = FALSE
    BY <1>1
<1>9. SharedLog!Init
    BY <1>4, <1>5, <1>6, <1>7, <1>8, Zenon DEF SharedLog!Init, Appends, Log, Succeeded, Failed
<1>10. Cuts = <<>>
    BY <1>1 DEF Cuts
<1>11. Durable = [e \in Engines |-> 0]
    <2>1. ASSUME NEW e \in Engines PROVE ReportedByAll(e) = 0
        <3>1. PICK s \in StorageNodes[e] : ReportedByAll(e) = reported[s][e]
            BY ReportedIsLeast, Zenon DEF IInv
        <3>2. s \in Storages /\ e \in SourceEngineNodes(s)
            BY NodeAssumption DEF SourceEngineNodes
        <3>3. reported[s][e] = 0
            BY <3>2 DEF Init
        <3>4. QED
            BY <3>1, <3>3
    <2>2. QED
        BY <2>1 DEF Durable
<1>12. Metalog!Init
    BY <1>8, <1>10, <1>11, Zenon DEF Metalog!Init, Cuts, Durable
<1>13. QED
    BY <1>3, <1>9, <1>12
=============================================================================
