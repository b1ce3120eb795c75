-------------------------- MODULE LogStorageProofs --------------------------
(***************************************************************************)
(* Theorems about LogStorage, for every log, number of reads and maximum   *)
(* of live entries: with a backend that does not drop writes, no read of   *)
(* an entry of the log ever fails.                                         *)
(***************************************************************************)
EXTENDS LogStorage, TLAPS

\* Metalogs end at increasing sequence numbers.
LEMMA EndsIncrease ==
    /\ NumMetaLogs \in Nat
    /\ \A p \in 0..NumMetaLogs : End(p) \in Nat
    /\ \A p, q \in 0..NumMetaLogs : p <= q => End(p) <= End(q)
<1>1. NumMetaLogs \in Nat
    BY StorageAssumption DEF NumMetaLogs
<1>2. \A p \in 0..NumMetaLogs : End(p) \in Nat
    BY StorageAssumption DEF NumMetaLogs, End
<1>3. \A p, q \in 0..NumMetaLogs : p < q => End(p) < End(q)
    BY StorageAssumption
<1>4. ASSUME NEW p \in 0..NumMetaLogs, NEW q \in 0..NumMetaLogs, p <= q
      PROVE  End(p) <= End(q)
    <2>1. CASE p = q
        BY <1>2, <2>1
    <2>2. CASE p < q
        <3>1. End(p) < End(q)
            BY <1>3, <2>2
        <3>2. End(p) \in Nat /\ End(q) \in Nat
            BY <1>2
        <3>3. QED
            BY <3>1, <3>2
    <2>3. QED
        BY <1>1, <1>4, <2>1, <2>2
<1>5. QED
    BY <1>1, <1>2, <1>4

\* The entries of this node's shards are in the log.
LEMMA MyEntriesInLog ==
    \A s \in MyEntries : s \in Nat /\ s < End(NumMetaLogs)
BY StorageAssumption, EndsIncrease

\* What AdvanceMetaLogProgress applies leaves no gap: up to the end of the last
\* applied metalog, every entry of this node's shards is applied now or was
\* before.
LEMMA NoGap ==
    ASSUME position \in 0..NumMetaLogs,
           NEW pend \in SUBSET (0 .. (NumMetaLogs - 1)),
           NEW last \in Applied(pend), \A m \in Applied(pend) : m <= last,
           NEW s \in MyEntries, End(position) <= s, s < End(last + 1)
    PROVE  s \in UNION {EntriesOf(m) : m \in Applied(pend)}
<1>1. last \in pend /\ last \in 0 .. (NumMetaLogs - 1)
    BY DEF Applied
<1>2. s \in Nat /\ End(last) \in Nat /\ End(last + 1) \in Nat
    BY <1>1, MyEntriesInLog, EndsIncrease
<1>3. CASE End(last) <= s
    <2>1. s \in EntriesOf(last)
        BY <1>3 DEF EntriesOf
    <2>2. QED
        BY <2>1
<1>4. CASE s < End(last)
    <2>1. PICK j \in pend : s \in EntriesOf(j)
        BY <1>4 DEF Applied
    <2>2. j \in 0 .. (NumMetaLogs - 1) /\ End(j) <= s
        BY <2>1 DEF EntriesOf
    <2>3. End(j) \in Nat /\ End(j) <= End(last)
        BY <1>2, <1>4, <2>2, EndsIncrease
    <2>4. ASSUME NEW t \in MyEntries, End(position) <= t, t < End(j)
          PROVE  \E k \in pend : t \in EntriesOf(k)
        <3>1. t \in Nat /\ t < End(last)
            BY <1>2, <2>3, <2>4, MyEntriesInLog
        <3>2. QED
            BY <2>4, <3>1 DEF Applied
    <2>5. j \in Applied(pend)
        BY <2>4 DEF Applied
    <2>6. QED
        BY <2>1, <2>5
<1>5. QED
    BY <1>2, <1>3, <1>4
-----------------------------------------------------------------------------
(***************************************************************************)
(* The inductive invariant.  Ordered entries are live or persisted, what   *)
(* is persisted is in the database, and a flush that is under way has each *)
(* entry below its new position either written or still to write.  Reads   *)
(* wait only for entries that are not ordered, and are left to the         *)
(* database only for entries it has.                                       *)
(***************************************************************************)
Kept ==
    /\ \A m \in pendingMeta : m >= position
    /\ \A s \in live : s < End(position)
    /\ \A s \in MyEntries : s < End(position) => s \in live \/ s < persisted
    /\ \A s \in MyEntries : s < persisted => s \in db
    /\ \A s \in db : installed
    /\ flushing # Idle => flushing.newPosition >= persisted
    /\ Alive => \A s \in MyEntries : s < flushing.newPosition => s \in db \cup flushing.todo

Answerable ==
    /\ \A r \in pendingReads : r.seqnum >= End(position)
    /\ \A r \in lookups : r.seqnum \in db
    /\ ReadsSucceed
    /\ NoReadPendingAtFinalize

IInv == TypeOK /\ Kept /\ Answerable

\* The invariant gives the property.
LEMMA KeptIsOrderedIsKept == Kept => OrderedIsKept
BY DEF Kept, OrderedIsKept

\* The initial state satisfies the invariant.
LEMMA InitIInv == Init => IInv
<1> SUFFICES ASSUME Init PROVE IInv
    OBVIOUS
<1>1. End(0) = 0 /\ NumMetaLogs \in Nat /\ End(NumMetaLogs) \in Nat /\ MaxReads \in Nat
    BY EndsIncrease, StorageAssumption DEF End
<1>2. TypeOK
    <2>1. flushing \in [todo : SUBSET MyEntries, newPosition : 0 .. End(NumMetaLogs)]
        BY <1>1 DEF Init, Idle
    <2>2. /\ position \in 0..NumMetaLogs /\ numReads \in 0..MaxReads
          /\ persisted \in 0 .. End(NumMetaLogs)
        BY <1>1 DEF Init
    <2>3. QED
        BY <2>1, <2>2, Zenon DEF Init, TypeOK
<1>3. Kept
    BY <1>1, MyEntriesInLog DEF Init, Kept, Idle
<1>4. Answerable
    BY DEF Init, Answerable, ReadsSucceed, NoReadPendingAtFinalize
<1>5. QED
    BY <1>2, <1>3, <1>4 DEF IInv

-----------------------------------------------------------------------------
(* The metalogs that a handler applies.                                     *)

\* Applying metalogs keeps the entries and answers no read with a failure.
LEMMA ApplyMetaLogsKeeps ==
    ASSUME IInv, NEW pend \in SUBSET (0 .. (NumMetaLogs - 1)),
           \A m \in pend : m >= position, NEW app, app = {} \/ app = Applied(pend),
           ApplyMetaLogs(app), UNCHANGED <<flushVars, installed, lookups>>
    PROVE  /\ position' \in 0..NumMetaLogs
           /\ \A m \in pend \ app : m >= position'
           /\ live' \subseteq MyEntries
           /\ pendingReads' \subseteq Read
           /\ results' \subseteq
                 [id : 1..MaxReads, seqnum : MyEntries, status : {"ok", "failed"}]
           /\ \A s \in live' : s < End(position')
           /\ \A s \in MyEntries : s < End(position') => s \in live' \/ s < persisted'
           /\ \A r \in pendingReads' : r.seqnum >= End(position')
           /\ ReadsSucceed'
<1> DEFINE new == UNION {EntriesOf(m) : m \in app}
           ok  == {r \in pendingReads : r.seqnum \in new}
<1>1. TypeOK /\ Kept /\ Answerable
    BY DEF IInv
<1>2. /\ position \in 0..NumMetaLogs /\ live \subseteq MyEntries
      /\ pendingReads \subseteq Read /\ persisted' = persisted
      /\ results \subseteq [id : 1..MaxReads, seqnum : MyEntries, status : {"ok", "failed"}]
    BY <1>1, Zenon DEF TypeOK, flushVars
<1>3. /\ \A s \in live : s < End(position)
      /\ \A s \in MyEntries : s < End(position) => s \in live \/ s < persisted
      /\ \A r \in pendingReads : r.seqnum >= End(position)
      /\ \A r \in results : r.status = "ok"
    BY <1>1, Zenon DEF Kept, Answerable, ReadsSucceed
<1>4. CASE app = {} /\ UNCHANGED <<position, live, pendingReads, results>>
    BY <1>2, <1>3, <1>4, Zenon DEF ReadsSucceed
<1>5. CASE \E last \in app :
              LET past == {r \in pendingReads \ ok : r.seqnum < End(last)}
              IN  /\ \A m \in app : m <= last
                  /\ position' = last + 1
                  /\ live' = ShrinkLiveEntriesIfNeeded(live \cup new, persisted)
                  /\ pendingReads' = (pendingReads \ ok) \ past
                  /\ results' = results \cup {ReadResult(r, "ok") : r \in ok}
                                        \cup {ReadResult(r, "failed") : r \in past}
    <2> DEFINE past(l) == {r \in pendingReads \ ok : r.seqnum < End(l)}
    <2>1. PICK last \in app :
              /\ \A m \in app : m <= last
              /\ position' = last + 1
              /\ live' = ShrinkLiveEntriesIfNeeded(live \cup new, persisted)
              /\ pendingReads' = (pendingReads \ ok) \ past(last)
              /\ results' = results \cup {ReadResult(r, "ok") : r \in ok}
                                    \cup {ReadResult(r, "failed") : r \in past(last)}
        BY <1>5, Zenon
    <2>2. app = Applied(pend) /\ app \subseteq 0 .. (NumMetaLogs - 1)
        BY <2>1, Zenon DEF Applied
    <2>3. /\ last \in 0 .. (NumMetaLogs - 1) /\ last + 1 \in 0..NumMetaLogs
          /\ End(last) \in Nat /\ End(last + 1) \in Nat /\ End(last) <= End(last + 1)
          /\ End(position) \in Nat
        BY <1>2, <2>2, EndsIncrease
    <2>4. \A s \in MyEntries : End(position) <= s /\ s < End(last + 1) => s \in new
        <3> SUFFICES ASSUME NEW s \in MyEntries, End(position) <= s, s < End(last + 1)
                     PROVE  s \in UNION {EntriesOf(m) : m \in Applied(pend)}
            BY <2>2
        <3>1. last \in Applied(pend) /\ \A m \in Applied(pend) : m <= last
            BY <2>1, <2>2
        <3>2. QED
            BY <1>2, <3>1, NoGap
    <2>5. \A s \in new : s \in MyEntries /\ s < End(last + 1)
        <3> SUFFICES ASSUME NEW m \in app, NEW s \in EntriesOf(m)
                     PROVE  s \in MyEntries /\ s < End(last + 1)
            OBVIOUS
        <3>1. m \in 0 .. (NumMetaLogs - 1) /\ m <= last
            BY <2>1, <2>2
        <3>2. s \in MyEntries /\ s < End(m + 1)
            BY DEF EntriesOf
        <3>3. End(m + 1) \in Nat /\ End(m + 1) <= End(last + 1) /\ s \in Nat
            BY <2>3, <3>1, <3>2, EndsIncrease, MyEntriesInLog
        <3>4. QED
            BY <2>3, <3>2, <3>3
    <2>6. past(last) = {}
        <3> SUFFICES ASSUME NEW r \in pendingReads, r.seqnum < End(last)
                     PROVE  r.seqnum \in new
            OBVIOUS
        <3>1. r.seqnum \in MyEntries /\ r.seqnum >= End(position)
            BY <1>2, <1>3 DEF Read
        <3>2. r.seqnum \in Nat /\ r.seqnum < End(last + 1)
            BY <2>3, <3>1, MyEntriesInLog
        <3>3. QED
            BY <2>3, <2>4, <3>1, <3>2
    <2>7. /\ live' \subseteq live \cup new
          /\ \A s \in live \cup new : s \in live' \/ s < persisted
        <3>1. \A s \in live \cup new : s >= persisted \/ s < persisted
            BY <1>1, <1>2, <2>5, MyEntriesInLog, EndsIncrease DEF TypeOK
        <3>2. QED
            BY <2>1, <3>1, Zenon DEF ShrinkLiveEntriesIfNeeded
    <2>8. position' \in 0..NumMetaLogs /\ live' \subseteq MyEntries
        BY <1>2, <2>1, <2>3, <2>5, <2>7
    <2>9. \A s \in live' : s < End(position')
        <3> SUFFICES ASSUME NEW s \in live' PROVE s < End(last + 1)
            BY <2>1
        <3>1. CASE s \in new
            BY <2>5, <3>1
        <3>2. CASE s \in live
            <4>1. s \in Nat /\ s < End(position)
                BY <1>2, <1>3, <3>2, MyEntriesInLog
            <4>2. End(position) <= End(last + 1)
                <5>1. position <= last + 1
                    BY <1>2, <2>1, <2>2, <2>3 DEF Applied
                <5>2. QED
                    BY <1>2, <2>3, <5>1, EndsIncrease
            <4>3. QED
                BY <2>3, <4>1, <4>2
        <3>3. QED
            BY <2>7, <3>1, <3>2
    <2>10. \A s \in MyEntries : s < End(position') => s \in live' \/ s < persisted'
        <3> SUFFICES ASSUME NEW s \in MyEntries, s < End(last + 1)
                     PROVE  s \in live' \/ s < persisted
            BY <1>2, <2>1
        <3>1. s \in Nat
            BY MyEntriesInLog
        <3>2. CASE s < End(position)
            BY <1>3, <2>7, <3>2
        <3>3. CASE End(position) <= s
            BY <2>4, <2>7, <3>3
        <3>4. QED
            BY <2>3, <3>1, <3>2, <3>3
    <2>11. \A r \in pendingReads' : r.seqnum >= End(position')
        <3> SUFFICES ASSUME NEW r \in pendingReads, r \notin ok
                     PROVE  r.seqnum >= End(last + 1)
            BY <2>1
        <3>1. r.seqnum \in MyEntries /\ r.seqnum >= End(position) /\ r.seqnum \notin new
            BY <1>2, <1>3 DEF Read
        <3>2. r.seqnum \in Nat
            BY <3>1, MyEntriesInLog
        <3>3. QED
            BY <2>3, <2>4, <3>1, <3>2
    <2>12. results' = results \cup {ReadResult(r, "ok") : r \in ok}
        BY <2>1, <2>6, Zenon
    <2>13. \A r \in ok : /\ ReadResult(r, "ok").status = "ok"
                         /\ ReadResult(r, "ok") \in
                              [id : 1..MaxReads, seqnum : MyEntries, status : {"ok", "failed"}]
        BY <1>2 DEF ReadResult, Read
    <2>14. ReadsSucceed' /\ results' \subseteq
               [id : 1..MaxReads, seqnum : MyEntries, status : {"ok", "failed"}]
        BY <1>2, <1>3, <2>12, <2>13, Zenon DEF ReadsSucceed
    <2>15. pendingReads' \subseteq Read
        BY <1>2, <2>1
    <2>16. \A m \in pend \ app : m >= position'
        <3> SUFFICES ASSUME NEW m \in pend, m < last + 1 PROVE m \in app
            BY <2>1, <2>3
        <3>1. m \in 0 .. (NumMetaLogs - 1) /\ m <= last
            BY <2>3
        <3>2. End(m) \in Nat /\ End(m) <= End(last)
            BY <2>3, <3>1, EndsIncrease
        <3>3. ASSUME NEW t \in MyEntries, End(position) <= t, t < End(m)
              PROVE  \E k \in pend : t \in EntriesOf(k)
            <4>1. t \in Nat /\ t < End(last)
                BY <2>3, <3>2, <3>3, MyEntriesInLog
            <4>2. QED
                BY <2>1, <2>2, <3>3, <4>1 DEF Applied
        <3>4. QED
            BY <2>2, <3>3 DEF Applied
    <2>17. QED
        BY <2>8, <2>9, <2>10, <2>11, <2>14, <2>15, <2>16
<1>6. QED
    BY <1>4, <1>5, Zenon DEF ApplyMetaLogs

-----------------------------------------------------------------------------
(* One lemma per action.                                                    *)

\* A METALOGS message keeps the invariant.
LEMMA OnRecvNewMetaLogsIInv ==
    ASSUME IInv, NEW m \in 0 .. (NumMetaLogs - 1), OnRecvNewMetaLogs(m)
    PROVE  IInv'
<1> DEFINE pend == pendingMeta \cup {m}
           app  == Applied(pend)
<1>1. TypeOK /\ Kept /\ Answerable
    BY DEF IInv
<1>2. /\ ApplyMetaLogs(app) /\ pendingMeta' = pend \ app
      /\ UNCHANGED <<flushVars, installed, lookups, numReads, sealed, phase>>
      /\ m >= position
    BY DEF OnRecvNewMetaLogs
<1>3. pend \in SUBSET (0 .. (NumMetaLogs - 1)) /\ \A i \in pend : i >= position
    BY <1>1, <1>2 DEF TypeOK, Kept
<1>4. /\ position' \in 0..NumMetaLogs
      /\ \A i \in pend \ app : i >= position'
      /\ live' \subseteq MyEntries /\ pendingReads' \subseteq Read
      /\ results' \subseteq
            [id : 1..MaxReads, seqnum : MyEntries, status : {"ok", "failed"}]
      /\ \A s \in live' : s < End(position')
      /\ \A s \in MyEntries : s < End(position') => s \in live' \/ s < persisted'
      /\ \A r \in pendingReads' : r.seqnum >= End(position')
      /\ ReadsSucceed'
    BY <1>2, <1>3, ApplyMetaLogsKeeps
<1>5. TypeOK'
    BY <1>1, <1>2, <1>3, <1>4, Zenon DEF TypeOK, flushVars
<1>6. Kept'
    BY <1>1, <1>2, <1>4, Zenon DEF Kept, Alive, flushVars
<1>7. Answerable'
    BY <1>1, <1>2, <1>4, Zenon DEF Answerable, NoReadPendingAtFinalize, flushVars
<1>8. QED
    BY <1>5, <1>6, <1>7 DEF IInv

\* A READ_AT keeps the invariant.
LEMMA HandleReadAtRequestIInv ==
    ASSUME IInv, NEW s \in MyEntries, HandleReadAtRequest(s)
    PROVE  IInv'
<1> DEFINE r == [id |-> numReads', seqnum |-> s]
<1>1. TypeOK /\ Kept /\ Answerable
    BY DEF IInv
<1>2. /\ numReads < MaxReads /\ numReads' = numReads + 1 /\ ReadAt(r)
      /\ UNCHANGED <<metaVars, live, flushVars, installed, sealed, phase>>
    BY DEF HandleReadAtRequest
<1>3. numReads' \in 1..MaxReads /\ numReads' \in 0..MaxReads
    <2>1. numReads \in 0..MaxReads /\ MaxReads \in Nat
        BY <1>1, StorageAssumption DEF TypeOK
    <2>2. QED
        BY <1>2, <2>1
<1>4. r \in Read /\ r.seqnum = s
    BY <1>3 DEF Read
<1>5. /\ s \in Nat /\ End(position) \in Nat /\ persisted \in Nat
    BY <1>1, MyEntriesInLog, EndsIncrease DEF TypeOK
<1>6. Kept'
    BY <1>1, <1>2, Zenon DEF Kept, Alive, metaVars, flushVars
<1>7. CASE s >= End(position)
    <2>1. pendingReads' = pendingReads \cup {r} /\ UNCHANGED <<lookups, results>>
        BY <1>2, <1>4, <1>7, Zenon DEF ReadAt
    <2>2. TypeOK'
        BY <1>1, <1>2, <1>3, <1>4, <2>1, Zenon DEF TypeOK, metaVars, flushVars
    <2>3. Answerable'
        <3>1. \A x \in pendingReads' : x.seqnum >= End(position')
            BY <1>1, <1>2, <1>4, <1>7, <2>1, Zenon DEF Answerable, metaVars
        <3>2. QED
            BY <1>1, <1>2, <2>1, <3>1, Zenon
               DEF Answerable, ReadsSucceed, NoReadPendingAtFinalize, metaVars, flushVars
    <2>4. QED
        BY <1>6, <2>2, <2>3 DEF IInv
<1>8. CASE s < End(position) /\ s \notin live /\ s < persisted
    <2>1. lookups' = lookups \cup {r} /\ UNCHANGED <<pendingReads, results>>
        <3>1. ~(s >= End(position))
            BY <1>5, <1>8
        <3>2. QED
            BY <1>2, <1>4, <1>8, <3>1, Zenon DEF ReadAt
    <2>2. TypeOK'
        BY <1>1, <1>2, <1>3, <1>4, <2>1, Zenon DEF TypeOK, metaVars, flushVars
    <2>3. Answerable'
        <3>1. \A x \in lookups' : x.seqnum \in db'
            BY <1>1, <1>2, <1>4, <1>8, <2>1, Zenon DEF Answerable, Kept, flushVars
        <3>2. QED
            BY <1>1, <1>2, <2>1, <3>1, Zenon
               DEF Answerable, ReadsSucceed, NoReadPendingAtFinalize, metaVars
    <2>4. QED
        BY <1>6, <2>2, <2>3 DEF IInv
<1>9. CASE s < End(position) /\ s \in live
    <2>1. results' = results \cup {ReadResult(r, "ok")} /\ UNCHANGED <<pendingReads, lookups>>
        <3>1. ~(s >= End(position))
            BY <1>5, <1>9
        <3>2. QED
            BY <1>2, <1>4, <1>9, <3>1, Zenon DEF ReadAt
    <2>2. /\ ReadResult(r, "ok").status = "ok"
          /\ ReadResult(r, "ok") \in
                [id : 1..MaxReads, seqnum : MyEntries, status : {"ok", "failed"}]
        BY <1>3 DEF ReadResult
    <2>3. TypeOK'
        BY <1>1, <1>2, <1>3, <2>1, <2>2, Zenon DEF TypeOK, metaVars, flushVars
    <2>4. Answerable'
        BY <1>1, <1>2, <2>1, <2>2, Zenon
           DEF Answerable, ReadsSucceed, NoReadPendingAtFinalize, metaVars, flushVars
    <2>5. QED
        BY <1>6, <2>3, <2>4 DEF IInv
<1>10. s < End(position) => s \in live \/ s < persisted
    BY <1>1 DEF Kept
<1>11. QED
    BY <1>5, <1>7, <1>8, <1>9, <1>10

\* A lookup in the database finds its entry.
LEMMA ProcessReadFromDBIInv ==
    ASSUME IInv, NEW r \in lookups, ProcessReadFromDB(r)
    PROVE  IInv'
<1>1. TypeOK /\ Kept /\ Answerable
    BY DEF IInv
<1>2. r \in Read /\ r.seqnum \in db /\ installed
    BY <1>1, Zenon DEF TypeOK, Answerable, Kept
<1>3. /\ lookups' = lookups \ {r} /\ results' = results \cup {ReadResult(r, "ok")}
      /\ UNCHANGED <<metaVars, live, flushVars, installed, pendingReads, numReads, sealed, phase>>
    BY <1>2, Zenon DEF ProcessReadFromDB
<1>4. /\ ReadResult(r, "ok").status = "ok"
      /\ ReadResult(r, "ok") \in
            [id : 1..MaxReads, seqnum : MyEntries, status : {"ok", "failed"}]
    BY <1>2 DEF ReadResult, Read
<1>5. TypeOK'
    BY <1>1, <1>3, <1>4, Zenon DEF TypeOK, metaVars, flushVars
<1>6. Kept'
    BY <1>1, <1>3, Zenon DEF Kept, Alive, metaVars, flushVars
<1>7. Answerable'
    BY <1>1, <1>3, <1>4, Zenon
       DEF Answerable, ReadsSucceed, NoReadPendingAtFinalize, metaVars, flushVars
<1>8. QED
    BY <1>5, <1>6, <1>7 DEF IInv

\* The flush takes all entries below its new position that are not written.
LEMMA GrabIInv ==
    ASSUME IInv, GrabLogEntriesForPersistence
    PROVE  IInv'
<1>1. TypeOK /\ Kept /\ Answerable
    BY DEF IInv
<1>2. PICK last \in live :
          /\ \A s \in live : s <= last
          /\ last >= persisted
          /\ flushing' = [todo |-> {s \in live : s >= persisted}, newPosition |-> last + 1]
    BY Zenon DEF GrabLogEntriesForPersistence
<1>3. UNCHANGED <<metaVars, live, persisted, db, installed, readVars, numReads, sealed, phase>>
    BY DEF GrabLogEntriesForPersistence
<1>4. /\ live \subseteq MyEntries /\ position \in 0..NumMetaLogs
      /\ persisted \in 0 .. End(NumMetaLogs)
    BY <1>1 DEF TypeOK
<1>5. /\ last \in Nat /\ last < End(position) /\ last < End(NumMetaLogs)
      /\ End(position) \in Nat /\ End(NumMetaLogs) \in Nat /\ persisted \in Nat
    BY <1>1, <1>4, MyEntriesInLog, EndsIncrease DEF Kept
<1>6. flushing' \in [todo : SUBSET MyEntries, newPosition : 0 .. End(NumMetaLogs)]
    <2>1. last + 1 \in 0 .. End(NumMetaLogs)
        BY <1>5
    <2>2. {s \in live : s >= persisted} \subseteq MyEntries
        BY <1>4
    <2>3. QED
        BY <1>2, <2>1, <2>2
<1>7. \A s \in MyEntries : s < flushing'.newPosition => s \in db' \cup flushing'.todo
    <2> SUFFICES ASSUME NEW s \in MyEntries, s < last + 1
                 PROVE  s \in db \cup {t \in live : t >= persisted}
        BY <1>2, <1>3
    <2>1. s \in Nat /\ s < End(position)
        BY <1>5, MyEntriesInLog
    <2>2. s \in live \/ s < persisted
        BY <1>1, <2>1 DEF Kept
    <2>3. s < persisted => s \in db
        BY <1>1 DEF Kept
    <2>4. QED
        BY <1>5, <2>1, <2>2, <2>3
<1>8. TypeOK'
    BY <1>1, <1>3, <1>6, Zenon DEF TypeOK, metaVars, readVars
<1>9. Kept'
    <2>1. flushing'.newPosition >= persisted'
        BY <1>2, <1>3, <1>5
    <2>2. QED
        BY <1>1, <1>3, <1>7, <2>1, Zenon DEF Kept, metaVars
<1>10. Answerable'
    BY <1>1, <1>3, Zenon
       DEF Answerable, ReadsSucceed, NoReadPendingAtFinalize, metaVars, readVars
<1>11. QED
    BY <1>8, <1>9, <1>10 DEF IInv

\* An entry is written, or the process dies.
LEMMA PutIInv ==
    ASSUME Backend # "rocksdb", IInv, PutLogEntryToDB
    PROVE  IInv'
<1>1. TypeOK /\ Kept /\ Answerable
    BY DEF IInv
<1>2. PICK s \in flushing.todo :
          /\ flushing' = [flushing EXCEPT !.todo = @ \ {s}]
          /\ db' = IF installed THEN db \cup {s} ELSE db
    BY Zenon DEF PutLogEntryToDB
<1>3. /\ Alive /\ phase' = IF installed THEN phase ELSE "not_created"
      /\ UNCHANGED <<metaVars, live, persisted, installed, readVars, numReads, sealed>>
    BY DEF PutLogEntryToDB
<1>4. flushing \in [todo : SUBSET MyEntries, newPosition : 0 .. End(NumMetaLogs)]
    BY <1>1 DEF TypeOK
<1>5. /\ flushing'.todo = flushing.todo \ {s} /\ s \in MyEntries
      /\ flushing'.newPosition = flushing.newPosition
      /\ flushing' \in [todo : SUBSET MyEntries, newPosition : 0 .. End(NumMetaLogs)]
    BY <1>2, <1>4
<1>6. /\ db' \subseteq MyEntries /\ db \subseteq db' /\ \A t \in db' : installed'
    BY <1>1, <1>2, <1>3, <1>5, Zenon DEF TypeOK, Kept
<1>7. phase' \in {"normal", "finalized", "not_created", "not_sufficient", "pending_reads"}
    BY <1>1, <1>3, Zenon DEF TypeOK
<1>8. TypeOK'
    BY <1>1, <1>3, <1>5, <1>6, <1>7, Zenon DEF TypeOK, metaVars, readVars
<1>9. ASSUME Alive', NEW t \in MyEntries, t < flushing'.newPosition
      PROVE  t \in db' \cup flushing'.todo
    <2>1. installed
        BY <1>3, <1>9 DEF Alive
    <2>2. t \in db \cup flushing.todo
        BY <1>1, <1>3, <1>5, <1>9, Zenon DEF Kept
    <2>3. QED
        BY <1>2, <1>5, <2>1, <2>2
<1>10. Kept'
    <2>1. flushing # Idle
        BY <1>2 DEF Idle
    <2>2. flushing'.newPosition >= persisted'
        BY <1>1, <1>3, <1>5, <2>1 DEF Kept
    <2>3. QED
        BY <1>1, <1>3, <1>6, <1>9, <2>2, Zenon DEF Kept, metaVars
<1>11. phase' # "pending_reads"
    BY <1>3 DEF Alive
<1>12. Answerable'
    BY <1>1, <1>3, <1>6, <1>11, Zenon
       DEF Answerable, ReadsSucceed, NoReadPendingAtFinalize, metaVars, readVars
<1>13. QED
    BY <1>8, <1>10, <1>12 DEF IInv

\* Only entries that are written are forgotten.
LEMMA LogEntriesPersistedIInv ==
    ASSUME IInv, LogEntriesPersisted
    PROVE  IInv'
<1>1. TypeOK /\ Kept /\ Answerable
    BY DEF IInv
<1>2. /\ Alive /\ flushing # Idle /\ flushing.todo = {} /\ persisted' = flushing.newPosition
      /\ live' = ShrinkLiveEntriesIfNeeded(live, flushing.newPosition)
      /\ flushing' = Idle
      /\ UNCHANGED <<metaVars, db, installed, readVars, numReads, sealed, phase>>
    BY DEF LogEntriesPersisted
<1>3. /\ flushing \in [todo : SUBSET MyEntries, newPosition : 0 .. End(NumMetaLogs)]
      /\ live \subseteq MyEntries /\ persisted \in 0 .. End(NumMetaLogs)
      /\ End(NumMetaLogs) \in Nat /\ position \in 0..NumMetaLogs
    BY <1>1, EndsIncrease DEF TypeOK
<1>4. persisted' \in 0 .. End(NumMetaLogs)
    BY <1>2, <1>3
<1>5. flushing' \in [todo : SUBSET MyEntries, newPosition : 0 .. End(NumMetaLogs)]
    BY <1>2, <1>3 DEF Idle
<1>6. live' \subseteq live /\ \A s \in live : s \in live' \/ s < persisted'
    <2>1. \A s \in live : s >= persisted' \/ s < persisted'
        BY <1>3, <1>4, MyEntriesInLog
    <2>2. QED
        BY <1>2, <2>1, Zenon DEF ShrinkLiveEntriesIfNeeded
<1>7. TypeOK'
    BY <1>1, <1>2, <1>4, <1>5, <1>6, Zenon DEF TypeOK, metaVars, readVars
<1>8. \A s \in MyEntries : s < persisted' => s \in db'
    BY <1>1, <1>2, Zenon DEF Kept
<1>9. \A s \in MyEntries : s < End(position') => s \in live' \/ s < persisted'
    <2> SUFFICES ASSUME NEW s \in MyEntries, s < End(position), s \notin live
                 PROVE  s < persisted'
        BY <1>2, <1>6, Zenon DEF metaVars
    <2>1. s \in Nat /\ s < persisted
        BY <1>1, MyEntriesInLog DEF Kept
    <2>2. persisted <= persisted'
        BY <1>1, <1>2, <1>3 DEF Kept
    <2>3. QED
        BY <1>3, <1>4, <2>1, <2>2
<1>10. Kept'
    <2>1. \A s \in MyEntries : ~(s < flushing'.newPosition)
        BY <1>2, MyEntriesInLog DEF Idle
    <2>2. QED
        BY <1>1, <1>2, <1>6, <1>8, <1>9, <2>1, Zenon DEF Kept, metaVars
<1>11. Answerable'
    BY <1>1, <1>2, Zenon
       DEF Answerable, ReadsSucceed, NoReadPendingAtFinalize, metaVars, readVars
<1>12. QED
    BY <1>7, <1>10, <1>11 DEF IInv

\* The controller's and the ZooKeeper thread's other steps change nothing that
\* the invariant is about.
LEMMA InstallOrFinalizeIInv ==
    ASSUME IInv, InstallLogSpace \/ FinalizeView
    PROVE  IInv'
<1>1. TypeOK /\ Kept /\ Answerable
    BY DEF IInv
<1>2. /\ UNCHANGED <<metaVars, live, flushVars, readVars, numReads, phase>>
      /\ installed' \in BOOLEAN /\ sealed' \in BOOLEAN
      /\ (installed => installed')
    BY <1>1, Zenon DEF InstallLogSpace, FinalizeView, TypeOK
<1>3. TypeOK'
    BY <1>1, <1>2, Zenon DEF TypeOK, metaVars, flushVars, readVars
<1>4. Kept'
    BY <1>1, <1>2, Zenon DEF Kept, Alive, metaVars, flushVars
<1>5. Answerable'
    BY <1>1, <1>2, Zenon
       DEF Answerable, ReadsSucceed, NoReadPendingAtFinalize, metaVars, flushVars, readVars
<1>6. QED
    BY <1>3, <1>4, <1>5 DEF IInv

\* When the final position is reached, no read is pending.
LEMMA OnViewFinalizedIInv ==
    ASSUME IInv, OnViewFinalized
    PROVE  IInv'
<1> DEFINE pend == pendingMeta \cup {m \in FinalTail : m >= position}
           app  == IF position = NumMetaLogs THEN {} ELSE Applied(pend)
<1>1. TypeOK /\ Kept /\ Answerable
    BY DEF IInv
<1>2. /\ ApplyMetaLogs(app) /\ pendingMeta' = pendingMeta \ app
      /\ phase' = IF position' < NumMetaLogs THEN "not_sufficient"
                  ELSE IF pendingReads' # {} THEN "pending_reads"
                  ELSE "finalized"
      /\ UNCHANGED <<flushVars, installed, lookups, numReads, sealed>>
      /\ phase = "normal"
    BY DEF OnViewFinalized
<1>3. pend \in SUBSET (0 .. (NumMetaLogs - 1)) /\ \A i \in pend : i >= position
    BY <1>1, Zenon DEF TypeOK, Kept, FinalTail
<1>4. /\ position' \in 0..NumMetaLogs
      /\ \A i \in pend \ app : i >= position'
      /\ live' \subseteq MyEntries /\ pendingReads' \subseteq Read
      /\ results' \subseteq
            [id : 1..MaxReads, seqnum : MyEntries, status : {"ok", "failed"}]
      /\ \A s \in live' : s < End(position')
      /\ \A s \in MyEntries : s < End(position') => s \in live' \/ s < persisted'
      /\ \A r \in pendingReads' : r.seqnum >= End(position')
      /\ ReadsSucceed'
    <2>1. app = {} \/ app = Applied(pend)
        OBVIOUS
    <2>2. UNCHANGED <<flushVars, installed, lookups>>
        BY <1>2
    <2> HIDE DEF pend, app
    <2>3. QED
        BY <1>2, <1>3, <2>1, <2>2, ApplyMetaLogsKeeps
<1>5. phase' # "pending_reads"
    <2> SUFFICES ASSUME ~(position' < NumMetaLogs) PROVE pendingReads' = {}
        BY <1>2
    <2>1. position' = NumMetaLogs
        BY <1>4, EndsIncrease
    <2>2. ASSUME NEW r \in pendingReads' PROVE FALSE
        <3>1. r.seqnum \in MyEntries /\ r.seqnum >= End(NumMetaLogs)
            BY <1>4, <2>1 DEF Read
        <3>2. QED
            BY <3>1, MyEntriesInLog, EndsIncrease
    <2>3. QED
        BY <2>2
<1>6. phase' \in {"normal", "finalized", "not_created", "not_sufficient", "pending_reads"}
    BY <1>2
<1>7. TypeOK'
    BY <1>1, <1>2, <1>3, <1>4, <1>6, Zenon DEF TypeOK, flushVars
<1>8. Kept'
    BY <1>1, <1>2, <1>4, Zenon DEF Kept, Alive, flushVars
<1>9. Answerable'
    BY <1>1, <1>2, <1>4, <1>5, Zenon DEF Answerable, NoReadPendingAtFinalize, flushVars
<1>10. QED
    BY <1>7, <1>8, <1>9 DEF IInv
-----------------------------------------------------------------------------
(* The theorems.                                                            *)

\* Every step keeps the invariant, with a backend that does not drop writes.
LEMMA NextIInv ==
    ASSUME Backend # "rocksdb"
    PROVE  IInv /\ [Next]_vars => IInv'
<1> SUFFICES ASSUME IInv, [Next]_vars PROVE IInv'
    OBVIOUS
<1>1. CASE \E m \in 0 .. (NumMetaLogs - 1) : OnRecvNewMetaLogs(m)
    BY <1>1, OnRecvNewMetaLogsIInv
<1>2. CASE \E s \in MyEntries : HandleReadAtRequest(s)
    BY <1>2, HandleReadAtRequestIInv
<1>3. CASE \E r \in lookups : ProcessReadFromDB(r)
    BY <1>3, ProcessReadFromDBIInv
<1>4. CASE GrabLogEntriesForPersistence
    BY <1>4, GrabIInv
<1>5. CASE PutLogEntryToDB
    BY <1>5, PutIInv
<1>6. CASE LogEntriesPersisted
    BY <1>6, LogEntriesPersistedIInv
<1>7. CASE InstallLogSpace \/ FinalizeView
    BY <1>7, InstallOrFinalizeIInv
<1>8. CASE OnViewFinalized
    BY <1>8, OnViewFinalizedIInv
<1>9. CASE UNCHANGED vars
    <2>1. TypeOK' /\ Kept' /\ Answerable'
        BY <1>9, Zenon DEF IInv, TypeOK, Kept, Answerable, ReadsSucceed,
           NoReadPendingAtFinalize, Alive, vars, metaVars, flushVars, readVars
    <2>2. QED
        BY <2>1 DEF IInv
<1>10. QED
    BY <1>1, <1>2, <1>3, <1>4, <1>5, <1>6, <1>7, <1>8, <1>9 DEF Next

\* The inductive invariant holds in every reachable state.
THEOREM Invariance ==
    ASSUME Backend # "rocksdb"
    PROVE  Spec => []IInv
<1>1. Init => IInv
    BY InitIInv
<1>2. IInv /\ [Next]_vars => IInv'
    BY NextIInv
<1>3. QED
    BY <1>1, <1>2, PTL DEF Spec

\* The variables keep their types.
THEOREM TypeCorrect ==
    ASSUME Backend # "rocksdb"
    PROVE  Spec => []TypeOK
<1>1. IInv => TypeOK
    BY DEF IInv
<1>2. QED
    BY <1>1, Invariance, PTL

\* Every ordered entry is in memory or in the database at all times, however
\* the flush interleaves with new metalogs and with forgetting old entries.
THEOREM NothingForgotten ==
    ASSUME Backend # "rocksdb"
    PROVE  Spec => []OrderedIsKept
<1>1. IInv => OrderedIsKept
    BY KeptIsOrderedIsKept DEF IInv
<1>2. QED
    BY <1>1, Invariance, PTL

\* No READ_AT of an entry of the log is answered with DATA_LOST, whenever it
\* comes and whatever happens between the answer of ReadAt and the lookup.
THEOREM NoReadFails ==
    ASSUME Backend # "rocksdb"
    PROVE  Spec => []ReadsSucceed
<1>1. IInv => ReadsSucceed
    BY DEF IInv, Answerable
<1>2. QED
    BY <1>1, Invariance, PTL

\* The FATAL of LogStorage::OnFinalized is unreachable.
THEOREM FinalizeFindsNoRead ==
    ASSUME Backend # "rocksdb"
    PROVE  Spec => []NoReadPendingAtFinalize
<1>1. IInv => NoReadPendingAtFinalize
    BY DEF IInv, Answerable
<1>2. QED
    BY <1>1, Invariance, PTL
=============================================================================
