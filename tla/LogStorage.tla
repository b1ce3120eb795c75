----------------------------- MODULE LogStorage -----------------------------
(***************************************************************************)
(* The log entries of one physical log in one view, on one storage node:   *)
(* from the metalog that orders them, through memory, to the database, and *)
(* the READ_AT requests that ask for them all the while.                   *)
(*                                                                         *)
(* Three threads work on it: I/O workers handle METALOGS and READ_AT, the  *)
(* background thread flushes live entries and then forgets the oldest, and *)
(* the ZooKeeper thread creates the database's column family after the     *)
(* view's log spaces, and finalizes them.  The storage node's lock is held *)
(* in each action, and released between them.                              *)
(*                                                                         *)
(* The entries are the sequence numbers below the last of CutEnds.  Those  *)
(* of this node's shards are already stored when a metalog orders them     *)
(* (module LogSpace).                                                      *)
(***************************************************************************)
EXTENDS Integers, Sequences, FiniteSets

CONSTANTS
    CutEnds,         \* the sequence number each metalog ends before
    MyEntries,       \* the sequence numbers of this node's shards
    NumTailEntries,  \* metalogs that view/finalize contains
    MaxLiveEntries,  \* slog_storage_max_live_entries
    Backend,         \* slog_storage_backend
    MaxReads         \* bound: READ_AT requests

NumMetaLogs == Len(CutEnds)

\* Where the metalogs below position p end in the log.
End(p) == IF p = 0 THEN 0 ELSE CutEnds[p]

ASSUME StorageAssumption ==
    /\ CutEnds \in Seq(Nat)
    /\ \A i, j \in 0..NumMetaLogs : i < j => End(i) < End(j)
    /\ MyEntries \subseteq 0 .. (End(NumMetaLogs) - 1)
    /\ NumTailEntries \in Nat /\ MaxLiveEntries \in Nat /\ MaxReads \in Nat
    /\ Backend \in {"rocksdb", "tkrzw"}

VARIABLES
    position,     \* metalog_position_
    pendingMeta,  \* pending_metalogs_
    live,         \* live_seqnums_, live_log_entries_
    persisted,    \* persisted_seqnum_position_
    installed,    \* whether the database has this log space
    db,           \* the entries in the database
    flushing,     \* FlushLogEntries: entries to put, and the position after
    pendingReads, \* pending_read_requests_
    lookups,      \* kLookupDB results that are not looked up yet
    results,      \* responses to READ_AT
    numReads,     \* READ_AT requests so far
    sealed,       \* view/finalize exists
    phase         \* "normal", "finalized", or how the process died

metaVars  == <<position, pendingMeta>>
flushVars == <<persisted, db, flushing>>
readVars  == <<pendingReads, lookups, results>>
vars == <<metaVars, live, flushVars, installed, readVars, numReads, sealed, phase>>

Idle == [todo |-> {}, newPosition |-> 0]

Init ==
    /\ position = 0 /\ pendingMeta = {}
    /\ live = {} /\ persisted = 0
    /\ installed = FALSE /\ db = {} /\ flushing = Idle
    /\ pendingReads = {} /\ lookups = {} /\ results = {} /\ numReads = 0
    /\ sealed = FALSE /\ phase = "normal"

Alive == phase \in {"normal", "finalized"}

-----------------------------------------------------------------------------
(* Metalogs, in lite mode.                                                  *)

EntriesOf(m) == {s \in MyEntries : End(m) <= s /\ s < End(m + 1)}

\* AdvanceMetaLogProgress applies the pending metalogs in order, up to the
\* first before which entries of this node's shards are missing.
Applied(pend) ==
    {i \in pend : \A s \in MyEntries :
        End(position) <= s /\ s < End(i) => \E j \in pend : s \in EntriesOf(j)}

\* The oldest entries are popped while there are too many, up to the first
\* that is not persisted.
ShrinkLiveEntriesIfNeeded(S, pos) ==
    {s \in S : s >= pos \/ Cardinality({t \in S : t >= s}) <= MaxLiveEntries}

ReadResult(r, status) == [id |-> r.id, seqnum |-> r.seqnum, status |-> status]

\* ApplyMetaLog for all metalogs of app: their entries of this node's shards
\* become live and answer the reads that wait for them; a read whose entry
\* comes before them "has past".
ApplyMetaLogs(app) ==
    LET new == UNION {EntriesOf(m) : m \in app}
        ok  == {r \in pendingReads : r.seqnum \in new}
    IN  \/ app = {} /\ UNCHANGED <<position, live, pendingReads, results>>
        \/ \E last \in app :
              LET past == {r \in pendingReads \ ok : r.seqnum < End(last)}
              IN  /\ \A m \in app : m <= last
                  /\ position' = last + 1
                  /\ live' = ShrinkLiveEntriesIfNeeded(live \cup new, persisted)
                  /\ pendingReads' = (pendingReads \ ok) \ past
                  /\ results' = results \cup {ReadResult(r, "ok") : r \in ok}
                                        \cup {ReadResult(r, "failed") : r \in past}

\* A METALOGS message.  Metalogs with entries of this node's shards are sent
\* to it (PropagateMetaLog); they may arrive in any order.
OnRecvNewMetaLogs(m) ==
    /\ Alive
    /\ EntriesOf(m) # {} /\ m >= position /\ m \notin pendingMeta
    /\ LET pend == pendingMeta \cup {m}
           app  == Applied(pend)
       IN  ApplyMetaLogs(app) /\ pendingMeta' = pend \ app
    /\ UNCHANGED <<flushVars, installed, lookups, numReads, sealed, phase>>

-----------------------------------------------------------------------------
(* Reads.                                                                   *)

\* Mutants: an entry that is being flushed is looked up in the database, and a
\* read waits for its entry even when that has been ordered.
ReadAtEarly(r) ==
    IF r.seqnum >= End(position)
    THEN pendingReads' = pendingReads \cup {r} /\ UNCHANGED <<lookups, results>>
    ELSE IF r.seqnum < persisted \/ r.seqnum < flushing.newPosition
    THEN lookups' = lookups \cup {r} /\ UNCHANGED <<pendingReads, results>>
    ELSE /\ results' = results \cup {ReadResult(r, "ok")}
         /\ UNCHANGED <<pendingReads, lookups>>
ReadAtWait(r) ==
    pendingReads' = pendingReads \cup {r} /\ UNCHANGED <<lookups, results>>

\* LogStorage::ReadAt: the read waits for a metalog, or is answered from
\* memory, or is left to the database.
ReadAt(r) ==
    IF r.seqnum >= End(position)
    THEN pendingReads' = pendingReads \cup {r} /\ UNCHANGED <<lookups, results>>
    ELSE IF r.seqnum \notin live /\ r.seqnum < persisted
    THEN lookups' = lookups \cup {r} /\ UNCHANGED <<pendingReads, results>>
    ELSE /\ results' = results \cup
                {ReadResult(r, IF r.seqnum \in live THEN "ok" ELSE "failed")}
         /\ UNCHANGED <<pendingReads, lookups>>

\* A READ_AT for an entry s that an index has found: it may have been ordered
\* by a metalog that this node has not seen yet.  What the database must
\* answer is looked up after the lock is released.
HandleReadAtRequest(s) ==
    /\ Alive /\ numReads < MaxReads
    /\ numReads' = numReads + 1
    /\ ReadAt([id |-> numReads', seqnum |-> s])
    /\ UNCHANGED <<metaVars, live, flushVars, installed, sealed, phase>>

\* Without the log space, or without the entry, the read fails (DATA_LOST).
ProcessReadFromDB(r) ==
    /\ Alive /\ r \in lookups
    /\ lookups' = lookups \ {r}
    /\ results' = results \cup
           {ReadResult(r, IF installed /\ r.seqnum \in db THEN "ok" ELSE "failed")}
    /\ UNCHANGED <<metaVars, live, flushVars, installed, pendingReads, numReads, sealed, phase>>

-----------------------------------------------------------------------------
(* The background thread: FlushLogEntries.                                  *)

\* The live entries that are not persisted, up to the last one.
GrabLogEntriesForPersistence ==
    /\ Alive /\ flushing = Idle
    /\ \E last \in live :
          /\ \A s \in live : s <= last
          /\ last >= persisted
          /\ flushing' = [todo |-> {s \in live : s >= persisted}, newPosition |-> last + 1]
    /\ UNCHANGED <<metaVars, live, persisted, db, installed, readVars, numReads, sealed, phase>>

\* The next entry goes to the database.  When that does not have the log space
\* yet, RocksDBBackend::Put only logs an error, and TkrzwDBMBackend::Put ends
\* the process.
PutLogEntryToDB ==
    /\ Alive
    /\ \E s \in flushing.todo :
          /\ \A t \in flushing.todo : s <= t
          /\ flushing' = [flushing EXCEPT !.todo = @ \ {s}]
          /\ db' = IF installed THEN db \cup {s} ELSE db
    /\ phase' = IF installed \/ Backend = "rocksdb" THEN phase ELSE "not_created"
    /\ UNCHANGED <<metaVars, live, persisted, installed, readVars, numReads, sealed>>

LogEntriesPersisted ==
    /\ Alive /\ flushing # Idle /\ flushing.todo = {}
    /\ persisted' = flushing.newPosition
    /\ live' = ShrinkLiveEntriesIfNeeded(live, flushing.newPosition)
    /\ flushing' = Idle
    /\ UNCHANGED <<metaVars, db, installed, readVars, numReads, sealed, phase>>

-----------------------------------------------------------------------------
(* The ZooKeeper thread.                                                    *)

\* The second half of the view-created callback; OnViewCreated, which makes
\* the log space that the other threads use, came before it.
InstallLogSpace ==
    /\ Alive /\ ~installed
    /\ installed' = TRUE
    /\ UNCHANGED <<metaVars, live, flushVars, readVars, numReads, sealed, phase>>

\* The controller finalizes the view.
FinalizeView ==
    /\ ~sealed /\ sealed' = TRUE
    /\ UNCHANGED <<metaVars, live, flushVars, installed, readVars, numReads, phase>>

FinalTail == {m \in 0 .. (NumMetaLogs - 1) : m >= NumMetaLogs - NumTailEntries}

\* Finalize with the last metalogs.  The process dies when they do not reach
\* the final position, and in OnFinalized when a read is still pending.
OnViewFinalized ==
    /\ sealed /\ installed /\ phase = "normal"
    /\ LET pend == pendingMeta \cup {m \in FinalTail : m >= position}
           app  == IF position = NumMetaLogs THEN {} ELSE Applied(pend)
       IN  /\ ApplyMetaLogs(app) /\ pendingMeta' = pendingMeta \ app
           /\ phase' = IF position' < NumMetaLogs THEN "not_sufficient"
                       ELSE IF pendingReads' # {} THEN "pending_reads"
                       ELSE "finalized"
    /\ UNCHANGED <<flushVars, installed, lookups, numReads, sealed>>

Next ==
    \/ \E m \in 0 .. (NumMetaLogs - 1) : OnRecvNewMetaLogs(m)
    \/ \E s \in MyEntries : HandleReadAtRequest(s)
    \/ \E r \in lookups : ProcessReadFromDB(r)
    \/ GrabLogEntriesForPersistence
    \/ PutLogEntryToDB
    \/ LogEntriesPersisted
    \/ InstallLogSpace
    \/ FinalizeView
    \/ OnViewFinalized

Spec == Init /\ [][Next]_vars

(***************************************************************************)
(* The metalogs that are sent arrive in the end, the threads run, and the  *)
(* flush timer fires again and again.  Nothing makes an engine read or the *)
(* controller finalize the view.                                           *)
(***************************************************************************)
Fairness ==
    /\ \A m \in 0 .. (NumMetaLogs - 1) : WF_vars(OnRecvNewMetaLogs(m))
    /\ WF_vars(\E r \in lookups : ProcessReadFromDB(r))
    /\ WF_vars(GrabLogEntriesForPersistence)
    /\ WF_vars(PutLogEntryToDB) /\ WF_vars(LogEntriesPersisted)
    /\ WF_vars(InstallLogSpace)

FairSpec == Spec /\ Fairness
-----------------------------------------------------------------------------
(* Properties.                                                              *)

Read == [id : 1..MaxReads, seqnum : MyEntries]

\* Every variable has the type its C++ counterpart gives it.
TypeOK ==
    /\ position \in 0..NumMetaLogs
    /\ pendingMeta \subseteq 0 .. (NumMetaLogs - 1)
    /\ live \subseteq MyEntries /\ db \subseteq MyEntries
    /\ persisted \in 0 .. End(NumMetaLogs)
    /\ flushing \in [todo : SUBSET MyEntries, newPosition : 0 .. End(NumMetaLogs)]
    /\ pendingReads \subseteq Read /\ lookups \subseteq Read
    /\ results \subseteq [id : 1..MaxReads, seqnum : MyEntries, status : {"ok", "failed"}]
    /\ numReads \in 0..MaxReads
    /\ installed \in BOOLEAN /\ sealed \in BOOLEAN
    /\ phase \in {"normal", "finalized", "not_created", "not_sufficient", "pending_reads"}

\* A read of an entry that the log contains never fails, whenever it comes:
\* before the node has seen the metalog, while the entry is being flushed, or
\* after it was forgotten (ReadAt and ProcessReadFromDB never answer
\* DATA_LOST).
ReadsSucceed == \A r \in results : r.status = "ok"

\* Every entry of this node's shards that a metalog has ordered is in memory
\* or in the database, and everything below the persisted position is in the
\* database (the comparison with persisted_seqnum_position_ in ReadAt).
OrderedIsKept ==
    \A s \in MyEntries :
        /\ s < End(position) => s \in live \cup db
        /\ s < persisted => s \in db

\* The FATAL "There are {} pending reads" of LogStorage::OnFinalized is never
\* reached: the final metalogs order every entry that an index has found.
NoReadPendingAtFinalize == phase # "pending_reads"

\* Every read is answered, unless the process dies: by a metalog, from memory
\* or after a lookup (ReadAt, ApplyMetaLog, ProcessReadFromDB).
ReadsAreAnswered ==
    <>[](Alive => \A i \in 1..numReads : \E r \in results : r.id = i)

=============================================================================
