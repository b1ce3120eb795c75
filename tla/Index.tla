------------------------------- MODULE Index -------------------------------
(***************************************************************************)
(* The index that an engine keeps of one physical log in one view, and the *)
(* queries it answers.                                                     *)
(*                                                                         *)
(* The index learns the metalogs, in "full" mode, and, from the storage    *)
(* nodes, which keys each log entry has.  The two arrive independently and *)
(* in any order, and each storage node of a shard sends the same data.     *)
(* Metalog by metalog, the index becomes complete up to its                *)
(* indexed_metalog_position_.  A query that carries the metalog progress   *)
(* its function has seen waits until the index has reached it.             *)
(*                                                                         *)
(* A key stands for a user log space and a tag of it (or no tag): the      *)
(* entries with that key form one seqnums_ vector of a PerSpaceIndex.      *)
(***************************************************************************)
EXTENDS Integers, Sequences, SequencesExt

CONSTANTS
    LogKeys,     \* the keys of each log entry; entry s is LogKeys[s + 1]
    LogShards,   \* the engine that appended each log entry
    CutEnds,     \* the sequence number each metalog ends before
    ViewId,      \* the id of the view; earlier views exist when it is not 0
    Keys,        \* the keys of queries
    MaxQueries,  \* bound: queries
    NDEBUG       \* whether DCHECKs are compiled out, as in release builds

ASSUME LogAssumption ==
    /\ LogKeys \in Seq(SUBSET Keys) /\ Len(LogShards) = Len(LogKeys)
    /\ CutEnds \in Seq(1..Len(LogKeys))
    /\ \A i \in 1..Len(CutEnds), j \in 1..Len(CutEnds) : i < j => CutEnds[i] < CutEnds[j]
    /\ ViewId \in Nat /\ MaxQueries \in Nat /\ NDEBUG \in BOOLEAN

NumMetaLogs == Len(CutEnds)

\* Where the metalogs below position p end in the log.
End(p) == IF p = 0 THEN 0 ELSE CutEnds[p]

kInvalidLogSeqNum == -1
NumLogs == End(NumMetaLogs)

(***************************************************************************)
(* Sequence numbers in queries are relative to this view: Past is one of   *)
(* an earlier view, Future one of a later view.                            *)
(***************************************************************************)
Past   == -1
Future == NumLogs + 1

IndexQuery ==
    [id : 1..MaxQueries, initial : BOOLEAN,
     direction : {"next", "prev", "next_b"},
     key : Keys, seqnum : Past..Future,
     progress : 0..NumMetaLogs,     \* metalog_progress, when initial
     prev : {kInvalidLogSeqNum, Future}]  \* prev_found_result

VARIABLES
    position,       \* metalog_position_
    pendingMeta,    \* pending_metalogs_
    received,       \* received_data_: sequence numbers with index data
    dataPosition,   \* data_received_seqnum_position_
    indexed,        \* indexed_metalog_position_
    content,        \* index_: the sequence numbers that were added
    pendingQueries, \* pending_queries_
    blockingReads,  \* blocking_reads_
    results,        \* what was sent back, by the polls of all handlers
    numQueries,     \* queries made
    sealed,         \* view/finalize exists
    phase           \* "normal", "finalized", or how the process died

metaVars  == <<position, pendingMeta>>
dataVars  == <<received, dataPosition, indexed, content>>
queryVars == <<pendingQueries, blockingReads, results>>
vars == <<metaVars, dataVars, queryVars, numQueries, sealed, phase>>

Init ==
    /\ position = 0 /\ pendingMeta = {}
    /\ received = {} /\ dataPosition = 0 /\ indexed = 0 /\ content = {}
    /\ pendingQueries = {} /\ blockingReads = {} /\ results = {}
    /\ numQueries = 0
    /\ sealed = FALSE /\ phase = "normal"

Alive == phase \in {"normal", "finalized"}

-----------------------------------------------------------------------------
(* Answering a query from the indexed entries c, at metalog position p.     *)

HasKey(c, k) == {s \in c : k \in LogKeys[s + 1]}

\* Mutant: upper_bound instead of lower_bound.
FindNextAfter(c, q) ==
    LET after == {s \in HasKey(c, q.key) : s > q.seqnum}
    IN  IF after = {} THEN kInvalidLogSeqNum ELSE Min(after)

\* PerSpaceIndex::FindNext and FindPrev.
FindNext(c, q) ==
    LET after == {s \in HasKey(c, q.key) : s >= q.seqnum}
    IN  IF after = {} THEN kInvalidLogSeqNum ELSE Min(after)
FindPrev(c, q) ==
    LET before == {s \in HasKey(c, q.key) : s <= q.seqnum}
    IN  IF before = {} THEN kInvalidLogSeqNum ELSE Max(before)

Result(q, p, state, seqnum) ==
    [query |-> q, state |-> state, seqnum |-> seqnum,
     progress |-> IF q.initial THEN p ELSE q.progress]

\* BuildContinueResult: what this view or a later one has found goes along.
ContinueResult(q, p, seqnum) ==
    Result(q, p, "continue", IF seqnum # kInvalidLogSeqNum THEN seqnum ELSE q.prev)

ProcessReadNext(c, p, q) ==
    LET s == FindNext(c, q)
    IN  IF q.seqnum = Future THEN Result(q, p, "empty", kInvalidLogSeqNum)
        ELSE IF q.seqnum = Past THEN ContinueResult(q, p, s)
        ELSE IF s # kInvalidLogSeqNum THEN Result(q, p, "found", s)
        ELSE IF q.prev # kInvalidLogSeqNum THEN Result(q, p, "found", q.prev)
        ELSE Result(q, p, "empty", kInvalidLogSeqNum)

ProcessReadPrev(c, p, q) ==
    LET s == FindPrev(c, q)
    IN  IF q.seqnum # Past /\ s # kInvalidLogSeqNum THEN Result(q, p, "found", s)
        ELSE IF ViewId > 0 THEN ContinueResult(q, p, kInvalidLogSeqNum)
        ELSE Result(q, p, "empty", kInvalidLogSeqNum)

\* ProcessBlockingQuery does not succeed: there is nothing to find yet.
Blocks(c, q) ==
    /\ q.direction = "next_b"
    /\ q.seqnum \notin {Past, Future} /\ FindNext(c, q) = kInvalidLogSeqNum

Answer(c, p, q) ==
    IF q.direction = "prev" THEN ProcessReadPrev(c, p, q) ELSE ProcessReadNext(c, p, q)

\* ProcessQuery for all queries of qs: those that block, and the others'
\* results.
Blocking(c, qs) == {q \in qs : Blocks(c, q)}
Answers(c, p, qs) == {Answer(c, p, q) : q \in qs \ Blocking(c, qs)}

-----------------------------------------------------------------------------
(* AdvanceIndexProgress, as a step of the part of the state it works on.    *)

Current ==
    [indexed |-> indexed, content |-> content, received |-> received,
     pending |-> pendingQueries, blocking |-> blockingReads, results |-> results]

\* Mutants: queries wait for one metalog more, and blocking reads are not tried
\* again.
AdvanceIndexProgressLate(st, pos, dpos, expired) ==
    LET p     == Max({i \in st.indexed .. pos : i = st.indexed \/ End(i) <= dpos})
        c     == st.content \cup {s \in st.received : s < End(p)}
        ready == {q \in st.pending : q.initial /\ q.progress < p}
    IN  [st EXCEPT !.indexed = p, !.content = c, !.received = @ \ c,
                   !.pending = @ \ ready, !.blocking = @ \cup Blocking(c, ready),
                   !.results = @ \cup Answers(c, p, ready)]
AdvanceIndexProgressNoRetry(st, pos, dpos, expired) ==
    LET p     == Max({i \in st.indexed .. pos : i = st.indexed \/ End(i) <= dpos})
        c     == st.content \cup {s \in st.received : s < End(p)}
        ready == {q \in st.pending : q.initial /\ q.progress <= p}
    IN  [st EXCEPT !.indexed = p, !.content = c, !.received = @ \ c,
                   !.pending = @ \ ready, !.blocking = @ \cup Blocking(c, ready),
                   !.results = @ \cup Answers(c, p, ready)]

\* The metalogs that cuts_ holds up to position pos are indexed as far as the
\* index data reaches; then blocking reads are tried again, the expired ones
\* for the last time, and the queries that waited for this are processed.
AdvanceIndexProgress(st, pos, dpos, expired) ==
    LET p     == Max({i \in st.indexed .. pos : i = st.indexed \/ End(i) <= dpos})
        c     == st.content \cup {s \in st.received : s < End(p)}
        ended == {q \in st.blocking : ~Blocks(c, q) \/ q \in expired}
        ready == {q \in st.pending : q.initial /\ q.progress <= p}
    IN  [indexed  |-> p,
         content  |-> c,
         received |-> st.received \ c,
         pending  |-> st.pending \ ready,
         blocking |-> (st.blocking \ ended) \cup Blocking(c, ready),
         results  |-> st.results \cup {Answer(c, p, q) : q \in ended}
                                 \cup Answers(c, p, ready)]

Become(st) ==
    /\ indexed' = st.indexed /\ content' = st.content /\ received' = st.received
    /\ pendingQueries' = st.pending /\ blockingReads' = st.blocking
    /\ results' = st.results

\* LogSpaceBase in full mode: the position that pend allows.
ReachedPosition(pend) ==
    Max({n \in position .. NumMetaLogs : \A i \in position .. (n - 1) : i \in pend})

\* OnMetaLogApplied for every metalog from position up to n, in order.
MetaLogsApplied(n, expired) ==
    FoldLeft(LAMBDA st, pos : AdvanceIndexProgress(st, pos, dataPosition, expired),
             Current, [i \in 1 .. (n - position) |-> position + i])

-----------------------------------------------------------------------------
(* The handlers of the engine.                                              *)

\* A METALOGS message with metalog m, which may come early, late or never.
OnRecvNewMetaLogs(m) ==
    /\ Alive
    /\ m >= position /\ m \notin pendingMeta
    /\ LET pend == pendingMeta \cup {m}
           n    == ReachedPosition(pend)
       IN  /\ position' = n
           /\ pendingMeta' = {i \in pend : i >= n}
           /\ \E expired \in SUBSET blockingReads :
              \E st \in {MetaLogsApplied(n, expired)} : Become(st)
    /\ UNCHANGED <<dataPosition, numQueries, sealed, phase>>

\* What a storage node of shard e sends in one INDEX_DATA message: its entries
\* in the metalogs it applied together, from position i to position j.
IndexData(e, i, j) == {s \in End(i) .. (End(j) - 1) : LogShards[s + 1] = e}

\* An INDEX_DATA message with the entries of data: ProvideIndexData.
OnRecvNewIndexData(data) ==
    /\ Alive
    /\ LET new  == {s \in data : s >= End(indexed)}
           recv == received \cup new
           dpos == Max({n \in dataPosition .. NumLogs :
                          \A s \in dataPosition .. (n - 1) : s \in recv})
       IN  /\ dataPosition' = dpos
           /\ \E expired \in SUBSET blockingReads :
              \E st \in {AdvanceIndexProgress([Current EXCEPT !.received = recv],
                                              position, dpos, expired)} : Become(st)
    /\ UNCHANGED <<metaVars, numQueries, sealed, phase>>

\* Mutant: the query waits for the metalogs only, not for their index data.
MakeQueryAtMetalog(q) ==
    /\ Alive
    /\ q.initial /\ q.prev = kInvalidLogSeqNum
    /\ IF q.progress <= position
       THEN /\ blockingReads' = blockingReads \cup Blocking(content, {q})
            /\ results' = results \cup Answers(content, indexed, {q})
            /\ UNCHANGED pendingQueries
       ELSE /\ pendingQueries' = pendingQueries \cup {q}
            /\ UNCHANGED <<blockingReads, results>>
    /\ UNCHANGED <<metaVars, dataVars, sealed, phase>>

\* MakeQuery with an initial query, from a local function or another engine.
MakeQuery(q) ==
    /\ Alive
    /\ q.initial /\ q.prev = kInvalidLogSeqNum
    /\ IF q.progress <= indexed
       THEN /\ blockingReads' = blockingReads \cup Blocking(content, {q})
            /\ results' = results \cup Answers(content, indexed, {q})
            /\ UNCHANGED pendingQueries
       ELSE /\ pendingQueries' = pendingQueries \cup {q}
            /\ UNCHANGED <<blockingReads, results>>
    /\ UNCHANGED <<metaVars, dataVars, sealed, phase>>

\* MakeQuery with a query that the index of the next view, on this engine,
\* continues here.  That view was created after this one was finalized.
\* finalized() is never true: the query waits at kMaxMetalogPosition.
MakeContinueQuery(q) ==
    /\ phase = "finalized"
    /\ ~q.initial /\ q.direction # "next_b"
    /\ pendingQueries' = pendingQueries \cup {q}
    /\ UNCHANGED <<metaVars, dataVars, blockingReads, results, sealed, phase>>

\* HandleRemoteRead with a query that another engine's index of the next view
\* continues here.  BuildIndexQuery decodes it as an initial query
\* ((flags | kReadInitialFlag) != 0), whose progress is of the next view: the
\* FATAL "Cannot process query with metalog_progress from the future".
HandleRemoteContinueQuery ==
    /\ Alive /\ sealed
    /\ phase' = "future_progress"
    /\ UNCHANGED <<metaVars, dataVars, queryVars, sealed>>

Query ==
    /\ numQueries < MaxQueries
    /\ numQueries' = numQueries + 1
    /\ \/ \E q \in IndexQuery : q.id = numQueries' /\ (MakeQuery(q) \/ MakeContinueQuery(q))
       \/ HandleRemoteContinueQuery

\* The controller finalizes the view.
FinalizeView ==
    /\ ~sealed /\ sealed' = TRUE
    /\ UNCHANGED <<metaVars, dataVars, queryVars, numQueries, phase>>

\* The engine finalizes the index: it applies the tail of the metalog and then
\* processes all pending queries (OnFinalized).  These should be continue
\* queries only: a debug build dies when an initial query is among them.
OnViewFinalized ==
    /\ sealed /\ phase = "normal"
    /\ \E expired \in SUBSET blockingReads :
       \E st \in {MetaLogsApplied(NumMetaLogs, expired)} :
              IF st.pending # {} /\ ~NDEBUG
              THEN /\ phase' = "dcheck"
                   /\ UNCHANGED <<metaVars, dataVars, queryVars>>
              ELSE /\ phase' = "finalized"
                   /\ position' = NumMetaLogs /\ pendingMeta' = {}
                   /\ Become([st EXCEPT
                        !.pending  = {},
                        !.blocking = @ \cup Blocking(st.content, st.pending),
                        !.results  = @ \cup Answers(st.content, st.indexed, st.pending)])
                   /\ UNCHANGED dataPosition
    /\ UNCHANGED <<numQueries, sealed>>

Next ==
    \/ \E m \in 0 .. (NumMetaLogs - 1) : OnRecvNewMetaLogs(m)
    \/ \E e \in ToSet(LogShards), i, j \in 0..NumMetaLogs : OnRecvNewIndexData(IndexData(e, i, j))
    \/ Query
    \/ FinalizeView
    \/ OnViewFinalized

Spec == Init /\ [][Next]_vars
-----------------------------------------------------------------------------
(* Properties.                                                              *)

QueryResult ==
    [query : IndexQuery, state : {"found", "empty", "continue"},
     seqnum : kInvalidLogSeqNum..Future, progress : 0..NumMetaLogs]

\* A read is answered from an index that includes the metalog position that
\* its function has seen: a function sees what it appended or read before
\* (the pending_queries_ of MakeQuery, released by AdvanceIndexProgress).
ReadsSeeTheirProgress ==
    \A r \in results : r.query.initial => r.progress >= r.query.progress

\* The answer to a read is exact for the metalog position it reports: between
\* the position asked for and the entry found there is no other entry with
\* that key, and nothing was missed when no entry was found.  This includes
\* blocking reads that wait while the index grows, and those that expire.
ReadsMissNothing ==
    \A r \in {x \in results : x.query.initial} :
        LET match == HasKey(0 .. (End(r.progress) - 1), r.query.key)
        IN  /\ r.seqnum \in match \cup {kInvalidLogSeqNum}
            /\ \A s \in match :
                  IF r.query.direction = "prev"
                  THEN s <= r.query.seqnum => s <= r.seqnum
                  ELSE s >= r.query.seqnum =>
                           r.seqnum \in 0..s \/ r.query.seqnum = Future

\* The FATAL "Cannot process query with metalog_progress from the future" of
\* Index::MakeQuery guards against a query that cannot reach this index.
NoQueryFromTheFuture == phase # "future_progress"

=============================================================================
