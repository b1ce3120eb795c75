------------------------------ MODULE ReadPath ------------------------------
(***************************************************************************)
(* The way of a read through the nodes (log/engine.cpp, engine_base.cpp,   *)
(* storage.cpp, storage_base.cpp) and the caches on it (cache.cpp).        *)
(*                                                                         *)
(* A function's engine asks an index, its own or that of another engine,   *)
(* which entry to read.  The engine with the index takes the entry from    *)
(* its cache, or asks a storage node for it; in each case the answer goes  *)
(* to the engine where the read began, which knows its reads by a number   *)
(* of its own.  There are no timeouts: a read ends when an answer comes.   *)
(*                                                                         *)
(* An entry carries auxiliary data, which is only in caches: any engine    *)
(* may set it, and a cache may drop entries and auxiliary data at any      *)
(* time.  When an index answers, and with what, is in module Index; when a *)
(* storage node answers is in module LogStorage.                           *)
(***************************************************************************)
EXTENDS Integers, FiniteSets, SequencesExt

CONSTANTS Engines, IndexEngines, Storages,
          Appended,    \* for each engine, the sequence numbers of what it appended
          Reads,       \* sets of: for each engine, the entries its reads ask for, 0 for none
          MaxProgress, \* bound: metalog progress of answers
          MaxAux,      \* bound: how many times auxiliary data is set
          Faults       \* bound: how many messages are not sent or lost, or entries lost

Entries == UNION {Appended[e] : e \in Engines}

VARIABLES
    reads,          \* what the reads ask for
    propagate,      \* slog_engine_propagate_auxdata
    started,        \* for each engine, next_local_op_id_
    onging_reads_,  \* for each engine
    held,           \* reads that wait for a view [origin, id]
    atIndex,        \* queries at an index [at, origin, id]
    net,            \* messages
    cache, aux,     \* log_cache_ of each node: entries, and auxiliary data (0: none)
    auxSet,         \* what auxiliary data was set for: the entries, in order
    answers,        \* for each engine and read, the responses to the function
    found,          \* for each engine and read, the progress of the index that answered
    broken,         \* reads of which a message was not sent, or that a storage node has not got
    lost,           \* reads of which the last message is lost
    strays,         \* responses that belong to no read
    faults

cacheVars == <<cache, aux, auxSet>>
readVars == <<started, onging_reads_, held, atIndex, answers, found, broken, lost, strays>>
vars == <<reads, propagate, cacheVars, readVars, net, faults>>

Op(e, id) == [origin |-> e, id |-> id]
OpOf(x) == Op(x.origin, x.id)
Target(op) == reads[op.origin][op.id]

Init ==
    /\ reads \in Reads /\ propagate \in BOOLEAN
    /\ started = [e \in Engines |-> 0] /\ onging_reads_ = [e \in Engines |-> {}]
    /\ held = {} /\ atIndex = {} /\ net = {}
    /\ cache = [e \in Engines |-> {}] /\ auxSet = <<>>
    /\ aux = [n \in Engines \cup Storages |-> [s \in Entries |-> 0]]
    /\ answers = [e \in Engines |-> [id \in DOMAIN reads[e] |-> <<>>]]
    /\ found = [e \in Engines |-> [id \in DOMAIN reads[e] |-> 0]]
    /\ broken = {} /\ lost = {} /\ strays = {} /\ faults = 0

Fault == faults < Faults /\ faults' = faults + 1

(***************************************************************************)
(* Messages.                                                               *)
(***************************************************************************)
ReadMessage(op, to) == op @@ [type |-> "READ", to |-> to]
ReadAtMessage(q, to, s, p) ==
    OpOf(q) @@ [type |-> "READ_AT", to |-> to, from |-> q.at, seqnum |-> s, progress |-> p]
Response(op, to, result, s, a, p) ==
    op @@ [type |-> "RESPONSE", to |-> to, result |-> result, seqnum |-> s, aux |-> a, progress |-> p]
SetAuxDataMessage(to, s, a) == [type |-> "SET_AUXDATA", to |-> to, seqnum |-> s, aux |-> a]

IsRead(m) == m.type # "SET_AUXDATA"

\* SendReadResponse, SendReadFailureResponse, SendEngineResponse: if the response
\* is not sent, nobody hears of it.
SendResponse(rest, m) ==
    \/ net' = rest \cup {m} /\ UNCHANGED <<lost, faults>>
    \/ Fault /\ net' = rest /\ lost' = lost \cup {OpOf(m)}

\* FinishLocalOpWithResponse, FinishLocalOpWithFailure, after the read is taken
\* from onging_reads_.
Finish(op, result, s, a, p) ==
    /\ onging_reads_' = [onging_reads_ EXCEPT ![op.origin] = @ \ {op.id}]
    /\ answers' = [answers EXCEPT ![op.origin][op.id] =
                      Append(@, [result |-> result, seqnum |-> s, aux |-> a, progress |-> p])]

(***************************************************************************)
(* The engine where the read begins.                                       *)
(***************************************************************************)
\* To the engine's own index, ...
MakeLocalQuery(op) ==
    /\ op.origin \in IndexEngines
    /\ atIndex' = atIndex \cup {op @@ [at |-> op.origin]}
    /\ UNCHANGED <<net, answers, broken, faults>>

\* ... or to another one's, with flags that choose this by chance.
\* SendIndexReadRequest tries three engines; it does not send to its own.
SendIndexReadRequest(op) ==
    LET others == IndexEngines \ {op.origin} IN
    /\ UNCHANGED atIndex
    /\ \/ \E e \in others : net' = net \cup {ReadMessage(op, e)}
          /\ UNCHANGED <<answers, broken, faults>>
       \/ /\ IF op.origin \in IndexEngines THEN UNCHANGED faults ELSE Fault
          /\ answers' = [answers EXCEPT ![op.origin][op.id] =
                Append(@, [result |-> "DATA_LOST", seqnum |-> 0, aux |-> 0, progress |-> 0])]
          /\ broken' = broken \cup {op}
          /\ UNCHANGED net

\* HandleLocalRead: first PutChecked, which a read that was on hold does again.
RouteRead(op) ==
    /\ MakeLocalQuery(op) \/ SendIndexReadRequest(op)
    /\ onging_reads_' = [onging_reads_ EXCEPT ![op.origin] =
          IF op \in broken' THEN @ \ {op.id} ELSE @ \cup {op.id}]

HandleLocalRead(e) ==
    /\ started[e] < Len(reads[e]) /\ started' = [started EXCEPT ![e] = @ + 1]
    /\ LET op == Op(e, started[e] + 1) IN
       \/ RouteRead(op) /\ UNCHANGED held
       \/ /\ held' = held \cup {op}
          /\ onging_reads_' = [onging_reads_ EXCEPT ![e] = @ \cup {op.id}]
          /\ UNCHANGED <<net, atIndex, answers, broken, faults>>
    /\ UNCHANGED <<reads, propagate, cacheVars, found, lost, strays>>

\* ProcessRequests, when the view has come.
ProcessRequests(op) ==
    /\ op \in held /\ held' = held \ {op} /\ RouteRead(op)
    /\ UNCHANGED <<reads, propagate, cacheVars, started, found, lost, strays>>

\* OnRecvResponse.  What was read goes to the cache, over auxiliary data that may
\* have been set since.
OnRecvResponse(m) ==
    /\ m \in net /\ m.type = "RESPONSE" /\ net' = net \ {m}
    /\ IF m.id \notin onging_reads_[m.to]
         THEN strays' = strays \cup {m} /\ UNCHANGED <<onging_reads_, answers, cache, aux>>
         ELSE /\ Finish(Op(m.to, m.id), m.result, m.seqnum, m.aux, m.progress)
              /\ IF m.result = "READ_OK"
                   THEN /\ cache' = [cache EXCEPT ![m.to] = @ \cup {m.seqnum}]
                        /\ aux' = IF m.aux = 0 THEN aux ELSE [aux EXCEPT ![m.to][m.seqnum] = m.aux]
                   ELSE UNCHANGED <<cache, aux>>
              /\ UNCHANGED strays
    /\ UNCHANGED <<reads, propagate, auxSet, started, held, atIndex, found, broken, lost, faults>>

(***************************************************************************)
(* The engine with the index.                                              *)
(***************************************************************************)
\* HandleRemoteRead, BuildIndexQuery.
HandleRemoteRead(m) ==
    /\ m \in net /\ m.type = "READ" /\ net' = net \ {m}
    /\ atIndex' = atIndex \cup {OpOf(m) @@ [at |-> m.to]}
    /\ UNCHANGED <<reads, propagate, cacheVars, started, onging_reads_, held, answers, found, broken,
                   lost, strays, faults>>

\* The result of a query is the engine's own, or goes to the other one.
Reply(q, result, s, a, p) ==
    IF q.at = q.origin
      THEN Finish(OpOf(q), result, s, a, p) /\ UNCHANGED <<net, lost, faults>>
      ELSE SendResponse(net, Response(OpOf(q), q.origin, result, s, a, p))
           /\ UNCHANGED <<onging_reads_, answers>>

\* SendStorageReadRequest tries storage nodes three times.
SendStorageReadRequest(q, s, p) ==
    \/ \E n \in Storages : net' = net \cup {ReadAtMessage(q, n, s, p)}
       /\ UNCHANGED <<onging_reads_, answers, broken, lost, faults>>
    \/ /\ Fault /\ broken' = broken \cup {OpOf(q)}
       /\ IF q.at = q.origin
            THEN Finish(OpOf(q), "DATA_LOST", 0, 0, 0) /\ UNCHANGED net
            ELSE /\ net' = net \cup {Response(OpOf(q), q.origin, "DATA_LOST", 0, 0, 0)}
                 /\ UNCHANGED <<onging_reads_, answers>>
       /\ UNCHANGED lost

\* ProcessIndexFoundResult.
ProcessIndexFoundResult(q, s, p) ==
    IF s \in cache[q.at]
      THEN Reply(q, "READ_OK", s, aux[q.at][s], p) /\ UNCHANGED broken
      ELSE SendStorageReadRequest(q, s, p)

\* ProcessIndexQueryResults, for a query that the index answers.
ProcessIndexQueryResults(q) ==
    /\ q \in atIndex /\ atIndex' = atIndex \ {q}
    /\ \E p \in 1 .. MaxProgress :
         /\ found' = [found EXCEPT ![q.origin][q.id] = p]
         /\ IF Target(OpOf(q)) = 0
              THEN Reply(q, "EMPTY", 0, 0, p) /\ UNCHANGED broken
              ELSE ProcessIndexFoundResult(q, Target(OpOf(q)), p)
    /\ UNCHANGED <<reads, propagate, cacheVars, started, held, strays>>

(***************************************************************************)
(* The storage node.                                                       *)
(***************************************************************************)
\* Where the answer goes.  A mutated form first: to the engine that asked.
EngineThatAsked(request) == request.from

ResponseNode(request) == request.origin

\* ProcessReadResults, ProcessReadFromDB, SendEngineLogResult.
ProcessReadResults(m) ==
    /\ m \in net /\ m.type = "READ_AT"
    /\ \/ /\ SendResponse(net \ {m}, Response(OpOf(m), ResponseNode(m), "READ_OK", m.seqnum,
                                              aux[m.to][m.seqnum], m.progress))
          /\ UNCHANGED broken
       \/ /\ Fault /\ broken' = broken \cup {OpOf(m)}
          /\ net' = (net \ {m}) \cup {Response(OpOf(m), ResponseNode(m), "DATA_LOST", 0, 0, 0)}
          /\ UNCHANGED lost
    /\ UNCHANGED <<reads, propagate, cacheVars, started, onging_reads_, held, atIndex, answers, found,
                   strays>>

(***************************************************************************)
(* Auxiliary data and caches.                                              *)
(***************************************************************************)
\* HandleLocalSetAuxData, PropagateAuxData: to the storage nodes, if the entry is
\* in the cache, too.
HandleLocalSetAuxData(e, s) ==
    /\ Len(auxSet) < MaxAux /\ auxSet' = Append(auxSet, s)
    /\ aux' = [aux EXCEPT ![e][s] = Len(auxSet')]
    /\ net' = IF propagate /\ s \in cache[e]
                THEN net \cup {SetAuxDataMessage(n, s, Len(auxSet')) : n \in Storages} ELSE net
    /\ UNCHANGED <<reads, propagate, cache, readVars, faults>>

\* OnRecvLogAuxData of a storage node.
OnRecvLogAuxData(m) ==
    /\ m \in net /\ m.type = "SET_AUXDATA" /\ net' = net \ {m}
    /\ aux' = [aux EXCEPT ![m.to][m.seqnum] = m.aux]
    /\ UNCHANGED <<reads, propagate, cache, auxSet, readVars, faults>>

\* ProcessAppendResults: an engine caches what it has appended.
LogCachePut(e) ==
    /\ \E s \in Appended[e] \ cache[e] : cache' = [cache EXCEPT ![e] = @ \cup {s}]
    /\ UNCHANGED <<reads, propagate, aux, auxSet, readVars, net, faults>>

\* The least recently used records go when there is no room.
Evict ==
    /\ \/ \E e \in Engines : \E s \in cache[e] : cache' = [cache EXCEPT ![e] = @ \ {s}] /\ UNCHANGED aux
       \/ \E n \in DOMAIN aux, s \in Range(auxSet) : aux' = [aux EXCEPT ![n][s] = 0] /\ UNCHANGED cache
    /\ UNCHANGED <<reads, propagate, auxSet, readVars, net, faults>>

\* A connection breaks with a message on it.
Lose(m) ==
    /\ m \in net /\ Fault /\ net' = net \ {m}
    /\ lost' = IF IsRead(m) THEN lost \cup {OpOf(m)} ELSE lost
    /\ UNCHANGED <<reads, propagate, cacheVars, started, onging_reads_, held, atIndex, answers, found,
                   broken, strays>>

Next ==
    \/ \E e \in Engines : HandleLocalRead(e) \/ LogCachePut(e)
    \/ \E e \in Engines, s \in Entries : HandleLocalSetAuxData(e, s)
    \/ \E op \in held : ProcessRequests(op)
    \/ \E q \in atIndex : ProcessIndexQueryResults(q)
    \/ \E m \in net :
         \/ OnRecvResponse(m) \/ HandleRemoteRead(m) \/ ProcessReadResults(m) \/ OnRecvLogAuxData(m)
         \/ Lose(m)
    \/ Evict

Spec == Init /\ [][Next]_vars

(***************************************************************************)
(* Properties.                                                             *)
(***************************************************************************)
\* Where a read is: on hold, at an index, or in a message.
Places(op) == {x \in held \cup atIndex \cup {m \in net : IsRead(m)} : OpOf(x) = op}

\* A read is in onging_reads_ until it is answered, once, and meanwhile it is in
\* exactly one place of the system, unless its message was lost: no PollChecked
\* fails, no response comes for a read that is not there, and only the loss of a
\* message makes a read wait for ever.  Although engines number their reads
\* alike, the answer is the entry that the index found for this very read, with
\* the progress of that index, and auxiliary data that was set for that entry;
\* DATA_LOST comes only after something could not be sent or was not stored.
ReadsAreTrue ==
    /\ strays = {}
    /\ \A e \in Engines : \A id \in 1 .. started[e] :
         LET op == Op(e, id) IN
         /\ Len(answers[e][id]) = IF id \in onging_reads_[e] THEN 0 ELSE 1
         /\ Cardinality(Places(op)) = IF id \in onging_reads_[e] /\ op \notin lost THEN 1 ELSE 0
         /\ \A i \in DOMAIN answers[e][id] :
              LET a == answers[e][id][i] IN
              IF a.result = "DATA_LOST" THEN op \in broken
              ELSE /\ a.seqnum = Target(op) /\ a.progress = found[e][id]
                   /\ a.result = IF Target(op) = 0 THEN "EMPTY" ELSE "READ_OK"
                   /\ a.aux # 0 => auxSet[a.aux] = a.seqnum
=============================================================================
