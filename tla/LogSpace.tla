------------------------------ MODULE LogSpace ------------------------------
(***************************************************************************)
(* The append path of one physical log in one view: the LogProducer of     *)
(* each engine and the LogStorage of each storage node.                    *)
(*                                                                         *)
(* An engine gives an entry the next local id of its shard and sends it to *)
(* the storage nodes of the shard.  Metalogs, decided elsewhere (modules   *)
(* MetaLogSpec and MetaLog), tell engines and storages which sequence      *)
(* numbers the entries have.  Both keep the metalog in "lite" mode: they   *)
(* follow only the shards they are interested in, and skip the metalogs    *)
(* that do not concern them.                                               *)
(*                                                                         *)
(* Messages are delayed and reordered.  A lost one is one that stays on    *)
(* its way forever: no action is forced to receive it.                     *)
(***************************************************************************)
EXTENDS Integers, Sequences, FiniteSetsExt

CONSTANTS
    Engines,          \* the engine nodes of the view: their node ids
    Storages,         \* the storage nodes of the view
    StorageNodes,     \* the storage nodes of each engine's shard
    IndexEngines,     \* the engines that keep an index of this physical log
    NumTailEntries,   \* the flag slog_num_tail_metalog_entries
    MaxLocalId,       \* bound: appends per engine
    MaxAppends        \* bound: appends of all engines

ASSUME NodeAssumption ==
    /\ IsFiniteSet(Engines) /\ Engines \subseteq Nat
    /\ Engines \cap Storages = {} /\ IndexEngines \subseteq Engines
    /\ StorageNodes \in [Engines -> (SUBSET Storages) \ {{}}]

ASSUME BoundAssumption ==
    NumTailEntries \in Nat \ {0} /\ MaxLocalId \in Nat /\ MaxAppends \in Nat

Nodes == Engines \cup Storages

SourceEngineNodes(s) == {e \in Engines : s \in StorageNodes[e]}

\* The shards a node follows (AddInterestedShard).
InterestedShards(n) == IF n \in Engines THEN {n} ELSE SourceEngineNodes(n)

VARIABLES
    nextLocalId,    \* engine: next_localid_ of its producer
    pendingAppends, \* engine: pending_appends_, by local id
    acked,          \* engine: entries whose append returned a sequence number
    discarded,      \* engine: local ids whose append returned DISCARDED
    pendingEntries, \* storage: pending_log_entries_
    live,           \* storage: live_log_entries_, none of them evicted
    stored,         \* storage: LogStorage::shard_progrsses_
    storedDirty,    \* storage: shard_progrss_dirty_
    reported,       \* storage: the progress in its last SHARD_PROG message
    position,       \* every node: metalog_position_
    progress,       \* every node: LogSpaceBase::shard_progrsses_
    pendingMeta,    \* every node: pending_metalogs_
    phase,          \* every node: "normal", "frozen", or how Finalize ended
    replicate,      \* REPLICATE messages on their way
    inbox,          \* METALOGS messages on their way to every node
    metalogs,       \* the decided metalogs
    view            \* "normal", then view/freeze and view/finalize exist

engineVars  == <<nextLocalId, pendingAppends, acked, discarded>>
storageVars == <<pendingEntries, live, stored, storedDirty, reported>>
baseVars    == <<position, progress, pendingMeta>>
netVars     == <<replicate, inbox>>
metaVars    == <<metalogs, view>>
vars == <<engineVars, storageVars, baseVars, phase, netVars, metaVars>>

Init ==
    /\ nextLocalId = [e \in Engines |-> 0]
    /\ pendingAppends = [e \in Engines |-> {}]
    /\ acked = [e \in Engines |-> {}]
    /\ discarded = [e \in Engines |-> {}]
    /\ pendingEntries = [s \in Storages |-> {}]
    /\ live = [s \in Storages |-> {}]
    /\ stored = [s \in Storages |-> [e \in SourceEngineNodes(s) |-> 0]]
    /\ storedDirty = [s \in Storages |-> FALSE]
    /\ reported = stored
    /\ position = [n \in Nodes |-> 0]
    /\ progress = [n \in Nodes |-> [e \in InterestedShards(n) |-> 0]]
    /\ pendingMeta = [n \in Nodes |-> {}]
    /\ phase = [n \in Nodes |-> "normal"]
    /\ replicate = {}
    /\ inbox = [n \in Nodes |-> {}]
    /\ metalogs = <<>>
    /\ view = "normal"

\* A node whose process a FATAL has not ended.
Alive(n) == phase[n] \in {"normal", "frozen", "finalized"}

-----------------------------------------------------------------------------
(* NEW_LOGS metalogs.  Metalog number i is metalogs[i + 1].                 *)

ShardStart(i, e) == metalogs[i + 1].starts[e]
ShardEnd(i, e) == metalogs[i + 1].starts[e] + metalogs[i + 1].deltas[e]

\* Where the ordered part of shard e ends once all metalogs are applied.
Ordered(e) == IF metalogs = <<>> THEN 0 ELSE ShardEnd(Len(metalogs) - 1, e)

\* The entries that metalog m orders from the shards of es.
EntriesOf(m, es) == UNION {{e} \X (1..m.deltas[e]) : e \in es}

\* Mutant: the entries of the other engines are not counted.
NewLogsOfOneShard(m, e) ==
    {[seqnum  |-> m.start + i,
      engine  |-> e,
      localid |-> m.starts[e] + i] : i \in 0 .. (m.deltas[e] - 1)}

\* The sequence numbers that metalog m gives to the entries of shard e, after
\* those of the engines with lower node ids.
NewLogsOf(m, e) ==
    LET before == Cardinality(EntriesOf(m, {f \in Engines : f < e}))
    IN  {[seqnum  |-> m.start + before + i,
          engine  |-> e,
          localid |-> m.starts[e] + i] : i \in 0 .. (m.deltas[e] - 1)}

\* seqnum_position_ after all metalogs.
SeqnumPosition ==
    IF metalogs = <<>> THEN 0
    ELSE LET last == metalogs[Len(metalogs)]
         IN  last.start + Cardinality(EntriesOf(last, Engines))

-----------------------------------------------------------------------------
(* LogSpaceBase in lite mode.                                               *)

\* How far shard e is once node n has applied the metalogs of pend below i.
ProgressBefore(n, pend, i, e) ==
    LET earlier == {j \in pend : j < i}
    IN  IF earlier = {} THEN progress[n][e] ELSE ShardEnd(Max(earlier), e)

\* Mutant: a metalog is applied although an earlier one is missing.
CanApplyMetaLogAlways(n, pend, i) == TRUE

\* A metalog is applied when every interested shard has reached its start.
CanApplyMetaLog(n, pend, i) ==
    \A e \in InterestedShards(n) : ShardStart(i, e) <= ProgressBefore(n, pend, i, e)

\* Mutant: a metalog that cannot be applied yet is dropped.
ProvidedInOrder(n, ms) ==
    pendingMeta[n] \cup {i \in ms : i >= position[n] /\ CanApplyMetaLog(n, {i}, i)}

\* ProvideMetaLog: pending_metalogs_ with those of ms that are not too old.
Provided(n, ms) == pendingMeta[n] \cup {i \in ms : i >= position[n]}

\* AdvanceMetaLogProgress goes through pend in order, up to the first metalog
\* that cannot be applied: the metalogs it applies.
Applied(n, pend) ==
    {i \in pend : \A j \in pend : j <= i => CanApplyMetaLog(n, pend, j)}

\* The entries for which applying the metalogs of app calls OnNewLogs.
NewLogs(n, app) ==
    UNION {NewLogsOf(metalogs[i + 1], e) : i \in app, e \in InterestedShards(n)}

PositionAfter(n, app) == IF app = {} THEN position[n] ELSE Max(app) + 1

AdvanceMetaLogProgress(n, pend, app) ==
    /\ pendingMeta' = [pendingMeta EXCEPT ![n] = pend \ app]
    /\ position' = [position EXCEPT ![n] = PositionAfter(n, app)]
    /\ progress' = [progress EXCEPT ![n] =
           IF app = {} THEN @
           ELSE [e \in InterestedShards(n) |-> ShardEnd(Max(app), e)]]

-----------------------------------------------------------------------------
(* The engine: LogProducer.                                                 *)

\* HandleLocalAppend in an active view: the entry gets the next local id and
\* is sent to the storage nodes of the shard (ReplicateLogEntry).  In a view
\* that is not active the append fails at once and changes no state.
HandleLocalAppend(e) ==
    /\ phase[e] = "normal"
    /\ nextLocalId[e] < MaxLocalId
    /\ MapThenSumSet(LAMBDA f : nextLocalId[f], Engines) < MaxAppends
    /\ pendingAppends' = [pendingAppends EXCEPT ![e] = @ \cup {nextLocalId[e]}]
    /\ nextLocalId' = [nextLocalId EXCEPT ![e] = @ + 1]
    /\ replicate' = replicate \cup ({<<e, nextLocalId[e]>>} \X StorageNodes[e])
    /\ UNCHANGED <<acked, discarded, storageVars, baseVars, phase, inbox, metaVars>>

\* LogProducer::OnNewLogs for all the entries of new, and the append results
\* that follow; without a pending append it is the FATAL "Cannot find pending
\* log entry".  Finalizing a log space discards what is still pending.
ProducerOnNewLogs(e, new, final) ==
    LET ids  == {x.localid : x \in new}
        gone == IF final THEN pendingAppends[e] \ ids ELSE {}
    IN  /\ acked' = [acked EXCEPT ![e] = @ \cup new]
        /\ discarded' = [discarded EXCEPT ![e] = @ \cup gone]
        /\ pendingAppends' = [pendingAppends EXCEPT ![e] = @ \ (ids \cup gone)]
        /\ phase' = [phase EXCEPT ![e] =
               IF ~(ids \subseteq pendingAppends[e]) THEN "missing_entry"
               ELSE IF final THEN "finalized" ELSE @]

\* A METALOGS message reaches engine e.
EngineOnRecvNewMetaLogs(e) ==
    \E i \in inbox[e] :
        LET pend == Provided(e, {i})
            app  == Applied(e, pend)
        IN  /\ Alive(e)
            /\ inbox' = [inbox EXCEPT ![e] = @ \ {i}]
            /\ AdvanceMetaLogProgress(e, pend, app)
            /\ ProducerOnNewLogs(e, NewLogs(e, app), FALSE)
            /\ UNCHANGED <<nextLocalId, storageVars, replicate, metaVars>>

\* Mutant: the appends that are pending at the freeze are discarded.
EngineOnViewFrozenDiscards(e) ==
    /\ view # "normal" /\ phase[e] = "normal"
    /\ phase' = [phase EXCEPT ![e] = "frozen"]
    /\ discarded' = [discarded EXCEPT ![e] = @ \cup pendingAppends[e]]
    /\ UNCHANGED <<nextLocalId, pendingAppends, acked, storageVars, baseVars,
                   netVars, metaVars>>

\* Engine e sees view/freeze: its current view is not active any more.
EngineOnViewFrozen(e) ==
    /\ view # "normal" /\ phase[e] = "normal"
    /\ phase' = [phase EXCEPT ![e] = "frozen"]
    /\ UNCHANGED <<engineVars, storageVars, baseVars, netVars, metaVars>>

-----------------------------------------------------------------------------
(* The storage node: LogStorage.                                            *)

\* Mutant: the search advances one entry only.
StoredUpToOne(s, e, entries) ==
    IF <<e, stored[s][e]>> \in entries THEN stored[s][e] + 1 ELSE stored[s][e]

\* AdvanceShardProgress: the first local id of shard e that s does not hold.
StoredUpTo(s, e, entries) ==
    CHOOSE p \in stored[s][e] .. MaxLocalId :
        /\ \A id \in stored[s][e] .. (p - 1) : <<e, id>> \in entries
        /\ <<e, p>> \notin entries

\* A REPLICATE message reaches storage s: LogStorage::Store.
HandleReplicateRequest(s) ==
    \E r \in {x \in replicate : x[2] = s} :
        LET e       == r[1][1]
            entries == pendingEntries[s] \cup {r[1]}
            upto    == StoredUpTo(s, e, entries)
        IN  /\ Alive(s)
            /\ replicate' = replicate \ {r}
            /\ pendingEntries' = [pendingEntries EXCEPT ![s] = entries]
            /\ stored' = [stored EXCEPT ![s][e] = upto]
            /\ storedDirty' = [storedDirty EXCEPT ![s] = @ \/ upto > stored[s][e]]
            /\ UNCHANGED <<engineVars, live, reported, baseVars, phase, inbox, metaVars>>

\* The periodic SHARD_PROG message, which is not repeated when it is lost.
SendShardProgressIfNeeded(s) ==
    /\ phase[s] = "normal" /\ storedDirty[s]
    /\ storedDirty' = [storedDirty EXCEPT ![s] = FALSE]
    /\ reported' = [reported EXCEPT ![s] = stored[s]]
    /\ UNCHANGED <<engineVars, pendingEntries, live, stored, baseVars, phase,
                   netVars, metaVars>>

\* LogStorage::OnNewLogs for all the entries of new; without a pending entry
\* it is the FATAL "Cannot find pending log entry".
StorageOnNewLogs(s, new, final) ==
    LET ids == {<<x.engine, x.localid>> : x \in new}
    IN  /\ live' = [live EXCEPT ![s] = @ \cup new]
        /\ pendingEntries' = [pendingEntries EXCEPT ![s] =
               IF final THEN {} ELSE @ \ ids]
        /\ phase' = [phase EXCEPT ![s] =
               IF ~(ids \subseteq pendingEntries[s]) THEN "missing_entry"
               ELSE IF final THEN "finalized" ELSE @]

\* A METALOGS message reaches storage s.
StorageOnRecvNewMetaLogs(s) ==
    \E i \in inbox[s] :
        LET pend == Provided(s, {i})
            app  == Applied(s, pend)
        IN  /\ Alive(s)
            /\ inbox' = [inbox EXCEPT ![s] = @ \ {i}]
            /\ AdvanceMetaLogProgress(s, pend, app)
            /\ StorageOnNewLogs(s, NewLogs(s, app), FALSE)
            /\ UNCHANGED <<engineVars, stored, storedDirty, reported, replicate, metaVars>>

-----------------------------------------------------------------------------
(* The metalog, as MetaLogSpec describes it, and the seal.                  *)

\* Mutant: one storage node of the shard is enough.
ReportedByAny(e) == Max({reported[s][e] : s \in StorageNodes[e]})

\* What the primary may know to be stored on all storage nodes of shard e.
ReportedByAll(e) == Min({reported[s][e] : s \in StorageNodes[e]})

\* The engines and the storages that a new metalog is sent to.
Concerned(deltas) ==
    LET shards == {e \in Engines : deltas[e] > 0}
    IN  shards \cup IndexEngines \cup UNION {StorageNodes[e] : e \in shards}

\* Every possible next metalog: it orders some entries that all storage nodes
\* of their shards have reported.
NextMetaLogs ==
    {[start  |-> SeqnumPosition,
      starts |-> [e \in Engines |-> Ordered(e)],
      deltas |-> [e \in Engines |-> to[e] - Ordered(e)]] :
        to \in {f \in [Engines -> 0..MaxLocalId] :
                  /\ \A e \in Engines : f[e] \in Ordered(e) .. ReportedByAll(e)
                  /\ \E e \in Engines : f[e] > Ordered(e)}}

\* Metalog m is decided, and sent to the nodes it concerns.
DecideMetaLog(m) ==
    /\ metalogs' = Append(metalogs, m)
    /\ inbox' = [n \in Nodes |-> IF n \in Concerned(m.deltas)
                                 THEN inbox[n] \cup {Len(metalogs)}
                                 ELSE inbox[n]]

\* The primary finds the next metalog replicated and propagates it.
PropagateMetaLog ==
    /\ view # "finalized"
    /\ \E m \in NextMetaLogs : DecideMetaLog(m)
    /\ UNCHANGED <<engineVars, storageVars, baseVars, phase, replicate, view>>

\* The controller publishes view/freeze.
FreezeView ==
    /\ view = "normal" /\ view' = "frozen"
    /\ UNCHANGED <<engineVars, storageVars, baseVars, phase, netVars, metalogs>>

\* The controller publishes view/finalize, possibly with one more metalog: one
\* that is replicated, and that the primary may still propagate.
FinalizeView ==
    /\ view = "frozen" /\ view' = "finalized"
    /\ \/ \E m \in NextMetaLogs : DecideMetaLog(m)
       \/ UNCHANGED <<metalogs, inbox>>
    /\ UNCHANGED <<engineVars, storageVars, baseVars, phase, replicate>>

\* The metalogs that the view/finalize znode has at least.
FinalTail == {i \in 0 .. (Len(metalogs) - 1) : i >= Len(metalogs) - NumTailEntries}

\* LogSpaceBase::Finalize fails when the tail leaves a gap: a FATAL.
FinalizeFails(n, app) ==
    /\ PositionAfter(n, app) < Len(metalogs)
    /\ phase' = [phase EXCEPT ![n] = "insufficient"]
    /\ UNCHANGED <<engineVars, storageVars, baseVars, netVars, metaVars>>

\* Engine e sees view/finalize, after view/freeze.
EngineOnViewFinalized(e) ==
    LET pend == Provided(e, FinalTail)
        app  == Applied(e, pend)
    IN  /\ view = "finalized" /\ phase[e] = "frozen"
        /\ \/ FinalizeFails(e, app)
           \/ /\ PositionAfter(e, app) = Len(metalogs)
              /\ AdvanceMetaLogProgress(e, pend, app)
              /\ ProducerOnNewLogs(e, NewLogs(e, app), TRUE)
              /\ UNCHANGED <<nextLocalId, storageVars, netVars, metaVars>>

\* Storage s sees view/finalize; it has no handler for view/freeze.
StorageOnViewFinalized(s) ==
    LET pend == Provided(s, FinalTail)
        app  == Applied(s, pend)
    IN  /\ view = "finalized" /\ phase[s] = "normal"
        /\ \/ FinalizeFails(s, app)
           \/ /\ PositionAfter(s, app) = Len(metalogs)
              /\ AdvanceMetaLogProgress(s, pend, app)
              /\ StorageOnNewLogs(s, NewLogs(s, app), TRUE)
              /\ UNCHANGED <<engineVars, stored, storedDirty, reported, netVars, metaVars>>

-----------------------------------------------------------------------------
Next ==
    \/ \E e \in Engines : HandleLocalAppend(e)
    \/ \E e \in Engines : EngineOnRecvNewMetaLogs(e)
    \/ \E e \in Engines : EngineOnViewFrozen(e)
    \/ \E e \in Engines : EngineOnViewFinalized(e)
    \/ \E s \in Storages : HandleReplicateRequest(s)
    \/ \E s \in Storages : SendShardProgressIfNeeded(s)
    \/ \E s \in Storages : StorageOnRecvNewMetaLogs(s)
    \/ \E s \in Storages : StorageOnViewFinalized(s)
    \/ PropagateMetaLog
    \/ FreezeView
    \/ FinalizeView

Spec == Init /\ [][Next]_vars
-----------------------------------------------------------------------------
(* Properties.                                                              *)

LogEntries == [seqnum : Nat, engine : Engines, localid : Nat]

\* The entries of shard e in the metalogs below position p.
OrderedEntries(e, p) == UNION {NewLogsOf(metalogs[i], e) : i \in 1..p}

\* The entries of the shards of storage s in the metalogs below position p.
StoredEntries(s, p) == UNION {OrderedEntries(e, p) : e \in SourceEngineNodes(s)}

\* The FATAL "Cannot find pending log entry" of LogProducer::OnNewLogs and of
\* LogStorage::OnNewLogs is unreachable: whatever a metalog orders is pending
\* at its engine and at each of its storage nodes when they apply it.
NoMissingEntry == \A n \in Nodes : phase[n] # "missing_entry"

\* Skipping metalogs in lite mode loses nothing: a node at metalog position p
\* has handled exactly the entries of its shards below p, although it may
\* never have received some of the metalogs below p, and has found them all.
LiteModeSkipsNothing ==
    /\ NoMissingEntry
    /\ \A e \in Engines : acked[e] = OrderedEntries(e, position[e])
    /\ \A s \in Storages : live[s] = StoredEntries(s, position[s])

\* An entry whose append returned a sequence number is held by every storage
\* node of its shard, as a pending or as a live entry: discarding pending
\* entries in LogStorage::OnFinalized never discards an acknowledged one.
AckedIsStored ==
    \A e \in Engines : \A x \in acked[e] : \A s \in StorageNodes[e] :
        \/ x \in live[s]
        \/ <<e, x.localid>> \in pendingEntries[s] /\ phase[s] # "finalized"

\* All engines and storages agree on the total order: no sequence number
\* names two entries, no entry has two sequence numbers, and each engine's
\* entries keep the order of its appends.  An append that returned DISCARDED
\* is never ordered, by any node: an engine discards pending appends only at
\* the final metalog position.
OneTotalOrder ==
    LET known == UNION ({acked[e] : e \in Engines} \cup {live[s] : s \in Storages})
    IN  /\ \A x, y \in known :
             /\ x.seqnum = y.seqnum => x = y
             /\ x.engine = y.engine => (x.localid < y.localid <=> x.seqnum < y.seqnum)
        /\ \A e \in Engines : \A id \in discarded[e] : id >= Ordered(e)
=============================================================================
