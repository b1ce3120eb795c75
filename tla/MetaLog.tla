------------------------------ MODULE MetaLog ------------------------------
(***************************************************************************)
(* The metalog of one physical log in one view: the primary sequencer that *)
(* cuts it, the backup sequencers that replicate it, and the controller    *)
(* that seals the view and finalizes the metalog when it reconfigures.     *)
(*                                                                         *)
(* Storage nodes report, per engine (a shard), how many log entries they   *)
(* hold.  The primary turns the reports into cuts (NEW_LOGS metalogs),     *)
(* sends each cut to the backups, and propagates it to the engines and the *)
(* storages once enough backups have acknowledged it.  To seal a view the  *)
(* controller freezes the sequencers, collects the tail of the metalog     *)
(* from a quorum of them, and publishes a final position.                  *)
(*                                                                         *)
(* The network may delay, reorder and lose messages, and never duplicates  *)
(* one: a node keeps one egress hub per IO worker and several sockets per  *)
(* hub, and a message is dropped when a hub has no connection.             *)
(***************************************************************************)
EXTENDS Integers, Sequences, FiniteSetsExt

CONSTANTS
    Primary,          \* the sequencer that owns this physical log
    Backups,          \* its replica sequencers
    Engines,          \* the engine nodes of the view, one shard each
    Storages,         \* the storage nodes of the view
    StorageNodes,     \* the storage nodes of each engine's shard
    NumTailEntries,   \* the flag slog_num_tail_metalog_entries
    MaxLocalId        \* bound: a shard never holds more log entries

ASSUME SequencerAssumption ==
    IsFiniteSet(Backups) /\ Primary \notin Backups

ASSUME ShardAssumption ==
    /\ IsFiniteSet(Engines)
    /\ StorageNodes \in [Engines -> SUBSET Storages]
    /\ \A e \in Engines : StorageNodes[e] # {}

ASSUME NumberAssumption ==
    NumTailEntries \in Nat \ {0} /\ MaxLocalId \in Nat

Sequencers == Backups \cup {Primary}

SourceEngineNodes(s) == {e \in Engines : s \in StorageNodes[e]}

(***************************************************************************)
(* A NEW_LOGS metalog: shard e's entries starts[e] .. starts[e] + deltas[e]*)
(* - 1 get consecutive sequence numbers, the first one being "start".      *)
(***************************************************************************)
MetaLogProto ==
    [seqnum : Nat, start : Nat,
     starts : [Engines -> 0..MaxLocalId], deltas : [Engines -> 0..MaxLocalId]]

VARIABLES
    shardProg,    \* primary: shard_progrsses_, per engine and storage
    lastCut,      \* primary: last_cut_
    dirty,        \* primary: dirty_shards_
    replicaProg,  \* primary: metalog_progresses_, per backup
    replicated,   \* primary: replicated_metalog_position_
    applied,      \* per sequencer: applied_metalogs_, position = its length
    pending,      \* per sequencer: pending_metalogs_
    phase,        \* per sequencer: "normal", "frozen", or how Finalize ended
    metaLogs,     \* METALOGS messages on the way to each backup
    metaProg,     \* META_PROG messages on the way from each backup
    propagated,   \* the metalogs sent to engines and storages
    freezeTail,   \* the tail in each sequencer's freeze/ znode
    seal,         \* controller: "none", "ongoing" (ongoing_seal_) or "done"
    sealResp,     \* controller: sequencers whose freeze/ znode was received
    othersSealed, \* controller: the view's other physical logs have quora
    finalPos,     \* the final position in the view/finalize znode
    finalTail     \* the tail metalogs in the view/finalize znode

primaryVars == <<shardProg, lastCut, dirty, replicaProg, replicated>>
seqVars     == <<applied, pending, phase>>
netVars     == <<metaLogs, metaProg, propagated>>
sealVars    == <<freezeTail, seal, sealResp, othersSealed, finalPos, finalTail>>
vars        == <<primaryVars, seqVars, netVars, sealVars>>

metalog_position(n) == Len(applied[n])

Init ==
    /\ shardProg = [e \in Engines |-> [s \in Storages |-> 0]]
    /\ lastCut = [e \in Engines |-> 0]
    /\ dirty = {}
    /\ replicaProg = [b \in Backups |-> 0]
    /\ replicated = 0
    /\ applied = [n \in Sequencers |-> <<>>]
    /\ pending = [n \in Sequencers |-> {}]
    /\ phase = [n \in Sequencers |-> "normal"]
    /\ metaLogs = [b \in Backups |-> {}]
    /\ metaProg = [b \in Backups |-> {}]
    /\ propagated = {}
    /\ freezeTail = [n \in Sequencers |-> {}]
    /\ seal = "none"
    /\ sealResp = {}
    /\ othersSealed \in BOOLEAN
    /\ finalPos = 0
    /\ finalTail = {}

-----------------------------------------------------------------------------
(* LogSpaceBase in full mode: the metalogs are applied in order, without    *)
(* gaps; one that arrives early waits in pending_metalogs_.                 *)

\* pending_metalogs_ once ms are provided: those below pos are ignored.
ProvideMetaLogs(pos, pend, ms) == pend \cup {m \in ms : m.seqnum >= pos}

\* The position AdvanceMetaLogProgress stops at: the first gap (a singleton).
AdvanceMetaLogProgress(pos, pend) ==
    {n \in pos .. (pos + Cardinality(pend)) :
        /\ \A i \in pos .. (n - 1) : \E m \in pend : m.seqnum = i
        /\ \A m \in pend : m.seqnum # n}

\* applied_metalogs_ and pending_metalogs_ when the position reached n.
AppliedUpTo(log, pend, n) ==
    [i \in 1..n |-> IF i <= Len(log) THEN log[i]
                    ELSE CHOOSE m \in pend : m.seqnum = i - 1]

PendingFrom(pend, n) == {m \in pend : m.seqnum >= n}

-----------------------------------------------------------------------------
(* The primary sequencer.                                                   *)

\* The log entries of e's shard that all its storage nodes hold.
GetShardReplicatedPosition(prog, e) == Min({prog[e][s] : s \in StorageNodes[e]})

\* A SHARD_PROG message from storage s reports its progress on every shard
\* it stores; reports may arrive out of order.
OnRecvShardProgress(s, progress) ==
    /\ phase[Primary] = "normal"
    /\ LET Raised == {e \in SourceEngineNodes(s) : progress[e] > shardProg[e][s]}
       IN  /\ shardProg' = [e \in Engines |->
                  IF e \in Raised THEN [shardProg[e] EXCEPT ![s] = progress[e]]
                  ELSE shardProg[e]]
           /\ dirty' = dirty \cup
                  {e \in Raised : GetShardReplicatedPosition(shardProg', e) > lastCut[e]}
    /\ UNCHANGED <<lastCut, replicaProg, replicated, seqVars, netVars, sealVars>>

\* The log entries that a cut with these deltas orders.
LogsOf(deltas) == UNION {{e} \X (1..deltas[e]) : e \in Engines}

\* seqnum_position_ after the metalogs of log.
seqnum_position(log) ==
    IF log = <<>> THEN 0
    ELSE log[Len(log)].start + Cardinality(LogsOf(log[Len(log)].deltas))

NextCutDeltas ==
    [e \in Engines |-> IF e \in dirty
                       THEN GetShardReplicatedPosition(shardProg, e) - lastCut[e]
                       ELSE 0]

\* The primary cuts the dirty shards, applies the cut to its own metalog and
\* sends it to the backups (ReplicateMetaLog).
MarkNextCut ==
    /\ LET m == [seqnum |-> metalog_position(Primary),
                 start  |-> seqnum_position(applied[Primary]),
                 starts |-> lastCut, deltas |-> NextCutDeltas]
       IN  /\ applied' = [applied EXCEPT ![Primary] = Append(@, m)]
           /\ metaLogs' = [b \in Backups |-> metaLogs[b] \cup {m}]
    /\ lastCut' = [e \in Engines |-> lastCut[e] + NextCutDeltas[e]]
    /\ dirty' = {}
    /\ UNCHANGED <<shardProg, replicaProg, replicated, pending, phase,
                   metaProg, propagated, sealVars>>

\* Mutant: the timer cuts even when no shard made progress.
MarkNextCutAlways ==
    /\ phase[Primary] = "normal"
    /\ replicated = metalog_position(Primary)
    /\ MarkNextCut

\* The periodic timer: a cut is made only when some shard made progress and
\* every earlier metalog has been replicated (all_metalog_replicated).
MarkNextCutIfDoable ==
    /\ phase[Primary] = "normal"
    /\ replicated = metalog_position(Primary)
    /\ dirty # {}
    /\ MarkNextCut

\* Mutant: tmp.at(tmp.size() / 2 - 1), the lower of the middle positions.
MedianProgressLow(prog) ==
    LET half == (Cardinality(Backups) \div 2) - 1
    IN  {prog[b] : b \in {x \in Backups :
            /\ Cardinality({y \in Backups : prog[y] < prog[x]}) <= half
            /\ half < Cardinality({y \in Backups : prog[y] <= prog[x]})}}

\* tmp.at(tmp.size() / 2) of the sorted backup positions (a singleton).
MedianProgress(prog) ==
    LET half == Cardinality(Backups) \div 2
    IN  {prog[b] : b \in {x \in Backups :
            /\ Cardinality({y \in Backups : prog[y] < prog[x]}) <= half
            /\ half < Cardinality({y \in Backups : prog[y] <= prog[x]})}}

UpdateMetaLogReplicatedPosition(prog) ==
    IF replicated = metalog_position(Primary) THEN {replicated}
    ELSE MedianProgress(prog)

\* A META_PROG message from backup b; the metalogs that become replicated
\* are propagated to the engines and the storages.
OnRecvMetaLogProgress(b) ==
    \E pos \in metaProg[b] :
        /\ metaProg' = [metaProg EXCEPT ![b] = @ \ {pos}]
        /\ \/ /\ phase[Primary] = "normal" /\ pos > replicaProg[b]
              /\ replicaProg' = [replicaProg EXCEPT ![b] = pos]
              /\ replicated' \in UpdateMetaLogReplicatedPosition(replicaProg')
              /\ propagated' = propagated \cup
                     {applied[Primary][i] : i \in (replicated + 1) .. replicated'}
           \/ /\ phase[Primary] # "normal" \/ pos <= replicaProg[b]
              /\ UNCHANGED <<replicaProg, replicated, propagated>>
        /\ UNCHANGED <<shardProg, lastCut, dirty, seqVars, metaLogs, sealVars>>

-----------------------------------------------------------------------------
(* A backup sequencer.                                                      *)

\* Mutant: a backup applies metalogs in arrival order.
OnRecvNewMetaLogsInArrivalOrder(b) ==
    \E m \in metaLogs[b] :
        /\ metaLogs' = [metaLogs EXCEPT ![b] = @ \ {m}]
        /\ phase[b] = "normal"
        /\ applied' = [applied EXCEPT ![b] = Append(@, m)]
        /\ metaProg' = [metaProg EXCEPT ![b] = @ \cup {m.seqnum + 1}]
        /\ UNCHANGED <<primaryVars, pending, phase, propagated, sealVars>>
\* A METALOGS message reaches backup b, which answers with META_PROG when
\* its position advanced; a frozen backup drops it.
OnRecvNewMetaLogs(b) ==
    \E m \in metaLogs[b] :
        /\ metaLogs' = [metaLogs EXCEPT ![b] = @ \ {m}]
        /\ \/ /\ phase[b] = "normal"
              /\ LET pos  == metalog_position(b)
                     pend == ProvideMetaLogs(pos, pending[b], {m})
                 IN  \E n \in AdvanceMetaLogProgress(pos, pend) :
                        /\ applied' = [applied EXCEPT ![b] = AppliedUpTo(@, pend, n)]
                        /\ pending' = [pending EXCEPT ![b] = PendingFrom(pend, n)]
                        /\ metaProg' = IF n > pos
                               THEN [metaProg EXCEPT ![b] = @ \cup {n}]
                               ELSE metaProg
           \/ /\ phase[b] # "normal"
              /\ UNCHANGED <<applied, pending, metaProg>>
        /\ UNCHANGED <<primaryVars, phase, propagated, sealVars>>

\* The network loses a message between the primary and a backup.
LoseMessage(b) ==
    /\ \/ /\ \E m \in metaLogs[b] : metaLogs' = [metaLogs EXCEPT ![b] = @ \ {m}]
          /\ UNCHANGED metaProg
       \/ /\ \E pos \in metaProg[b] : metaProg' = [metaProg EXCEPT ![b] = @ \ {pos}]
          /\ UNCHANGED metaLogs
    /\ UNCHANGED <<primaryVars, seqVars, propagated, sealVars>>

-----------------------------------------------------------------------------
(* Sealing: the controller and the sequencers, through ZooKeeper.           *)

\* The controller starts a reconfiguration and publishes view/freeze.
FreezeView ==
    /\ seal = "none"
    /\ seal' = "ongoing"
    /\ UNCHANGED <<primaryVars, seqVars, netVars, freezeTail, sealResp,
                   othersSealed, finalPos, finalTail>>

\* The last NumTailEntries metalogs of log.
TailOf(log) ==
    {log[i] : i \in {j \in 1..Len(log) : j > Len(log) - NumTailEntries}}

\* Sequencer n sees view/freeze: it stops, and publishes its tail.
OnViewFrozen(n) ==
    /\ seal # "none"
    /\ phase[n] = "normal"
    /\ phase' = [phase EXCEPT ![n] = "frozen"]
    /\ freezeTail' = [freezeTail EXCEPT ![n] = TailOf(applied[n])]
    /\ UNCHANGED <<primaryVars, applied, pending, netVars, seal, sealResp,
                   othersSealed, finalPos, finalTail>>

\* BuildFinalTailMetalog: one past the last entry, 0 without one (a singleton).
FinalPositions(entries) ==
    IF entries = {} THEN {0}
    ELSE {m.seqnum + 1 : m \in {x \in entries : \A y \in entries : y.seqnum <= x.seqnum}}

\* Mutants: half of the sequencers seal a log, or all of them must.
SealQuorumHalf == Cardinality(Sequencers) \div 2
SealQuorumAll == Cardinality(Sequencers)

SealQuorum == (Cardinality(Sequencers) + 1) \div 2

\* CheckAllSealed with the responses resp: every physical log of the view,
\* this one and the others, needs a quorum before the view is finalized.
CheckAllSealed(resp, others) ==
    IF others /\ Cardinality(resp) >= SealQuorum
    THEN /\ seal' = "done"
         /\ finalTail' = UNION {freezeTail[n] : n \in resp}
         /\ finalPos' \in FinalPositions(finalTail')
    ELSE UNCHANGED <<seal, finalTail, finalPos>>

\* The controller receives the freeze/ znode of sequencer n.
OnFreezeZNodeCreated(n) ==
    /\ seal = "ongoing"
    /\ phase[n] # "normal" /\ n \notin sealResp
    /\ sealResp' = sealResp \cup {n}
    /\ CheckAllSealed(sealResp', othersSealed)
    /\ UNCHANGED <<primaryVars, seqVars, netVars, freezeTail, othersSealed>>

\* The controller receives the freeze/ znode that completes the quora of the
\* other physical logs, from a sequencer that does not replicate this one.
OnOtherFreezeZNodeCreated ==
    /\ seal = "ongoing" /\ ~othersSealed
    /\ othersSealed' = TRUE
    /\ CheckAllSealed(sealResp, TRUE)
    /\ UNCHANGED <<primaryVars, seqVars, netVars, freezeTail, sealResp>>

\* Sequencer n sees view/finalize, after view/freeze: LogSpaceBase::Finalize.
\* A FATAL branch ends the process in the phase named after it.
OnViewFinalized(n) ==
    /\ seal = "done"
    /\ phase[n] = "frozen"
    /\ LET pos == metalog_position(n)
       IN  \/ /\ pos >= finalPos
              /\ phase' = [phase EXCEPT ![n] =
                     IF pos = finalPos THEN "finalized"
                     ELSE IF pos = finalPos + 1 THEN "ahead" ELSE "see_future"]
              /\ UNCHANGED <<applied, pending>>
           \/ /\ pos < finalPos
              /\ LET pend == ProvideMetaLogs(pos, pending[n], finalTail)
                 IN  \E p \in AdvanceMetaLogProgress(pos, pend) :
                        /\ applied' = [applied EXCEPT ![n] = AppliedUpTo(@, pend, p)]
                        /\ pending' = [pending EXCEPT ![n] = PendingFrom(pend, p)]
                        /\ phase' = [phase EXCEPT ![n] =
                               IF p = finalPos THEN "finalized"
                               ELSE IF p < finalPos THEN "insufficient" ELSE "uncommon"]
    /\ UNCHANGED <<primaryVars, netVars, sealVars>>

-----------------------------------------------------------------------------
StorageReport ==
    \E s \in Storages : \E progress \in [SourceEngineNodes(s) -> 0..MaxLocalId] :
        OnRecvShardProgress(s, progress)

Next ==
    \/ StorageReport
    \/ MarkNextCutIfDoable
    \/ \E b \in Backups : OnRecvNewMetaLogs(b)
    \/ \E b \in Backups : OnRecvMetaLogProgress(b)
    \/ \E b \in Backups : LoseMessage(b)
    \/ FreezeView
    \/ \E n \in Sequencers : OnViewFrozen(n)
    \/ \E n \in Sequencers : OnFreezeZNodeCreated(n)
    \/ OnOtherFreezeZNodeCreated
    \/ \E n \in Sequencers : OnViewFinalized(n)

Spec == Init /\ [][Next]_vars
-----------------------------------------------------------------------------
(* Properties.                                                              *)

\* Every variable has the type its C++ counterpart gives it.
TypeOK ==
    /\ shardProg \in [Engines -> [Storages -> 0..MaxLocalId]]
    /\ lastCut \in [Engines -> 0..MaxLocalId]
    /\ dirty \subseteq Engines
    /\ replicaProg \in [Backups -> Nat]
    /\ replicated \in Nat
    /\ applied \in [Sequencers -> Seq(MetaLogProto)]
    /\ pending \in [Sequencers -> SUBSET MetaLogProto]
    /\ phase \in [Sequencers -> {"normal", "frozen", "finalized", "ahead",
                                 "insufficient", "uncommon", "see_future"}]
    /\ metaLogs \in [Backups -> SUBSET MetaLogProto]
    /\ metaProg \in [Backups -> SUBSET Nat]
    /\ propagated \subseteq MetaLogProto
    /\ freezeTail \in [Sequencers -> SUBSET MetaLogProto]
    /\ seal \in {"none", "ongoing", "done"}
    /\ sealResp \subseteq Sequencers
    /\ othersSealed \in BOOLEAN
    /\ finalPos \in Nat
    /\ finalTail \subseteq MetaLogProto

\* What any two sequencers have applied agrees, whatever order METALOGS
\* messages and the final tail reached them in: AdvanceMetaLogProgress
\* applies metalogs in order and without gaps.
SequencersAgree ==
    \A n \in Sequencers : \A i \in 1..metalog_position(n) :
        /\ i <= metalog_position(Primary)
        /\ applied[n][i] = applied[Primary][i]

\* The order an engine or a storage was told of is never lost by a seal: the
\* quorum of CheckAllSealed always meets the backups that made a metalog
\* replicated, even when their META_PROG reaches the primary after the seal.
FinalCoversPropagated ==
    seal = "done" => \A m \in propagated : m.seqnum < finalPos

\* No sequencer is more than one metalog past the final position, so the
\* "See the future" FATAL of LogSpaceBase::Finalize cannot be reached: the
\* primary marks a cut only when all its metalogs are replicated.
AtMostOneAhead ==
    seal = "done" => \A n \in Sequencers : metalog_position(n) <= finalPos + 1

\* A META_PROG never names a position the primary has not reached (the
\* "Receive future position" FATAL), and the replicated position never passes
\* what the acknowledging backups hold.
ProgressIsReal ==
    /\ \A b \in Backups :
          /\ \A pos \in metaProg[b] : pos <= metalog_position(b)
          /\ replicaProg[b] <= metalog_position(b)
    /\ replicated <= metalog_position(Primary)
    /\ metalog_position(Primary) <= replicated + 1

\* The replicated position never moves back, although META_PROG messages of
\* different backups, and of one backup, arrive in any order (the DCHECK_GE of
\* UpdateMetaLogReplicatedPosition).
ReplicatedNeverDecreases == [][replicated' >= replicated]_vars

\* LogSpaceBase::Finalize treats catching up past the final position as a
\* FATAL "It's uncommon": providing the final tail stops at that position.
CatchUpStopsAtFinal == \A n \in Sequencers : phase[n] # "uncommon"

\* shared_log.proto on the final tail: "If gaps still exist, nodes will
\* communicate with sequencers to catch up", so no sequencer gives up with a
\* gap (Finalize's "Metalog entries not sufficient").
GapsAreCaughtUp == \A n \in Sequencers : phase[n] # "insufficient"
=============================================================================
