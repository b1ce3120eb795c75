----------------------------- MODULE MCLogLive ------------------------------
(***************************************************************************)
(* What the nodes of the log achieve when they run, each kind by itself:   *)
(* the sequencers, the engines and storages of the append path, and the    *)
(* storage that reads and flushes.  Init chooses one of them; the others   *)
(* are as they start, and without live sequencers, or with the process of  *)
(* the storage ended, nothing makes them go on.                            *)
(*                                                                         *)
(* MetaLogLive has three sequencers, LogSpaceLive one shard on two storage *)
(* nodes, and LogStorage the log of MCLogStorage.                          *)
(***************************************************************************)
EXTENDS MCLogStorage

CONSTANTS p, b1, b2, s1, s2   \* nodes

VARIABLES
    unit,   \* what runs
    \* of MetaLogLive
    shardProg, lastCut, dirty, replicaProg, replicated, applied, pending, seqPhase,
    metaLogs, metaProg, propagated, freezeTail, seal, sealResp, othersSealed, finalPos,
    finalTail, liveSeqs,
    \* of LogSpaceLive
    nextLocalId, pendingAppends, acked, discarded, pendingEntries, liveEntries, stored,
    storedDirty, reported, positions, progress, pendingMetas, phases, replicate, inbox,
    metalogs, view

M == INSTANCE MetaLogLive WITH
    Primary <- p, Backups <- {b1, b2}, Engines <- {1}, Storages <- {s1},
    StorageNodes <- [e \in {1} |-> {s1}], NumTailEntries <- 2, MaxLocalId <- 2,
    phase <- seqPhase, live <- liveSeqs

A == INSTANCE LogSpaceLive WITH
    Engines <- {1}, Storages <- {s1, s2}, StorageNodes <- [e \in {1} |-> {s1, s2}],
    IndexEngines <- {1}, NumTailEntries <- 3, MaxLocalId <- 2, MaxAppends <- 2,
    live <- liveEntries, position <- positions, pendingMeta <- pendingMetas,
    phase <- phases

metaLogVars == <<
    shardProg, lastCut, dirty, replicaProg, replicated, applied, pending, seqPhase,
    metaLogs, metaProg, propagated, freezeTail, seal, sealResp, othersSealed, finalPos,
    finalTail, liveSeqs>>
appendVars == <<
    nextLocalId, pendingAppends, acked, discarded, pendingEntries, liveEntries, stored,
    storedDirty, reported, positions, progress, pendingMetas, phases, replicate, inbox,
    metalogs, view>>

MetaLogOff == M!Init /\ othersSealed = FALSE /\ liveSeqs = {}
AppendOff == A!Init
StorageOff ==
    /\ position = 0 /\ pendingMeta = {} /\ live = {} /\ persisted = 0
    /\ installed = FALSE /\ db = {} /\ flushing = Idle
    /\ pendingReads = {} /\ lookups = {} /\ results = {} /\ numReads = 0
    /\ sealed = FALSE /\ phase = "not_created"

LogInit ==
    \/ unit = "metalog" /\ M!LiveInit /\ AppendOff /\ StorageOff
    \/ unit = "append" /\ A!Init /\ MetaLogOff /\ StorageOff
    \/ unit = "storage" /\ Init /\ MetaLogOff /\ AppendOff

LogNext ==
    \/ unit = "metalog" /\ M!LiveNext /\ UNCHANGED <<unit, appendVars, vars>>
    \/ unit = "append" /\ A!Next /\ UNCHANGED <<unit, metaLogVars, vars>>
    \/ unit = "storage" /\ Next /\ UNCHANGED <<unit, metaLogVars, appendVars>>

LogSpec ==
    /\ LogInit /\ [][LogNext]_<<unit, metaLogVars, appendVars, vars>>
    /\ M!Fairness /\ A!Fairness /\ Fairness

(***************************************************************************)
(* The properties of the components; ReadsSucceed and ReadsAreAnswered of  *)
(* LogStorage are meant as they are.                                       *)
(***************************************************************************)
\* MetaLog: what all storages of a shard reported is propagated, unless the
\* view is being sealed.
StoredIsPropagated == M!StoredIsPropagated
\* MetaLog: a seal that the controller started completes on every live
\* sequencer.
SealCompletes == M!SealCompletes
\* LogSpace: every append returns, with a sequence number or as discarded.
AppendsReturn == A!AppendsReturn
\* LogSpace: unless the view is sealed, an appended entry becomes live on
\* every storage node of its shard.
AppendedBecomesLive == A!AppendedBecomesLive
=============================================================================
