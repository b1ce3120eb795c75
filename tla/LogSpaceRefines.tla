-------------------------- MODULE LogSpaceRefines --------------------------
(***************************************************************************)
(* LogSpace implements the shared log of SharedLogSpec, and decides its    *)
(* metalogs the way MetaLogSpec allows, which module MetaLogRefines shows  *)
(* of the sequencers.                                                      *)
(***************************************************************************)
EXTENDS LogSpace

\* The entry that metalogs give sequence number q.
EntryAt(q) ==
    LET x == CHOOSE y \in UNION {OrderedEntries(e, Len(metalogs)) : e \in Engines} :
                 y.seqnum = q
    IN  <<x.engine, x.localid>>

SharedLog == INSTANCE SharedLogSpec WITH
    issued    <- UNION {{e} \X (0 .. (nextLocalId[e] - 1)) : e \in Engines},
    log       <- [i \in 1..SeqnumPosition |-> EntryAt(i - 1)],
    succeeded <- UNION {{[entry |-> <<e, x.localid>>, position |-> x.seqnum + 1] :
                            x \in acked[e]} : e \in Engines},
    failed    <- UNION {{e} \X discarded[e] : e \in Engines},
    sealed    <- (view = "finalized")

Metalog == INSTANCE MetaLogSpec WITH
    durable <- [e \in Engines |-> ReportedByAll(e)],
    cuts    <- [i \in 1..Len(metalogs) |-> [e \in Engines |-> ShardEnd(i - 1, e)]],
    sealed  <- (view = "finalized")

\* Engines, storages and the seal together implement a shared log: what a
\* function is told about its append, by LogProducer::OnNewLogs or OnFinalized,
\* is what the one log of the view says, then and later.  The metalogs they go
\* by are those that MetaLogSpec allows: what the storage nodes report
\* (GrabShardProgressForSending) never shrinks, although applying a metalog
\* removes entries from pending_log_entries_.
ImplementsSharedLog == SharedLog!Spec /\ Metalog!Spec
=============================================================================
