---------------------------- MODULE MetaLogLive ----------------------------
(***************************************************************************)
(* MetaLog with the fairness its scheduling gives.  The sequencers in live *)
(* run, and the network between them delivers; the others may stop at any  *)
(* time, and messages to and from them may be lost.                        *)
(***************************************************************************)
EXTENDS MetaLog

VARIABLE live

\* Any majority of the sequencers may be the live ones, with or without the
\* primary.
LiveInit ==
    /\ Init
    /\ live \in {L \in SUBSET Sequencers : 2 * Cardinality(L) > Cardinality(Sequencers)}

LiveNext ==
    /\ \/ StorageReport
       \/ MarkNextCutIfDoable
       \/ \E b \in Backups : OnRecvNewMetaLogs(b)
       \/ \E b \in Backups : OnRecvMetaLogProgress(b)
       \/ \E b \in Backups : ~({b, Primary} \subseteq live) /\ LoseMessage(b)
       \/ FreezeView
       \/ \E n \in Sequencers : OnViewFrozen(n)
       \/ \E n \in Sequencers : OnFreezeZNodeCreated(n)
       \/ OnOtherFreezeZNodeCreated
       \/ \E n \in Sequencers : OnViewFinalized(n)
    /\ UNCHANGED live

\* The cut timer of a live primary fires again and again, messages between
\* live sequencers arrive, and ZooKeeper notifies its live watchers.  Nothing
\* makes storages report or an operator reconfigure.
Fairness ==
    /\ WF_vars(Primary \in live /\ MarkNextCutIfDoable)
    /\ \A b \in Backups :
          /\ WF_vars({b, Primary} \subseteq live /\ OnRecvNewMetaLogs(b))
          /\ WF_vars({b, Primary} \subseteq live /\ OnRecvMetaLogProgress(b))
    /\ \A n \in Sequencers :
          /\ WF_vars(n \in live /\ OnViewFrozen(n))
          /\ WF_vars(n \in live /\ OnFreezeZNodeCreated(n))
          /\ WF_vars(n \in live /\ OnViewFinalized(n))
    /\ WF_vars(OnOtherFreezeZNodeCreated)

FairSpec == LiveInit /\ [][LiveNext]_<<vars, live>> /\ Fairness

Propagated(e, k) == \E m \in propagated : m.starts[e] + m.deltas[e] >= k

\* A log entry that all storage nodes of its shard reported is eventually in
\* a propagated cut, unless the view is being sealed, while the primary and
\* the backups that the replicated position needs (OnRecvMetaLogProgress) are
\* alive.  There are finitely many entries and a seal is never undone, so that
\* all of them are in the end.
StoredIsPropagated ==
    <>[](\A e \in Engines : \A k \in 1..MaxLocalId :
            Primary \in live /\ GetShardReplicatedPosition(shardProg, e) >= k
                => Propagated(e, k) \/ seal # "none")

\* A seal that the controller started completes (CheckAllSealed), and every
\* live sequencer finalizes, when a majority of the sequencers is alive, be
\* the primary among them or not.
SealCompletes ==
    <>[](\A n \in live : seal # "none" => phase[n] \notin {"normal", "frozen"})
=============================================================================
