---------------------------- MODULE LogSpaceLive ----------------------------
(***************************************************************************)
(* LogSpace when no message is lost and the timers run: what the append    *)
(* path achieves without any retry.                                        *)
(***************************************************************************)
EXTENDS LogSpace

(***************************************************************************)
(* Messages that are not lost are received, timers fire, and ZooKeeper     *)
(* watches report view/freeze and view/finalize.  The sequencers propagate *)
(* what was reported unless a seal starts, and a seal that started ends:   *)
(* properties StoredIsPropagated and SealCompletes of MetaLogLive.  No     *)
(* fairness makes functions append or the operator reconfigure.            *)
(***************************************************************************)
Fairness ==
    /\ \A e \in Engines :
          /\ WF_vars(EngineOnRecvNewMetaLogs(e))
          /\ WF_vars(EngineOnViewFrozen(e))
          /\ WF_vars(EngineOnViewFinalized(e))
    /\ \A s \in Storages :
          /\ WF_vars(HandleReplicateRequest(s))
          /\ WF_vars(SendShardProgressIfNeeded(s))
          /\ WF_vars(StorageOnRecvNewMetaLogs(s))
          /\ WF_vars(StorageOnViewFinalized(s))
    /\ WF_vars(view = "normal" /\ PropagateMetaLog)
    /\ WF_vars(FinalizeView)

LiveSpec == Spec /\ Fairness

\* Every append returns, with a sequence number or as discarded, although the
\* dirty flag is cleared by each report and nothing is ever sent twice: once
\* functions stop appending (MaxAppends), no append is pending.
AppendsReturn == <>[](\A e \in Engines : pendingAppends[e] = {})

\* Unless the view is sealed, an entry that an engine appended becomes live on
\* every storage node of its shard: metalogs that arrive before the ones they
\* continue are not forgotten (pending_metalogs_).
AppendedBecomesLive ==
    <>[](view = "normal" =>
            \A e \in Engines : \A s \in StorageNodes[e], id \in 0 .. (nextLocalId[e] - 1) :
                \E x \in live[s] : x.engine = e /\ x.localid = id)
=============================================================================
