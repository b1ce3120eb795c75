-------------------------- MODULE MetaLogRefines ---------------------------
(***************************************************************************)
(* MetaLog implements MetaLogSpec: before the seal the decided cuts are    *)
(* the replicated ones, and the seal fixes them at the final position.     *)
(***************************************************************************)
EXTENDS MetaLog

NumDecided == IF seal = "done" THEN finalPos ELSE replicated

EndOf(m) == [e \in Engines |-> m.starts[e] + m.deltas[e]]

Abstract == INSTANCE MetaLogSpec WITH
    durable <- [e \in Engines |-> GetShardReplicatedPosition(shardProg, e)],
    cuts    <- [i \in 1..NumDecided |-> EndOf(applied[Primary][i])],
    sealed  <- seal = "done"

\* The sequencers and the controller together implement MetaLogSpec: whatever
\* is lost, late or frozen, decided cuts are never revised or dropped, no cut
\* is decided after the seal, and the seal decides at most one cut that was
\* not propagated before.
ImplementsMetaLogSpec == Abstract!Spec
=============================================================================
