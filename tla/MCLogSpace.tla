----------------------------- MODULE MCLogSpace -----------------------------
(***************************************************************************)
(* An instance of LogSpaceRefines.  One shard is on two storage nodes, one *)
(* of which follows only that shard, so that it skips metalogs.            *)
(***************************************************************************)
EXTENDS LogSpaceRefines, TLC

CONSTANTS s1, s2

TwoReplicas == (1 :> {s1, s2}) @@ (2 :> {s2})
=============================================================================
