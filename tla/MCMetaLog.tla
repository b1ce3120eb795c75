----------------------------- MODULE MCMetaLog -----------------------------
(* Instances of MetaLog for TLC.                                           *)
EXTENDS MetaLogRefines

CONSTANTS p, b1, b2, e1, s1, s2

\* Two storage nodes hold every shard.
AllStorages == [e \in Engines |-> Storages]
=============================================================================
