---------------------------- MODULE MCViewChange ----------------------------
(***************************************************************************)
(* Two sequencers that replicate one metalog, two engines, one of which    *)
(* may come late, and one storage node; one reconfiguration, which moves   *)
(* the primary and may move the index.                                     *)
(***************************************************************************)
EXTENDS ViewChange

MCReconfigs ==
    {[sequencers |-> <<2, 1>>, engines |-> e, storages |-> <<21>>] :
        e \in {<<12, 11>>, <<11>>}}
=============================================================================
