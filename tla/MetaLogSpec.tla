---------------------------- MODULE MetaLogSpec ----------------------------
(***************************************************************************)
(* What the replicated metalog of a physical log promises to engines and   *)
(* storages: one growing sequence of cuts, each of which orders log        *)
(* entries that are durable, until the view is sealed.  A seal may still   *)
(* admit one cut that nobody was told of before, and ends the sequence.    *)
(***************************************************************************)
EXTENDS Integers, Sequences

CONSTANTS Engines

VARIABLES
    durable,  \* log entries of each shard that all its storage nodes hold
    cuts,     \* the decided cuts: where each shard's ordered prefix ends
    sealed

vars == <<durable, cuts, sealed>>

Init ==
    /\ durable = [e \in Engines |-> 0]
    /\ cuts = <<>>
    /\ sealed = FALSE

Ordered(e) == IF cuts = <<>> THEN 0 ELSE cuts[Len(cuts)][e]

Store ==
    /\ \A e \in Engines : durable'[e] >= durable[e]
    /\ UNCHANGED <<cuts, sealed>>

\* One more cut, which orders at least one new entry, and only durable ones.
DecideCut ==
    /\ Len(cuts') = Len(cuts) + 1
    /\ \A i \in 1..Len(cuts) : cuts'[i] = cuts[i]
    /\ \A e \in Engines : cuts'[Len(cuts')][e] \in Ordered(e) .. durable[e]
    /\ \E e \in Engines : cuts'[Len(cuts')][e] > Ordered(e)

Propagate == ~sealed /\ DecideCut /\ UNCHANGED <<durable, sealed>>

Seal ==
    /\ ~sealed /\ sealed' = TRUE
    /\ DecideCut \/ UNCHANGED cuts
    /\ UNCHANGED durable

Next == Store \/ Propagate \/ Seal

Spec == Init /\ [][Next]_vars
=============================================================================
