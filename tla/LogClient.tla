----------------------------- MODULE LogClient ------------------------------
(***************************************************************************)
(* The shared log as a function sees it through the environment that       *)
(* worker/golang/worker/func_worker.go gives it: a sequence of entries,    *)
(* each with a set of tags, whose sequence numbers are here the positions  *)
(* 1, 2, ... .  A function reads from the index of its engine, which knows *)
(* a prefix of the log ("seen") that includes whatever the function has    *)
(* appended or read before (module Index).                                 *)
(***************************************************************************)
EXTENDS Integers, Sequences, FiniteSetsExt

None == 0

\* protocol.MaxLogSeqnum, above every position.
MaxLogSeqnum == 1000

MaxOf(S) == IF S = {} THEN None ELSE Max(S)
MinOf(S) == IF S = {} THEN None ELSE Min(S)

\* The last entry with the tag at or before s; None if there is none.
SharedLogReadPrev(log, seen, tag, s) ==
    MaxOf({i \in 1 .. seen : i <= s /\ tag \in log[i].tags})

\* The first entry with the tag at or after s.
SharedLogReadNext(log, seen, tag, s) ==
    MinOf({i \in 1 .. seen : i >= s /\ tag \in log[i].tags})
=============================================================================
