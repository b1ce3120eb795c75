----------------------------- MODULE IndexLive -----------------------------
(***************************************************************************)
(* The index when the METALOGS and INDEX_DATA messages it is sent arrive.  *)
(***************************************************************************)
EXTENDS Index

(***************************************************************************)
(* The sequencers and storage nodes of this index keep their connections:  *)
(* every metalog, and from some storage node of its shard the index data   *)
(* of every entry, arrives in the end.  Nothing makes a function query,    *)
(* the controller finalize the view, or a blocking read expire.            *)
(***************************************************************************)
AllArrived ==
    /\ position = NumMetaLogs
    /\ 0 .. (NumLogs - 1) \subseteq content \cup received

Fairness == <>(AllArrived \/ ~Alive)

LiveSpec == Spec /\ Fairness

Answered(i) == \E r \in results : r.query.id = i

\* A read that does not block is answered, however far its function is ahead
\* of this engine, unless the engine dies.  (A query that the next view
\* continues here waits forever, and is left out.)
ReadsReturn ==
    \A i \in 1..MaxQueries :
        (\E q \in pendingQueries : q.id = i /\ q.initial /\ q.direction # "next_b")
            ~> (Answered(i) \/ ~Alive)

\* A blocking read is answered once the log has an entry for it.
BlockingReadsFind ==
    \A i \in 1..MaxQueries :
        (\E q \in pendingQueries \cup blockingReads :
            /\ q.id = i /\ q.initial /\ q.direction = "next_b"
            /\ FindNext(0 .. (NumLogs - 1), q) # kInvalidLogSeqNum)
            ~> (Answered(i) \/ ~Alive)
=============================================================================
