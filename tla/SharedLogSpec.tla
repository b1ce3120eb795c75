--------------------------- MODULE SharedLogSpec ---------------------------
(***************************************************************************)
(* What the shared log promises to the functions that append to it during  *)
(* one view: a single growing log.  An append either returns the position  *)
(* of its entry, which never changes, or, once the log is sealed, reports  *)
(* that the entry is not in the log and never will be.                     *)
(***************************************************************************)
EXTENDS Integers, Sequences, FiniteSetsExt

CONSTANTS Engines

VARIABLES
    issued,     \* the entries that were appended: <<engine, n>>, n = 0, 1, ...
    log,        \* the entries of the log, in order
    succeeded,  \* the appends that returned, with their positions in the log
    failed,     \* the appends that returned a failure
    sealed

vars == <<issued, log, succeeded, failed, sealed>>

Entries(l) == {l[i] : i \in 1..Len(l)}

Init ==
    /\ issued = {} /\ log = <<>> /\ succeeded = {} /\ failed = {}
    /\ sealed = FALSE

Issue ==
    /\ \E e \in Engines :
          issued' = issued \cup {<<e, Cardinality({x \in issued : x[1] = e})>>}
    /\ UNCHANGED <<log, succeeded, failed, sealed>>

\* The log grows by appended entries that are not in it, each engine's in the
\* order of its appends.
Extend ==
    /\ Len(log') > Len(log)
    /\ \A i \in 1..Len(log) : log'[i] = log[i]
    /\ \A i \in (Len(log) + 1)..Len(log') :
          /\ log'[i] \in issued
          /\ \A j \in 1..(i - 1) : log'[j][1] = log'[i][1] => log'[j][2] < log'[i][2]

Order == ~sealed /\ Extend /\ UNCHANGED <<issued, succeeded, failed, sealed>>

Seal ==
    /\ ~sealed /\ sealed' = TRUE
    /\ Extend \/ UNCHANGED log
    /\ UNCHANGED <<issued, succeeded, failed>>

\* Some appends return.
Return ==
    /\ succeeded \subseteq succeeded' /\ failed \subseteq failed'
    /\ \A r \in succeeded' \ succeeded :
          r.position \in 1..Len(log) /\ r.entry = log[r.position]
    /\ \A x \in failed' \ failed : sealed /\ x \in issued /\ x \notin Entries(log)
    /\ UNCHANGED <<issued, log, sealed>>

Next == Issue \/ Order \/ Seal \/ Return

Spec == Init /\ [][Next]_vars
=============================================================================
