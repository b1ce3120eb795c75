----------------------------- MODULE StateStore -----------------------------
(***************************************************************************)
(* The object store of slib/statestore: JSON objects kept as a log of      *)
(* their writes.  A client brings its copy of an object up to date by      *)
(* reading the entries with the object's tag backwards until it meets one  *)
(* whose auxiliary data holds the object as of that entry, and applies the *)
(* writes in between, caching the object with each of them.  Transactions  *)
(* read the state at their first entry; whether the commit entry takes     *)
(* effect is decided by whoever meets it first and needs to know, from the *)
(* entries between the two, and cached with it.                            *)
(*                                                                         *)
(* What an object holds is the sequence of the writes applied to it, a     *)
(* write being an entry and its place in it.  The auxiliary data of an     *)
(* entry is kept in the caches of the engines and on storage nodes, and is *)
(* not replicated with the log: a read may find any value it was once set  *)
(* to, or none.                                                            *)
(***************************************************************************)
EXTENDS LogClient, SequencesExt

CONSTANTS Clients,     \* functions that use the store, one at a time each
          Objects,
          Tag,         \* objectLogTag(NameHash(name)): may coincide
          Programs     \* what the functions do: for each client, a sequence of
                       \* calls <<name, object>>

VARIABLES
    log,      \* entries [type, ops, txn, tags]
    aux,      \* for each entry, the auxiliary data it was ever given
    todo,     \* for each client, the calls its function has yet to make
    seen,     \* for each client, the prefix of the log its reads see
    env,      \* for each client, its environment (see EmptyEnv)
    sync,     \* for each client, the synchronization under way
    check,    \* for each client, the calls of checkTxnCommitResult under way
    outcome,  \* what TxnCommit returned, as <<entry, committed>>
    fatal     \* a log.Fatalf was reached

vars == <<log, aux, todo, seen, env, sync, check, outcome, fatal>>

NoView == [next |-> -1, contents |-> <<>>]
EmptyView == [next |-> 0, contents |-> <<>>]
NoAux == [r |-> "none", views |-> <<>>]
NoSync == [obj |-> None, at |-> 0, logs |-> <<>>, view |-> NoView]
\* An environment: what the client is doing, its objects, its transaction.
EmptyEnv == [pc |-> "idle", views |-> [o \in Objects |-> NoView], txn |-> None,
             readonly |-> FALSE, ops |-> <<>>, multi |-> None, entry |-> None]

writeSet(i) == Range(log[i].ops)
withinWriteSet(i, o) == log[i].type \in {"normal", "commit"} /\ o \in writeSet(i)
writeSetOverlapped(i, j) ==
    /\ log[i].type \in {"normal", "commit"} /\ log[j].type \in {"normal", "commit"}
    /\ writeSet(i) \cap writeSet(j) # {}

\* The writes of entry i to object o, in order.
OpsOf(i, o) ==
    SelectSeq([k \in 1 .. Len(log[i].ops) |-> <<i, k>>], LAMBDA w : log[i].ops[w[2]] = o)

applyWriteOps(view, i, o) ==
    [next |-> i + 1, contents |-> view.contents \o OpsOf(i, o)]

\* What decodeLogEntry may find as auxiliary data of entry i.
AuxSeen(i) == aux[i] \cup {NoAux}

setLogAuxData(i, a) == aux' = [aux EXCEPT ![i] = @ \cup {a}]

\* The auxiliary data of a write is the object, that of a commit entry the
\* objects by name, beside the result.
hasCachedObjectView(i, a, o) == IF log[i].type = "normal" THEN a # NoAux ELSE o \in DOMAIN a.views

cacheObjectView(a, o, contents) ==
    [a EXCEPT !.views = [p \in DOMAIN @ \cup {o} |-> IF p = o THEN contents ELSE @[p]]]

Init ==
    /\ log = <<>> /\ aux = <<>> /\ fatal = FALSE /\ outcome = {}
    /\ todo \in Programs /\ seen = [c \in Clients |-> 0]
    /\ env = [c \in Clients |-> EmptyEnv]
    /\ sync = [c \in Clients |-> NoSync]
    /\ check = [c \in Clients |-> <<>>]

(***************************************************************************)
(* Appends.                                                                *)
(***************************************************************************)
\* SharedLogAppend: the engine's index has reached the entry when it returns.
AppendEntry(c, type, ops, txn, tags) ==
    /\ log' = Append(log, [type |-> type, ops |-> ops, txn |-> txn, tags |-> tags])
    /\ aux' = Append(aux, {})
    /\ seen' = [seen EXCEPT ![c] = Len(log) + 1]

\* A read of the latest entries: the index of the client's engine has moved
\* on since the last one, as far as it may.
IndexAt(c, k) == k \in seen[c] .. Len(log) /\ seen' = [seen EXCEPT ![c] = k]

Idle(c) == env[c].pc = "idle"

\* The function makes its next call.
Calls(c, name, o) ==
    /\ Idle(c) /\ todo[c] # <<>> /\ Head(todo[c]) = <<name, o>>
    /\ todo' = [todo EXCEPT ![c] = Tail(@)]

InTxn(c) == env[c].txn # None

\* A new invocation of a function: CreateEnv.
CreateEnv(c) ==
    /\ Calls(c, "CreateEnv", None)
    /\ env' = [env EXCEPT ![c] = EmptyEnv]
    /\ UNCHANGED <<log, aux, seen, sync, check, outcome, fatal>>

CreateTxnEnv(c) ==
    /\ Calls(c, "CreateTxnEnv", None)
    /\ AppendEntry(c, "begin", <<>>, None, {})
    /\ env' = [env EXCEPT ![c] = [EmptyEnv EXCEPT !.txn = Len(log) + 1]]
    /\ UNCHANGED <<sync, check, outcome, fatal>>

\* SharedLogCheckTail over all entries.
CreateReadOnlyTxnEnv(c) ==
    /\ Calls(c, "CreateReadOnlyTxnEnv", None)
    /\ \E k \in 0 .. Len(log) :
         /\ IndexAt(c, k)
         /\ env' = [env EXCEPT ![c] = [EmptyEnv EXCEPT !.txn = k + 1, !.readonly = TRUE]]
    /\ UNCHANGED <<log, aux, sync, check, outcome, fatal>>

TxnAbort(c) ==
    /\ Calls(c, "TxnAbort", None) /\ InTxn(c) /\ ~env[c].readonly
    /\ AppendEntry(c, "abort", <<>>, env[c].txn, {})
    /\ env' = [env EXCEPT ![c] = EmptyEnv]
    /\ UNCHANGED <<sync, check, outcome, fatal>>

(***************************************************************************)
(* Synchronization of an object.                                           *)
(***************************************************************************)
\* syncTo, reading backwards from before the sequence number tail.
SyncTo(c, o, tail) ==
    LET view == env[c].views[o] IN
    /\ sync' = [sync EXCEPT ![c] = [obj |-> o, at |-> tail, logs |-> <<>>, view |-> NoView]]
    /\ fatal' = (fatal \/ (view # NoView /\ tail < view.next))

CurrentSeqNum(c) ==
    LET view == env[c].views[sync[c].obj] IN IF view = NoView THEN 0 ELSE view.next

\* A call of checkTxnCommitResult for the commit entry i.
Frame(i, a) ==
    [entry |-> i, aux |-> a, ops |-> log[i].ops, checked |-> {}, at |-> i, result |-> "none"]

\* What to do with an entry that writes the object and takes effect.
UseEntry(c, i, a) ==
    LET s == sync[c] IN
    IF hasCachedObjectView(i, a, s.obj)
      THEN sync' = [sync EXCEPT ![c].view = [next |-> i + 1, contents |-> a.views[s.obj]],
                                ![c].at = CurrentSeqNum(c)]
      ELSE sync' = [sync EXCEPT ![c].logs = Append(@, [entry |-> i, aux |-> a]),
                                ![c].at = i]

\* A mutated form: the same entry is read again.
SkipEntryStays(c, i) == UNCHANGED sync

SkipEntry(c, i) == sync' = [sync EXCEPT ![c].at = i]

\* The loop is over: apply what was collected.
SyncReadDone(c) ==
    /\ env' = [env EXCEPT ![c].pc = @ \o "Apply"]
    /\ sync' = [sync EXCEPT ![c].view =
         IF @ # NoView THEN @
         ELSE IF env[c].views[sync[c].obj] # NoView THEN env[c].views[sync[c].obj]
         ELSE EmptyView]

Syncing == {"get", "write", "sync"}

\* There is no further entry, or the copy holds it already.
StopsAt(c, i) == i = None \/ i < CurrentSeqNum(c)

\* One turn of the loop of syncToBackward.
syncToBackward(c) ==
    /\ env[c].pc \in Syncing /\ check[c] = <<>> /\ ~fatal
    /\ \E k \in IF sync[c].at = MaxLogSeqnum THEN seen[c] .. Len(log) ELSE {seen[c]} :
       LET s == sync[c]
           from == IF s.at = MaxLogSeqnum THEN s.at ELSE s.at - 1
           i == SharedLogReadPrev(log, k, Tag[s.obj], from) IN
       /\ IndexAt(c, k)
       /\ IF s.at <= CurrentSeqNum(c) \/ StopsAt(c, i)
            THEN SyncReadDone(c) /\ UNCHANGED check
            ELSE /\ UNCHANGED env
                 /\ \E a \in AuxSeen(i) :
                      IF ~withinWriteSet(i, s.obj) THEN SkipEntry(c, i) /\ UNCHANGED check
                      ELSE IF log[i].type = "normal" \/ a.r = "yes"
                        THEN UseEntry(c, i, a) /\ UNCHANGED check
                      ELSE IF a.r = "no" THEN SkipEntry(c, i) /\ UNCHANGED check
                      ELSE check' = [check EXCEPT ![c] = <<Frame(i, a)>>] /\ UNCHANGED sync
    /\ UNCHANGED <<log, aux, todo, outcome, fatal>>

\* A mutated form: the object is cached with the entry before it is applied.
ApplyLogStale(c) ==
    /\ env[c].pc \in {"getApply", "writeApply", "syncApply"} /\ sync[c].logs # <<>>
    /\ LET s == sync[c]  l == Last(s.logs)  i == l.entry
           view == applyWriteOps(s.view, i, s.obj) IN
       /\ setLogAuxData(i, cacheObjectView(l.aux, s.obj, s.view.contents))
       /\ sync' = [sync EXCEPT ![c].view = view, ![c].logs = Front(@)]
       /\ fatal' = (fatal \/ i < s.view.next)
    /\ UNCHANGED <<log, todo, seen, env, check, outcome>>

\* The oldest entry collected is applied, and the object cached with it.
ApplyLog(c) ==
    /\ env[c].pc \in {"getApply", "writeApply", "syncApply"} /\ sync[c].logs # <<>>
    /\ LET s == sync[c]  l == Last(s.logs)  i == l.entry
           view == applyWriteOps(s.view, i, s.obj) IN
       /\ setLogAuxData(i, cacheObjectView(l.aux, s.obj, view.contents))
       /\ sync' = [sync EXCEPT ![c].view = view, ![c].logs = Front(@)]
       /\ fatal' = (fatal \/ i < s.view.next)
    /\ UNCHANGED <<log, todo, seen, env, check, outcome>>

\* The object is up to date; a write is then applied to it as well.
SyncDone(c) ==
    /\ env[c].pc \in {"getApply", "writeApply", "syncApply"} /\ sync[c].logs = <<>>
    /\ LET o == sync[c].obj
           view == IF env[c].pc = "writeApply"
                     THEN applyWriteOps(sync[c].view, env[c].entry, o)
                     ELSE sync[c].view IN
       env' = [env EXCEPT ![c].views[o] = view, ![c].pc = "idle", ![c].entry = None]
    /\ sync' = [sync EXCEPT ![c] = NoSync]
    /\ UNCHANGED <<log, aux, todo, seen, check, outcome, fatal>>

(***************************************************************************)
(* Whether a transaction committed.                                        *)
(***************************************************************************)
\* checkTxnCommitResult returns r for the last frame: it is cached, and the
\* caller goes on.
CheckReturns(c, r) ==
    LET f == Last(check[c])  rest == Front(check[c])
        a == [f.aux EXCEPT !.r = r] IN
    /\ setLogAuxData(f.entry, a)
    /\ IF rest # <<>>
         THEN /\ check' = [check EXCEPT ![c] =
                   [rest EXCEPT ![Len(rest)].result = r]]
              /\ UNCHANGED <<env, sync, outcome>>
         ELSE /\ check' = [check EXCEPT ![c] = <<>>]
              /\ IF env[c].pc = "commit"
                   THEN /\ outcome' = outcome \cup {<<f.entry, r>>}
                        /\ env' = [env EXCEPT ![c] = EmptyEnv]
                        /\ UNCHANGED sync
                   ELSE /\ IF r = "yes" THEN UseEntry(c, f.entry, a) ELSE SkipEntry(c, f.entry)
                        /\ UNCHANGED <<env, outcome>>

CheckGoesOn(c, f) ==
    /\ check' = [check EXCEPT ![c][Len(check[c])] = f]
    /\ UNCHANGED <<aux, env, sync, outcome>>

\* A mutated form: only writes outside transactions conflict.
checkTxnCommitResultNormal(c) ==
    /\ check[c] # <<>>
    /\ LET f == Last(check[c])  txn == log[f.entry].txn
           i == SharedLogReadPrev(log, seen[c], Tag[Head(f.ops)], f.at - 1) IN
       IF f.ops = <<>> THEN CheckReturns(c, "yes")
       ELSE IF f.at <= txn \/ i = None \/ i <= txn
         THEN CheckGoesOn(c, [f EXCEPT !.ops = Tail(@), !.at = f.entry])
       ELSE IF writeSetOverlapped(f.entry, i) /\ log[i].type = "normal"
         THEN CheckReturns(c, "no")
       ELSE CheckGoesOn(c, [f EXCEPT !.at = i])
    /\ UNCHANGED <<log, todo, seen, fatal>>

\* One turn of its loops: the entries with the tag of each object written,
\* from the commit entry back to where the transaction began.
checkTxnCommitResult(c) ==
    /\ check[c] # <<>>
    /\ LET f == Last(check[c])  txn == log[f.entry].txn  tag == Tag[Head(f.ops)]
           i == SharedLogReadPrev(log, seen[c], tag, f.at - 1) IN
       IF f.result = "yes" THEN CheckReturns(c, "no")
       ELSE IF f.ops = <<>> THEN CheckReturns(c, "yes")
       ELSE IF tag \in f.checked THEN CheckGoesOn(c, [f EXCEPT !.ops = Tail(@)])
       ELSE IF f.at <= txn \/ i = None \/ i <= txn
         THEN CheckGoesOn(c, [f EXCEPT !.ops = Tail(@), !.at = f.entry,
                                       !.checked = @ \cup {tag}])
       ELSE IF ~writeSetOverlapped(f.entry, i) THEN CheckGoesOn(c, [f EXCEPT !.at = i])
       ELSE IF log[i].type = "normal" THEN CheckReturns(c, "no")
       ELSE \E a \in AuxSeen(i) :
              CASE a.r = "yes" -> CheckReturns(c, "no")
                [] a.r = "no" -> CheckGoesOn(c, [f EXCEPT !.at = i])
                [] OTHER ->
                   /\ check' = [check EXCEPT ![c] =
                        Append([@ EXCEPT ![Len(@)] = [f EXCEPT !.at = i, !.result = "none"]],
                               Frame(i, a))]
                   /\ UNCHANGED <<aux, env, sync, outcome>>
    /\ UNCHANGED <<log, todo, seen, fatal>>

(***************************************************************************)
(* The operations of an object.                                            *)
(***************************************************************************)
\* Get: the object as of the transaction, or the latest there is.
Get(c, o) ==
    /\ Calls(c, "Get", o) /\ env[c].multi # o
    /\ env[c].views[o] = NoView
    /\ SyncTo(c, o, IF InTxn(c) THEN env[c].txn ELSE MaxLogSeqnum)
    /\ env' = [env EXCEPT ![c].pc = "get"]
    /\ UNCHANGED <<log, aux, seen, check, outcome>>

Sync(c, o) ==
    /\ Calls(c, "Sync", o) /\ ~InTxn(c)
    /\ SyncTo(c, o, MaxLogSeqnum)
    /\ env' = [env EXCEPT ![c].pc = "sync"]
    /\ UNCHANGED <<log, aux, seen, check, outcome>>

\* The entry is appended, and the object brought up to it.
appendNormalOpLog(c, o, ops) ==
    /\ AppendEntry(c, "normal", ops, None, {Tag[o]})
    /\ SyncTo(c, o, Len(log) + 1)
    /\ env' = [env EXCEPT ![c].pc = "write", ![c].entry = Len(log) + 1,
                          ![c].multi = IF @ = o THEN None ELSE @,
                          ![c].ops = IF env[c].multi = o THEN <<>> ELSE @]
    /\ UNCHANGED <<check, outcome>>

\* A write: kept for later within a transaction or a multi, else appended.
doWriteOp(c, o) ==
    /\ Calls(c, "doWriteOp", o)
    /\ IF env[c].multi = o \/ InTxn(c)
         THEN /\ ~env[c].readonly
              /\ env' = [env EXCEPT ![c].ops = Append(@, o)]
              /\ UNCHANGED <<log, aux, seen, sync, check, outcome, fatal>>
         ELSE appendNormalOpLog(c, o, <<o>>)

MultiBegin(c, o) ==
    /\ Calls(c, "MultiBegin", o) /\ env[c].multi = None /\ ~InTxn(c)
    /\ env' = [env EXCEPT ![c].multi = o]
    /\ UNCHANGED <<log, aux, seen, sync, check, outcome, fatal>>

MultiAbort(c) ==
    /\ Calls(c, "MultiAbort", None) /\ env[c].multi # None
    /\ env' = [env EXCEPT ![c].multi = None, ![c].ops = <<>>]
    /\ UNCHANGED <<log, aux, seen, sync, check, outcome, fatal>>

MultiCommit(c) ==
    /\ Calls(c, "MultiCommit", None) /\ env[c].multi # None
    /\ IF env[c].ops = <<>>
         THEN /\ env' = [env EXCEPT ![c].multi = None]
              /\ UNCHANGED <<log, aux, seen, sync, check, outcome, fatal>>
         ELSE appendNormalOpLog(c, env[c].multi, env[c].ops)

TxnCommit(c) ==
    /\ Calls(c, "TxnCommit", None) /\ InTxn(c) /\ ~env[c].readonly
    /\ LET ops == env[c].ops  i == Len(log) + 1 IN
       /\ AppendEntry(c, "commit", ops, env[c].txn, {Tag[o] : o \in Range(ops)})
       /\ check' = [check EXCEPT ![c] =
            <<[entry |-> i, aux |-> NoAux, ops |-> ops, checked |-> {}, at |-> i,
               result |-> "none"]>>]
    /\ env' = [env EXCEPT ![c].pc = "commit"]
    /\ UNCHANGED <<sync, outcome, fatal>>

Step(c) ==
    \/ syncToBackward(c) \/ ApplyLog(c) \/ SyncDone(c) \/ checkTxnCommitResult(c)

Call(c) ==
    \/ CreateEnv(c) \/ CreateTxnEnv(c) \/ CreateReadOnlyTxnEnv(c)
    \/ TxnAbort(c) \/ TxnCommit(c) \/ MultiAbort(c) \/ MultiCommit(c)
    \/ \E o \in Objects : Get(c, o) \/ Sync(c, o) \/ doWriteOp(c, o) \/ MultiBegin(c, o)

Next == \E c \in Clients : Step(c) \/ Call(c)

\* Some function makes a step as long as one can.
Spec == Init /\ [][Next]_vars /\ WF_vars(Next)

(***************************************************************************)
(* Properties.                                                             *)
(***************************************************************************)
\* Whether a commit entry takes effect: no write to one of its objects that
\* takes effect lies between the beginning of the transaction and the entry.
Committed[i \in DOMAIN log] ==
    /\ log[i].type = "commit"
    /\ \A j \in log[i].txn + 1 .. i - 1 :
         writeSetOverlapped(i, j) => log[j].type = "commit" /\ ~Committed[j]

\* The writes to an object that take effect before position n, in log order.
Effective(o, n) ==
    FlattenSeq([i \in 1 .. IF n > Len(log) THEN Len(log) ELSE n - 1 |->
      IF log[i].type = "normal" \/ Committed[i] THEN OpsOf(i, o) ELSE <<>>])

\* A client's copy of an object is exactly the writes that take effect up to
\* where it was read, whoever cached what on the way; in a transaction it is
\* the state at the transaction's beginning.
ViewsReplayTheLog ==
    \A c \in Clients, o \in Objects :
      LET view == env[c].views[o] IN
      view # NoView =>
        /\ view.contents = Effective(o, view.next)
        /\ InTxn(c) => view.contents = Effective(o, env[c].txn)

\* What TxnCommit returns is what every other client concludes from the log:
\* of two transactions that overlap in time and write the same object, at
\* most one commits, and none that a plain write came in between.
OutcomesFollowTheLog ==
    \A p \in outcome : (p[2] = "yes") = Committed[p[1]]

AllReturned == \A c \in Clients : Idle(c) /\ todo[c] = <<>>

\* Every function ends: the loops backwards over the log, and the decisions
\* that need other decisions, come to an end, and none of them runs into a
\* log.Fatalf, asked to go back to before the copy it has or to apply an entry
\* that is in it already.
FunctionsReturn == <>AllReturned
=============================================================================
