------------------------------ MODULE LogQueue ------------------------------
(***************************************************************************)
(* The queues of slib/sync: a queue is the log of its pushes and pops.  A  *)
(* client keeps how far the queue is consumed and where it ends, brings    *)
(* them up to date from the log (from the auxiliary data of the last entry *)
(* that has some), and pops by appending a pop entry: what the pop returns *)
(* is determined by the entries before it.  A sharded queue goes round its *)
(* queues.                                                                 *)
(*                                                                         *)
(* The payload of a push is the position of its entry.                     *)
(***************************************************************************)
EXTENDS LogClient, FiniteSets, SequencesExt

CONSTANTS Clients,
          Shards,      \* the queues of a sharded queue, 1 .. n
          Tag,         \* the hash of their names: may coincide
          Programs,    \* for each client, a sequence of calls <<name, shard>>
          Turns,       \* where clients may start in the round of the shards
          Drainers     \* clients that go on popping for ever

VARIABLES
    log,       \* entries [push, name, tags]
    aux,       \* for each entry, [consumed, tail] or NoAux
    seen,      \* for each client, the prefix of the log its reads see
    todo,      \* for each client, the calls its function has yet to make
    queues,    \* for each client and shard, [consumed, tail, next]
    turn,      \* for each client, [push, pop]: nextPush, nextPop
    run,       \* for each client, the call under way (see Idle)
    popped,    \* what pops returned, as <<pop entry, push entry or None>>
    fatal      \* a log.Fatalf was reached

vars == <<log, aux, seen, todo, queues, turn, run, popped, fatal>>

NoAux == <<>>
Idle == [pc |-> "idle", call |-> "none", shard |-> 1, at |-> 0, logs |-> <<>>, from |-> 0]

QueueTag(s) == <<"queue", Tag[s]>>
QueuePushTag(s) == <<"push", Tag[s]>>

Init ==
    /\ log = <<>> /\ aux = <<>> /\ popped = {} /\ fatal = FALSE
    /\ seen = [c \in Clients |-> 0] /\ todo \in Programs
    /\ queues = [c \in Clients |-> [s \in Shards |-> [consumed |-> 0, tail |-> 0, next |-> 0]]]
    /\ \E t \in Turns : turn = [c \in Clients |-> t]
    /\ run = [c \in Clients |-> Idle]

IsEmpty(q) == q.consumed >= q.tail

\* findNext: the first push to the queue in [min, max).
findNext(s, min, max) ==
    MinOf({i \in DOMAIN log : i >= min /\ i < max /\ log[i].push /\ log[i].name = s})

\* A mutated form: the element popped counts as not consumed.
applyLogKeeps(q, s, i) ==
    IF log[i].push THEN [q EXCEPT !.tail = i + 1, !.next = i + 1]
    ELSE LET n == findNext(s, q.consumed, q.tail) IN
         [q EXCEPT !.consumed = IF n # None THEN n ELSE i, !.next = i + 1]

applyLog(q, s, i) ==
    IF log[i].push THEN [q EXCEPT !.tail = i + 1, !.next = i + 1]
    ELSE LET n == findNext(s, q.consumed, q.tail) IN
         [q EXCEPT !.consumed = IF n # None THEN n + 1 ELSE i, !.next = i + 1]

\* A read of the latest entries: the index of the client's engine has moved
\* on since the last one, as far as it may.
IndexAt(c, k) == k \in seen[c] .. Len(log) /\ seen' = [seen EXCEPT ![c] = k]

AppendEntry(c, push, s) ==
    /\ log' = Append(log, [push |-> push, name |-> s,
                           tags |-> IF push THEN {QueueTag(s), QueuePushTag(s)}
                                    ELSE {QueueTag(s)}])
    /\ aux' = Append(aux, NoAux)
    /\ seen' = [seen EXCEPT ![c] = Len(log) + 1]

Next1(s) == (s % Cardinality(Shards)) + 1

\* The function makes its next call; a drainer that has made them all pops.
Calls(c, name) ==
    /\ run[c] = Idle
    /\ IF todo[c] # <<>>
         THEN Head(todo[c]) = name /\ todo' = [todo EXCEPT ![c] = Tail(@)]
         ELSE c \in Drainers /\ name = "Pop" /\ UNCHANGED todo

\* ShardedQueue::Push, which goes round the shards.
Push(c) ==
    /\ Calls(c, "Push")
    /\ AppendEntry(c, TRUE, turn[c].push)
    /\ turn' = [turn EXCEPT ![c].push = Next1(@)]
    /\ UNCHANGED <<queues, run, popped, fatal>>

\* A mutated form: every pop is from the same shard.
BeginPopSame(c, call) ==
    /\ Calls(c, call)
    /\ run' = [run EXCEPT ![c] = [Idle EXCEPT !.pc = "test", !.call = call,
                                              !.shard = turn[c].pop]]
    /\ UNCHANGED <<log, aux, seen, queues, turn, popped, fatal>>

\* ShardedQueue::Pop and PopBlocking.
BeginPop(c, call) ==
    /\ Calls(c, call)
    /\ run' = [run EXCEPT ![c] = [Idle EXCEPT !.pc = "test", !.call = call,
                                              !.shard = turn[c].pop]]
    /\ turn' = [turn EXCEPT ![c].pop = Next1(@)]
    /\ UNCHANGED <<log, aux, seen, queues, popped, fatal>>

\* ShardedQueue::PopFromShard.
PopFromShard(c) ==
    /\ Calls(c, "PopFromShard")
    /\ \E s \in Shards :
         run' = [run EXCEPT ![c] = [Idle EXCEPT !.pc = "test", !.call = "Pop", !.shard = s]]
    /\ UNCHANGED <<log, aux, seen, queues, turn, popped, fatal>>

SyncTo(c, tail, after) ==
    /\ run' = [run EXCEPT ![c].pc = after, ![c].at = tail, ![c].logs = <<>>]
    /\ fatal' = (fatal \/ tail < queues[c][run[c].shard].next)

\* An empty queue is first brought up to date.
TestEmpty(c) ==
    /\ run[c].pc = "test"
    /\ IF IsEmpty(queues[c][run[c].shard])
         THEN SyncTo(c, MaxLogSeqnum, "sync")
         ELSE run' = [run EXCEPT ![c].pc = "pop"] /\ UNCHANGED fatal
    /\ UNCHANGED <<log, aux, seen, todo, queues, turn, popped>>

\* One turn of the loop of syncToBackward.
syncToBackward(c) ==
    /\ run[c].pc \in {"sync", "syncToPop"} /\ ~fatal
    /\ \E k \in IF run[c].at = MaxLogSeqnum THEN seen[c] .. Len(log) ELSE {seen[c]} :
       LET r == run[c]  s == r.shard  q == queues[c][s]
           from == IF r.at = MaxLogSeqnum THEN r.at ELSE r.at - 1
           i == SharedLogReadPrev(log, k, QueueTag(s), from)
           done == [run EXCEPT ![c].pc = IF r.pc = "sync" THEN "apply" ELSE "applyToPop"] IN
       /\ IndexAt(c, k)
       /\ IF r.at <= q.next \/ i = None \/ i < q.next
            THEN run' = done /\ UNCHANGED queues
          ELSE IF log[i].name # s
            THEN run' = [run EXCEPT ![c].at = i] /\ UNCHANGED queues
          ELSE \/ /\ aux[i] # NoAux
                  /\ queues' = [queues EXCEPT ![c][s] =
                       [consumed |-> aux[i].consumed, tail |-> aux[i].tail, next |-> i + 1]]
                  /\ run' = done
               \/ /\ run' = [run EXCEPT ![c].logs = Append(@, i), ![c].at = i]
                  /\ UNCHANGED queues
    /\ UNCHANGED <<log, aux, todo, turn, popped, fatal>>

\* The oldest entry collected is applied, and the result cached with it.
ApplyOne(c) ==
    /\ run[c].pc \in {"apply", "applyToPop"} /\ run[c].logs # <<>>
    /\ LET s == run[c].shard  i == Last(run[c].logs)  q == applyLog(queues[c][s], s, i) IN
       /\ queues' = [queues EXCEPT ![c][s] = q]
       /\ aux' = [aux EXCEPT ![i] = [consumed |-> q.consumed, tail |-> q.tail]]
       /\ fatal' = (fatal \/ i < queues[c][s].next)
    /\ run' = [run EXCEPT ![c].logs = Front(@)]
    /\ UNCHANGED <<log, seen, todo, turn, popped>>

\* The queue is up to date.  If it is still empty, Pop returns that it is,
\* and PopBlocking waits for a push.
Synced(c) ==
    /\ run[c].pc = "apply" /\ run[c].logs = <<>>
    /\ LET q == queues[c][run[c].shard] IN
       run' = [run EXCEPT ![c] =
         IF ~IsEmpty(q) THEN [@ EXCEPT !.pc = "pop"]
         ELSE IF @.call = "Pop" THEN Idle
         ELSE [@ EXCEPT !.pc = "wait", !.from = q.next]]
    /\ UNCHANGED <<log, aux, seen, todo, queues, turn, popped, fatal>>

\* SharedLogReadNextBlock returns an entry.
WaitForPush(c) ==
    /\ run[c].pc = "wait"
    /\ \E k \in seen[c] .. Len(log) :
       LET i == SharedLogReadNext(log, k, QueuePushTag(run[c].shard), run[c].from) IN
       /\ i # None /\ IndexAt(c, k)
       /\ run' = [run EXCEPT ![c] =
            IF log[i].name = @.shard THEN [@ EXCEPT !.pc = "pop"] ELSE [@ EXCEPT !.from = i + 1]]
    /\ UNCHANGED <<log, aux, todo, queues, turn, popped, fatal>>

\* The time of PopBlocking is over, while it waits or before it tries again.
Timeout(c) ==
    /\ \/ run[c].pc = "wait"
       \/ run[c].pc = "test" /\ run[c].call = "PopBlocking" /\ run[c].from # 0
    /\ run' = [run EXCEPT ![c] = Idle]
    /\ UNCHANGED <<log, aux, seen, todo, queues, turn, popped, fatal>>

\* appendPopLogAndSync, up to the entry of the pop itself.
appendPopLogAndSync(c) ==
    /\ run[c].pc = "pop"
    /\ AppendEntry(c, FALSE, run[c].shard)
    /\ run' = [run EXCEPT ![c].pc = "syncToPop", ![c].at = Len(log) + 1,
                          ![c].from = Len(log) + 1]
    /\ fatal' = (fatal \/ Len(log) + 1 < queues[c][run[c].shard].next)
    /\ UNCHANGED <<todo, queues, turn, popped>>

\* The pop returns the first push that is not consumed.  If there is none,
\* Pop returns that the queue is empty; PopBlocking tries again.
ReturnNext(c) ==
    /\ run[c].pc = "applyToPop" /\ run[c].logs = <<>>
    /\ LET s == run[c].shard  q == queues[c][s]  n == findNext(s, q.consumed, q.tail) IN
       /\ popped' = popped \cup {<<run[c].from, n>>}
       /\ run' = [run EXCEPT ![c] =
            IF n # None \/ @.call = "Pop" THEN Idle ELSE [@ EXCEPT !.pc = "test"]]
    /\ UNCHANGED <<log, aux, seen, todo, queues, turn, fatal>>

Step(c) ==
    \/ TestEmpty(c) \/ syncToBackward(c) \/ ApplyOne(c) \/ Synced(c)
    \/ WaitForPush(c) \/ appendPopLogAndSync(c) \/ ReturnNext(c)

Call(c) == Push(c) \/ BeginPop(c, "Pop") \/ BeginPop(c, "PopBlocking") \/ PopFromShard(c)

Next == \E c \in Clients : Step(c) \/ Call(c) \/ Timeout(c)

\* The index of an engine follows the log: a client that reads the latest
\* entries again and again reads all there are now and then.
IndexFollows == []<>(\A c \in Drainers : seen[c] = Len(log))

Spec ==
    /\ Init /\ [][Next]_vars
    /\ \A c \in Clients : WF_vars(Step(c) \/ Call(c))
    /\ IndexFollows

(***************************************************************************)
(* Properties.                                                             *)
(***************************************************************************)
\* The pushes in the queue of a shard before position n of the log.
Contents[n \in 1 .. Len(log) + 1] ==
    IF n = 1 THEN [s \in Shards |-> <<>>]
    ELSE LET e == log[n - 1] IN
         [Contents[n - 1] EXCEPT ![e.name] =
            IF e.push THEN Append(@, n - 1) ELSE IF @ = <<>> THEN @ ELSE Tail(@)]

\* The queue is a queue: what a pop returns is the first element of the
\* queue at the place of the pop in the log, and nothing only if the queue
\* is empty there.  So no element is popped twice or out of turn, whatever
\* the clients cached.
PopsFollowTheLog ==
    \A p \in popped :
      LET q == Contents[p[1]][log[p[1]].name] IN
      p[2] = IF q = <<>> THEN None ELSE Head(q)

AllPopped == \A s \in Shards : Contents[Len(log) + 1][s] = <<>>

\* Nothing is left behind: with a client that keeps popping round the
\* shards, every element pushed is taken out by a pop in the end.
EveryPushIsPopped == <>[]AllPopped
=============================================================================
