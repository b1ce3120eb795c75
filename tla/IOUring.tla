------------------------------ MODULE IOUring -------------------------------
(***************************************************************************)
(* The operations of one file descriptor of an IO worker                   *)
(* (server/io_uring.cpp): reads that repeat, writes, sends that are        *)
(* chained one behind the other and may consist of several parts, and a    *)
(* close that waits for all of them.  Operations that are submitted are    *)
(* completed by the kernel in any order; the callbacks run inside the      *)
(* handlers of the completions and issue operations of their own, as the   *)
(* connections of the code do: they close the descriptor when an           *)
(* operation fails, read again when a response is out, send on.            *)
(*                                                                         *)
(* The state of the ring is a record, and an operation of the class an     *)
(* operator from records to records, so that callbacks can call them.      *)
(***************************************************************************)
EXTENDS Integers, FiniteSets, SequencesExt

CONSTANTS Messages,    \* what may be sent: the lengths of the parts
          MaxSends,    \* bound: how often SendAll is called
          MaxReads,    \* bound: how often data arrives
          MaxWrites    \* bound: how often Write is called

VARIABLES
    ring,      \* [ops, id, submitted, cbs] of the ring: ops_, next_op_id_, what
               \* the kernel has, sendall_cbs_; [count, read, last, close,
               \* registered] of the descriptor; what the callbacks know: ends,
               \* for each call of SendAll where its data ends in the stream;
               \* told, the status each was told; closed, how often Close was
    wire,      \* the units of data the kernel took
    reads,     \* how often data arrived
    writes     \* how often Write was called

vars == <<ring, wire, reads, writes>>

None == 0
Closing(s) == ~s.registered \/ s.close # None
Put(f, x, v) == [y \in DOMAIN f \cup {x} |-> IF y = x THEN v ELSE f[y]]
Total(lengths) == FoldSeq(LAMBDA x, y : x + y, 0, lengths)

(***************************************************************************)
(* Operations.                                                             *)
(***************************************************************************)
Op(type, data) ==
    [type |-> type, data |-> data, next |-> None, root |-> None, cancelled |-> FALSE]

\* ALLOC_OP: the new operation has the number s.id.
Alloc(s, type, data) ==
    [s EXCEPT !.ops = Put(@, s.id, Op(type, data)), !.id = @ + 1,
              !.count = IF type \in {"close", "cancel"} THEN @ ELSE @ + 1]

EnqueueOp(s, i) ==
    [s EXCEPT !.submitted = @ \cup {i}, !.read = IF s.ops[i].type = "read" THEN i ELSE @]

Connect(s) == EnqueueOp(Alloc(s, "connect", <<>>), s.id)

StartRecv(s) ==
    IF Closing(s) \/ s.read # None THEN s ELSE EnqueueOp(Alloc(s, "read", <<>>), s.id)

StopReadOrRecv(s) ==
    LET t == [s EXCEPT !.ops[s.read].cancelled = TRUE] IN
    [EnqueueOp(Alloc(t, "cancel", <<>>), t.id) EXCEPT !.read = None]

Write(s) == IF Closing(s) THEN s ELSE EnqueueOp(Alloc(s, "write", <<>>), s.id)

\* One part: linked behind the last send of the descriptor.
AllocSendAllOp(s, data) ==
    LET t == Alloc(s, "send", data)
        u == IF s.last = None THEN t ELSE [t EXCEPT !.ops[s.last].next = s.id] IN
    [u EXCEPT !.last = s.id]

\* Only one send of a descriptor is submitted at a time.
SubmitNow(s) == TRUE

SendNow(s) == s.last = None

\* The parts before the last point to it; the first one has the callback.
SendAll(s, lengths) ==
    LET end == IF s.ends = <<>> THEN 0 ELSE Last(s.ends)
        Part(k) == LET before == Total(SubSeq(lengths, 1, k - 1)) IN
                   [j \in 1 .. lengths[k] |-> end + before + j]
        t == FoldLeft(AllocSendAllOp, s, [k \in DOMAIN lengths |-> Part(k)])
        u == [t EXCEPT
                !.ops = [i \in DOMAIN @ |->
                    IF i \in s.id .. t.last - 1 THEN [@[i] EXCEPT !.root = t.last] ELSE @[i]],
                !.cbs = Put(@, s.id, Len(s.ends) + 1),
                !.ends = Append(@, end + Total(lengths))] IN
    IF Closing(s) \/ Len(s.ends) = MaxSends THEN s
    ELSE IF SendNow(s) THEN EnqueueOp(u, s.id) ELSE u

UnregisterFd(s) == [s EXCEPT !.registered = FALSE]

\* The close is submitted when no other operation is left.
CloseNow(s) == TRUE

CloseIsNext(s) == s.count = 0

TryClose(s) ==
    IF s.registered /\ s.close # None /\ CloseIsNext(s)
      THEN EnqueueOp(UnregisterFd(s), s.close) ELSE s

CancelRead(s) == IF s.read # None THEN StopReadOrRecv(s) ELSE s

Close(s) ==
    LET t == CancelRead(s)
        u == [Alloc(t, "close", <<>>) EXCEPT !.close = t.id] IN
    IF Closing(s) THEN s ELSE TryClose(u)

(***************************************************************************)
(* Callbacks: what they can make of the ring.                              *)
(***************************************************************************)
Sending(s) == {SendAll(s, m) : m \in Messages}

OnConnected(s) == Sending(StartRecv(s))

OnData(s) == {s} \cup Sending(s)

OnSent(s) == {s, StartRecv(s)} \cup Sending(s)

(***************************************************************************)
(* Completions, of operation i: sets of pairs <<ring, next_op>>.           *)
(***************************************************************************)
HandleConnectComplete(s, ok) == {<<t, None>> : t \in IF ok THEN OnConnected(s) ELSE {Close(s)}}

HandleWriteOpComplete(s, ok) == {<<IF ok THEN s ELSE Close(s), None>>}

\* r: what the callback returns, if it is called.
HandleReadOpComplete(s, i, res) ==
    LET s1 == [s EXCEPT !.read = None]
        outcomes == CASE res = "data" -> OnData(s1) \X BOOLEAN
                      [] res = "again" -> {<<s1, TRUE>>}
                      [] res = "canceled" -> {<<s1, FALSE>>}
                      [] OTHER -> {<<Close(s1), FALSE>>} IN
    {IF o[2] /\ ~s.ops[i].cancelled /\ o[1].close = None
       THEN <<Alloc(o[1], "read", <<>>), o[1].id>> ELSE <<o[1], None>> : o \in outcomes}

Forget(s, i) == [s EXCEPT !.last = IF @ = i THEN None ELSE @]

\* The whole data is sent: the callback is called, or is handed to the next part.
SentAll(s, i, n) ==
    IF s.ops[i].root # None
      THEN {<<[s EXCEPT !.cbs = Put(@, s.ops[i].next, n)], None>>}
      ELSE {<<Forget(t, i), None>> : t \in OnSent([s EXCEPT !.told = Append(@, <<n, "ok">>)])}

\* The rest is sent by a new operation that takes the place of this one.
SentPart(s, i, n, k) ==
    LET op == s.ops[i]
        t == Alloc(s, "send", SubSeq(op.data, k + 1, Len(op.data))) IN
    {<<[t EXCEPT !.ops[s.id].next = op.next, !.ops[s.id].root = op.root,
                 !.cbs = Put(@, s.id, n), !.last = IF @ = i THEN s.id ELSE @], s.id>>}

\* The callback is called and closes.  The parts that were to follow are given
\* up: they leave the chain and the count, but not ops_.
SendFailed(s, i, n) ==
    LET t == Close([s EXCEPT !.told = Append(@, <<n, "failed">>)])
        op == t.ops[i] IN
    IF op.root = None THEN {<<Forget(t, i), None>>}
    ELSE {<<[Forget(t, op.root) EXCEPT !.ops[i].next = t.ops[op.root].next,
                                       !.count = @ - (op.root - op.next + 1)], None>>}

HandleSendallOpComplete(s, i, k) ==
    LET n == s.cbs[i]
        s1 == [s EXCEPT !.cbs = [j \in DOMAIN @ \ {i} |-> @[j]]] IN
    IF k < 0 THEN SendFailed(s1, i, n)
    ELSE IF k = Len(s.ops[i].data) THEN SentAll(s1, i, n) ELSE SentPart(s1, i, n, k)

HandleCloseOpComplete(s) == {<<[s EXCEPT !.closed = @ + 1], None>>}

\* EventLoopRunOnce takes the completion; OnOpComplete, after the handlers
\* above: what comes next is submitted, the last operation lets the close go.
OnOpComplete(i, outcomes) ==
    \E o \in outcomes :
      LET op == o[1].ops[i]
          next == IF o[2] # None THEN o[2] ELSE op.next
          s == IF next # None THEN EnqueueOp(o[1], next) ELSE o[1]
          t == [s EXCEPT !.ops = [j \in DOMAIN @ \ {i} |-> @[j]], !.submitted = @ \ {i}] IN
      ring' = IF op.type \in {"close", "cancel"} THEN t ELSE TryClose([t EXCEPT !.count = @ - 1])

(***************************************************************************)
(* The kernel completes operations.                                        *)
(***************************************************************************)
Pending(type) == {i \in ring.submitted : ring.ops[i].type = type}

ConnectCompletes ==
    /\ \E i \in Pending("connect"), ok \in BOOLEAN :
         OnOpComplete(i, HandleConnectComplete(ring, ok))
    /\ UNCHANGED <<wire, reads, writes>>

WriteCompletes ==
    /\ \E i \in Pending("write"), ok \in BOOLEAN :
         OnOpComplete(i, HandleWriteOpComplete(ring, ok))
    /\ UNCHANGED <<wire, reads, writes>>

\* Also a read that is being cancelled may still get data.
ReadCompletes ==
    /\ \E i \in Pending("read"), res \in {"data", "again", "end", "canceled"} :
         /\ res \in {"data", "again"} => reads < MaxReads
         /\ res = "canceled" => ring.ops[i].cancelled
         /\ reads' = IF res \in {"data", "again"} THEN reads + 1 ELSE reads
         /\ OnOpComplete(i, HandleReadOpComplete(ring, i, res))
    /\ UNCHANGED <<wire, writes>>

\* A send may fail though those behind it do not.
SendCompletes ==
    /\ \E i \in Pending("send"), k \in -1 .. 3 :
         /\ k \in {-1} \cup 1 .. Len(ring.ops[i].data)
         /\ wire' = wire \o SubSeq(ring.ops[i].data, 1, k)
         /\ OnOpComplete(i, HandleSendallOpComplete(ring, i, k))
    /\ UNCHANGED <<reads, writes>>

CancelCompletes ==
    /\ \E i \in Pending("cancel") : OnOpComplete(i, {<<ring, None>>})
    /\ UNCHANGED <<wire, reads, writes>>

CloseCompletes ==
    /\ \E i \in Pending("close") : OnOpComplete(i, HandleCloseOpComplete(ring))
    /\ UNCHANGED <<wire, reads, writes>>

(***************************************************************************)
(* Functions that are scheduled on the worker.                             *)
(***************************************************************************)
UserSends == ring' \in Sending(ring) \ {ring} /\ UNCHANGED <<wire, reads, writes>>

UserWrites ==
    /\ writes < MaxWrites /\ writes' = writes + 1
    /\ ring' = Write(ring)
    /\ UNCHANGED <<wire, reads>>

UserCloses == ~Closing(ring) /\ ring' = Close(ring) /\ UNCHANGED <<wire, reads, writes>>

\* RegisterFd; an accepted connection is read, one of our own is connected.
RegisterFd ==
    [ops |-> <<>>, id |-> 1, submitted |-> {}, cbs |-> <<>>, count |-> 0, read |-> None,
     last |-> None, close |-> None, registered |-> TRUE, ends |-> <<>>, told |-> <<>>, closed |-> 0]

Init ==
    /\ ring \in {StartRecv(RegisterFd), Connect(RegisterFd)}
    /\ wire = <<>> /\ reads = 0 /\ writes = 0

Next ==
    \/ ConnectCompletes \/ WriteCompletes \/ ReadCompletes \/ SendCompletes
    \/ CancelCompletes \/ CloseCompletes \/ UserSends \/ UserWrites \/ UserCloses

Spec == Init /\ [][Next]_vars

(***************************************************************************)
(* Properties.                                                             *)
(***************************************************************************)
\* The data of the n-th call of SendAll.
Units(n) == (IF n = 1 THEN 0 ELSE ring.ends[n - 1]) + 1 .. ring.ends[n]

\* What is on the wire is what was handed to SendAll, in order, however sends are
\* split, chained and issued by callbacks, and though one fails and those chained
\* behind it do not: of each call a prefix, of a call that was told of success all,
\* and nothing before the calls ahead of it were answered.  Each is answered once,
\* in order.
SendsInOrder ==
    /\ \A j \in 1 .. Len(wire) - 1 : wire[j] < wire[j + 1]
    /\ \A j \in DOMAIN ring.told : ring.told[j][1] = j
    /\ \A n \in DOMAIN ring.ends :
         LET out == Units(n) \cap Range(wire) IN
         /\ \A u \in out, w \in Units(n) : w < u => w \in out
         /\ out # {} => n <= Len(ring.told) + 1
         /\ n \in DOMAIN ring.told /\ ring.told[n][2] = "ok" => out = Units(n)

\* Nothing is left for the kernel to do but to wait for data.
Quiet == \A i \in ring.submitted : ring.ops[i].type = "read" /\ ~ring.ops[i].cancelled

\* The callback of Close is the last one of a descriptor (the connection goes
\* away with it), and it comes: no operation, not even a cancelled or a forgotten
\* one, keeps a descriptor open.  What is left in ops_, which has to be empty for
\* the worker to stop, are cancels under way and the parts that a failed call of
\* SendAll gave up.
CloseIsLast ==
    /\ ring.closed > 0 =>
         /\ ring.closed = 1 /\ ring.cbs = <<>> /\ Len(ring.told) = Len(ring.ends)
         /\ \A i \in ring.submitted : ring.ops[i].type = "cancel"
         /\ DOMAIN ring.ops # ring.submitted => \E j \in DOMAIN ring.told : ring.told[j][2] = "failed"
    /\ Quiet /\ ring.close # None => ring.closed = 1
=============================================================================
