------------------------------ MODULE LocalOps ------------------------------
(***************************************************************************)
(* The log operations of a function between its worker process             *)
(* (worker/golang/worker/func_worker.go, aux_buffer.go) and the engine     *)
(* (engine/message_connection.cpp, engine.cpp, log/engine_base.cpp).  A    *)
(* worker has two ways to its engine: a FIFO for messages of one size, and *)
(* a socket for auxiliary buffers, which hold the data that does not fit   *)
(* into a message.  A message that has such a buffer and the buffer arrive *)
(* in any order; the engine, and the worker, put them together by an id.   *)
(*                                                                         *)
(* For each function call the engine remembers how far into the metalog    *)
(* the call has seen, and gives this progress to every operation.          *)
(*                                                                         *)
(* What the log does with an operation is in the modules LogSpace and      *)
(* Index: here an operation ends with some result.                         *)
(***************************************************************************)
EXTENDS Integers, FiniteSets, SequencesExt

CONSTANTS Programs,    \* sets of: for each goroutine, [call |-> the call that starts it, ops |-> kinds]
          MaxProgress, \* bound: metalog progress of results
          Discards     \* bound: how many appends are discarded; also remainingRetries

VARIABLES
    program,
    \* the worker
    currentCall,   \* 0: none
    calls,         \* how many have been dispatched
    go,            \* for each goroutine: [pc, i, try, call, need]
    seen,          \* for each call, the largest progress of a result it has got
    auxBufSendChan,
    auxBufRecv,    \* buffers that auxBufferReceiver has got
    \* between them
    sock, outputPipe, inputPipe, sockBack,
    \* the engine
    state_,
    known,         \* the worker manager knows the worker
    received_aux_data_, aux_bufs_, requests_for_buf_,
    fn_call_ctx_,  \* for each call: its progress, or -1
    handling,      \* operations that are with the log
    pending_messages_, aux_data_buffer_, aux_scheduled,
    started,       \* all operations: [op, progress, need]
    unknown,       \* operations of which the call was not found
    discards

workerVars == <<currentCall, calls, go, seen, auxBufSendChan, auxBufRecv>>
engineVars == <<state_, known, received_aux_data_, aux_bufs_, requests_for_buf_, fn_call_ctx_, handling,
                pending_messages_, aux_data_buffer_, aux_scheduled, started, unknown, discards>>
vars == <<program, workerVars, sock, outputPipe, inputPipe, sockBack, engineVars>>

Goroutines == DOMAIN program
Calls == {program[g].call : g \in Goroutines}
Main(c) == CHOOSE g \in Goroutines :
               program[g].call = c /\ \A h \in Goroutines : program[h].call = c => g <= h
OpOf(g) == <<g, go[g].i, go[g].try>>
KindOf(op) == program[op[1]].ops[op[2]]
Big(kind) == kind \in {"append big", "set aux big"}
IsRead(kind) == kind \in {"read", "read until"}
IsAppend(kind) == kind \in {"append", "append big"}

Init ==
    /\ program \in Programs
    /\ currentCall = 0 /\ calls = 0
    /\ go = [g \in Goroutines |->
                [pc |-> "new", i |-> 1, try |-> 1, call |-> 0, need |-> 0]]
    /\ seen = [c \in Calls |-> 0] /\ auxBufSendChan = <<>> /\ auxBufRecv = {}
    /\ sock = <<>> /\ outputPipe = <<>> /\ inputPipe = {} /\ sockBack = <<>>
    /\ state_ = "kHandshake" /\ known = FALSE /\ received_aux_data_ = <<>> /\ aux_bufs_ = {}
    /\ requests_for_buf_ = {} /\ fn_call_ctx_ = [c \in Calls |-> -1] /\ handling = {}
    /\ pending_messages_ = {} /\ aux_data_buffer_ = <<>> /\ aux_scheduled = FALSE
    /\ started = {} /\ unknown = {} /\ discards = 0

(***************************************************************************)
(* The worker.                                                             *)
(***************************************************************************)
\* The goroutines go on after the step.
Become(g, new) == go' = [go EXCEPT ![g] = new @@ @]

\* SharedLogAppend, SharedLogSetAuxData and the reads build a message; the data
\* that does not fit goes to the sender of the buffers.
SharedLogOp(g) ==
    /\ go[g].pc = "run" /\ go[g].i <= Len(program[g].ops)
    /\ Become(g, [pc |-> "built", call |-> currentCall,
                  need |-> IF currentCall = 0 THEN 0 ELSE seen[currentCall]])
    /\ auxBufSendChan' = IF Big(KindOf(OpOf(g))) THEN Append(auxBufSendChan, OpOf(g))
                                                 ELSE auxBufSendChan
    /\ UNCHANGED <<program, currentCall, calls, seen, auxBufRecv, sock, outputPipe, inputPipe,
                   sockBack, engineVars>>

\* They register a channel for the answer and write the message.
WriteOp(g) ==
    /\ go[g].pc = "built" /\ Become(g, [pc |-> "wait"])
    /\ outputPipe' = Append(outputPipe, [type |-> "op", op |-> OpOf(g), call |-> go[g].call,
                                         need |-> go[g].need])
    /\ UNCHANGED <<program, currentCall, calls, seen, auxBufSendChan, auxBufRecv, sock, inputPipe,
                   sockBack, engineVars>>

\* A buffer is sent as two units, header and data.
auxBufferSender ==
    /\ auxBufSendChan # <<>> /\ auxBufSendChan' = Tail(auxBufSendChan)
    /\ sock' = sock \o <<<<Head(auxBufSendChan), 1>>, <<Head(auxBufSendChan), 2>>>>
    /\ UNCHANGED <<program, currentCall, calls, go, seen, auxBufRecv, outputPipe, inputPipe, sockBack,
                   engineVars>>

auxBufferReceiver ==
    /\ sockBack # <<>> /\ sockBack' = Tail(sockBack)
    /\ auxBufRecv' = auxBufRecv \cup {Head(sockBack)}
    /\ UNCHANGED <<program, currentCall, calls, go, seen, auxBufSendChan, sock, outputPipe, inputPipe,
                   engineVars>>

\* After an operation: the next one.
Returned(g) == [pc |-> "run", i |-> go[g].i + 1, try |-> 1]

\* Run reads a message: a call begins (servingLoop), or a goroutine gets its answer.
ServeCall(m) ==
    /\ m.type = "dispatch" /\ currentCall = 0
    /\ currentCall' = m.call
    /\ go' = [g \in Goroutines |->
                IF program[g].call = m.call THEN [go[g] EXCEPT !.pc = "run"] ELSE go[g]]
    /\ UNCHANGED seen

\* An append that was discarded is tried again; an entry that is in a buffer is
\* waited for.  Nobody takes the answer to a read that was given up.
OnResponse(m) ==
    LET g == m.op[1] IN
    /\ m.type = "response"
    /\ IF go[g].pc = "wait" /\ OpOf(g) = m.op
         THEN /\ Become(g, IF m.result = "discarded" /\ go[g].try <= Discards
                             THEN [pc |-> "run", try |-> go[g].try + 1]
                           ELSE IF m.aux THEN [pc |-> "wait aux"] ELSE Returned(g))
              /\ seen' = [c \in Calls |->
                            IF c = go[g].call THEN Max({seen[c], m.progress}) ELSE seen[c]]
         ELSE UNCHANGED <<go, seen>>
    /\ UNCHANGED currentCall

\* sharedLogReadCommon: the context of a read, which has an end or not, is over
\* before its answer is there.
GiveUpRead(g) ==
    /\ go[g].pc = "wait" /\ KindOf(OpOf(g)) = "read until"
    /\ Become(g, Returned(g))
    /\ UNCHANGED <<program, currentCall, calls, seen, auxBufSendChan, auxBufRecv, sock, outputPipe,
                   inputPipe, sockBack, engineVars>>

Run ==
    /\ \E m \in inputPipe :
         /\ ServeCall(m) \/ OnResponse(m)
         /\ inputPipe' = inputPipe \ {m}
    /\ UNCHANGED <<program, calls, auxBufSendChan, auxBufRecv, sock, outputPipe, sockBack, engineVars>>

buildLogEntryFromReadResponse(g) ==
    /\ go[g].pc = "wait aux" /\ OpOf(g) \in auxBufRecv
    /\ auxBufRecv' = auxBufRecv \ {OpOf(g)}
    /\ Become(g, Returned(g))
    /\ UNCHANGED <<program, currentCall, calls, seen, auxBufSendChan, sock, outputPipe, inputPipe,
                   sockBack, engineVars>>

\* The handler returns when its own goroutine is done; others may go on.
executeFunc ==
    /\ currentCall # 0
    /\ LET g == Main(currentCall) IN go[g].pc = "run" /\ go[g].i > Len(program[g].ops)
    /\ currentCall' = 0
    /\ outputPipe' = Append(outputPipe, [type |-> "complete", call |-> currentCall])
    /\ UNCHANGED <<program, calls, go, seen, auxBufSendChan, auxBufRecv, sock, inputPipe, sockBack,
                   engineVars>>

(***************************************************************************)
(* The engine: the connection.                                             *)
(***************************************************************************)
\* Any thread: WriteMessage, and the sends of the connection's own thread, of
\* which each is a write to the FIFO that is independent of the others.
WriteMessage(m) == pending_messages_' = pending_messages_ \cup {m}

WriteMessagesWithFifo == inputPipe' = inputPipe \cup pending_messages_ /\ pending_messages_' = {}

\* RecvHandshakeMessage: OnNewHandshake makes the worker known; then the FIFOs
\* are opened, or the connection is closed, and the worker stays known.
RecvHandshakeMessage ==
    /\ state_ = "kHandshake" /\ ~known /\ known' = TRUE
    /\ state_' \in {"kHandshake", "kClosing"}
    /\ UNCHANGED <<program, workerVars, sock, outputPipe, inputPipe, sockBack, received_aux_data_,
                   aux_bufs_, requests_for_buf_, fn_call_ctx_, handling, pending_messages_,
                   aux_data_buffer_, aux_scheduled, started, unknown, discards>>

\* The response to the handshake is sent.
HandshakeDone ==
    /\ state_ = "kHandshake" /\ known /\ state_' = "kRunning"
    /\ WriteMessagesWithFifo
    /\ UNCHANGED <<program, workerVars, sock, outputPipe, sockBack, known, received_aux_data_,
                   aux_bufs_, requests_for_buf_, fn_call_ctx_, handling, aux_data_buffer_,
                   aux_scheduled, started, unknown, discards>>

\* Nothing leaves before the handshake is done.
SendPendingMessages ==
    /\ state_ = "kRunning" /\ pending_messages_ # {}
    /\ WriteMessagesWithFifo
    /\ UNCHANGED <<program, workerVars, sock, outputPipe, sockBack, state_, known,
                   received_aux_data_, aux_bufs_, requests_for_buf_, fn_call_ctx_, handling,
                   aux_data_buffer_, aux_scheduled, started, unknown, discards>>

\* A call is dispatched to the worker: OnNewExternalFuncCall, and the message.
Dispatch ==
    /\ known /\ calls < Cardinality(Calls) /\ calls' = calls + 1
    /\ \A c \in 1 .. calls : fn_call_ctx_[c] = -1
    /\ fn_call_ctx_' = [fn_call_ctx_ EXCEPT ![calls + 1] = 0]
    /\ WriteMessage([type |-> "dispatch", call |-> calls + 1])
    /\ UNCHANGED <<program, currentCall, go, seen, auxBufSendChan, auxBufRecv, sock, outputPipe,
                   inputPipe, sockBack, state_, known, received_aux_data_, aux_bufs_,
                   requests_for_buf_, handling, aux_data_buffer_, aux_scheduled, started, unknown,
                   discards>>

\* WriteAuxBuffer: whether the send function is scheduled.
NeedSchedule == aux_scheduled \/ aux_data_buffer_ = <<>>

WriteAuxBuffer(op) ==
    aux_data_buffer_' = Append(aux_data_buffer_, op) /\ aux_scheduled' = NeedSchedule

SendAuxBufferData ==
    /\ aux_scheduled /\ aux_scheduled' = FALSE
    /\ sockBack' = sockBack \o aux_data_buffer_ /\ aux_data_buffer_' = <<>>
    /\ UNCHANGED <<program, workerVars, sock, outputPipe, inputPipe, state_, known,
                   received_aux_data_, aux_bufs_, requests_for_buf_, fn_call_ctx_, handling,
                   pending_messages_, started, unknown, discards>>

(***************************************************************************)
(* The engine: operations.                                                 *)
(***************************************************************************)
\* The progress of the call after a result.  A mutated form first.
Newest(old, new) == new

Later(old, new) == IF new > old THEN new ELSE old

\* FinishLocalOpWithResponse: the call's progress, then the response.
FinishLocalOpWithResponse(call, response) ==
    /\ fn_call_ctx_' = [c \in Calls |->
           IF c = call /\ fn_call_ctx_[c] # -1 /\ response.progress > 0
             THEN Later(fn_call_ctx_[c], response.progress) ELSE fn_call_ctx_[c]]
    /\ WriteMessage(response)

Response(op, result, progress, aux) ==
    [type |-> "response", op |-> op, result |-> result, progress |-> progress, aux |-> aux]

\* LocalOpHandler: SET_AUXDATA is answered at once, the others are with the log.
LocalOpHandler(op, call) ==
    IF KindOf(op) \in {"set aux", "set aux big"}
      THEN /\ FinishLocalOpWithResponse(call, Response(op, "ok", 0, FALSE))
           /\ UNCHANGED handling
      ELSE /\ handling' = handling \cup {[op |-> op, call |-> call]}
           /\ UNCHANGED <<fn_call_ctx_, pending_messages_>>

\* Whether GrabAuxBuffer finds the buffer.  A mutated form first.
NeverThere(op) == FALSE

GrabAuxBuffer(op) == op \in aux_bufs_

OnMessageFromFuncWorker(m) ==
    IF m.call = 0 \/ fn_call_ctx_[m.call] = -1
      THEN /\ unknown' = unknown \cup {m.op}
           /\ UNCHANGED <<fn_call_ctx_, pending_messages_, handling, aux_bufs_, requests_for_buf_,
                          started>>
      ELSE /\ started' = started \cup {[op |-> m.op, progress |-> fn_call_ctx_[m.call], need |-> m.need]}
           /\ UNCHANGED unknown
           /\ IF ~Big(KindOf(m.op)) \/ GrabAuxBuffer(m.op)
                THEN /\ LocalOpHandler(m.op, m.call)
                     /\ aux_bufs_' = aux_bufs_ \ {m.op} /\ UNCHANGED requests_for_buf_
                ELSE /\ requests_for_buf_' = requests_for_buf_ \cup {[op |-> m.op, call |-> m.call]}
                     /\ UNCHANGED <<fn_call_ctx_, pending_messages_, handling, aux_bufs_>>

\* OnRecvData: a message from the FIFO.
OnRecvData ==
    /\ state_ = "kRunning" /\ outputPipe # <<>> /\ outputPipe' = Tail(outputPipe)
    /\ LET m == Head(outputPipe) IN
       IF m.type = "complete"
         THEN /\ fn_call_ctx_' = [fn_call_ctx_ EXCEPT ![m.call] = -1]
              /\ UNCHANGED <<pending_messages_, handling, aux_bufs_, requests_for_buf_, started, unknown>>
         ELSE OnMessageFromFuncWorker(m)
    /\ UNCHANGED <<program, workerVars, sock, inputPipe, sockBack, state_, known, received_aux_data_,
                   aux_data_buffer_, aux_scheduled, discards>>

OnAuxBufferFromFuncWorker(op) ==
    \E r \in {r \in requests_for_buf_ : r.op = op} :
        requests_for_buf_' = requests_for_buf_ \ {r} /\ LocalOpHandler(op, r.call)

\* The buffer is kept, unless an operation waits for it.
OnRecvAuxBuffer(op) ==
    \/ OnAuxBufferFromFuncWorker(op) /\ UNCHANGED aux_bufs_
    \/ /\ \A r \in requests_for_buf_ : r.op # op
       /\ aux_bufs_' = aux_bufs_ \cup {op}
       /\ UNCHANGED <<requests_for_buf_, fn_call_ctx_, pending_messages_, handling>>

\* OnRecvSockData: some of what is in the socket; one buffer is taken out when it
\* is there as a whole.
OnRecvSockData ==
    /\ state_ = "kRunning"
    /\ \E k \in 1 .. Len(sock) :
         LET data == received_aux_data_ \o SubSeq(sock, 1, k) IN
         /\ sock' = SubSeq(sock, k + 1, Len(sock))
         /\ IF Len(data) < 2
              THEN /\ received_aux_data_' = data
                   /\ UNCHANGED <<aux_bufs_, requests_for_buf_, fn_call_ctx_, pending_messages_, handling>>
              ELSE /\ received_aux_data_' = SubSeq(data, 3, Len(data))
                   /\ OnRecvAuxBuffer(data[1][1])
    /\ UNCHANGED <<program, workerVars, outputPipe, inputPipe, sockBack, state_, known, aux_data_buffer_,
                   aux_scheduled, started, unknown, discards>>

\* The results of the log, in any IO worker: ProcessAppendResults, and for reads
\* ProcessIndexQueryResults and OnRecvResponse.
OpResult(h) ==
    /\ h \in handling /\ handling' = handling \ {h}
    /\ \/ /\ IsAppend(KindOf(h.op)) /\ discards < Discards /\ discards' = discards + 1
          /\ FinishLocalOpWithResponse(h.call, Response(h.op, "discarded", 0, FALSE))
          /\ UNCHANGED <<aux_data_buffer_, aux_scheduled>>
       \/ \E p \in 1 .. MaxProgress :
            /\ FinishLocalOpWithResponse(h.call, Response(h.op, "ok", p, FALSE))
            /\ UNCHANGED <<aux_data_buffer_, aux_scheduled, discards>>
       \/ \E p \in 1 .. MaxProgress :
            /\ IsRead(KindOf(h.op))
            /\ FinishLocalOpWithResponse(h.call, Response(h.op, "ok", p, TRUE))
            /\ WriteAuxBuffer(h.op)
            /\ UNCHANGED discards
    /\ UNCHANGED <<program, workerVars, sock, outputPipe, inputPipe, sockBack, state_, known,
                   received_aux_data_, aux_bufs_, requests_for_buf_, started, unknown>>

Next ==
    \/ \E g \in Goroutines : SharedLogOp(g) \/ WriteOp(g) \/ GiveUpRead(g)
                          \/ buildLogEntryFromReadResponse(g)
    \/ auxBufferSender \/ auxBufferReceiver \/ Run \/ executeFunc
    \/ RecvHandshakeMessage \/ HandshakeDone \/ Dispatch \/ SendPendingMessages \/ SendAuxBufferData
    \/ OnRecvData \/ OnRecvSockData
    \/ \E h \in handling : OpResult(h)

Spec == Init /\ [][Next]_vars

(***************************************************************************)
(* Properties.                                                             *)
(***************************************************************************)
\* Within one call an operation carries at least the progress of every result
\* the call had got when it made the request, also when results come in another
\* order than their progress.
ProgressIsCarried == \A s \in started : s.progress >= s.need

Quiet ==
    /\ auxBufSendChan = <<>> /\ sock = <<>> /\ outputPipe = <<>> /\ sockBack = <<>>
    /\ inputPipe = {} /\ handling = {} /\ ~aux_scheduled /\ state_ = "kRunning"
    /\ pending_messages_ = {}
    /\ \A g \in Goroutines : go[g].pc # "built" /\ (go[g].pc = "wait aux" => OpOf(g) \notin auxBufRecv)

\* When nothing is under way, every goroutine has got its answers, but for two
\* kinds of operations: those of a goroutine that outlives its call, and those
\* whose buffer came together with another one and is left in received_aux_data_
\* until more data comes.
OpsAreAnswered ==
    Quiet => \A g \in Goroutines :
        \/ go[g].pc \in {"new", "run"}
        \/ OpOf(g) \in unknown
        \/ \E i \in DOMAIN received_aux_data_ : received_aux_data_[i][1] = OpOf(g)
=============================================================================
