----------------------------- MODULE FuncWorker -----------------------------
(***************************************************************************)
(* The function worker of C++ functions (worker/cpp/worker/v1/             *)
(* func_worker.cpp): a process that executes one call after another.  The  *)
(* function may call others, from several threads; each such InvokeFunc    *)
(* blocks until the result is there.  Without FIFOs for nested calls, the  *)
(* result is the next message on the pipe from the engine, and only one    *)
(* InvokeFunc can be under way.                                            *)
(*                                                                         *)
(* The worker's client id is 1.  program.threads tells the nested calls of *)
(* the function: for each of its threads, the jobs one after the other;    *)
(* the function returns when its threads are through.                      *)
(***************************************************************************)
EXTENDS WorkerLib

VARIABLES
    use_fifo_for_nested_call_, next_call_id_, ongoing_invoke_func_,
    invoke_func_resources_,     \* calls whose output region is open
    handshake,  \* whether HandshakeWithEngine is through
    waits,      \* for each thread, the call it waits for: a set, for at most one
    returned,   \* for each thread, what its calls returned: the job of the output, or 0
    opens,      \* calls whose output could not be opened
    late,       \* calls that were given up before their output was written
    fatal

workerVars == <<use_fifo_for_nested_call_, next_call_id_, ongoing_invoke_func_,
                invoke_func_resources_, handshake, waits, returned, opens, late, fatal>>
vars == <<libVars, workerVars>>

Threads == DOMAIN program.threads
Job(t) == program.threads[t][Len(returned[t]) + 1]
Through(t) == Len(returned[t]) = Len(program.threads[t])
Main == CHOOSE j \in External : TRUE

Init ==
    /\ LibInit
    /\ use_fifo_for_nested_call_ = FALSE /\ next_call_id_ = 0 /\ ongoing_invoke_func_ = FALSE
    /\ invoke_func_resources_ = {} /\ handshake = FALSE
    /\ waits = [t \in Threads |-> {}] /\ returned = [t \in Threads |-> <<>>]
    /\ opens = {} /\ late = {} /\ fatal = {}

\* Serve, HandshakeWithEngine: the engine tells whether there are FIFOs.  It
\* dispatches calls to the worker from then on.
HandshakeWithEngine ==
    /\ ~handshake /\ handshake' = TRUE
    /\ use_fifo_for_nested_call_' = program.fifo
    /\ exec' = [exec EXCEPT ![GatewayCall(Main)] = [st |-> "dispatched", job |-> Main]]
    /\ shm' = shm \cup InputRegions(GatewayCall(Main), Main)
    /\ UNCHANGED <<program, fifos, pipe, responses, inbox, replies, unheard, faults, next_call_id_,
                   ongoing_invoke_func_, invoke_func_resources_, waits, returned, opens, late, fatal>>

\* MainServingLoop and the beginning of ExecuteFunc.
BeginFunc ==
    LET main == GatewayCall(Main) IN
    /\ exec[main].st = "dispatched"
    /\ \E ok \in Tries(~FitsMessage(Input(Main))) :
         /\ IF GetFuncCallInput(main, ok)
              THEN exec' = [exec EXCEPT ![main].st = "running"] /\ UNCHANGED responses
              ELSE Respond(main, "failed", 1)
         /\ Spend(ok)
    /\ UNCHANGED <<program, shm, fifos, pipe, inbox, replies, unheard, workerVars>>

\* InvokeFunc is over: its input region goes with it.
Return(t, call, j) ==
    /\ waits' = [waits EXCEPT ![t] = {}]
    /\ returned' = [returned EXCEPT ![t] = Append(@, j)]
    /\ shm' = shm \ Region("in", call)

\* Two mutated forms: the flag is not looked at, ...
NotChecked == TRUE

MayInvoke == ~ongoing_invoke_func_

\* InvokeFunc, until it waits: the message is sent, or there is no region or no
\* FIFO for the call.
InvokeFunc(t) ==
    /\ exec[GatewayCall(Main)].st = "running" /\ waits[t] = {} /\ ~Through(t) /\ fatal = {}
    /\ LET call == <<1, next_call_id_>>
           j == Job(t) IN
       \E ok \in Tries(~FitsMessage(Input(j)) \/ use_fifo_for_nested_call_) :
         /\ next_call_id_' = next_call_id_ + 1 /\ Spend(ok)
         /\ IF ~ok \/ ~CanPrepare(call, j)
              THEN /\ Return(t, call, 0)
                   /\ UNCHANGED <<exec, fifos, ongoing_invoke_func_, fatal>>
            ELSE IF ~use_fifo_for_nested_call_ /\ ~MayInvoke
              THEN /\ fatal' = {"concurrent"}
                   /\ UNCHANGED <<exec, shm, fifos, ongoing_invoke_func_, waits, returned>>
            ELSE /\ InvokeFuncMessage(call, j)
                 /\ shm' = shm \cup InputRegions(call, j)
                 /\ waits' = [waits EXCEPT ![t] = {call}]
                 /\ fifos' = IF use_fifo_for_nested_call_ THEN fifos \cup {call} ELSE fifos
                 /\ ongoing_invoke_func_' = ~use_fifo_for_nested_call_
                 /\ UNCHANGED <<returned, fatal>>
    /\ UNCHANGED <<program, pipe, responses, inbox, replies, unheard, use_fifo_for_nested_call_,
                   invoke_func_resources_, handshake, opens, late>>

\* WaitInvokeFunc: the next message from the engine is taken for the result.  If
\* the output cannot be opened, the flag stays.
WaitInvokeFunc(t) ==
    /\ ~use_fifo_for_nested_call_ /\ fatal = {}
    /\ \E call \in waits[t], m \in inbox :
         /\ inbox' = inbox \ {m}
         /\ \E ok \in Tries(m.type = "shm") :
              LET j == CASE m.type = "failed" -> 0 [] m.type = "inline" -> m.job
                         [] m.type = "shm" -> OutputOf(call, ok)
                  unopened == m.type = "shm" /\ j = 0 IN
              /\ Spend(ok) /\ Return(t, call, j)
              /\ ongoing_invoke_func_' = unopened
              /\ opens' = IF unopened THEN opens \cup {call} ELSE opens
              /\ invoke_func_resources_' =
                   IF m.type = "shm" /\ j # 0 THEN invoke_func_resources_ \cup {call}
                   ELSE invoke_func_resources_
    /\ UNCHANGED <<program, exec, fifos, pipe, responses, replies, unheard, use_fifo_for_nested_call_,
                   next_call_id_, handshake, late, fatal>>

\* FifoWaitInvokeFunc when there is something in the FIFO, which is closed and
\* removed with the return.
FifoWaitInvokeFunc(t) ==
    /\ \E call \in waits[t] :
         /\ call \in fifos /\ pipe[call] # <<>>
         /\ pipe' = [pipe EXCEPT ![call] = <<>>] /\ fifos' = fifos \ {call}
         /\ LET inRegion == Head(pipe[call]).type = "shm" IN
            \E ok \in Tries(inRegion) :
              LET j == FifoGetFuncCallOutput(call, ok) IN
              /\ Spend(ok) /\ Return(t, call, j)
              /\ opens' = IF inRegion /\ j = 0 THEN opens \cup {call} ELSE opens
              /\ invoke_func_resources_' =
                   IF inRegion /\ j # 0 THEN invoke_func_resources_ \cup {call} ELSE invoke_func_resources_
    /\ UNCHANGED <<program, exec, responses, inbox, replies, unheard, use_fifo_for_nested_call_, next_call_id_,
                   ongoing_invoke_func_, handshake, late, fatal>>

\* FdPollForRead gives up after func_call_timeout_ms.
TimeOut(t) ==
    /\ \E call \in waits[t] :
         /\ call \in fifos /\ pipe[call] = <<>>
         /\ fifos' = fifos \ {call} /\ late' = late \cup {call}
         /\ Return(t, call, 0)
    /\ UNCHANGED <<program, exec, pipe, responses, inbox, replies, unheard, faults, use_fifo_for_nested_call_,
                   next_call_id_, ongoing_invoke_func_, invoke_func_resources_, handshake, opens, fatal>>

\* ... and the regions of results are kept.
KeepResources == UNCHANGED <<shm, invoke_func_resources_>>

ReclaimInvokeFuncResources ==
    /\ invoke_func_resources_' = {}
    /\ shm' = {r \in shm : ~(r.kind = "out" /\ r.call \in invoke_func_resources_)}

\* The end of ExecuteFunc, in two steps: the function returns, ...
EndFunc ==
    /\ exec[GatewayCall(Main)].st = "running" /\ fatal = {}
    /\ \A t \in Threads : Through(t)
    /\ exec' = [exec EXCEPT ![GatewayCall(Main)].st = "returned"]
    /\ ReclaimInvokeFuncResources
    /\ UNCHANGED <<program, fifos, pipe, responses, inbox, replies, unheard, faults, use_fifo_for_nested_call_,
                   next_call_id_, ongoing_invoke_func_, handshake, waits, returned, opens, late, fatal>>

\* ... and its response is sent.
SendResponse ==
    /\ exec[GatewayCall(Main)].st = "returned"
    /\ FuncCallFinished(GatewayCall(Main), 1)
    /\ UNCHANGED <<program, fifos, pipe, inbox, replies, unheard, workerVars>>

Next ==
    \/ LibNext /\ UNCHANGED workerVars
    \/ HandshakeWithEngine \/ BeginFunc \/ EndFunc \/ SendResponse
    \/ \E t \in Threads :
         InvokeFunc(t) \/ WaitInvokeFunc(t) \/ FifoWaitInvokeFunc(t) \/ TimeOut(t)

Spec == Init /\ [][Next]_vars

(***************************************************************************)
(* Properties.                                                             *)
(***************************************************************************)
\* InvokeFunc returns the output of the very call it made, if any, whether it
\* came inline, over the FIFO or in a region, and although WaitInvokeFunc takes
\* whatever message comes; the process gives up ("cannot execute concurrently")
\* only when two threads do call at once, or when an output could not be opened
\* before, which leaves ongoing_invoke_func_ set.
InvocationsAreTrue ==
    /\ \A t \in Threads : \A i \in DOMAIN returned[t] :
         returned[t][i] \in {0, program.threads[t][i]}
         /\ (returned[t][i] # 0 => Output(returned[t][i]) # "failed")
    /\ fatal # {} => Cardinality({t \in Threads : ~Through(t)}) > 1 \/ opens # {}

Quiet ==
    /\ LibQuiet /\ handshake /\ fatal = {}
    /\ exec[GatewayCall(Main)].st \in {"running", "done"}
    /\ \E t \in Threads : exec[GatewayCall(Main)].st = "running" => waits[t] # {}
    /\ \A t \in Threads : exec[GatewayCall(Main)].st = "running" => waits[t] # {} \/ Through(t)

\* When nothing is under way, no thread waits for a message that never comes
\* (those that wait at a FIFO give up in time); once the function is through,
\* the gateway has had one reply, and no region and no FIFO is left but outputs
\* that nobody waited for any more or that could not be opened.
NothingIsLeft ==
    Quiet =>
        /\ (\E t \in Threads : waits[t] # {}) => use_fifo_for_nested_call_
        /\ exec[GatewayCall(Main)].st = "done" =>
             /\ Len(replies[Main]) = 1 /\ fifos = {}
             /\ \A r \in shm :
                  /\ r.kind = "out"
                  /\ \/ r.call \in opens \cup late
                     \/ FromGateway(r.call) /\ replies[Main][1].type = "failed"
=============================================================================
