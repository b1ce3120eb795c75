------------------------- MODULE EventDrivenWorker --------------------------
(***************************************************************************)
(* The function worker of Node.js and Python (worker/                      *)
(* event_driven_worker.cpp), with the addon that binds it to Node.js       *)
(* (worker/nodejs/engine.cpp).  One process, with one event loop, is       *)
(* several workers of the engine: the launcher tells it to be one more.    *)
(* Calls that come in are given to the handler of the program, which ends  *)
(* them when it likes and calls other functions meanwhile, or afterwards;  *)
(* the results of these come by callback.                                  *)
(*                                                                         *)
(* The handler is any program: it makes each of the nested calls at any    *)
(* time after their parent was given to it, and may end a call twice.      *)
(***************************************************************************)
EXTENDS WorkerLib

CONSTANT Clients       \* client ids, in the order in which the workers are made

VARIABLES
    use_fifo_for_nested_call_,
    func_workers_,          \* clients that exist
    next_call_id,           \* for each client
    assigned,               \* for each job of the gateway, the client it was dispatched to
    incoming_func_calls_,   \* [call, recv_client_id]
    outgoing_func_calls_,
    outgoing_func_call_by_output_pipe_fd_,  \* calls whose FIFO is watched
    outgoing_func_call_cbs_,                \* [call, job]: callbacks of the handler
    handed,     \* jobs of the gateway that the handler was given
    ended,      \* for each of them, how often it was ended
    asked,      \* nested calls the handler has made
    called,     \* for each job, what its callback was called with: the job, or 0 for an error
    deaf        \* calls whose FIFO cannot be watched any more

clientVars == <<use_fifo_for_nested_call_, func_workers_>>
incomingVars == <<assigned, incoming_func_calls_, handed, ended>>
outgoingVars == <<next_call_id, outgoing_func_calls_, outgoing_func_call_by_output_pipe_fd_,
                  outgoing_func_call_cbs_, asked, called, deaf>>
workerVars == <<clientVars, incomingVars, outgoingVars>>
vars == <<libVars, workerVars>>

Parent(j) == program.jobs[j].parent

Init ==
    /\ LibInit
    /\ use_fifo_for_nested_call_ = FALSE /\ func_workers_ = {}
    /\ next_call_id = [w \in Range(Clients) |-> 0] /\ assigned = [j \in External |-> 0]
    /\ incoming_func_calls_ = {} /\ outgoing_func_calls_ = {}
    /\ outgoing_func_call_by_output_pipe_fd_ = {} /\ outgoing_func_call_cbs_ = {}
    /\ handed = {} /\ ended = [j \in External |-> 0] /\ asked = {}
    /\ called = [j \in Jobs |-> <<>>] /\ deaf = {}

(***************************************************************************)
(* Workers, and the calls that come in.                                    *)
(***************************************************************************)
\* Start for the first client, OnMessagePipeReadable for the others; the
\* handshake tells whether there are FIFOs.
NewFuncWorker ==
    /\ Cardinality(func_workers_) < Len(Clients)
    /\ func_workers_' = func_workers_ \cup {Clients[Cardinality(func_workers_) + 1]}
    /\ use_fifo_for_nested_call_' = program.fifo
    /\ UNCHANGED <<libVars, incomingVars, outgoingVars>>

\* The engine dispatches a call to an idle worker.
Idle(w) == \A j \in External : assigned[j] = w => replies[j] # <<>>

Dispatch(j) ==
    /\ assigned[j] = 0
    /\ \E w \in func_workers_ : Idle(w) /\ assigned' = [assigned EXCEPT ![j] = w]
    /\ exec' = [exec EXCEPT ![GatewayCall(j)] = [st |-> "dispatched", job |-> j]]
    /\ shm' = shm \cup InputRegions(GatewayCall(j), j)
    /\ UNCHANGED <<program, fifos, pipe, responses, inbox, replies, unheard, faults,
                   incoming_func_calls_, handed, ended, clientVars, outgoingVars>>

\* OnEnginePipeReadable with a call, ExecuteFunc, OnIncomingFuncCall.
ExecuteIncoming(j) ==
    LET call == GatewayCall(j) IN
    /\ exec[call].st = "dispatched"
    /\ \E ok \in Tries(~FitsMessage(Input(j))) :
         /\ IF GetFuncCallInput(call, ok)
              THEN /\ exec' = [exec EXCEPT ![call].st = "running"]
                   /\ incoming_func_calls_' = incoming_func_calls_ \cup
                        {[call |-> call, recv_client_id |-> assigned[j]]}
                   /\ handed' = handed \cup {j}
                   /\ UNCHANGED responses
              ELSE /\ Respond(call, "failed", assigned[j])
                   /\ UNCHANGED <<incoming_func_calls_, handed>>
         /\ Spend(ok)
    /\ UNCHANGED <<program, shm, fifos, pipe, inbox, replies, unheard, assigned, ended, clientVars,
                   outgoingVars>>

\* GetAssociatedFuncWorkerState: the incoming call, if it has not ended.
GetAssociatedFuncWorkerState(call) == {i \in incoming_func_calls_ : i.call = call}

\* IncomingFuncCallFinished, OnFuncExecutionFinished.
OnFuncExecutionFinished(j) ==
    LET call == GatewayCall(j) IN
    /\ j \in handed /\ ended[j] < 2 /\ ended' = [ended EXCEPT ![j] = @ + 1]
    /\ IF GetAssociatedFuncWorkerState(call) = {}
         THEN UNCHANGED <<shm, responses, exec, faults, incoming_func_calls_>>
         ELSE \E i \in GetAssociatedFuncWorkerState(call) :
                /\ incoming_func_calls_' = incoming_func_calls_ \ {i}
                /\ FuncCallFinished(call, i.recv_client_id)
    /\ UNCHANGED <<program, fifos, pipe, inbox, replies, unheard, assigned, handed, clientVars,
                   outgoingVars>>

(***************************************************************************)
(* Nested calls.                                                           *)
(***************************************************************************)
\* The callback of the handler at once, with an error.
CallbackFails(j) ==
    /\ called' = [called EXCEPT ![j] = Append(@, 0)]
    /\ UNCHANGED <<shm, exec, fifos, outgoing_func_calls_, outgoing_func_call_by_output_pipe_fd_,
                   outgoing_func_call_cbs_>>

\* The number of a call among those of its worker.  A mutated form first: one of
\* the process's first worker.
OwnCallOfTheFirst(w) == <<Clients[1], next_call_id[w]>>

NextCall(w) == <<w, next_call_id[w]>>

\* NewOutgoingFuncCallCommon.
NewOutgoingFuncCallCommon(call, j) ==
    /\ InvokeFuncMessage(call, j)
    /\ shm' = shm \cup InputRegions(call, j)
    /\ outgoing_func_calls_' = outgoing_func_calls_ \cup {call}
    /\ IF use_fifo_for_nested_call_
         THEN /\ fifos' = fifos \cup {call}
              /\ outgoing_func_call_by_output_pipe_fd_' =
                    outgoing_func_call_by_output_pipe_fd_ \cup {call}
         ELSE UNCHANGED <<fifos, outgoing_func_call_by_output_pipe_fd_>>
    /\ outgoing_func_call_cbs_' =
         {cb \in outgoing_func_call_cbs_ : cb.call # call} \cup {[call |-> call, job |-> j]}
    /\ UNCHANGED called

\* InvokeFunc and NewOutgoingFuncCall, GrpcCall and NewOutgoingGrpcCall: the
\* call goes over the worker that received the parent, which must not have ended.
InvokeFunc(j) ==
    /\ Parent(j) \in handed /\ j \notin asked /\ asked' = asked \cup {j}
    /\ LET parent == GetAssociatedFuncWorkerState(GatewayCall(Parent(j))) IN
       IF parent = {}
         THEN CallbackFails(j) /\ UNCHANGED <<next_call_id, faults>>
         ELSE \E w \in {i.recv_client_id : i \in parent},
                 ok \in Tries(~FitsMessage(Input(j)) \/ use_fifo_for_nested_call_) :
                /\ next_call_id' = [next_call_id EXCEPT ![w] = @ + 1] /\ Spend(ok)
                /\ IF ok /\ CanPrepare(NextCall(w), j)
                     THEN NewOutgoingFuncCallCommon(NextCall(w), j) ELSE CallbackFails(j)
    /\ UNCHANGED <<program, pipe, responses, inbox, replies, unheard, deaf, clientVars,
                   incomingVars>>

\* OnOutgoingFuncCallComplete, with the regions of the call at an end.
OnOutgoingFuncCallComplete(call, j, opened) ==
    /\ outgoing_func_calls_' = outgoing_func_calls_ \ {call}
    /\ shm' = shm \ (Region("in", call) \cup (IF opened THEN Region("out", call) ELSE {}))
    /\ outgoing_func_call_cbs_' = {cb \in outgoing_func_call_cbs_ : cb.call # call}
    /\ \E cb \in outgoing_func_call_cbs_ :
         cb.call = call /\ called' = [called EXCEPT ![cb.job] = Append(@, j)]

\* OnEnginePipeReadable with a result, OnOutgoingFuncCallFinished.
OnOutgoingFuncCallFinished(m) ==
    /\ m \in inbox /\ inbox' = inbox \ {m}
    /\ IF m.call \notin outgoing_func_calls_
         THEN UNCHANGED <<shm, faults, outgoing_func_calls_, outgoing_func_call_cbs_, called>>
         ELSE \E ok \in Tries(m.type = "shm") :
                LET j == CASE m.type = "failed" -> 0 [] m.type = "inline" -> m.job
                           [] m.type = "shm" -> OutputOf(m.call, ok) IN
                Spend(ok) /\ OnOutgoingFuncCallComplete(m.call, j, m.type = "shm" /\ j # 0)
    /\ UNCHANGED <<program, exec, fifos, pipe, responses, replies, unheard, next_call_id,
                   outgoing_func_call_by_output_pipe_fd_, asked, deaf, clientVars, incomingVars>>

\* OnOutputPipeReadable.  The FIFO is no longer watched; it is neither closed nor
\* removed.
OnOutputPipeReadable(call) ==
    /\ call \in outgoing_func_call_by_output_pipe_fd_ /\ pipe[call] # <<>>
    /\ outgoing_func_call_by_output_pipe_fd_' = outgoing_func_call_by_output_pipe_fd_ \ {call}
    /\ pipe' = [pipe EXCEPT ![call] = Tail(@)]
    /\ \E ok \in Tries(Head(pipe[call]).type = "shm") :
         LET j == FifoGetFuncCallOutput(call, ok) IN
         Spend(ok) /\ OnOutgoingFuncCallComplete(call, j, Head(pipe[call]).type = "shm" /\ j # 0)
    /\ UNCHANGED <<program, exec, fifos, responses, inbox, replies, unheard, next_call_id, asked,
                   deaf, clientVars, incomingVars>>

\* FdEvent with an error: the descriptor is watched no more.
PollFails(call) ==
    /\ call \in outgoing_func_call_by_output_pipe_fd_ /\ call \notin deaf
    /\ faults < Faults /\ faults' = faults + 1
    /\ deaf' = deaf \cup {call}
    /\ outgoing_func_call_by_output_pipe_fd_' = outgoing_func_call_by_output_pipe_fd_ \ {call}
    /\ UNCHANGED <<program, exec, shm, fifos, pipe, responses, inbox, replies, unheard,
                   next_call_id, outgoing_func_calls_, outgoing_func_call_cbs_, asked, called,
                   clientVars, incomingVars>>

Next ==
    \/ LibNext /\ UNCHANGED workerVars
    \/ NewFuncWorker
    \/ \E j \in External : Dispatch(j) \/ ExecuteIncoming(j) \/ OnFuncExecutionFinished(j)
    \/ \E j \in Jobs \ External : InvokeFunc(j)
    \/ \E m \in inbox : OnOutgoingFuncCallFinished(m)
    \/ \E c \in Calls : OnOutputPipeReadable(c) \/ PollFails(c)

Spec == Init /\ [][Next]_vars

(***************************************************************************)
(* Properties.                                                             *)
(***************************************************************************)
Quiet ==
    /\ responses = {} /\ inbox = {}
    /\ \A c \in Calls :
         /\ FromGateway(c) \/ exec[c].st \in {"none", "done"}
         /\ c \in outgoing_func_call_by_output_pipe_fd_ => pipe[c] = <<>>

\* Which nested calls have a FIFO that will never tell their end: the worker
\* could neither read the input nor write the output, or the FIFO is not watched.
NeverTold == {cb.job : cb \in {cb \in outgoing_func_call_cbs_ : cb.call \in unheard \cup deaf}}

\* However the calls of several workers in one process interleave, and whatever
\* the handler does, a callback is called at most once, with its own call's
\* output or an error, and when nothing is under way it has been called, or the
\* end of its call is never told over the FIFO.  A call of the gateway is
\* answered at most once, over the worker that it was dispatched to.
CallbacksAreTrue ==
    /\ \A j \in Jobs \ External :
         /\ Len(called[j]) <= 1
         /\ \A i \in DOMAIN called[j] :
              called[j][i] = 0 \/ (called[j][i] = j /\ Output(j) # "failed")
         /\ Quiet /\ j \in asked => called[j] # <<>> \/ j \in NeverTold
    /\ \A j \in External :
         Len(replies[j]) <= 1 /\ \A i \in DOMAIN replies[j] : replies[j][i].via = assigned[j]
=============================================================================
