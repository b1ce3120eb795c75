----------------------------- MODULE MCRuntime ------------------------------
(***************************************************************************)
(* The components of the runtime below the log, each by itself: Init       *)
(* chooses the component. They share the variables v1, v2 and so on: each  *)
(* INSTANCE tells what they stand for. Those of IOWorker, which is         *)
(* extended, wait in their first state while another component runs. What  *)
(* the components take from one another is said in their modules.          *)
(***************************************************************************)
EXTENDS IOWorker, TLC

\* IOWorker: its threads and its connections are alike.
Symmetry == Permutations(Callers) \cup Permutations(Conns)

\* Gateway: two requests on one HTTP connection and a gRPC stream on another,
\* with one node that goes and comes back and a limit of one running call; a
\* request may name a node that never comes, or no known function, and come in
\* one buffer with the request before it.
Ask(kind, client, nodes) ==
    [kind |-> kind, conn |-> client, nodes |-> nodes, known |-> TRUE, after |-> 0]
Unknown(kind, client) == [Ask(kind, client, {}) EXCEPT !.known = FALSE]
Behind(r, ask) == [ask EXCEPT !.after = r]
MCScenarios == {
    [asks |-> <<Ask("async", 1, {}), Ask("http", 1, {}), Ask("grpc", 2, {})>>, faults |-> 0],
    [asks |-> <<Ask("async", 1, {}), Ask("http", 1, {})>>, faults |-> 1],
    [asks |-> <<Unknown("http", 1), Ask("http", 1, {}), Unknown("grpc", 2)>>, faults |-> 0],
    [asks |-> <<Ask("http", 1, {2}), Ask("grpc", 2, {})>>, faults |-> 1],
    [asks |-> <<Ask("http", 1, {}), Behind(1, Ask("http", 1, {})), Ask("http", 2, {})>>, faults |-> 0],
    [asks |-> <<Ask("http", 1, {}), Behind(1, Unknown("http", 1))>>, faults |-> 1]}

\* Dispatcher: two calls of the gateway to function 1, each of which calls
\* function 2, or function 1 again; up to two workers per function, one of which
\* may exit; with and without a configured minimum.
Call(func, parent, async, kids) ==
    [func |-> func, parent |-> parent, async |-> async, kids |-> kids]
Tree(async, nested) ==
    <<Call(1, 0, FALSE, <<3>>), Call(1, 0, FALSE, <<4>>),
      Call(nested, 1, async, <<>>), Call(nested, 2, FALSE, <<>>)>>
MCCalls == {
    [tree |-> Tree(FALSE, 2), fifo |-> FALSE, delay |-> FALSE, min |-> 1],
    [tree |-> Tree(FALSE, 1), fifo |-> FALSE, delay |-> FALSE, min |-> 1],
    [tree |-> Tree(TRUE, 2), fifo |-> FALSE, delay |-> FALSE, min |-> -1],
    [tree |-> Tree(FALSE, 2), fifo |-> TRUE, delay |-> TRUE, min |-> -1]}

\* LocalOps: goroutines of one call that work side by side, one that may
\* outlive its call, operations whose data needs a buffer, and a read that may
\* be given up.
Goroutine(call, ops) == [call |-> call, ops |-> ops]
MCPrograms == {
    <<Goroutine(1, <<"append", "read">>), Goroutine(1, <<"read">>), Goroutine(2, <<"read">>)>>,
    <<Goroutine(1, <<"append big", "set aux">>), Goroutine(1, <<"set aux big">>)>>,
    <<Goroutine(1, <<"read until", "read">>), Goroutine(1, <<"read">>)>>}

\* WorkerLib: jobs of the gateway, which have no parent, and nested ones.
\* FuncWorker: one call with two nested ones, one after the other or by two
\* threads, over the engine or over FIFOs, with all sizes of data.
JobOf(parent, input, output) == [parent |-> parent, input |-> input, output |-> output]
MCThreads == {
    [jobs |-> <<JobOf(0, "large", "large"), JobOf(1, in, out), JobOf(1, "small", other)>>,
     fifo |-> fifo, threads |-> threads] :
        in \in {"small", "large"}, out \in {"small", "large", "failed"},
        other \in {"medium", "large"}, fifo \in BOOLEAN,
        threads \in {<<<<2, 3>>>>, <<<<2>>, <<3>>>>}}

\* EventDrivenWorker: two calls, each with a nested one.
MCHandlers == {
    [jobs |-> <<JobOf(0, "large", "large"), JobOf(0, "small", "small"), JobOf(1, "large", out),
                JobOf(2, "small", "medium")>>, fifo |-> fifo] :
        out \in {"large", "failed"}, fifo \in BOOLEAN}

\* ReadPath: a read of each of two engines, only one of which has an index, or
\* two reads of the engine without, one of which finds nothing.
MCReads == {<<<<1>>, <<2>>>>, <<<<0, 2>>, <<>>>>}

VARIABLES
    unit,   \* the component that runs
    v1, v2, v3, v4, v5, v6, v7, v8, v9, v10, v11, v12, v13, v14, v15, v16, v17, v18, v19,
    v20, v21, v22, v23, v24

G == INSTANCE Gateway WITH
    Nodes <- {1}, Threads <- {1, 2}, Scenarios <- MCScenarios, MaxRunning <- 1,
    MaxOnline <- 2, asks <- v1, sent <- v2, answers <- v3, streams <- v4, recv <- v5,
    ctx <- v6, accepted <- v7, open <- v8, pending_func_calls_ <- v9,
    running_func_calls_ <- v10, discarded_func_calls_ <- v11, results <- v12,
    connected <- v13, inflight <- v14, running_requests_ <- v15, online <- v16, up <- v17,
    faults <- v18, net <- v19, scheduled <- v20, thread <- v21, picked <- v22,
    completed <- v23, excuse <- v24

D == INSTANCE Dispatcher WITH
    Funcs <- {1, 2}, MaxWorkers <- 2, kDefaultMinWorkersPerFunc <- 1, MaxClients <- 3,
    Programs <- MCCalls, Faults <- 1, calls <- v1, arrived <- v2, replies <- v3,
    fn_call_ctx_ <- v4, func_call_infos_ <- v5, async_func_calls_ <- v6,
    inflight_requests <- v7, launchers <- v8, workers_ <- v9, requested_workers_ <- v10,
    idle_workers_ <- v11, pending_func_calls_ <- v12, running_workers_ <- v13,
    assigned_workers_ <- v14, process <- v15, inbox <- v16, outbox <- v17, exits <- v18,
    fatal <- v19

L == INSTANCE LocalOps WITH
    Programs <- MCPrograms, MaxProgress <- 2, Discards <- 1, program <- v1,
    currentCall <- v2, calls <- v3, go <- v4, seen <- v5, auxBufSendChan <- v6,
    auxBufRecv <- v7, sock <- v8, outputPipe <- v9, inputPipe <- v10, sockBack <- v11,
    state_ <- v12, known <- v13, received_aux_data_ <- v14, aux_bufs_ <- v15,
    requests_for_buf_ <- v16, fn_call_ctx_ <- v17, handling <- v18,
    pending_messages_ <- v19, aux_data_buffer_ <- v20, aux_scheduled <- v21, started <- v22,
    unknown <- v23, discards <- v24

R == INSTANCE IOUring WITH
    Messages <- {<<2>>, <<1, 1>>}, MaxSends <- 2, MaxReads <- 1, MaxWrites <- 1, ring <- v1,
    wire <- v2, reads <- v3, writes <- v4

H == INSTANCE EgressHub WITH
    Sizes <- <<2, 1, 2>>, Socks <- {1, 2}, MaxHubs <- 2, BufSize <- 2, Faults <- 1,
    sent <- v1, hub <- v2, state_ <- v3, write_buffer_ <- v4, send_fn_scheduled_ <- v5,
    connections_for_pick_ <- v6, sock <- v7, queue <- v8, wire <- v9, peer <- v10,
    read_buffer_ <- v11, delivered <- v12, lost <- v13, stopping <- v14, refused <- v15,
    faults <- v16

F == INSTANCE FuncWorker WITH
    Calls <- {<<0, 1>>, <<1, 0>>, <<1, 1>>}, Programs <- MCThreads, Faults <- 2,
    program <- v1, exec <- v2, shm <- v3, fifos <- v4, pipe <- v5, responses <- v6,
    inbox <- v7, replies <- v8, unheard <- v9, faults <- v10,
    use_fifo_for_nested_call_ <- v11, next_call_id_ <- v12, ongoing_invoke_func_ <- v13,
    invoke_func_resources_ <- v14, handshake <- v15, waits <- v16, returned <- v17,
    opens <- v18, late <- v19, fatal <- v20

E == INSTANCE EventDrivenWorker WITH
    Calls <- {<<0, 1>>, <<0, 2>>} \cup ({1, 2} \X {0, 1}), Programs <- MCHandlers,
    Clients <- <<1, 2>>, Faults <- 1, program <- v1, exec <- v2, shm <- v3, fifos <- v4,
    pipe <- v5, responses <- v6, inbox <- v7, replies <- v8, unheard <- v9, faults <- v10,
    use_fifo_for_nested_call_ <- v11, func_workers_ <- v12, next_call_id <- v13,
    assigned <- v14, incoming_func_calls_ <- v15, outgoing_func_calls_ <- v16,
    outgoing_func_call_by_output_pipe_fd_ <- v17, outgoing_func_call_cbs_ <- v18,
    handed <- v19, ended <- v20, asked <- v21, called <- v22, deaf <- v23

A == INSTANCE Launcher WITH
    Requests <- 2, Faults <- 1, fprocess_mode_ <- v1, valid <- v2, state_ <- v3,
    stop_event_ <- v4, loop <- v5, overtaken <- v6, conn <- v7, reading <- v8, wire <- v9,
    message_buffer_ <- v10, recvd <- v11, func_processes_ <- v12, proc <- v13, fatal <- v14,
    faults <- v15

P == INSTANCE ReadPath WITH
    Engines <- {1, 2}, IndexEngines <- {2}, Storages <- {3}, Appended <- <<{1}, {2}>>,
    Reads <- MCReads, MaxProgress <- 2, MaxAux <- 1, Faults <- 1, reads <- v1,
    propagate <- v2, started <- v3, onging_reads_ <- v4, held <- v5, atIndex <- v6,
    net <- v7, cache <- v8, aux <- v9, auxSet <- v10, answers <- v11, found <- v12,
    broken <- v13, lost <- v14, strays <- v15, faults <- v16

RuntimeInit ==
    \/ /\ unit = "gateway" /\ G!Init /\ Init
    \/ /\ unit = "dispatcher" /\ D!Init /\ Init
       /\ v20 = 0 /\ v21 = 0 /\ v22 = 0 /\ v23 = 0 /\ v24 = 0
    \/ /\ unit = "ops" /\ L!Init /\ Init
    \/ /\ unit = "ring" /\ R!Init /\ Init
       /\ v5 = 0 /\ v6 = 0 /\ v7 = 0 /\ v8 = 0 /\ v9 = 0 /\ v10 = 0 /\ v11 = 0 /\ v12 = 0
       /\ v13 = 0 /\ v14 = 0 /\ v15 = 0 /\ v16 = 0 /\ v17 = 0 /\ v18 = 0 /\ v19 = 0
       /\ v20 = 0 /\ v21 = 0 /\ v22 = 0 /\ v23 = 0 /\ v24 = 0
    \/ /\ unit = "hub" /\ H!Init /\ Init
       /\ v17 = 0 /\ v18 = 0 /\ v19 = 0 /\ v20 = 0 /\ v21 = 0 /\ v22 = 0 /\ v23 = 0
       /\ v24 = 0
    \/ /\ unit = "cpp" /\ F!Init /\ Init
       /\ v21 = 0 /\ v22 = 0 /\ v23 = 0 /\ v24 = 0
    \/ /\ unit = "node" /\ E!Init /\ Init
       /\ v24 = 0
    \/ /\ unit = "launcher" /\ A!Init /\ Init
       /\ v16 = 0 /\ v17 = 0 /\ v18 = 0 /\ v19 = 0 /\ v20 = 0 /\ v21 = 0 /\ v22 = 0
       /\ v23 = 0 /\ v24 = 0
    \/ /\ unit = "read" /\ P!Init /\ Init
       /\ v17 = 0 /\ v18 = 0 /\ v19 = 0 /\ v20 = 0 /\ v21 = 0 /\ v22 = 0 /\ v23 = 0
       /\ v24 = 0
    \/ /\ unit = "worker" /\ Init
       /\ v1 = 0 /\ v2 = 0 /\ v3 = 0 /\ v4 = 0 /\ v5 = 0 /\ v6 = 0 /\ v7 = 0 /\ v8 = 0
       /\ v9 = 0 /\ v10 = 0 /\ v11 = 0 /\ v12 = 0 /\ v13 = 0 /\ v14 = 0 /\ v15 = 0
       /\ v16 = 0 /\ v17 = 0 /\ v18 = 0 /\ v19 = 0 /\ v20 = 0 /\ v21 = 0 /\ v22 = 0
       /\ v23 = 0 /\ v24 = 0

RuntimeNext ==
    \/ /\ unit = "gateway" /\ G!Next
       /\ UNCHANGED <<unit, vars>>
    \/ /\ unit = "dispatcher" /\ D!Next
       /\ UNCHANGED <<unit, vars, v20, v21, v22, v23, v24>>
    \/ /\ unit = "ops" /\ L!Next
       /\ UNCHANGED <<unit, vars>>
    \/ /\ unit = "ring" /\ R!Next
       /\ UNCHANGED <<
            unit, vars, v5, v6, v7, v8, v9, v10, v11, v12, v13, v14, v15, v16, v17, v18,
            v19, v20, v21, v22, v23, v24>>
    \/ /\ unit = "hub" /\ H!Next
       /\ UNCHANGED <<unit, vars, v17, v18, v19, v20, v21, v22, v23, v24>>
    \/ /\ unit = "cpp" /\ F!Next
       /\ UNCHANGED <<unit, vars, v21, v22, v23, v24>>
    \/ /\ unit = "node" /\ E!Next
       /\ UNCHANGED <<unit, vars, v24>>
    \/ /\ unit = "launcher" /\ A!Next
       /\ UNCHANGED <<unit, vars, v16, v17, v18, v19, v20, v21, v22, v23, v24>>
    \/ /\ unit = "read" /\ P!Next
       /\ UNCHANGED <<unit, vars, v17, v18, v19, v20, v21, v22, v23, v24>>
    \/ /\ unit = "worker" /\ Next
       /\ UNCHANGED <<
            unit, v1, v2, v3, v4, v5, v6, v7, v8, v9, v10, v11, v12, v13, v14, v15, v16,
            v17, v18, v19, v20, v21, v22, v23, v24>>

allVars == <<
    unit, vars, v1, v2, v3, v4, v5, v6, v7, v8, v9, v10, v11, v12, v13, v14, v15, v16, v17,
    v18, v19, v20, v21, v22, v23, v24>>

RuntimeSpec == RuntimeInit /\ [][RuntimeNext]_allVars

(***************************************************************************)
(* The properties of the components; NoWakeUpIsLost and                    *)
(* ConnectionsAreReturned of IOWorker are meant as they are.               *)
(***************************************************************************)
\* Gateway: however connections, nodes and the threads of the gateway's server
\* interleave, a request is answered at most once, and with success only if an
\* engine completed its own call, unless its client pipelines: then, another of
\* the same connection.
AnswersAreTrue == unit = "gateway" => G!AnswersAreTrue
\* Gateway: when nothing is under way, every request has been answered, waits
\* for a node, or met one of the races that the code leaves open; the load
\* that NodeManager counts is what is running on the nodes.
NothingIsForgotten == unit = "gateway" => G!NothingIsForgotten
\* Dispatcher: the worker that the engine takes to be running a call is running
\* it, and no handler of engine, dispatcher and tracer finds its books in
\* disorder; when nothing is under way, every call has had one reply and the
\* tables are empty, but for the contexts of discarded calls and for calls that
\* wait for one another or for a concurrency limit of zero.
EveryCallEnds == unit = "dispatcher" => D!BooksAgree /\ D!EveryCallEnds
\* LocalOps: the log operations of one call carry the metalog progress that
\* the call has seen (OnRecvMessage, FinishLocalOpWithResponse); when nothing is
\* under way, every log operation of a function has been answered, whether its
\* data came inline or as an auxiliary buffer.
OpsAreAnswered == unit = "ops" => L!ProgressIsCarried /\ L!OpsAreAnswered
\* IOUring: data leaves in the order of the calls of SendAll, and a callback
\* reports success only if all its data is out; the callback of Close comes,
\* once, and after all the others, and of a descriptor that is closed only the
\* parts that a failed SendAll gave up stay in ops_.
SendsInOrder == unit = "ring" => R!SendsInOrder /\ R!CloseIsLast
\* EgressHub: OnRecvData delivers the messages that were sent, whole, at most
\* once, and in order on each socket; when nothing is under way, every message
\* has arrived, or went to a socket that failed or to a hub that was closing.
MessagesArrive == unit = "hub" => H!MessagesAreWhole /\ H!NothingIsStuck
\* FuncWorker: InvokeFunc returns the output of the call it made, or fails; when
\* nothing is under way no thread waits for what never comes, and no region or
\* FIFO is left but of calls that were given up.
InvocationsAreTrue == unit = "cpp" => F!InvocationsAreTrue /\ F!NothingIsLeft
\* EventDrivenWorker: a callback of the handler is called once, with the output
\* of its own call or an error, and a call is answered over the worker that got
\* it.
CallbacksAreTrue == unit = "node" => E!CallbacksAreTrue
\* Launcher: however the stream from the engine is cut, every request becomes a
\* worker, in order; a launcher that is told to stop stops, with all its
\* processes closed.
RequestsAreServed == unit = "launcher" => A!RequestsAreServed /\ A!StopsWithItsProcesses
\* ReadPath: a read is answered once, with what the index found for it, unless
\* its message is lost; meanwhile it is in one place.
ReadsAreTrue == unit = "read" => P!ReadsAreTrue
=============================================================================
