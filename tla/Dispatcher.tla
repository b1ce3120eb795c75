---------------------------- MODULE Dispatcher ------------------------------
(***************************************************************************)
(* Function calls on an engine: calls that the gateway sends and calls     *)
(* that running functions make are given to idle function workers, or wait *)
(* for one (engine/engine.cpp, dispatcher.cpp, worker_manager.cpp,         *)
(* tracer.cpp); a worker (worker/golang/worker/func_worker.go) executes    *)
(* one call at a time, calls other functions meanwhile, and reports the    *)
(* end.  Results of nested calls go through the engine or, with            *)
(* use_fifo_for_nested_call, over a FIFO of their own past it.             *)
(*                                                                         *)
(* A message handler of the engine is one action: of what it reads and     *)
(* writes, only the dispatcher's lists are shared between calls, and those *)
(* it uses in one critical section.  Messages between the engine and a     *)
(* worker are io_uring writes to FIFOs; those to one worker may overtake   *)
(* one another, those of a worker are written one by one.                  *)
(***************************************************************************)
EXTENDS Integers, FiniteSets, SequencesExt, Relation

CONSTANTS Funcs,
          MaxWorkers,     \* maxWorkers of each function
          kDefaultMinWorkersPerFunc,
          MaxClients,     \* bound: how many workers are ever requested
          Programs,       \* which calls there are: see "calls"
          Faults          \* bound: how many workers exit

VARIABLES
    calls,        \* the program [tree, fifo, delay, min]: for each call [func, parent,
                  \* async, kids]; the flags use_fifo_for_nested_call and
                  \* max_relative_queueing_delay > 0; minWorkers, -1 if not configured
    arrived,      \* external calls the gateway has sent
    replies,      \* for each external call, the results the gateway was sent
    fn_call_ctx_, func_call_infos_, async_func_calls_,
    inflight_requests,                      \* per function
    launchers,    \* functions whose launcher is connected
    workers_, requested_workers_,           \* per function
    idle_workers_, pending_func_calls_,     \* per function
    running_workers_,                       \* worker -> call or None
    assigned_workers_,                      \* call -> worker or None
    process,      \* for each client id [func, st, call, kid, waits]
    inbox, outbox,  \* messages to a worker (a set), from it (a sequence)
    exits, fatal

engineVars == <<fn_call_ctx_, func_call_infos_, inflight_requests, async_func_calls_>>
listVars == <<workers_, requested_workers_, idle_workers_, pending_func_calls_,
              running_workers_, assigned_workers_>>
vars == <<calls, arrived, replies, engineVars, launchers, listVars, process, inbox, outbox,
          exits, fatal>>

None == 0
Calls == DOMAIN calls.tree
Clients == 1 .. MaxClients
Func(c) == calls.tree[c].func
Parent(c) == calls.tree[c].parent
IsAsync(c) == calls.tree[c].async
External(c) == Parent(c) = None
Msg(type, c, ok) == [type |-> type, call |-> c, ok |-> ok]
NoProcess == [func |-> None, st |-> "none", call |-> None, kid |-> 0, waits |-> FALSE]

Init ==
    /\ calls \in Programs
    /\ arrived = {} /\ replies = [c \in Calls |-> <<>>]
    /\ fn_call_ctx_ = {} /\ func_call_infos_ = {} /\ async_func_calls_ = {}
    /\ launchers = {} /\ inflight_requests = [f \in Funcs |-> 0]
    /\ workers_ = [f \in Funcs |-> {}] /\ requested_workers_ = [f \in Funcs |-> {}]
    /\ idle_workers_ = [f \in Funcs |-> <<>>] /\ pending_func_calls_ = [f \in Funcs |-> <<>>]
    /\ running_workers_ = [w \in Clients |-> None]
    /\ assigned_workers_ = [c \in Calls |-> None]
    /\ process = [w \in Clients |-> NoProcess]
    /\ inbox = [w \in Clients |-> {}] /\ outbox = [w \in Clients |-> <<>>]
    /\ exits = 0 /\ fatal = {}

(***************************************************************************)
(* The tables of calls: contexts in the log engine (log/engine_base.cpp),  *)
(* information in the tracer (engine/tracer.cpp), of whose statistics only *)
(* the number of requests in flight is kept.                               *)
(***************************************************************************)
OnNewExternalFuncCall(c) == fn_call_ctx_' = fn_call_ctx_ \cup {c}

\* The context of the parent is looked up: a call without one is fatal.
OnNewInternalFuncCall(c) ==
    /\ fatal' = IF Parent(c) \in fn_call_ctx_ THEN {} ELSE {"no parent"}
    /\ fn_call_ctx_' = fn_call_ctx_ \cup {c}

OnFuncCallCompleted(c) == fn_call_ctx_' = fn_call_ctx_ \ {c}

TraceNewFuncCall(c) ==
    /\ func_call_infos_' = func_call_infos_ \cup {c}
    /\ inflight_requests' = [inflight_requests EXCEPT ![Func(c)] = @ + 1]

\* OnFuncCallCompleted and OnFuncCallFailed of the tracer.
TraceFuncCallEnd(c) ==
    inflight_requests' = IF c \in func_call_infos_
        THEN [inflight_requests EXCEPT ![Func(c)] = Max({@ - 1, 0})] ELSE inflight_requests

\* A call that is discarded stays in flight.
DiscardFuncCallInfo(gone) == func_call_infos_' = func_call_infos_ \ gone

(***************************************************************************)
(* Workers come and go (worker_manager.cpp).                               *)
(***************************************************************************)
\* next_client_id_: client ids are given out in order.
Unused == {w \in Clients : process[w].st = "none"}

\* RequestNewFuncWorkerInternal, n times; the launcher starts a process.
RequestNewFuncWorkers(f, n) ==
    process' = [w \in Clients |->
        IF w \in Unused /\ w < Min(Unused) + n
          THEN [NoProcess EXCEPT !.func = f, !.st = "starting"] ELSE process[w]]

OnLauncherConnected(f) ==
    /\ f \notin launchers
    /\ launchers' = launchers \cup {f}
    /\ RequestNewFuncWorkers(f, IF calls.min = -1 THEN kDefaultMinWorkersPerFunc ELSE calls.min)
    /\ UNCHANGED <<calls, arrived, replies, engineVars, listVars, inbox, outbox, exits, fatal>>

Running(f) == {w \in workers_[f] : running_workers_[w] # None}

\* The operations of a dispatcher work on a record of its lists, d, with the
\* messages they send: [idle, pending, running, assigned, sent, discarded].
Lists(f) == [idle |-> idle_workers_[f], pending |-> pending_func_calls_[f],
             running |-> running_workers_, assigned |-> assigned_workers_,
             sent |-> inbox, discarded |-> <<>>]

DispatchFuncCall(d, w, c) ==
    [d EXCEPT !.assigned[c] = w, !.running[w] = c,
              !.sent[w] = @ \cup {Msg("dispatch", c, TRUE)}]

\* What can become of the pending calls when worker w is free: calls of
\* functions that waited too long are discarded; the next one is dispatched;
\* if none is left, the worker is idle.
DispatchPendingFuncCall(d, w) ==
    LET MayDiscard(c) == ~External(c) /\ calls.delay
        q == d.pending IN
    {DispatchFuncCall([d EXCEPT !.pending = SubSeq(q, i + 1, Len(q)),
                                !.discarded = SubSeq(q, 1, i - 1)], w, q[i]) :
        i \in {i \in DOMAIN q : \A j \in 1 .. i - 1 : MayDiscard(q[j])}}
    \cup (IF \A j \in DOMAIN q : MayDiscard(q[j])
            THEN {[d EXCEPT !.pending = <<>>, !.discarded = q, !.idle = Append(@, w)]} ELSE {})

SetLists(f, d) ==
    /\ idle_workers_' = [idle_workers_ EXCEPT ![f] = d.idle]
    /\ pending_func_calls_' = [pending_func_calls_ EXCEPT ![f] = d.pending]
    /\ running_workers_' = d.running /\ assigned_workers_' = d.assigned

\* ProcessDiscardedFuncCallIfNecessary, at the end of each handler: the FIFO of
\* a discarded nested call is told of the failure.  Without FIFOs this is not
\* implemented and ends the engine.
ProcessDiscardedFuncCalls(sent, discarded, told, bad) ==
    LET gone == Range(discarded) IN
    IF gone = {} \/ ~calls.fifo
      THEN /\ inbox' = sent /\ replies' = told
           /\ fatal' = IF gone = {} THEN bad ELSE bad \cup {"discarded"}
      ELSE /\ inbox' = [w \in Clients |->
                sent[w] \cup {Msg("result", c, FALSE) :
                              c \in {c \in gone : process[w].call = Parent(c)}}]
           /\ replies' = [c \in Calls |-> IF c \in gone THEN <<"discarded">> ELSE told[c]]
           /\ fatal' = bad

\* The dispatcher's OnFuncWorkerConnected and OnFuncWorkerDisconnected: the
\* list of idle workers is not gone through.
AddWorker(w) ==
    /\ workers_' = [workers_ EXCEPT ![process[w].func] = @ \cup {w}]
    /\ requested_workers_' = [requested_workers_ EXCEPT ![process[w].func] = @ \ {w}]

RemoveWorker(w) ==
    /\ fatal' = IF running_workers_[w] # None THEN {"running worker exited"} ELSE {}
    /\ workers_' = [workers_ EXCEPT ![process[w].func] = @ \ {w}]

\* OnNewHandshake of a worker.
OnFuncWorkerConnected(w) ==
    /\ process[w].st = "starting"
    /\ process' = [process EXCEPT ![w].st = "up"]
    /\ AddWorker(w)
    /\ LET f == process[w].func IN
       \E d \in DispatchPendingFuncCall(Lists(f), w) :
            /\ SetLists(f, d)
            /\ DiscardFuncCallInfo(Range(d.discarded))
            /\ ProcessDiscardedFuncCalls(d.sent, d.discarded, replies, {})
    /\ UNCHANGED <<calls, arrived, fn_call_ctx_, inflight_requests, async_func_calls_,
                   launchers, outbox, exits>>

\* A worker may exit, also with a call under way; the engine hears of it later, and
\* still reads what the worker has written.
WorkerExits(w) ==
    /\ exits < Faults /\ exits' = exits + 1
    /\ process[w].st = "up"
    /\ process' = [process EXCEPT ![w].st = "exited"]
    /\ UNCHANGED <<calls, arrived, replies, engineVars, launchers, listVars, inbox, outbox, fatal>>

OnFuncWorkerDisconnected(w) ==
    /\ process[w].st = "exited"
    /\ process' = [process EXCEPT ![w].st = "gone"]
    /\ RemoveWorker(w)
    /\ UNCHANGED <<calls, arrived, replies, engineVars, launchers, requested_workers_,
                   idle_workers_, pending_func_calls_, running_workers_, assigned_workers_,
                   inbox, outbox, exits>>

(***************************************************************************)
(* New calls.                                                              *)
(***************************************************************************)
\* The worker PickIdleWorker takes when at most limit may run: the last idle
\* one that is still connected; the ones behind it are dropped.
Usable(f) == {i \in DOMAIN idle_workers_[f] :
                 LET w == idle_workers_[f][i] IN w \in workers_[f] /\ running_workers_[w] = None}

\* The dispatcher has its own minimum: 0 unless one is configured.
min_workers_ == IF calls.min > 0 THEN calls.min ELSE 0

\* DetermineConcurrencyLimit, from averages: at low load it is the minimum.
ConcurrencyLimits == min_workers_ .. MaxWorkers

\* MayRequestNewFuncWorker: whether one is requested depends on averages.
MayRequest(f) ==
    /\ Cardinality(workers_[f] \cup requested_workers_[f]) < MaxWorkers
    /\ f \in launchers /\ Unused # {}

\* in: the messages to workers when it is called.
OnNewFuncCall(c, in) ==
    LET f == Func(c)
        Wait == [Lists(f) EXCEPT !.pending = Append(@, c)] IN
    \E limit \in ConcurrencyLimits :
      IF Cardinality(Running(f)) >= limit
        THEN SetLists(f, Wait) /\ inbox' = in /\ UNCHANGED <<requested_workers_, process>>
        ELSE IF Usable(f) # {}
          THEN LET i == Max(Usable(f)) IN
               \E d \in {DispatchFuncCall([Lists(f) EXCEPT !.idle = SubSeq(@, 1, i - 1), !.sent = in],
                                          idle_workers_[f][i], c)} :
                  SetLists(f, d) /\ inbox' = d.sent /\ UNCHANGED <<requested_workers_, process>>
          ELSE /\ SetLists(f, [Wait EXCEPT !.idle = <<>>])
               /\ inbox' = in
               /\ \/ UNCHANGED <<requested_workers_, process>>
                  \/ /\ MayRequest(f)
                     /\ requested_workers_' = [requested_workers_ EXCEPT ![f] = @ \cup {Min(Unused)}]
                     /\ RequestNewFuncWorkers(f, 1)

\* A call from the gateway.
OnExternalFuncCall(c) ==
    /\ External(c) /\ c \notin arrived
    /\ arrived' = arrived \cup {c}
    /\ OnNewExternalFuncCall(c) /\ TraceNewFuncCall(c)
    /\ OnNewFuncCall(c, inbox)
    /\ UNCHANGED <<calls, replies, async_func_calls_, launchers, workers_, outbox, exits, fatal>>

\* The next message of worker w.
Recv(w, type) ==
    /\ outbox[w] # <<>> /\ Head(outbox[w]).type = type
    /\ outbox' = [outbox EXCEPT ![w] = Tail(@)]

\* A call of the function that runs on w.  An asynchronous one is answered at
\* once.
HandleInvokeFuncMessage(w) ==
    /\ Recv(w, "invoke")
    /\ LET c == Head(outbox[w]).call
           answered == [inbox EXCEPT ![w] = @ \cup {Msg("result", c, TRUE)}] IN
       /\ async_func_calls_' = IF IsAsync(c) THEN async_func_calls_ \cup {c} ELSE async_func_calls_
       /\ OnNewInternalFuncCall(c) /\ TraceNewFuncCall(c)
       /\ OnNewFuncCall(c, IF IsAsync(c) THEN answered ELSE inbox)
    /\ UNCHANGED <<calls, arrived, replies, launchers, workers_, exits>>

(***************************************************************************)
(* Calls that end.                                                         *)
(***************************************************************************)
\* What OnFuncCallCompleted and OnFuncCallFailed of the dispatcher can make of
\* its lists: the worker is free again.  Two mutated forms first.
FuncWorkerFinishedKeeps(c) ==
    LET f == Func(c)
        w == assigned_workers_[c]
        d == [Lists(f) EXCEPT !.assigned[c] = None] IN
    IF w = None THEN {Lists(f)}
    ELSE IF w \notin workers_[f] THEN {d} ELSE DispatchPendingFuncCall(d, w)

FuncWorkerFinishedIdle(c) ==
    LET f == Func(c)
        w == assigned_workers_[c]
        d == [Lists(f) EXCEPT !.assigned[c] = None] IN
    IF w = None THEN {Lists(f)}
    ELSE IF w \notin workers_[f] THEN {d} ELSE {[d EXCEPT !.running[w] = None, !.idle = Append(@, w)]}

FuncWorkerFinished(c) ==
    LET f == Func(c)
        w == assigned_workers_[c]
        d == [Lists(f) EXCEPT !.assigned[c] = None] IN
    IF w = None THEN {Lists(f)}
    ELSE IF w \notin workers_[f] THEN {d}
    ELSE DispatchPendingFuncCall([d EXCEPT !.running[w] = None], w)

CallerOf(c) == {w \in Clients : process[w].call = Parent(c) /\ process[w].st = "up"}

\* HandleFuncCallCompleteMessage, HandleFuncCallFailedMessage.
HandleFuncCallEndMessage(w) ==
    /\ Recv(w, "end")
    /\ LET m == Head(outbox[w])
           c == m.call
           ViaEngine == ~External(c) /\ ~IsAsync(c) /\ ~calls.fifo IN
       /\ async_func_calls_' = async_func_calls_ \ {c}
       /\ OnFuncCallCompleted(c) /\ TraceFuncCallEnd(c)
       /\ \E d \in FuncWorkerFinished(c) :
            /\ SetLists(Func(c), d)
            /\ DiscardFuncCallInfo(Range(d.discarded) \cup {c})
            /\ ProcessDiscardedFuncCalls(
                 [v \in Clients |-> IF ViaEngine /\ v \in CallerOf(c)
                     THEN d.sent[v] \cup {Msg("result", c, m.ok)} ELSE d.sent[v]],
                 d.discarded,
                 IF External(c)
                   THEN [replies EXCEPT ![c] = Append(@, IF m.ok THEN "ok" ELSE "failed")]
                   ELSE replies,
                 IF c \in fn_call_ctx_ THEN {} ELSE {"no call"})
    /\ UNCHANGED <<calls, arrived, launchers, workers_, requested_workers_, process, exits>>

(***************************************************************************)
(* The worker.                                                             *)
(***************************************************************************)
\* servingLoop takes the next dispatched call.
ExecuteFunc(w) ==
    /\ process[w].st = "up" /\ process[w].call = None
    /\ \E m \in inbox[w] :
         /\ m.type = "dispatch"
         /\ inbox' = [inbox EXCEPT ![w] = @ \ {m}]
         /\ process' = [process EXCEPT ![w].call = m.call, ![w].kid = 0, ![w].waits = FALSE]
    /\ UNCHANGED <<calls, arrived, replies, engineVars, launchers, listVars, outbox, exits, fatal>>

Kids(w) == calls.tree[process[w].call].kids
Busy(w) == process[w].st = "up" /\ process[w].call # None

\* InvokeFunc, InvokeFuncAsync, GrpcCall: the function makes its next call,
NewFuncCallCommon(w) ==
    /\ Busy(w) /\ ~process[w].waits /\ process[w].kid < Len(Kids(w))
    /\ outbox' = [outbox EXCEPT ![w] = Append(@, Msg("invoke", Kids(w)[process[w].kid + 1], TRUE))]
    /\ process' = [process EXCEPT ![w].kid = @ + 1, ![w].waits = TRUE]
    /\ UNCHANGED <<calls, arrived, replies, engineVars, launchers, listVars, inbox, exits, fatal>>

\* and goes on when it has its result.
RecvResult(w) ==
    /\ Busy(w) /\ process[w].waits
    /\ \E m \in inbox[w] :
         /\ m.type = "result" /\ m.call = Kids(w)[process[w].kid]
         /\ inbox' = [inbox EXCEPT ![w] = @ \ {m}]
    /\ process' = [process EXCEPT ![w].waits = FALSE]
    /\ UNCHANGED <<calls, arrived, replies, engineVars, launchers, listVars, outbox, exits, fatal>>

\* The function returns.  fifoFuncCallFinished writes the result of a nested
\* call to its FIFO before the engine is told.
FuncCallFinished(w) ==
    /\ Busy(w) /\ ~process[w].waits /\ process[w].kid = Len(Kids(w))
    /\ LET c == process[w].call IN
       \E ok \in BOOLEAN :
         /\ outbox' = [outbox EXCEPT ![w] = Append(@, Msg("end", c, ok))]
         /\ inbox' = [v \in Clients |-> IF calls.fifo /\ ~External(c) /\ v \in CallerOf(c)
                          THEN inbox[v] \cup {Msg("result", c, ok)} ELSE inbox[v]]
    /\ process' = [process EXCEPT ![w].call = None, ![w].kid = 0]
    /\ UNCHANGED <<calls, arrived, replies, engineVars, launchers, listVars, exits, fatal>>

Step ==
    \/ \E f \in Funcs : OnLauncherConnected(f)
    \/ \E c \in Calls : OnExternalFuncCall(c)
    \/ \E w \in Clients :
         \/ OnFuncWorkerConnected(w) \/ WorkerExits(w) \/ OnFuncWorkerDisconnected(w)
         \/ HandleInvokeFuncMessage(w) \/ HandleFuncCallEndMessage(w)
         \/ ExecuteFunc(w) \/ NewFuncCallCommon(w) \/ RecvResult(w) \/ FuncCallFinished(w)

\* LOG(FATAL) ends the engine.
Next == fatal = {} /\ Step

Spec == Init /\ [][Next]_vars

(***************************************************************************)
(* Properties.                                                             *)
(***************************************************************************)
Quiet ==
    /\ arrived = {c \in Calls : External(c)} /\ launchers = Funcs
    /\ \A w \in Clients :
         /\ outbox[w] = <<>> /\ process[w].st \notin {"starting", "exited"}
         /\ process[w].st = "up" => inbox[w] = {} /\ (Busy(w) => process[w].waits)
Alive(f) == \E w \in workers_[f] : process[w].st = "up"

\* A pending call, and the calls that wait for its result.
Lineage[c \in Calls] ==
    {c} \cup IF External(c) \/ IsAsync(c) THEN {} ELSE Lineage[Parent(c)]
Held == UNION {Lineage[c] : c \in UNION {Range(pending_func_calls_[f]) : f \in Funcs}}

\* Whether a function can come to call itself, through others or not.
CallGraph == [e \in Funcs \X Funcs |->
                 \E c \in Calls : ~External(c) /\ e = <<Func(Parent(c)), Func(c)>>]
Cyclic == \E f \in Funcs : TransitiveClosure(CallGraph, Funcs)[f, f]

\* When nothing moves any more and each function still has a worker, every call
\* of the gateway has had one reply and the tables are empty, but for the
\* contexts of discarded calls, which stay for ever.  Two things are excepted.
\* Where no minWorkers is configured, the concurrency limit may have been 0 when
\* a call came: it waits, beside idle workers, until another call of its
\* function ends.  Where functions call one another in a circle, all workers may
\* be at calls that wait for pending ones.  Nothing but those calls and their
\* callers is held up.
EveryCallEnds ==
    Quiet /\ fatal = {} /\ (\A f \in Funcs : Alive(f)) =>
      /\ Held # {} => min_workers_ = 0 \/ Cyclic
      /\ \A f \in Funcs : pending_func_calls_[f] # <<>> => min_workers_ = 0 \/ Running(f) # {}
      /\ \A c \in arrived \ Held : Len(replies[c]) = 1
      /\ \A w \in Clients : {process[w].call, running_workers_[w]} \subseteq Held \cup {None}
      /\ func_call_infos_ \cup async_func_calls_ \subseteq Held
      /\ \A c \in Calls \ Held : assigned_workers_[c] = None
      /\ \A c \in fn_call_ctx_ \ Held : replies[c] = <<"discarded">>

\* What the engine takes for the call a worker is at, is the call it is at: a
\* worker that executes a call, or has one before it, is in running_workers_
\* with that call and with no other.  No handler finds its books in disorder:
\* the context of the function that makes a call is there as long as it may
\* make one, also when results go past the engine.  What ends the engine is
\* only a worker that exits with a call, and a discarded call without FIFOs.  The
\* requests in flight are the calls the tracer knows and, for ever, the discarded
\* ones.
BooksAgree ==
    /\ fatal \subseteq {"running worker exited", "discarded"}
    /\ \A w \in Clients : process[w].st = "up" =>
         LET dispatched == {m \in inbox[w] : m.type = "dispatch"}
             ended == {m \in Range(outbox[w]) : m.type = "end"} IN
         {m.call : m \in dispatched \cup ended} \cup ({process[w].call} \ {None})
           = {running_workers_[w]} \ {None}
    /\ "discarded" \notin fatal => \A f \in Funcs :
         inflight_requests[f] =
           Cardinality({c \in Calls : Func(c) = f /\ (c \in func_call_infos_
                                                    \/ replies[c] = <<"discarded">>)})
=============================================================================
