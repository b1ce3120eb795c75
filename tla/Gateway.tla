------------------------------ MODULE Gateway -------------------------------
(***************************************************************************)
(* The gateway: requests that come in over HTTP and gRPC connections are   *)
(* dispatched to engine nodes (gateway/server.cpp), as the node manager    *)
(* picks them (gateway/node_manager.cpp), or wait until one can be picked; *)
(* the replies of the engines are given back to the connections.  An       *)
(* asynchronous request is answered as soon as it is accepted.             *)
(*                                                                         *)
(* IO workers run the handlers, each its own connections'; a handler is    *)
(* one action per critical section (NodeManager::mu_, Server::mu_) and     *)
(* per message sent, so that the handlers of two workers interleave as     *)
(* they do in the code.  Of an engine (module Dispatcher) only this is     *)
(* kept: a call that reaches it is answered once.  Messages travel over    *)
(* several sockets and overtake one another.                               *)
(***************************************************************************)
EXTENDS Integers, FiniteSets, SequencesExt

CONSTANTS Nodes,
          Threads,      \* the IO workers
          Scenarios,    \* what is asked, and bounds: [asks, faults]
          MaxRunning,   \* the flag max_running_requests, per node; 0: no limit
          MaxOnline     \* bound: how often a node comes online

VARIABLES
    asks,        \* for each request [kind, conn, nodes, known, after]: http, grpc
                 \* or async; its connection; its node constraint; whether there
                 \* is such a function; the request behind which it comes in the
                 \* same buffer, or None
    sent,        \* requests that were read from their connections
    answers,     \* for each request, the responses sent
    streams,     \* grpc_calls_: gRPC requests not answered and not closed
    recv,        \* HTTP connections with a receive under way
    ctx,         \* for each connection, HttpConnection::func_call_context_: [r, st]
    accepted,    \* connections that Server::connections_ has ever held
    open,        \* Server::connections_
    pending_func_calls_, running_func_calls_, discarded_func_calls_,
    results,     \* async_call_results_: calls whose result is recorded
    connected,   \* NodeManager::connected_nodes_
    inflight,    \* for each node, Node::inflight_requests
    running_requests_,
    online,      \* for each node, how often it came online
    up,          \* nodes whose engine process runs
    faults,      \* bound: how many engines may end, streams or connections close
    net,         \* messages [to, r, n, st, by]: by is the request they were sent for
    scheduled,   \* functions for other IO workers: <<"finish", r, st>>, <<"try">>
    thread,      \* for each IO worker, where it is: [pc, r, n, st]
    picked,      \* for each request, the node it was given to
    completed,   \* requests that an engine completed successfully
    excuse       \* for each request, what has made it go astray, if anything

connVars == <<accepted, open>>
clientVars == <<answers, streams, recv, ctx>>
serverVars == <<sent, clientVars, connVars, pending_func_calls_, running_func_calls_,
                discarded_func_calls_, results>>
nodeVars == <<connected, inflight, running_requests_>>
envVars == <<asks, online, up, faults, completed>>
vars == <<serverVars, nodeVars, envVars, net, scheduled, thread, picked, excuse>>

Requests == DOMAIN asks
None == 0
Connections == {asks[r].conn : r \in Requests}
Idle == [pc |-> "idle", r |-> None, n |-> None, st |-> "none"]
At(t, pc) == thread[t].pc = pc
Goto(t, w) == thread' = [thread EXCEPT ![t] = w]
Go(t, pc) == thread' = [thread EXCEPT ![t].pc = pc]

\* PickIOWorkerForConnType: connections go round the workers.
ThreadOf(c) == CHOOSE t \in Threads : \E k \in 0 .. 9 : c = t + k * Cardinality(Threads)
IsAsync(r) == asks[r].kind = "async"

Init ==
    /\ \E s \in Scenarios : asks = s.asks /\ faults = s.faults
    /\ sent = {} /\ answers = [r \in Requests |-> <<>>] /\ streams = {}
    /\ recv = {asks[r].conn : r \in {r \in Requests : asks[r].kind # "grpc"}}
    /\ ctx = [c \in Connections |-> [r |-> None, st |-> "created"]]
    /\ accepted = {} /\ open = {}
    /\ pending_func_calls_ = <<>> /\ running_func_calls_ = {} /\ discarded_func_calls_ = {}
    /\ results = {} /\ net = {} /\ scheduled = {} /\ completed = {}
    /\ connected = {} /\ inflight = [n \in Nodes |-> 0] /\ running_requests_ = {}
    /\ online = [n \in Nodes |-> 0] /\ up = Nodes
    /\ thread = [t \in Threads |-> Idle]
    /\ picked = [r \in Requests |-> None] /\ excuse = [r \in Requests |-> "none"]

(***************************************************************************)
(* The node manager.                                                       *)
(***************************************************************************)
\* The nodes PickNodeForNewFuncCall may pick; the balancing policies choose
\* among them.
PickNodeForNewFuncCall(r) ==
    IF MaxRunning > 0 /\ Cardinality(running_requests_) > MaxRunning * Cardinality(connected)
      THEN {}
      ELSE IF asks[r].nodes = {} THEN connected ELSE asks[r].nodes \cap connected

NodePicked(r, n) ==
    /\ inflight' = [inflight EXCEPT ![n] = @ + 1]
    /\ running_requests_' = running_requests_ \cup {r}
    /\ picked' = [picked EXCEPT ![r] = n]
    /\ excuse' = [excuse EXCEPT ![r] = IF @ = "missed" THEN "none" ELSE @]
    /\ UNCHANGED connected

FuncCallFinished(r, n) ==
    /\ running_requests_' = running_requests_ \ {r}
    /\ inflight' = IF r \in running_requests_ /\ n \in connected
                     THEN [inflight EXCEPT ![n] = @ - 1] ELSE inflight
    /\ UNCHANGED connected

(***************************************************************************)
(* Connections and responses.                                              *)
(***************************************************************************)
\* OnNewHttpConnection, OnNewGrpcConnection on the server's thread: the IO
\* worker may read from the connection before the server has it in its table.
OnNewConnection ==
    /\ \E r \in Requests :
         /\ asks[r].conn \notin accepted
         /\ accepted' = accepted \cup {asks[r].conn}
         /\ open' = open \cup {asks[r].conn}
    /\ UNCHANGED <<sent, clientVars, pending_func_calls_, running_func_calls_,
                   discarded_func_calls_, results, nodeVars, envVars, net, scheduled, thread,
                   picked, excuse>>

\* The connection is kRunning: it is not closing and not closed.
IsRunning(c) == (c \in open \/ c \notin accepted) /\ <<"forget", c>> \notin scheduled

\* SendHttpResponse on connection c, of which requests were read; a client takes
\* the responses in the order of its requests.  When it is sent, the connection
\* is read again.
HttpResponse(c, st, requests) ==
    LET mine == {r \in requests : asks[r].conn = c}
        waiting == {r \in mine : answers[r] = <<>>} IN
    /\ answers' = [answers EXCEPT
                     ![IF waiting # {} THEN Min(waiting) ELSE Max(mine)] = Append(@, st)]
    /\ recv' = recv \cup {c}
    /\ UNCHANGED streams

H2Response(r, st) ==
    /\ answers' = IF r \in streams THEN [answers EXCEPT ![r] = Append(@, st)] ELSE answers
    /\ streams' = streams \ {r}
    /\ UNCHANGED recv

\* OnFuncCallFinished, with the status set.  ScheduleFunction runs the function at
\* once on its own worker.
FinishFuncCall(t, r, st) ==
    LET c == asks[r].conn
        http == asks[r].kind # "grpc" IN
    /\ ctx' = IF http THEN [ctx EXCEPT ![c].st = st] ELSE ctx
    /\ IF ThreadOf(c) # t
         THEN scheduled' = scheduled \cup {<<"finish", r, st>>} /\ UNCHANGED <<answers, streams, recv>>
         ELSE /\ UNCHANGED scheduled
              /\ IF ~http THEN H2Response(r, st)
                 ELSE IF IsRunning(c) THEN HttpResponse(c, st, sent)
                 ELSE UNCHANGED <<answers, streams, recv>>

\* It has run later, on the worker of the connection.  An HTTP connection has one
\* context, whose status it sends; one that was reset meanwhile has none, and the
\* connection is closed.
OnFuncCallFinishedInternal(t) ==
    /\ At(t, "idle")
    /\ \E f \in scheduled :
         LET c == asks[f[2]].conn IN
         /\ f[1] = "finish" /\ ThreadOf(c) = t
         /\ IF asks[f[2]].kind = "grpc"
              THEN H2Response(f[2], f[3]) /\ scheduled' = scheduled \ {f}
              ELSE IF IsRunning(c) /\ ctx[c].st # "created"
                THEN HttpResponse(c, ctx[c].st, sent) /\ scheduled' = scheduled \ {f}
                ELSE /\ scheduled' = (scheduled \ {f}) \cup IF IsRunning(c) THEN {<<"forget", c>>} ELSE {}
                     /\ UNCHANGED <<answers, streams, recv>>
    /\ UNCHANGED <<sent, ctx, connVars, pending_func_calls_, running_func_calls_,
                   discarded_func_calls_, results, nodeVars, envVars, net, thread, picked, excuse>>

(***************************************************************************)
(* A new call.                                                             *)
(***************************************************************************)
\* What the worker does when it has handled r: it goes on with the request that
\* came in the same buffer, if there is one.
Parse(r) ==
    LET next == {q \in Requests : asks[q].after = r} IN
    IF next = {} THEN Idle ELSE [Idle EXCEPT !.pc = "parse", !.r = CHOOSE q \in next : TRUE]

\* HTTP: a request for a function that there is not is answered at once; any other
\* takes the context of the connection, whatever is under way with it.
OnNewHttpRequest(t, r) ==
    IF asks[r].known
      THEN /\ ctx' = [ctx EXCEPT ![asks[r].conn] = [r |-> r, st |-> "created"]]
           /\ Goto(t, [Idle EXCEPT !.pc = "pick", !.r = r])
           /\ recv' = recv \ {asks[r].conn}
           /\ UNCHANGED <<answers, streams>>
      ELSE /\ HttpResponse(asks[r].conn, "notFound", sent \cup {r})
           /\ Goto(t, Parse(r))
           /\ UNCHANGED ctx

OnNewGrpcCall(t, r) ==
    /\ streams' = IF asks[r].known THEN streams \cup {r} ELSE streams
    /\ IF asks[r].known
         THEN UNCHANGED answers /\ Goto(t, [Idle EXCEPT !.pc = "pick", !.r = r])
         ELSE answers' = [answers EXCEPT ![r] = <<"notFound">>] /\ UNCHANGED thread
    /\ UNCHANGED <<recv, ctx>>

\* OnRecvData: requests come in their order, to a connection that is being read.
OnNewFuncCall(t) ==
    /\ At(t, "idle")
    /\ \E r \in Requests \ sent :
         /\ \A q \in Requests \ sent : asks[q].conn = asks[r].conn => r <= q
         /\ ThreadOf(asks[r].conn) = t /\ IsRunning(asks[r].conn)
         /\ sent' = sent \cup {r}
         /\ IF asks[r].kind = "grpc"
              THEN OnNewGrpcCall(t, r)
              ELSE asks[r].conn \in recv /\ OnNewHttpRequest(t, r)
    /\ UNCHANGED <<connVars, pending_func_calls_, running_func_calls_, discarded_func_calls_,
                   results, nodeVars, envVars, net, scheduled, picked, excuse>>

\* The parser goes on in the same buffer.
ParseNext(t) ==
    /\ At(t, "parse")
    /\ sent' = sent \cup {thread[t].r}
    /\ OnNewHttpRequest(t, thread[t].r)
    /\ UNCHANGED <<connVars, pending_func_calls_, running_func_calls_, discarded_func_calls_,
                   results, nodeVars, envVars, net, scheduled, picked, excuse>>

\* OnNewFuncCallCommon: a node is picked first,
PickNode(t) ==
    /\ \/ At(t, "pick") \/ At(t, "tryPick")
    /\ LET r == thread[t].r IN
       \/ \E n \in PickNodeForNewFuncCall(r) :
            /\ NodePicked(r, n)
            /\ Goto(t, [thread[t] EXCEPT !.pc = IF @ = "pick" THEN "send" ELSE "trySend", !.n = n])
       \/ /\ PickNodeForNewFuncCall(r) = {}
          /\ Go(t, IF At(t, "pick") THEN "enqueue" ELSE "tryBack")
          /\ UNCHANGED <<nodeVars, picked, excuse>>
    /\ UNCHANGED <<serverVars, envVars, net, scheduled>>

\* then, without one, the call is put in the queue, which the handlers that
\* may have freed a node since have seen without it.
Enqueue(t) ==
    /\ At(t, "enqueue")
    /\ LET r == thread[t].r IN
       /\ pending_func_calls_' = Append(pending_func_calls_, r)
       /\ excuse' = IF PickNodeForNewFuncCall(r) # {} THEN [excuse EXCEPT ![r] = "missed"] ELSE excuse
       /\ IF IsAsync(r) THEN FinishFuncCall(t, r, "ok") ELSE UNCHANGED <<clientVars, scheduled>>
       /\ Goto(t, Parse(r))
    /\ UNCHANGED <<sent, connVars, running_func_calls_, discarded_func_calls_, results, nodeVars,
                   envVars, net, picked>>

\* SendMessageToEngine: it fails if there is no connection to the node yet and
\* the node watcher has no address of it.  One that is there may lead to a
\* process that has ended.
SendMessageToEngine(r, n, by) ==
    net' = net \cup {[to |-> "engine", r |-> r, n |-> n, st |-> "none", by |-> by]}

\* If it fails the node manager is told that the call is over.
DispatchFailed(r, n) == n \notin connected /\ FuncCallFinished(r, n)

Dispatch(t) ==
    /\ At(t, "send")
    /\ LET r == thread[t].r  n == thread[t].n IN
       \/ /\ SendMessageToEngine(r, n, r)
          /\ IF IsAsync(r) THEN FinishFuncCall(t, r, "ok") ELSE UNCHANGED <<clientVars, scheduled>>
          /\ Go(t, "record")
          /\ UNCHANGED nodeVars
       \/ /\ DispatchFailed(r, n)
          /\ FinishFuncCall(t, r, "notFound")
          /\ Goto(t, Parse(r))
          /\ UNCHANGED net
    /\ UNCHANGED <<sent, connVars, pending_func_calls_, running_func_calls_, discarded_func_calls_,
                   results, envVars, picked, excuse>>

\* Last, the call is put among the running ones, where its reply looks for it.
Record(t) ==
    /\ At(t, "record")
    /\ running_func_calls_' = running_func_calls_ \cup {thread[t].r}
    /\ Goto(t, Parse(thread[t].r))
    /\ UNCHANGED <<sent, clientVars, connVars, pending_func_calls_, discarded_func_calls_,
                   results, nodeVars, envVars, net, scheduled, picked, excuse>>

(***************************************************************************)
(* Pending calls.                                                          *)
(***************************************************************************)
\* The critical section of TryDispatchingPendingFuncCalls: from the front of
\* the queue, calls that were discarded or whose connection is gone are
\* dropped; the next one is taken out.
Dropped(r) == r \in discarded_func_calls_ \/ (~IsAsync(r) /\ asks[r].conn \notin open)

\* Calls that lose their client because its connection is not in the table yet.
Unregistered(calls) ==
    [r \in Requests |-> IF r \in calls /\ ~IsAsync(r) /\ asks[r].conn \notin accepted
                         THEN "unregistered" ELSE excuse[r]]

TakePending(t) ==
    LET q == pending_func_calls_
        keep == {i \in DOMAIN q : ~Dropped(q[i])}
        first == IF keep = {} THEN Len(q) + 1 ELSE Min(keep) IN
    /\ pending_func_calls_' = SubSeq(q, first + 1, Len(q))
    /\ discarded_func_calls_' = discarded_func_calls_ \ {q[i] : i \in 1 .. first - 1}
    /\ excuse' = Unregistered({q[i] : i \in 1 .. first - 1})
    /\ Goto(t, IF keep = {} THEN Idle ELSE [Idle EXCEPT !.pc = "tryPick", !.r = q[first]])

TryDispatchingPendingFuncCalls(t) ==
    /\ At(t, "try")
    /\ TakePending(t)
    /\ UNCHANGED <<sent, clientVars, connVars, running_func_calls_, results, nodeVars, envVars,
                   net, scheduled, picked>>

\* A call for which no node can be picked goes back to the front, and those
\* behind it wait with it.
PutBack(t) ==
    /\ At(t, "tryBack")
    /\ LET r == thread[t].r IN
       /\ pending_func_calls_' = <<r>> \o pending_func_calls_
       /\ excuse' = IF PickNodeForNewFuncCall(r) # {} THEN [excuse EXCEPT ![r] = "missed"] ELSE excuse
    /\ Goto(t, Idle)
    /\ UNCHANGED <<sent, clientVars, connVars, running_func_calls_, discarded_func_calls_,
                   results, nodeVars, envVars, net, scheduled, picked>>

\* The call that is sent is the one its context holds now.
CallOf(r) == IF asks[r].kind = "http" THEN ctx[asks[r].conn].r ELSE r

DispatchPending(t) ==
    /\ At(t, "trySend")
    /\ LET r == thread[t].r  n == thread[t].n IN
       \/ /\ SendMessageToEngine(CallOf(r), n, r)
          /\ Go(t, "tryRecord")
          /\ UNCHANGED <<clientVars, scheduled, nodeVars, excuse>>
       \/ /\ DispatchFailed(CallOf(r), n)
          /\ IF IsAsync(r)
               THEN /\ excuse' = [excuse EXCEPT ![r] = "unreachable"]
                    /\ UNCHANGED <<clientVars, scheduled>>
               ELSE FinishFuncCall(t, r, "notFound") /\ UNCHANGED excuse
          /\ Go(t, "try")
          /\ UNCHANGED net
    /\ UNCHANGED <<sent, connVars, pending_func_calls_, running_func_calls_, discarded_func_calls_,
                   results, envVars, picked>>

\* The call is put among the running ones and, in the same critical section,
\* the next one is taken.
RecordPending(t) ==
    /\ At(t, "tryRecord")
    /\ running_func_calls_' = running_func_calls_ \cup {thread[t].r}
    /\ TakePending(t)
    /\ UNCHANGED <<sent, clientVars, connVars, results, nodeVars, envVars, net, scheduled,
                   picked>>

(***************************************************************************)
(* Replies.                                                                *)
(***************************************************************************)
\* The connections of an engine are spread over the workers.
OnRecvEngineMessage(t) ==
    /\ At(t, "idle")
    /\ \E m \in net :
         /\ m.to = "gateway"
         /\ net' = net \ {m}
         /\ FuncCallFinished(m.r, m.n)
         /\ Goto(t, [pc |-> "reply", r |-> m.r, n |-> m.n, st |-> m.st])
    /\ UNCHANGED <<serverVars, envVars, scheduled, picked, excuse>>

\* Is there a client to answer?
AlwaysAnswer(r) == TRUE

HasClient(r) == ~IsAsync(r) /\ r \notin discarded_func_calls_ /\ asks[r].conn \in open

\* The handler ends with a look at the pending calls.
ReturnNow(t) == Goto(t, Idle)

ThenTryDispatching(t) == Go(t, "try")

\* HandleFuncCallCompleteOrFailedMessage, from its critical section on.  A
\* reply that overtook Record finds no running call, and the handler returns.
HandleFuncCallCompleteOrFailed(t) ==
    /\ At(t, "reply")
    /\ LET r == thread[t].r IN
       IF r \notin running_func_calls_
         THEN /\ excuse' = [excuse EXCEPT ![r] = "overtaken"]
              /\ Goto(t, Idle)
              /\ UNCHANGED <<clientVars, running_func_calls_, discarded_func_calls_,
                             results, scheduled>>
         ELSE /\ running_func_calls_' = running_func_calls_ \ {r}
              /\ discarded_func_calls_' = discarded_func_calls_ \ {r}
              /\ results' = IF IsAsync(r) THEN results \cup {r} ELSE results
              /\ IF HasClient(r)
                   THEN FinishFuncCall(t, r, thread[t].st)
                   ELSE UNCHANGED <<clientVars, scheduled>>
              /\ ThenTryDispatching(t)
              /\ excuse' = Unregistered({r})
    /\ UNCHANGED <<sent, connVars, pending_func_calls_, nodeVars, envVars, net, picked>>

(***************************************************************************)
(* Streams and connections that close.                                     *)
(***************************************************************************)
\* H2OnStreamClose: the client has given up.
H2OnStreamClose(t) ==
    /\ At(t, "idle") /\ faults > 0 /\ faults' = faults - 1
    /\ \E r \in streams :
         /\ ThreadOf(asks[r].conn) = t
         /\ discarded_func_calls_' = discarded_func_calls_ \cup {r}
         /\ streams' = streams \ {r}
    /\ UNCHANGED <<sent, answers, recv, ctx, connVars, pending_func_calls_, running_func_calls_,
                   results, nodeVars, asks, online, up, completed, net, scheduled, thread, picked,
                   excuse>>

\* GrpcConnection::ScheduleClose; later the server forgets the connection.
ScheduleClose(t) ==
    /\ At(t, "idle") /\ faults > 0 /\ faults' = faults - 1
    /\ \E c \in {asks[r].conn : r \in streams} :
         LET calls == {r \in streams : asks[r].conn = c} IN
         /\ ThreadOf(c) = t
         /\ discarded_func_calls_' = discarded_func_calls_ \cup calls
         /\ streams' = streams \ calls
         /\ scheduled' = scheduled \cup {<<"forget", c>>}
    /\ UNCHANGED <<sent, answers, recv, ctx, connVars, pending_func_calls_, running_func_calls_,
                   results, nodeVars, asks, online, up, completed, net, thread, picked, excuse>>

\* HttpConnection::ScheduleClose: the client closes, or sends what is no request;
\* if that comes behind a request, in its place.
HttpScheduleClose(t) ==
    /\ faults > 0 /\ faults' = faults - 1
    /\ \E c \in Connections :
         /\ ThreadOf(c) = t /\ IsRunning(c)
         /\ \/ At(t, "idle") /\ c \in recv
            \/ At(t, "parse") /\ asks[thread[t].r].conn = c
         /\ recv' = recv \ {c} /\ scheduled' = scheduled \cup {<<"forget", c>>}
    /\ Goto(t, Idle)
    /\ UNCHANGED <<sent, answers, streams, ctx, connVars, pending_func_calls_, running_func_calls_,
                   discarded_func_calls_, results, nodeVars, asks, online, up, completed, net,
                   picked, excuse>>

OnConnectionClose ==
    /\ \E f \in scheduled :
         /\ f[1] = "forget" /\ f[2] \in accepted
         /\ open' = open \ {f[2]} /\ scheduled' = scheduled \ {f}
    /\ UNCHANGED <<sent, clientVars, accepted, pending_func_calls_, running_func_calls_,
                   discarded_func_calls_, results, nodeVars, envVars, net, thread, picked, excuse>>

(***************************************************************************)
(* Nodes.                                                                  *)
(***************************************************************************)
OnNodeOnline(n) ==
    /\ n \in up \ connected /\ online[n] < MaxOnline
    /\ connected' = connected \cup {n}
    /\ inflight' = [inflight EXCEPT ![n] = 0]
    /\ online' = [online EXCEPT ![n] = @ + 1]
    /\ scheduled' = scheduled \cup {<<"try">>}
    /\ UNCHANGED <<serverVars, running_requests_, asks, up, faults, completed, net, thread, picked, excuse>>

\* The function OnEngineNodeOnline schedules on some worker.
RunTry(t) ==
    /\ At(t, "idle") /\ <<"try">> \in scheduled
    /\ scheduled' = scheduled \ {<<"try">>}
    /\ TakePending(t)
    /\ UNCHANGED <<sent, clientVars, connVars, running_func_calls_, results, nodeVars, envVars,
                   net, picked>>

OnNodeOffline(n) ==
    /\ n \in connected \ up
    /\ connected' = connected \ {n}
    /\ UNCHANGED <<serverVars, inflight, running_requests_, envVars, net, scheduled, thread,
                   picked, excuse>>

\* The engine process ends, with the calls it has been sent.
EngineEnds(n) ==
    /\ n \in up \cap connected /\ up' = up \ {n}
    /\ faults > 0 /\ faults' = faults - 1
    /\ LET lost == {m \in net : m.to = "engine" /\ m.n = n} IN
       /\ net' = net \ lost
       /\ excuse' = [r \in Requests |-> IF \E m \in lost : m.r = r THEN "crashed" ELSE excuse[r]]
    /\ UNCHANGED <<serverVars, nodeVars, asks, online, completed, scheduled, thread, picked>>

EngineRestarts(n) ==
    /\ n \notin up /\ n \notin connected /\ up' = up \cup {n}
    /\ UNCHANGED <<serverVars, nodeVars, asks, online, faults, completed, net, scheduled, thread,
                   picked, excuse>>

\* The call is executed, or fails; a process that has ended answers nothing.
EngineReplies ==
    /\ \E m \in net, st \in {"ok", "failed"} :
         /\ m.to = "engine"
         /\ IF m.n \in up
              THEN /\ net' = (net \ {m}) \cup {[m EXCEPT !.to = "gateway", !.st = st]}
                   /\ completed' = IF st = "ok" THEN completed \cup {m.r} ELSE completed
                   /\ UNCHANGED excuse
              ELSE /\ net' = net \ {m}
                   /\ excuse' = [excuse EXCEPT ![m.r] = "crashed"]
                   /\ UNCHANGED completed
    /\ UNCHANGED <<serverVars, nodeVars, asks, online, up, faults, scheduled, thread, picked>>

Handler(t) ==
    \/ OnNewFuncCall(t) \/ ParseNext(t) \/ PickNode(t) \/ Enqueue(t) \/ Dispatch(t) \/ Record(t)
    \/ TryDispatchingPendingFuncCalls(t) \/ PutBack(t) \/ DispatchPending(t) \/ RecordPending(t)
    \/ OnRecvEngineMessage(t) \/ HandleFuncCallCompleteOrFailed(t)
    \/ OnFuncCallFinishedInternal(t) \/ RunTry(t) \/ H2OnStreamClose(t) \/ ScheduleClose(t)
    \/ HttpScheduleClose(t)

Next ==
    \/ \E t \in Threads : Handler(t)
    \/ \E n \in Nodes : OnNodeOnline(n) \/ OnNodeOffline(n) \/ EngineEnds(n) \/ EngineRestarts(n)
    \/ OnNewConnection \/ OnConnectionClose \/ EngineReplies

Spec == Init /\ [][Next]_vars

(***************************************************************************)
(* Properties.                                                             *)
(***************************************************************************)
\* A connection on which a request came before the one ahead had its response.
Pipelined(c) == \E r \in Requests : asks[r].conn = c /\ asks[r].after # None

\* The requests whose outcome the response to r may be: where requests are
\* pipelined, those of the connection share one context.
Mixed(r) == IF Pipelined(asks[r].conn) THEN {q \in Requests : asks[q].conn = asks[r].conn} ELSE {r}

\* A client that is told of success is told the truth: a request is answered
\* at most once, and with success only if an engine completed its own call
\* (an asynchronous one: if it was accepted).  Contexts that connections use
\* again, streams that close, and late replies do not mix requests up.  Only a
\* client that pipelines its requests may get the outcome of another of them;
\* those of other connections it never gets.
AnswersAreTrue ==
    \A r \in Requests :
      /\ ~Pipelined(asks[r].conn) => Len(answers[r]) <= 1
      /\ "ok" \in Range(answers[r]) => \E q \in Mixed(r) : IsAsync(q) \/ q \in completed

Quiet == (\A t \in Threads : At(t, "idle")) /\ net = {} /\ scheduled = {}

\* The load of a node, which the balancing goes by, is the number of calls it
\* was given that have not been answered; on a node that has come back, the
\* replies to its predecessor's calls are counted as well.  No call keeps a
\* place under the limit when it is over, but those of an engine that ended and
\* those that were never sent, because another request had taken their context.
LoadIsTracked ==
    /\ \A n \in connected :
         online[n] = 1 =>
           inflight[n] = Cardinality({r \in running_requests_ : picked[r] = n})
    /\ Quiet => \A r \in running_requests_ :
         excuse[r] = "crashed" \/ Pipelined(asks[r].conn)

\* When nothing is under way, a request that was read has been answered (an
\* asynchronous one: its result recorded), or waits in the queue behind a call
\* for which there is no node, unless one of these befell it: its client
\* closed the stream, its engine ended, the server did not have its connection
\* in its table yet, its reply overtook Record, a node became free between
\* PickNode and Enqueue, or its client pipelined it with others; all but the first
\* three may leave the calls behind waiting, too.  The
\* load by which a call is held back or not is true (LoadIsTracked).
NothingIsForgotten ==
    /\ Quiet => \A r \in sent :
         \/ r \in results \/ (answers[r] # <<>> /\ (IsAsync(r) => answers[r] = <<"notFound">>))
         \/ excuse[r] # "none" \/ (asks[r].kind = "grpc" /\ r \notin streams)
         \/ Pipelined(asks[r].conn)
         \/ /\ r \in Range(pending_func_calls_)
            /\ LET first == Head(pending_func_calls_) IN
               \/ PickNodeForNewFuncCall(first) = {}
               \/ excuse[first] = "missed" \/ \E q \in Requests : excuse[q] = "overtaken"
    /\ LoadIsTracked
=============================================================================
