--------------------------- MODULE IOWorkerProofs ---------------------------
(***************************************************************************)
(* Theorems about IOWorker, for any number of connections and of threads   *)
(* that schedule functions: no wake-up is lost, a worker that is told to   *)
(* stop has nothing left to do but, after a failed send, what it gave up,  *)
(* and it gives back every connection that it was given in time.           *)
(***************************************************************************)
EXTENDS IOWorker, FiniteSetTheorems, TLAPS

\* Where a connection may be.
ConnState == {"new", "piped", "running", "closing", "written", "returned", "freed", "leaked"}

\* The types of the variables that the invariant is about.
TypeOK ==
    /\ server \in {"running", "waiting", "stopped"}
    /\ state_ \in {"kRunning", "kStopping", "kStopped"}
    /\ caller \in [Threads -> {"idle", "checked", "notify", "done"}]
    /\ scheduled_functions_ \in Seq(Threads) /\ idle_functions_ \in Seq(Conns)
    /\ eventfd \in BOOLEAN /\ eventfd_read \in BOOLEAN /\ fds_closed \in BOOLEAN
    /\ pipe \in Seq(Conns) /\ pipe_read \in Conns \cup {"armed", "ended"}
    /\ conn \in [Conns -> ConnState]
    /\ connections_on_closing_ \in Nat /\ late \in SUBSET Conns

\* The pipe and its read hold connections that are on their way, each once.
PipeIsExact ==
    /\ \A i \in 1..Len(pipe) : conn[pipe[i]] = "piped" /\ pipe[i] # pipe_read
    /\ \A i, j \in 1..Len(pipe) : pipe[i] = pipe[j] => i = j
    /\ pipe_read \in Conns => conn[pipe_read] = "piped"

\* connections_on_closing_ counts the connections that are closed and were not
\* given back, for good or not yet.
Unreturned == {c \in Conns : conn[c] \in {"written", "leaked"}}
CountIsExact == connections_on_closing_ = Cardinality(Unreturned)

\* What was given to a running worker was run, was skipped or is in its queue;
\* and then the eventfd is written to, or is about to be.
Served == skipped \cup {r[1] : r \in ran}
QueueIsWatched ==
    state_ = "kRunning" =>
        /\ eventfd_read
        /\ scheduled_functions_ # <<>> => eventfd \/ \E t \in Threads : caller[t] = "notify"
        /\ \A t \in Threads : caller[t] \in {"notify", "done"} =>
               t \in Served \/ \E i \in 1..Len(scheduled_functions_) : scheduled_functions_[i] = t

\* A worker that was told to stop closes its connections, then its pipe, and ends.
StopIsUnderWay ==
    /\ server = "waiting" => caller["server"] # "idle"
    /\ "server" \in Served => state_ # "kRunning"
    /\ state_ # "kRunning" => \A c \in Conns : conn[c] # "running"
    /\ state_ = "kStopping" /\ (\A c \in Conns : conn[c] \notin {"closing", "written"})
         => fds_closed
    /\ fds_closed => pipe_read # "armed"
    /\ state_ = "kStopped" =>
         pipe_read = "ended" /\ \A c \in Conns : conn[c] # "closing"
    /\ \A c \in Conns : conn[c] = "leaked" => fds_closed

\* The inductive invariant.
IInv ==
    /\ TypeOK /\ PipeIsExact /\ CountIsExact /\ QueueIsWatched /\ StopIsUnderWay
    /\ ConnectionsAreReturned

\* It holds when the worker starts.
LEMMA InitIInv ==
    ASSUME Init
    PROVE  IInv
<1>1. TypeOK
    <2>1. /\ server \in {"running", "waiting", "stopped"}
          /\ state_ \in {"kRunning", "kStopping", "kStopped"}
          /\ caller \in [Threads -> {"idle", "checked", "notify", "done"}]
          /\ conn \in [Conns -> ConnState]
        BY DEF Init, ConnState
    <2>2. /\ scheduled_functions_ \in Seq(Threads) /\ idle_functions_ \in Seq(Conns)
          /\ pipe \in Seq(Conns) /\ pipe_read \in Conns \cup {"armed", "ended"}
          /\ connections_on_closing_ \in Nat /\ late \in SUBSET Conns
        BY DEF Init
    <2>3. eventfd \in BOOLEAN /\ eventfd_read \in BOOLEAN /\ fds_closed \in BOOLEAN
        BY Zenon DEF Init
    <2>4. QED
        BY <2>1, <2>2, <2>3, Zenon DEF TypeOK
<1>2. PipeIsExact
    BY WorkerAssumption DEF Init, PipeIsExact
<1>3. CountIsExact
    <2>1. Unreturned = {}
        BY DEF Init, Unreturned
    <2>2. QED
        BY <2>1, FS_EmptySet DEF Init, CountIsExact
<1>4. QueueIsWatched
    BY DEF Init, QueueIsWatched
<1>5. StopIsUnderWay
    BY DEF Init, StopIsUnderWay, Served
<1>6. ConnectionsAreReturned
    BY DEF Init, ConnectionsAreReturned, OwnersAreAlive
<1>7. QED
    BY <1>1, <1>2, <1>3, <1>4, <1>5, <1>6 DEF IInv
-----------------------------------------------------------------------------
(* The threads that schedule functions.                                     *)

\* A thread that finds the worker running goes on; one that does not, is done.
LEMMA ScheduleFunctionIInv ==
    ASSUME IInv, NEW t \in Threads, NEW owner,
           ScheduleFunction(t, owner),
           \/ t # "server" /\ server' = server
           \/ t = "server" /\ server' = "waiting",
           UNCHANGED <<state_, idle_functions_, eventfd_read, pipe, pipe_read, conn,
                       connections_on_closing_, fds_closed, late, ran, skipped>>
    PROVE  IInv'
<1>1. TypeOK /\ PipeIsExact /\ CountIsExact /\ QueueIsWatched /\ StopIsUnderWay
      /\ ConnectionsAreReturned
    BY DEF IInv
<1>2. /\ caller' = [caller EXCEPT ![t] = IF state_ = "kRunning" THEN "checked" ELSE "done"]
      /\ caller[t] = "idle"
      /\ UNCHANGED <<scheduled_functions_, eventfd>>
    BY DEF ScheduleFunction
<1>3. \A u \in Threads : caller'[u] = IF u = t
                              THEN IF state_ = "kRunning" THEN "checked" ELSE "done"
                              ELSE caller[u]
    BY <1>1, <1>2 DEF TypeOK
<1>4. TypeOK'
    BY <1>1, <1>2 DEF TypeOK
<1>5. PipeIsExact' /\ CountIsExact' /\ ConnectionsAreReturned'
    BY <1>1 DEF PipeIsExact, CountIsExact, Unreturned, ConnectionsAreReturned, OwnersAreAlive
<1>6. QueueIsWatched'
    <2> SUFFICES ASSUME state_ = "kRunning" PROVE QueueIsWatched'
        BY DEF QueueIsWatched
    <2>1. \A u \in Threads : u # t => caller'[u] = caller[u]
        BY <1>3
    <2>2. caller'[t] = "checked"
        BY <1>3
    <2>3. QED
        BY <1>1, <1>2, <2>1, <2>2 DEF QueueIsWatched, Served
<1>7. StopIsUnderWay'
    <2>1. server' = "waiting" => caller'["server"] # "idle"
        BY <1>1, <1>3 DEF StopIsUnderWay, Threads
    <2>2. QED
        BY <1>1, <2>1 DEF StopIsUnderWay, Served
<1>8. QED
    BY <1>4, <1>5, <1>6, <1>7 DEF IInv

\* The thread that finds the queue empty is the one that writes to the eventfd.
LEMMA PushFunctionIInv ==
    ASSUME IInv, NEW t \in Threads, PushFunction(t)
    PROVE  IInv'
<1>1. TypeOK /\ PipeIsExact /\ CountIsExact /\ QueueIsWatched /\ StopIsUnderWay
      /\ ConnectionsAreReturned
    BY DEF IInv
<1>2. /\ caller[t] = "checked"
      /\ caller' = [caller EXCEPT ![t] = IF NeedNotify THEN "notify" ELSE "done"]
      /\ scheduled_functions_' = Append(scheduled_functions_, t)
      /\ UNCHANGED <<server, state_, fn, eventfd, idle_functions_, eventfd_read, pipe, pipe_read,
                     conn, connections_on_closing_, fds_closed, late, ran, skipped>>
    BY DEF PushFunction
<1>3. \A u \in Threads : caller'[u] = IF u = t THEN IF NeedNotify THEN "notify" ELSE "done"
                                               ELSE caller[u]
    BY <1>1, <1>2 DEF TypeOK
<1>4. /\ Len(scheduled_functions_') = Len(scheduled_functions_) + 1
      /\ Len(scheduled_functions_) \in Nat
      /\ scheduled_functions_'[Len(scheduled_functions_) + 1] = t
      /\ \A i \in 1..Len(scheduled_functions_) :
            scheduled_functions_'[i] = scheduled_functions_[i]
    BY <1>1, <1>2 DEF TypeOK
<1>5. TypeOK'
    BY <1>1, <1>2 DEF TypeOK
<1>6. PipeIsExact' /\ CountIsExact' /\ ConnectionsAreReturned'
    BY <1>1, <1>2 DEF PipeIsExact, CountIsExact, Unreturned, ConnectionsAreReturned, OwnersAreAlive
<1>7. QueueIsWatched'
    <2> SUFFICES ASSUME state_ = "kRunning" PROVE QueueIsWatched'
        BY <1>2 DEF QueueIsWatched
    <2>1. eventfd' \/ \E u \in Threads : caller'[u] = "notify"
        <3>1. CASE NeedNotify
            BY <1>3, <3>1
        <3>2. CASE ~NeedNotify
            BY <1>1, <1>2, <1>3, <3>2 DEF QueueIsWatched, NeedNotify
        <3>3. QED
            BY <3>1, <3>2
    <2>2. ASSUME NEW u \in Threads, caller'[u] \in {"notify", "done"}
          PROVE  u \in Served' \/ \E i \in 1..Len(scheduled_functions_') :
                                     scheduled_functions_'[i] = u
        <3>1. CASE u = t
            BY <1>4, <3>1
        <3>2. CASE u # t
            <4>1. u \in Served \/ \E i \in 1..Len(scheduled_functions_) :
                                     scheduled_functions_[i] = u
                BY <1>1, <1>3, <2>2, <3>2 DEF QueueIsWatched
            <4>2. Served' = Served
                BY <1>2 DEF Served
            <4>3. QED
                BY <1>4, <4>1, <4>2
        <3>3. QED
            BY <3>1, <3>2
    <2>3. eventfd_read'
        BY <1>1, <1>2 DEF QueueIsWatched
    <2>4. QED
        BY <2>1, <2>2, <2>3 DEF QueueIsWatched
<1>8. StopIsUnderWay'
    <2>1. server' = "waiting" => caller'["server"] # "idle"
        BY <1>1, <1>2, <1>3 DEF StopIsUnderWay, Threads
    <2>2. QED
        BY <1>1, <1>2, <2>1 DEF StopIsUnderWay, Served
<1>9. QED
    BY <1>5, <1>6, <1>7, <1>8 DEF IInv

\* The write to the eventfd.
LEMMA NotifyIInv ==
    ASSUME IInv, NEW t \in Threads, Notify(t)
    PROVE  IInv'
<1>1. TypeOK /\ PipeIsExact /\ CountIsExact /\ QueueIsWatched /\ StopIsUnderWay
      /\ ConnectionsAreReturned
    BY DEF IInv
<1>2. /\ caller[t] = "notify" /\ caller' = [caller EXCEPT ![t] = "done"] /\ eventfd' = TRUE
      /\ UNCHANGED <<server, state_, fn, scheduled_functions_, idle_functions_, eventfd_read, pipe,
                     pipe_read, conn, connections_on_closing_, fds_closed, late, ran, skipped>>
    BY DEF Notify
<1>3. \A u \in Threads : caller'[u] = IF u = t THEN "done" ELSE caller[u]
    BY <1>1, <1>2 DEF TypeOK
<1>4. TypeOK'
    BY <1>1, <1>2 DEF TypeOK
<1>5. PipeIsExact' /\ CountIsExact' /\ ConnectionsAreReturned'
    BY <1>1, <1>2 DEF PipeIsExact, CountIsExact, Unreturned, ConnectionsAreReturned, OwnersAreAlive
<1>6. QueueIsWatched'
    BY <1>1, <1>2, <1>3 DEF QueueIsWatched, Served
<1>7. StopIsUnderWay'
    <2>1. server' = "waiting" => caller'["server"] # "idle"
        BY <1>1, <1>2, <1>3 DEF StopIsUnderWay, Threads
    <2>2. QED
        BY <1>1, <1>2, <2>1 DEF StopIsUnderWay, Served
<1>8. QED
    BY <1>4, <1>5, <1>6, <1>7 DEF IInv
-----------------------------------------------------------------------------
(* The server and the kernel.                                               *)

\* The server puts a new connection into the pipe.
LEMMA ServerRegistersConnectionIInv ==
    ASSUME IInv, NEW c \in Conns, ServerRegistersConnection(c)
    PROVE  IInv'
<1>1. TypeOK /\ PipeIsExact /\ CountIsExact /\ QueueIsWatched /\ StopIsUnderWay
      /\ ConnectionsAreReturned
    BY DEF IInv
<1>2. /\ conn[c] = "new" /\ conn' = [conn EXCEPT ![c] = "piped"] /\ pipe' = Append(pipe, c)
      /\ UNCHANGED <<server, state_, caller, fn, scheduled_functions_, eventfd, idle_functions_,
                     eventfd_read, pipe_read, connections_on_closing_, fds_closed, late, ran,
                     skipped>>
    BY DEF ServerRegistersConnection, callVars
<1>3. \A d \in Conns : conn'[d] = IF d = c THEN "piped" ELSE conn[d]
    BY <1>1, <1>2 DEF TypeOK
<1>4. TypeOK'
    BY <1>1, <1>2 DEF TypeOK, ConnState
<1>5. PipeIsExact'
    <2>1. /\ Len(pipe) \in Nat /\ Len(pipe') = Len(pipe) + 1
          /\ pipe'[Len(pipe) + 1] = c /\ \A i \in 1..Len(pipe) : pipe'[i] = pipe[i]
        BY <1>1, <1>2 DEF TypeOK
    <2>2. \A i \in 1..Len(pipe) : pipe[i] \in Conns /\ pipe[i] # c
        BY <1>1, <1>2 DEF TypeOK, PipeIsExact
    <2>3. pipe_read # c
        BY <1>1, <1>2 DEF PipeIsExact
    <2>4. QED
        BY <1>1, <1>2, <1>3, <2>1, <2>2, <2>3 DEF PipeIsExact
<1>6. CountIsExact'
    <2>1. Unreturned' = Unreturned
        BY <1>2, <1>3 DEF Unreturned
    <2>2. QED
        BY <1>1, <1>2, <2>1 DEF CountIsExact
<1>7. QueueIsWatched'
    BY <1>1, <1>2 DEF QueueIsWatched, Served
<1>8. StopIsUnderWay'
    BY <1>1, <1>2, <1>3 DEF StopIsUnderWay, Served
<1>9. ConnectionsAreReturned'
    BY <1>1, <1>2, <1>3 DEF ConnectionsAreReturned, OwnersAreAlive
<1>10. QED
    BY <1>4, <1>5, <1>6, <1>7, <1>8, <1>9 DEF IInv

\* The server drops the connections that came back.
LEMMA DoReadClosedConnectionIInv ==
    ASSUME IInv, DoReadClosedConnection
    PROVE  IInv'
<1>1. TypeOK /\ PipeIsExact /\ CountIsExact /\ QueueIsWatched /\ StopIsUnderWay
      /\ ConnectionsAreReturned
    BY DEF IInv
<1>2. /\ conn' = [c \in Conns |-> IF conn[c] = "returned" THEN "freed" ELSE conn[c]]
      /\ UNCHANGED <<server, state_, caller, fn, scheduled_functions_, eventfd, idle_functions_,
                     eventfd_read, pipe, pipe_read, connections_on_closing_, fds_closed, late,
                     ran, skipped>>
    BY DEF DoReadClosedConnection, callVars
<1>3. \A d \in Conns : conn'[d] = IF conn[d] = "returned" THEN "freed" ELSE conn[d]
    BY <1>2
<1>4. TypeOK'
    BY <1>1, <1>2 DEF TypeOK, ConnState
<1>5. PipeIsExact'
    <2>1. \A i \in 1..Len(pipe) : pipe[i] \in Conns
        BY <1>1 DEF TypeOK
    <2>2. QED
        BY <1>1, <1>2, <1>3, <2>1 DEF PipeIsExact
<1>6. CountIsExact'
    <2>1. Unreturned' = Unreturned
        BY <1>3 DEF Unreturned
    <2>2. QED
        BY <1>1, <1>2, <2>1 DEF CountIsExact
<1>7. QueueIsWatched'
    BY <1>1, <1>2 DEF QueueIsWatched, Served
<1>8. StopIsUnderWay'
    BY <1>1, <1>2, <1>3 DEF StopIsUnderWay, Served
<1>9. ConnectionsAreReturned'
    BY <1>1, <1>2, <1>3 DEF ConnectionsAreReturned, OwnersAreAlive
<1>10. QED
    BY <1>4, <1>5, <1>6, <1>7, <1>8, <1>9 DEF IInv

\* The server sees that the worker has stopped.
LEMMA WaitForFinishIInv ==
    ASSUME IInv, WaitForFinish
    PROVE  IInv'
<1>1. TypeOK /\ PipeIsExact /\ CountIsExact /\ QueueIsWatched /\ StopIsUnderWay
      /\ ConnectionsAreReturned
    BY DEF IInv
<1>2. /\ server' = "stopped"
      /\ UNCHANGED <<state_, caller, fn, scheduled_functions_, eventfd, idle_functions_,
                     eventfd_read, pipe, pipe_read, conn, connections_on_closing_, fds_closed,
                     late, ran, skipped>>
    BY DEF WaitForFinish, callVars
<1>3. TypeOK'
    BY <1>1, <1>2 DEF TypeOK
<1>4. PipeIsExact' /\ CountIsExact' /\ ConnectionsAreReturned'
    BY <1>1, <1>2 DEF PipeIsExact, CountIsExact, Unreturned, ConnectionsAreReturned, OwnersAreAlive
<1>5. QueueIsWatched'
    BY <1>1, <1>2 DEF QueueIsWatched, Served
<1>6. StopIsUnderWay'
    BY <1>1, <1>2 DEF StopIsUnderWay, Served
<1>7. QED
    BY <1>3, <1>4, <1>5, <1>6 DEF IInv

\* A read of the pipe takes its first connection.
LEMMA PipeReadDoneIInv ==
    ASSUME IInv, PipeReadDone
    PROVE  IInv'
<1>1. TypeOK /\ PipeIsExact /\ CountIsExact /\ QueueIsWatched /\ StopIsUnderWay
      /\ ConnectionsAreReturned
    BY DEF IInv
<1>2. /\ pipe_read = "armed" /\ pipe # <<>>
      /\ pipe_read' = Head(pipe) /\ pipe' = Tail(pipe)
      /\ UNCHANGED <<server, state_, caller, fn, scheduled_functions_, eventfd, idle_functions_,
                     eventfd_read, conn, connections_on_closing_, fds_closed, late, ran, skipped>>
    BY DEF PipeReadDone, callVars
<1>3. /\ Len(pipe) \in Nat /\ Len(pipe) > 0 /\ Len(pipe') = Len(pipe) - 1
      /\ pipe_read' = pipe[1] /\ \A i \in 1..Len(pipe') : pipe'[i] = pipe[i + 1]
      /\ pipe' \in Seq(Conns) /\ pipe[1] \in Conns
    BY <1>1, <1>2 DEF TypeOK
<1>4. TypeOK'
    BY <1>1, <1>2, <1>3 DEF TypeOK
<1>5. PipeIsExact'
    <2>1. ASSUME NEW i \in 1..Len(pipe')
          PROVE  conn'[pipe'[i]] = "piped" /\ pipe'[i] # pipe_read'
        <3>1. i + 1 \in 1..Len(pipe) /\ 1 \in 1..Len(pipe) /\ i + 1 # 1
            BY <1>3
        <3>2. QED
            BY <1>1, <1>2, <1>3, <3>1 DEF PipeIsExact
    <2>2. ASSUME NEW i \in 1..Len(pipe'), NEW j \in 1..Len(pipe'), pipe'[i] = pipe'[j]
          PROVE  i = j
        <3>1. i + 1 \in 1..Len(pipe) /\ j + 1 \in 1..Len(pipe)
            BY <1>3
        <3>2. i + 1 = j + 1
            BY <1>1, <1>3, <2>2, <3>1 DEF PipeIsExact
        <3>3. QED
            BY <3>2
    <2>3. conn'[pipe_read'] = "piped"
        BY <1>1, <1>2, <1>3 DEF PipeIsExact
    <2>4. QED
        BY <2>1, <2>2, <2>3 DEF PipeIsExact
<1>6. CountIsExact' /\ ConnectionsAreReturned'
    BY <1>1, <1>2 DEF CountIsExact, Unreturned, ConnectionsAreReturned, OwnersAreAlive
<1>7. QueueIsWatched'
    BY <1>1, <1>2 DEF QueueIsWatched, Served
<1>8. StopIsUnderWay'
    <2>1. pipe_read' # "armed" /\ state_ # "kStopped" /\ ~fds_closed
        BY <1>1, <1>2, <1>3, WorkerAssumption DEF StopIsUnderWay
    <2>2. QED
        BY <1>1, <1>2, <2>1 DEF StopIsUnderWay, Served
<1>9. QED
    BY <1>4, <1>5, <1>6, <1>7, <1>8 DEF IInv
-----------------------------------------------------------------------------
(* The worker's connections.                                                *)

\* A connection comes to the worker: through the pipe, or made by a callback.
LEMMA RegisterIInv ==
    ASSUME IInv, NEW c \in Conns,
           \/ OnPipeData /\ c = pipe_read
           \/ WorkerRegistersConnection(c)
    PROVE  IInv'
<1>1. TypeOK /\ PipeIsExact /\ CountIsExact /\ QueueIsWatched /\ StopIsUnderWay
      /\ ConnectionsAreReturned
    BY DEF IInv
<1>2. /\ conn[c] \in {"new", "piped"} /\ conn' = [conn EXCEPT ![c] = Started]
      /\ late' = late \cup {d \in {c} : fds_closed}
      /\ UNCHANGED <<server, state_, caller, fn, scheduled_functions_, eventfd, idle_functions_,
                     eventfd_read, pipe, connections_on_closing_, fds_closed, ran, skipped>>
      /\ \/ pipe_read' = pipe_read /\ conn[c] = "new"
         \/ c = pipe_read /\ pipe_read' = IF fds_closed THEN "ended" ELSE "armed"
    BY <1>1 DEF OnPipeData, WorkerRegistersConnection, callVars, PipeIsExact
<1>3. state_ # "kStopped"
    <2>1. CASE pipe_read = c
        BY <1>1, <2>1, WorkerAssumption DEF StopIsUnderWay
    <2>2. CASE WorkerRegistersConnection(c)
        BY <1>1, <2>2 DEF StopIsUnderWay, WorkerRegistersConnection, connections_
    <2>3. QED
        BY <2>1, <2>2
<1>4. \A d \in Conns : conn'[d] = IF d = c THEN Started ELSE conn[d]
    BY <1>1, <1>2 DEF TypeOK
<1>5. Started \in {"running", "closing"} /\ (state_ # "kRunning" => Started = "closing")
    BY <1>1, <1>3 DEF Started, TypeOK
<1>6. TypeOK'
    <2>1. conn' \in [Conns -> ConnState] /\ late' \in SUBSET Conns
          /\ pipe_read' \in Conns \cup {"armed", "ended"}
        BY <1>1, <1>2, <1>5 DEF TypeOK, ConnState
    <2>2. QED
        BY <1>1, <1>2, <2>1, Zenon DEF TypeOK
<1>7. PipeIsExact'
    <2>1. \A i \in 1..Len(pipe) : pipe[i] \in Conns /\ pipe[i] # c
        BY <1>1, <1>2 DEF TypeOK, PipeIsExact
    <2>2. "armed" \notin Conns /\ "ended" \notin Conns
        BY WorkerAssumption
    <2>3. \A i \in 1..Len(pipe) : conn'[pipe[i]] = "piped" /\ pipe[i] # pipe_read'
        BY <1>1, <1>2, <1>4, <2>1, <2>2 DEF PipeIsExact
    <2>4. pipe_read' \in Conns => conn'[pipe_read'] = "piped"
        BY <1>1, <1>2, <1>4, <2>2 DEF PipeIsExact
    <2>5. QED
        BY <1>1, <1>2, <2>3, <2>4 DEF PipeIsExact
<1>8. CountIsExact'
    BY <1>1, <1>2, <1>4, <1>5 DEF CountIsExact, Unreturned
<1>9. QueueIsWatched'
    BY <1>1, <1>2 DEF QueueIsWatched, Served
<1>10. StopIsUnderWay'
    <2>1. state_ # "kRunning" => \A d \in Conns : conn'[d] # "running"
        BY <1>1, <1>4, <1>5 DEF StopIsUnderWay
    <2>2. state_ = "kStopping" => conn'[c] = "closing"
        BY <1>4, <1>5
    <2>3. fds_closed => pipe_read' # "armed"
        BY <1>1, <1>2 DEF StopIsUnderWay
    <2>4. \A d \in Conns : conn'[d] = "leaked" => fds_closed
        BY <1>1, <1>4, <1>5 DEF StopIsUnderWay
    <2>5. QED
        BY <1>1, <1>2, <1>3, <2>1, <2>2, <2>3, <2>4 DEF StopIsUnderWay, Served
<1>11. ConnectionsAreReturned'
    <2>1. \A d \in Conns : d \in late' <=> d \in late \/ (d = c /\ fds_closed)
        BY <1>2
    <2>2. fds_closed => \A d \in Conns \ late' : conn'[d] \in {"new", "piped", "returned", "freed"}
        BY <1>1, <1>4, <2>1 DEF ConnectionsAreReturned
    <2>3. \A d \in Conns : conn'[d] = "leaked" => d \in late'
        BY <1>1, <1>4, <1>5, <2>1 DEF ConnectionsAreReturned
    <2>4. QED
        BY <1>1, <1>2, <2>2, <2>3 DEF ConnectionsAreReturned, OwnersAreAlive
<1>12. QED
    BY <1>6, <1>7, <1>8, <1>9, <1>10, <1>11 DEF IInv

\* The other end of a connection closes it, or a send of several parts fails.
LEMMA ScheduleCloseIInv ==
    ASSUME IInv, NEW c \in Conns, ScheduleClose(c) \/ SendAllFails(c)
    PROVE  IInv'
<1>1. TypeOK /\ PipeIsExact /\ CountIsExact /\ QueueIsWatched /\ StopIsUnderWay
      /\ ConnectionsAreReturned
    BY DEF IInv
<1>2. /\ conn[c] \in {"running", "closing"} /\ conn' = [conn EXCEPT ![c] = "closing"]
      /\ UNCHANGED <<server, state_, caller, fn, scheduled_functions_, eventfd, idle_functions_,
                     eventfd_read, pipe, pipe_read, connections_on_closing_, fds_closed, late,
                     ran, skipped>>
    BY DEF ScheduleClose, SendAllFails, callVars, connections_
<1>3. \A d \in Conns : conn'[d] = IF d = c THEN "closing" ELSE conn[d]
    BY <1>1, <1>2 DEF TypeOK
<1>4. TypeOK'
    <2>1. conn' \in [Conns -> ConnState]
        BY <1>1, <1>2 DEF TypeOK, ConnState
    <2>2. QED
        BY <1>1, <1>2, <2>1, Zenon DEF TypeOK
<1>5. PipeIsExact'
    <2>1. \A i \in 1..Len(pipe) : pipe[i] \in Conns
        BY <1>1 DEF TypeOK
    <2>2. QED
        BY <1>1, <1>2, <1>3, <2>1 DEF PipeIsExact
<1>6. CountIsExact'
    BY <1>1, <1>2, <1>3 DEF CountIsExact, Unreturned
<1>7. QueueIsWatched'
    BY <1>1, <1>2 DEF QueueIsWatched, Served
<1>8. StopIsUnderWay'
    BY <1>1, <1>2, <1>3 DEF StopIsUnderWay, Served, TypeOK
<1>9. ConnectionsAreReturned'
    BY <1>1, <1>2, <1>3 DEF ConnectionsAreReturned, OwnersAreAlive
<1>10. QED
    BY <1>4, <1>5, <1>6, <1>7, <1>8, <1>9 DEF IInv

\* A closed connection is written to the pipe, or leaked if that is closed too;
\* then it came late.
LEMMA OnConnectionCloseIInv ==
    ASSUME IInv, NEW c \in Conns, OnConnectionClose(c)
    PROVE  IInv'
<1>1. TypeOK /\ PipeIsExact /\ CountIsExact /\ QueueIsWatched /\ StopIsUnderWay
      /\ ConnectionsAreReturned
    BY DEF IInv
<1> DEFINE new == IF fds_closed THEN "leaked" ELSE "written"
<1>2. /\ conn[c] = "closing" /\ conn' = [conn EXCEPT ![c] = new]
      /\ connections_on_closing_' = connections_on_closing_ + 1
      /\ UNCHANGED <<server, state_, caller, fn, scheduled_functions_, eventfd, idle_functions_,
                     eventfd_read, pipe, pipe_read, fds_closed, late, ran, skipped>>
    BY DEF OnConnectionClose, callVars
<1>3. \A d \in Conns : conn'[d] = IF d = c THEN new ELSE conn[d]
    BY <1>1, <1>2 DEF TypeOK
<1>4. new \in {"leaked", "written"} /\ (fds_closed <=> new = "leaked")
    OBVIOUS
<1> HIDE DEF new
<1>5. TypeOK'
    <2>1. conn' \in [Conns -> ConnState] /\ connections_on_closing_' \in Nat
        BY <1>1, <1>2, <1>4 DEF TypeOK, ConnState
    <2>2. QED
        BY <1>1, <1>2, <2>1, Zenon DEF TypeOK
<1>6. PipeIsExact'
    <2>1. \A i \in 1..Len(pipe) : pipe[i] \in Conns
        BY <1>1 DEF TypeOK
    <2>2. QED
        BY <1>1, <1>2, <1>3, <2>1 DEF PipeIsExact
<1>7. CountIsExact'
    <2>1. Unreturned' = Unreturned \cup {c} /\ c \notin Unreturned
        BY <1>2, <1>3, <1>4 DEF Unreturned
    <2>2. IsFiniteSet(Unreturned)
        BY FS_Subset, WorkerAssumption DEF Unreturned
    <2>3. Cardinality(Unreturned \cup {c}) = Cardinality(Unreturned) + 1
        BY <2>1, <2>2, FS_AddElement, Zenon
    <2>4. QED
        BY <1>1, <1>2, <2>1, <2>3 DEF CountIsExact
<1>8. QueueIsWatched'
    BY <1>1, <1>2 DEF QueueIsWatched, Served
<1>9. StopIsUnderWay'
    <2>1. (\A d \in Conns : conn'[d] \notin {"closing", "written"}) => fds_closed
        BY <1>3, <1>4
    <2>2. /\ \A d \in Conns : conn'[d] = "leaked" => fds_closed
          /\ \A d \in Conns : conn'[d] = "running" => conn[d] = "running"
          /\ \A d \in Conns : conn'[d] = "closing" => conn[d] = "closing"
        BY <1>1, <1>3, <1>4 DEF StopIsUnderWay
    <2>3. QED
        BY <1>1, <1>2, <2>1, <2>2 DEF StopIsUnderWay, Served
<1>10. ConnectionsAreReturned'
    <2>1. fds_closed => c \in late
        BY <1>1, <1>2 DEF ConnectionsAreReturned
    <2>2. QED
        BY <1>1, <1>2, <1>3, <1>4, <2>1 DEF ConnectionsAreReturned, OwnersAreAlive
<1>11. QED
    BY <1>5, <1>6, <1>7, <1>8, <1>9, <1>10 DEF IInv

\* A connection is given back.  The last one of a worker that stops lets it
\* close the pipe.
LEMMA WriteDoneIInv ==
    ASSUME IInv, NEW c \in Conns, WriteDone(c)
    PROVE  IInv'
<1>1. TypeOK /\ PipeIsExact /\ CountIsExact /\ QueueIsWatched /\ StopIsUnderWay
      /\ ConnectionsAreReturned
    BY DEF IInv
<1> DEFINE all == AllReturned(connections_on_closing_ - 1)
<1>2. /\ conn[c] = "written" /\ conn' = [conn EXCEPT ![c] = "returned"]
      /\ connections_on_closing_' = connections_on_closing_ - 1
      /\ all => fds_closed' = TRUE /\ eventfd_read' = FALSE
                /\ pipe_read' = IF pipe_read = "armed" THEN "ended" ELSE pipe_read
      /\ ~all => UNCHANGED <<fds_closed, eventfd_read, pipe_read>>
      /\ UNCHANGED <<server, state_, caller, fn, scheduled_functions_, eventfd, idle_functions_,
                     pipe, late, ran, skipped>>
    BY DEF WriteDone, callVars, CloseWorkerFds
<1>3. \A d \in Conns : conn'[d] = IF d = c THEN "returned" ELSE conn[d]
    BY <1>1, <1>2 DEF TypeOK
<1>4. /\ Unreturned' = Unreturned \ {c} /\ c \in Unreturned
      /\ IsFiniteSet(Unreturned) /\ IsFiniteSet(Unreturned')
    BY <1>2, <1>3, FS_Subset, WorkerAssumption DEF Unreturned
<1>5. CountIsExact' /\ connections_on_closing_' \in Nat
    <2>1. Cardinality(Unreturned \ {c}) = Cardinality(Unreturned) - 1
        BY <1>4, FS_RemoveElement
    <2>2. Cardinality(Unreturned') \in Nat
        BY <1>4, FS_CardinalityType
    <2>3. QED
        BY <1>1, <1>2, <1>4, <2>1, <2>2 DEF CountIsExact
<1>6. all <=> /\ state_ = "kStopping"
              /\ \A d \in Conns : conn'[d] \notin {"running", "closing", "written", "leaked"}
    <2>1. connections_on_closing_ - 1 = 0 <=> Unreturned' = {}
        BY <1>2, <1>4, <1>5, FS_EmptySet, Zenon DEF CountIsExact
    <2>2. Unreturned' = {} <=> \A d \in Conns : conn'[d] \notin {"written", "leaked"}
        BY DEF Unreturned
    <2>3. connections_ = {} <=> \A d \in Conns : conn'[d] \notin {"running", "closing"}
        BY <1>2, <1>3 DEF connections_
    <2>4. all <=> state_ = "kStopping" /\ connections_ = {} /\ connections_on_closing_ - 1 = 0
        BY Zenon DEF AllReturned
    <2> HIDE DEF all
    <2>5. QED
        BY <2>1, <2>2, <2>3, <2>4
<1> HIDE DEF all
<1>7. fds_closed' \in BOOLEAN /\ eventfd_read' \in BOOLEAN
    BY <1>1, <1>2, Zenon DEF TypeOK
<1>8. TypeOK'
    <2>1. conn' \in [Conns -> ConnState] /\ pipe_read' \in Conns \cup {"armed", "ended"}
        BY <1>1, <1>2 DEF TypeOK, ConnState
    <2>2. QED
        BY <1>1, <1>2, <1>5, <1>7, <2>1, Zenon DEF TypeOK
<1>9. PipeIsExact'
    <2>1. \A i \in 1..Len(pipe) : pipe[i] \in Conns /\ pipe[i] # c
        BY <1>1, <1>2 DEF TypeOK, PipeIsExact
    <2>2. "armed" \notin Conns /\ "ended" \notin Conns
        BY WorkerAssumption
    <2>3. pipe_read' = pipe_read \/ pipe_read' = "ended"
        BY <1>2
    <2>4. QED
        BY <1>1, <1>2, <1>3, <2>1, <2>2, <2>3 DEF PipeIsExact
<1>10. QueueIsWatched'
    <2>1. state_ = "kRunning" => eventfd_read' = eventfd_read
        BY <1>2, <1>6
    <2>2. QED
        BY <1>1, <1>2, <2>1 DEF QueueIsWatched, Served
<1>11. fds_closed => fds_closed'
    BY <1>2, Zenon
<1>12. StopIsUnderWay'
    <2>1. state_ = "kStopping" /\ (\A d \in Conns : conn'[d] \notin {"closing", "written"})
            => fds_closed'
        <3> SUFFICES ASSUME state_ = "kStopping", ~all,
                            \A d \in Conns : conn'[d] \notin {"closing", "written"}
                     PROVE  fds_closed'
            BY <1>2
        <3>1. PICK d \in Conns : conn'[d] \in {"running", "leaked"}
            BY <1>6
        <3>2. conn[d] \in {"running", "leaked"}
            BY <1>3, <3>1
        <3>3. QED
            BY <1>1, <1>11, <3>2 DEF StopIsUnderWay
    <2>2. fds_closed' => pipe_read' # "armed"
        BY <1>1, <1>2, Zenon DEF StopIsUnderWay
    <2>3. /\ \A d \in Conns : conn'[d] = "leaked" => fds_closed'
          /\ \A d \in Conns : conn'[d] = "running" => conn[d] = "running"
          /\ \A d \in Conns : conn'[d] = "closing" => conn[d] = "closing"
        BY <1>1, <1>3, <1>11 DEF StopIsUnderWay
    <2>4. state_ = "kStopped" => pipe_read' = "ended"
        BY <1>1, <1>2 DEF StopIsUnderWay
    <2>5. QED
        BY <1>1, <1>2, <2>1, <2>2, <2>3, <2>4 DEF StopIsUnderWay, Served
<1>13. ConnectionsAreReturned'
    <2>1. ASSUME fds_closed', NEW d \in Conns \ late
          PROVE  conn'[d] \in {"new", "piped", "returned", "freed"}
        <3>1. CASE all
            <4>1. conn'[d] \in ConnState
                BY <1>8 DEF TypeOK
            <4>2. QED
                BY <1>6, <3>1, <4>1 DEF ConnState
        <3>2. CASE ~all
            BY <1>1, <1>2, <1>3, <2>1, <3>2, Zenon DEF ConnectionsAreReturned
        <3>3. QED
            BY <3>1, <3>2
    <2>2. \A d \in Conns : conn'[d] = "leaked" => d \in late
        BY <1>1, <1>3 DEF ConnectionsAreReturned
    <2>3. QED
        BY <1>1, <1>2, <2>1, <2>2 DEF ConnectionsAreReturned, OwnersAreAlive
<1>14. QED
    BY <1>5, <1>8, <1>9, <1>10, <1>12, <1>13 DEF IInv

\* The event loop has nothing left.
LEMMA EventLoopEndsIInv ==
    ASSUME IInv, EventLoopEnds
    PROVE  IInv'
<1>1. TypeOK /\ PipeIsExact /\ CountIsExact /\ QueueIsWatched /\ StopIsUnderWay
      /\ ConnectionsAreReturned
    BY DEF IInv
<1>2. /\ pipe_read = "ended" /\ state_' = "kStopped"
      /\ \A c \in Conns : conn[c] \notin {"running", "closing"}
      /\ UNCHANGED <<server, caller, fn, scheduled_functions_, eventfd, idle_functions_,
                     eventfd_read, pipe, pipe_read, conn, connections_on_closing_, fds_closed,
                     late, ran, skipped>>
    BY DEF EventLoopEnds, callVars, connections_
<1>3. TypeOK'
    BY <1>1, <1>2 DEF TypeOK
<1>4. PipeIsExact' /\ CountIsExact' /\ ConnectionsAreReturned'
    BY <1>1, <1>2 DEF PipeIsExact, CountIsExact, Unreturned, ConnectionsAreReturned, OwnersAreAlive
<1>5. QueueIsWatched'
    BY <1>1, <1>2, Zenon DEF QueueIsWatched, Served
<1>6. StopIsUnderWay'
    BY <1>1, <1>2, Zenon DEF StopIsUnderWay, Served
<1>7. QED
    BY <1>3, <1>4, <1>5, <1>6 DEF IInv
-----------------------------------------------------------------------------
(* The functions that the worker runs.                                      *)

\* A function runs only while its owner is with the worker.
LEMMA InvokedOwnersAreAlive ==
    ASSUME OwnersAreAlive, NEW functions, InvokeFunctions(functions)
    PROVE  OwnersAreAlive'
<1> SUFFICES ASSUME NEW r \in ran' PROVE r[2] \in {"none", "running", "closing"}
    BY DEF OwnersAreAlive
<1>1. CASE r \in ran
    BY <1>1 DEF OwnersAreAlive
<1>2. CASE r \notin ran
    <2>1. PICK f \in functions : OwnerIsHere(f[2]) /\ r = <<f[1], OwnerState(f[2])>>
        BY <1>2 DEF InvokeFunctions
    <2>2. OwnerState(f[2]) \in {"none", "running", "closing"}
        BY <2>1 DEF OwnerIsHere, OwnerState, connections_
    <2>3. QED
        BY <2>1, <2>2
<1>3. QED
    BY <1>1, <1>2

\* A function is served once InvokeFunctions had it.
LEMMA InvokedIsServed ==
    ASSUME NEW functions, InvokeFunctions(functions)
    PROVE  Served' = Served \cup {f[1] : f \in functions}
<1>1. ASSUME NEW x \in Served' PROVE x \in Served \cup {f[1] : f \in functions}
    <2>1. CASE x \in skipped'
        BY <2>1 DEF InvokeFunctions, Served
    <2>2. CASE x \notin skipped'
        <3>1. PICK r \in ran' : x = r[1]
            BY <1>1, <2>2 DEF Served
        <3>2. CASE r \in ran
            BY <3>1, <3>2 DEF Served
        <3>3. CASE r \notin ran
            <4>1. PICK f \in functions : r = <<f[1], OwnerState(f[2])>>
                BY <3>3 DEF InvokeFunctions
            <4>2. QED
                BY <3>1, <4>1
        <3>4. QED
            BY <3>2, <3>3
    <2>3. QED
        BY <2>1, <2>2
<1>2. ASSUME NEW x \in Served PROVE x \in Served'
    BY <1>2 DEF InvokeFunctions, Served
<1>3. ASSUME NEW f \in functions PROVE f[1] \in Served'
    <2>1. CASE OwnerIsHere(f[2])
        <3>1. <<f[1], OwnerState(f[2])>> \in ran'
            BY <2>1 DEF InvokeFunctions
        <3>2. <<f[1], OwnerState(f[2])>>[1] = f[1]
            OBVIOUS
        <3>3. QED
            BY <3>1, <3>2 DEF Served
    <2>2. CASE ~OwnerIsHere(f[2])
        BY <2>2 DEF InvokeFunctions, Served
    <2>3. QED
        BY <2>1, <2>2
<1>4. QED
    BY <1>1, <1>2, <1>3

\* A callback leaves a function for later.
LEMMA ScheduleIdleFunctionIInv ==
    ASSUME IInv, NEW c \in Conns, ScheduleIdleFunction(c)
    PROVE  IInv'
<1>1. TypeOK /\ PipeIsExact /\ CountIsExact /\ QueueIsWatched /\ StopIsUnderWay
      /\ ConnectionsAreReturned
    BY DEF IInv
<1>2. /\ idle_functions_' = Append(idle_functions_, c)
      /\ UNCHANGED <<server, state_, caller, fn, scheduled_functions_, eventfd, eventfd_read,
                     pipe, pipe_read, conn, connections_on_closing_, fds_closed, late, ran,
                     skipped>>
    BY DEF ScheduleIdleFunction, callVars
<1>3. TypeOK'
    BY <1>1, <1>2 DEF TypeOK
<1>4. PipeIsExact' /\ CountIsExact' /\ ConnectionsAreReturned'
    BY <1>1, <1>2 DEF PipeIsExact, CountIsExact, Unreturned, ConnectionsAreReturned, OwnersAreAlive
<1>5. QueueIsWatched'
    BY <1>1, <1>2, Zenon DEF QueueIsWatched, Served
<1>6. StopIsUnderWay'
    BY <1>1, <1>2, Zenon DEF StopIsUnderWay, Served
<1>7. QED
    BY <1>3, <1>4, <1>5, <1>6 DEF IInv

\* The functions that callbacks left are run.
LEMMA RunIdleFunctionsIInv ==
    ASSUME IInv, RunIdleFunctions
    PROVE  IInv'
<1> DEFINE functions == {<<c, c>> : c \in Range(idle_functions_)}
<1>1. TypeOK /\ PipeIsExact /\ CountIsExact /\ QueueIsWatched /\ StopIsUnderWay
      /\ ConnectionsAreReturned
    BY DEF IInv
<1>2. /\ InvokeFunctions(functions) /\ idle_functions_' = <<>>
      /\ UNCHANGED <<server, state_, caller, fn, scheduled_functions_, eventfd, eventfd_read,
                     pipe, pipe_read, conn, connections_on_closing_, fds_closed, late>>
    BY DEF RunIdleFunctions, callVars
<1>3. {f[1] : f \in functions} \subseteq Conns
    BY <1>1 DEF TypeOK, Range
<1> HIDE DEF functions
<1>4. Served' = Served \cup {f[1] : f \in functions}
    BY <1>2, InvokedIsServed
<1>5. TypeOK'
    <2>1. idle_functions_' \in Seq(Conns)
        BY <1>2
    <2>2. QED
        BY <1>1, <1>2, <2>1, Zenon DEF TypeOK
<1>6. PipeIsExact' /\ CountIsExact'
    BY <1>1, <1>2 DEF PipeIsExact, CountIsExact, Unreturned
<1>7. QueueIsWatched'
    BY <1>1, <1>2, <1>4 DEF QueueIsWatched
<1>8. StopIsUnderWay'
    <2>1. "server" \in Served' => "server" \in Served
        BY <1>3, <1>4, WorkerAssumption DEF Threads
    <2>2. QED
        BY <1>1, <1>2, <2>1 DEF StopIsUnderWay
<1>9. ConnectionsAreReturned'
    <2>1. OwnersAreAlive'
        BY <1>1, <1>2, InvokedOwnersAreAlive DEF ConnectionsAreReturned
    <2>2. QED
        BY <1>1, <1>2, <2>1 DEF ConnectionsAreReturned
<1>10. QED
    BY <1>5, <1>6, <1>7, <1>8, <1>9 DEF IInv

\* The callback of the eventfd takes the whole queue.
LEMMA AllIsTaken ==
    ASSUME scheduled_functions_ \in Seq(Threads)
    PROVE  {t \in Threads : t \in Range(SubSeq(scheduled_functions_, 1,
                                          Len(scheduled_functions_) - Len(Leaves)))}
         = {t \in Threads : \E i \in 1..Len(scheduled_functions_) : scheduled_functions_[i] = t}
<1>1. Len(Leaves) = 0 /\ Len(scheduled_functions_) \in Nat
    BY DEF Leaves
<1>2. SubSeq(scheduled_functions_, 1, Len(scheduled_functions_) - Len(Leaves))
        = scheduled_functions_
    BY <1>1
<1>3. Range(scheduled_functions_) =
        {scheduled_functions_[i] : i \in 1..Len(scheduled_functions_)}
    BY DEF Range
<1>4. QED
    BY <1>2, <1>3, Zenon

\* The functions of the queue are run, the one that stops the worker among them.
LEMMA RunScheduledFunctionsIInv ==
    ASSUME IInv, RunScheduledFunctions, state_ = "kRunning"
    PROVE  IInv'
<1> DEFINE taken == {t \in Threads : \E i \in 1..Len(scheduled_functions_) :
                                        scheduled_functions_[i] = t}
           functions == {<<t, fn[t]>> : t \in taken}
           close == "server" \in taken /\ connections_ = {} /\ connections_on_closing_ = 0
<1>1. TypeOK /\ PipeIsExact /\ CountIsExact /\ QueueIsWatched /\ StopIsUnderWay
      /\ ConnectionsAreReturned
    BY DEF IInv
<1>2. /\ scheduled_functions_' = <<>> /\ InvokeFunctions(functions)
      /\ IF "server" \in taken
           THEN StopInternal
           ELSE UNCHANGED <<state_, conn, pipe_read, fds_closed, eventfd_read>>
    <2> DEFINE seen == {t \in Threads :
                          t \in Range(SubSeq(scheduled_functions_, 1,
                                             Len(scheduled_functions_) - Len(Leaves)))}
    <2>1. /\ scheduled_functions_' = Leaves /\ InvokeFunctions({<<t, fn[t]>> : t \in seen})
          /\ IF "server" \in seen
               THEN StopInternal
               ELSE UNCHANGED <<state_, conn, pipe_read, fds_closed, eventfd_read>>
        BY Zenon DEF RunScheduledFunctions
    <2>2. seen = taken
        BY <1>1, AllIsTaken, Zenon DEF TypeOK
    <2> HIDE DEF seen, taken
    <2>3. QED
        BY <2>1, <2>2, Zenon DEF Leaves
<1>3. /\ eventfd' = FALSE
      /\ UNCHANGED <<server, caller, fn, idle_functions_, pipe, connections_on_closing_, late>>
    BY DEF RunScheduledFunctions
<1>4. Served' = Served \cup taken
    <2>1. Served' = Served \cup {f[1] : f \in functions}
        BY <1>2, InvokedIsServed
    <2>2. {f[1] : f \in functions} = taken
        <3> HIDE DEF taken
        <3>1. ASSUME NEW t \in taken PROVE \E f \in functions : t = f[1]
            <4>1. <<t, fn[t]>> \in functions /\ t = <<t, fn[t]>>[1]
                OBVIOUS
            <4>2. QED
                BY <4>1, Zenon
        <3>2. ASSUME NEW f \in functions PROVE f[1] \in taken
            <4>1. PICK t \in taken : f = <<t, fn[t]>>
                OBVIOUS
            <4>2. QED
                BY <4>1
        <3>3. QED
            BY <3>1, <3>2, Zenon
    <2>3. QED
        BY <2>1, <2>2
<1>5. OwnersAreAlive'
    BY <1>1, <1>2, InvokedOwnersAreAlive DEF ConnectionsAreReturned
<1>6. \A t \in Threads : t \in taken <=> \E i \in 1..Len(scheduled_functions_) :
                                            scheduled_functions_[i] = t
    OBVIOUS
<1> HIDE DEF functions, taken
<1>7. /\ "server" \in taken =>
           /\ state_' = "kStopping"
           /\ conn' = [c \in Conns |-> IF conn[c] = "running" THEN "closing" ELSE conn[c]]
      /\ "server" \notin taken => state_' = "kRunning" /\ conn' = conn
      /\ close => fds_closed' = TRUE /\ eventfd_read' = FALSE
                  /\ pipe_read' = IF pipe_read = "armed" THEN "ended" ELSE pipe_read
      /\ ~close => UNCHANGED <<fds_closed, eventfd_read, pipe_read>>
    BY <1>2 DEF StopInternal, CloseWorkerFds
<1>8. close <=> /\ "server" \in taken
                /\ \A c \in Conns : conn[c] \notin {"running", "closing", "written", "leaked"}
    <2>1. connections_on_closing_ = 0 <=> Unreturned = {}
        <3>1. IsFiniteSet(Unreturned)
            BY FS_Subset, WorkerAssumption, Zenon DEF Unreturned
        <3>2. QED
            BY <1>1, <3>1, FS_EmptySet DEF CountIsExact
    <2>2. Unreturned = {} <=> \A c \in Conns : conn[c] \notin {"written", "leaked"}
        BY DEF Unreturned
    <2>3. connections_ = {} <=> \A c \in Conns : conn[c] \notin {"running", "closing"}
        BY DEF connections_
    <2>4. QED
        BY <2>1, <2>2, <2>3
<1> HIDE DEF close
<1>9. \A c \in Conns : conn'[c] = IF "server" \in taken /\ conn[c] = "running"
                                    THEN "closing" ELSE conn[c]
    BY <1>7
<1>10. /\ fds_closed' \in BOOLEAN /\ eventfd_read' \in BOOLEAN /\ eventfd' \in BOOLEAN
    BY <1>1, <1>3, <1>7, Zenon DEF TypeOK
<1>11. TypeOK'
    <2>1. /\ conn' \in [Conns -> ConnState] /\ pipe_read' \in Conns \cup {"armed", "ended"}
          /\ state_' \in {"kRunning", "kStopping", "kStopped"}
        BY <1>1, <1>7 DEF TypeOK, ConnState
    <2>2. scheduled_functions_' \in Seq(Threads)
        BY <1>2
    <2>3. QED
        BY <1>1, <1>3, <1>10, <2>1, <2>2, Zenon DEF TypeOK
<1>12. PipeIsExact'
    <2>1. \A i \in 1..Len(pipe) : pipe[i] \in Conns
        BY <1>1 DEF TypeOK
    <2>2. "armed" \notin Conns /\ "ended" \notin Conns
        BY WorkerAssumption
    <2>3. pipe_read' = pipe_read \/ pipe_read' = "ended"
        BY <1>7
    <2>4. QED
        BY <1>1, <1>3, <1>9, <2>1, <2>2, <2>3 DEF PipeIsExact
<1>13. CountIsExact'
    <2>1. Unreturned' = Unreturned
        BY <1>9 DEF Unreturned
    <2>2. QED
        BY <1>1, <1>3, <2>1 DEF CountIsExact
<1>14. QueueIsWatched'
    <2> SUFFICES ASSUME state_' = "kRunning" PROVE QueueIsWatched'
        BY DEF QueueIsWatched
    <2>1. ~close
        BY <1>7, <1>8
    <2>2. eventfd_read'
        BY <1>1, <1>7, <2>1 DEF QueueIsWatched
    <2>3. ASSUME NEW t \in Threads, caller'[t] \in {"notify", "done"} PROVE t \in Served'
        BY <1>1, <1>3, <1>4, <1>6, <2>3 DEF QueueIsWatched
    <2>4. QED
        BY <1>2, <2>2, <2>3 DEF QueueIsWatched
<1>15. fds_closed => fds_closed'
    BY <1>7, Zenon
<1>16. StopIsUnderWay'
    <2>1. server' = "waiting" => caller'["server"] # "idle"
        BY <1>1, <1>3 DEF StopIsUnderWay
    <2>2. "server" \in Served' => state_' # "kRunning"
        BY <1>1, <1>4, <1>7 DEF StopIsUnderWay
    <2>3. state_' # "kRunning" => \A c \in Conns : conn'[c] # "running"
        BY <1>7, <1>9
    <2>4. state_' = "kStopping" /\ (\A c \in Conns : conn'[c] \notin {"closing", "written"})
            => fds_closed'
        <3> SUFFICES ASSUME state_' = "kStopping", ~close,
                            \A c \in Conns : conn'[c] \notin {"closing", "written"}
                     PROVE  fds_closed'
            BY <1>7
        <3>1. PICK c \in Conns : conn[c] \in {"running", "closing", "written", "leaked"}
            BY <1>7, <1>8
        <3>2. conn[c] = "leaked"
            BY <1>7, <1>9, <3>1
        <3>3. QED
            BY <1>1, <1>15, <3>2 DEF StopIsUnderWay
    <2>5. fds_closed' => pipe_read' # "armed"
        BY <1>1, <1>7, Zenon DEF StopIsUnderWay
    <2>6. state_' # "kStopped"
        BY <1>7
    <2>7. \A c \in Conns : conn'[c] = "leaked" => fds_closed'
        BY <1>1, <1>9, <1>15 DEF StopIsUnderWay
    <2>8. QED
        BY <2>1, <2>2, <2>3, <2>4, <2>5, <2>6, <2>7 DEF StopIsUnderWay
<1>17. ConnectionsAreReturned'
    <2>1. ASSUME fds_closed', NEW d \in Conns \ late
          PROVE  conn'[d] \in {"new", "piped", "returned", "freed"}
        <3>1. CASE close
            <4>1. conn[d] \in ConnState
                BY <1>1 DEF TypeOK
            <4>2. QED
                BY <1>8, <1>9, <3>1, <4>1 DEF ConnState
        <3>2. CASE ~close
            BY <1>1, <1>7, <1>9, <2>1, <3>2, Zenon DEF ConnectionsAreReturned
        <3>3. QED
            BY <3>1, <3>2
    <2>2. \A d \in Conns : conn'[d] = "leaked" => d \in late
        BY <1>1, <1>9 DEF ConnectionsAreReturned
    <2>3. QED
        BY <1>3, <1>5, <2>1, <2>2 DEF ConnectionsAreReturned
<1>18. QED
    BY <1>11, <1>12, <1>13, <1>14, <1>16, <1>17 DEF IInv

\* After that, the callback of the eventfd only ends its read.
LEMMA RunScheduledFunctionsWhileStopping ==
    ASSUME IInv, RunScheduledFunctions, state_ # "kRunning"
    PROVE  IInv'
<1>1. TypeOK /\ PipeIsExact /\ CountIsExact /\ QueueIsWatched /\ StopIsUnderWay
      /\ ConnectionsAreReturned
    BY DEF IInv
<1>2. /\ eventfd' = FALSE /\ eventfd_read' = FALSE
      /\ UNCHANGED <<server, state_, caller, fn, scheduled_functions_, idle_functions_, pipe,
                     pipe_read, conn, connections_on_closing_, fds_closed, late, ran, skipped>>
    BY DEF RunScheduledFunctions
<1>3. TypeOK'
    BY <1>1, <1>2, Zenon DEF TypeOK
<1>4. PipeIsExact' /\ CountIsExact' /\ ConnectionsAreReturned'
    BY <1>1, <1>2 DEF PipeIsExact, CountIsExact, Unreturned, ConnectionsAreReturned, OwnersAreAlive
<1>5. QueueIsWatched'
    BY <1>2 DEF QueueIsWatched
<1>6. StopIsUnderWay'
    BY <1>1, <1>2, Zenon DEF StopIsUnderWay, Served
<1>7. QED
    BY <1>3, <1>4, <1>5, <1>6 DEF IInv
-----------------------------------------------------------------------------
(* The theorems.                                                            *)

\* Every step keeps the invariant.
LEMMA NextIInv == IInv /\ [Next]_vars => IInv'
<1> SUFFICES ASSUME IInv, [Next]_vars PROVE IInv'
    OBVIOUS
<1>1. ASSUME NEW t \in Callers, CallerSchedules(t) PROVE IInv'
    <2>1. PICK owner : ScheduleFunction(t, owner)
        BY <1>1 DEF CallerSchedules
    <2>2. t \in Threads /\ t # "server"
        BY WorkerAssumption DEF Threads
    <2>3. UNCHANGED <<server, state_, idle_functions_, eventfd_read, pipe, pipe_read, conn,
                      connections_on_closing_, fds_closed, late, ran, skipped>>
        BY <1>1 DEF CallerSchedules
    <2>4. QED
        BY <2>1, <2>2, <2>3, ScheduleFunctionIInv
<1>2. ASSUME DoStop PROVE IInv'
    <2>1. ScheduleFunction("server", NoOwner) /\ server' = "waiting" /\ "server" \in Threads
        BY <1>2 DEF DoStop, Threads
    <2>2. UNCHANGED <<state_, idle_functions_, eventfd_read, pipe, pipe_read, conn,
                      connections_on_closing_, fds_closed, late, ran, skipped>>
        BY <1>2 DEF DoStop
    <2>3. QED
        BY <2>1, <2>2, ScheduleFunctionIInv
<1>3. ASSUME NEW t \in Threads, PushFunction(t) \/ Notify(t) PROVE IInv'
    BY <1>3, PushFunctionIInv, NotifyIInv
<1>4. ASSUME DoReadClosedConnection \/ WaitForFinish \/ PipeReadDone \/ EventLoopEnds PROVE IInv'
    BY <1>4, DoReadClosedConnectionIInv, WaitForFinishIInv, PipeReadDoneIInv, EventLoopEndsIInv
<1>5. ASSUME RunScheduledFunctions PROVE IInv'
    BY <1>5, RunScheduledFunctionsIInv, RunScheduledFunctionsWhileStopping
<1>6. ASSUME RunIdleFunctions PROVE IInv'
    BY <1>6, RunIdleFunctionsIInv
<1>7. ASSUME OnPipeData PROVE IInv'
    <2>1. pipe_read \in Conns
        BY <1>7 DEF OnPipeData
    <2>2. QED
        BY <1>7, <2>1, RegisterIInv
<1>8. ASSUME NEW c \in Conns,
             \/ ServerRegistersConnection(c) \/ WorkerRegistersConnection(c)
             \/ ScheduleIdleFunction(c) \/ ScheduleClose(c) \/ SendAllFails(c)
             \/ OnConnectionClose(c) \/ WriteDone(c)
      PROVE  IInv'
    BY <1>8, ServerRegistersConnectionIInv, RegisterIInv, ScheduleIdleFunctionIInv,
       ScheduleCloseIInv, OnConnectionCloseIInv, WriteDoneIInv
<1>9. ASSUME UNCHANGED vars PROVE IInv'
    <2>1. TypeOK' /\ PipeIsExact' /\ CountIsExact'
        BY <1>9, Zenon DEF IInv, vars, callVars, TypeOK, PipeIsExact, CountIsExact, Unreturned
    <2>2. QueueIsWatched' /\ StopIsUnderWay' /\ ConnectionsAreReturned'
        BY <1>9, Zenon DEF IInv, vars, callVars, QueueIsWatched, StopIsUnderWay, Served,
           ConnectionsAreReturned, OwnersAreAlive
    <2>3. QED
        BY <2>1, <2>2 DEF IInv
<1>10. QED
    BY <1>1, <1>2, <1>3, <1>4, <1>5, <1>6, <1>7, <1>8, <1>9 DEF Next

\* The inductive invariant holds in every reachable state.
THEOREM Invariance == Spec => []IInv
<1>1. Init => IInv
    BY InitIInv
<1>2. IInv /\ [Next]_vars => IInv'
    BY NextIInv
<1>3. QED
    BY <1>1, <1>2, PTL DEF Spec

\* ScheduleFunction wakes the worker whenever it has to, although it looks at
\* state_ without the lock and writes to the eventfd after it has let go of the
\* lock; and DoStop ends, whatever connections come and go meanwhile, unless a
\* send of several parts has failed: then all else is done, and the worker's loop
\* goes on for the parts that HandleSendallOpComplete leaves in ops_.
THEOREM WakeUps == Spec => []NoWakeUpIsLost
<1>1. IInv => NoWakeUpIsLost
    <2> SUFFICES ASSUME IInv, Quiet PROVE NoWakeUpIsLost
        BY DEF NoWakeUpIsLost
    <2>1. TypeOK /\ QueueIsWatched /\ StopIsUnderWay
        BY DEF IInv
    <2>2. \A t \in Threads : caller[t] \notin {"notify", "checked"}
        BY DEF Quiet
    <2>3. ASSUME state_ = "kRunning"
          PROVE  /\ scheduled_functions_ = <<>>
                 /\ \A t \in Threads : caller[t] = "done" => t \in Served
        <3>1. eventfd_read /\ ~eventfd
            BY <2>1, <2>3, Zenon DEF QueueIsWatched, Quiet
        <3>2. scheduled_functions_ = <<>>
            BY <2>1, <2>2, <2>3, <3>1 DEF QueueIsWatched
        <3>3. ~\E i \in 1..Len(scheduled_functions_) : TRUE
            BY <3>2
        <3>4. QED
            BY <2>1, <2>3, <3>2, <3>3 DEF QueueIsWatched
    <2>4. ASSUME server = "waiting" PROVE state_ = "kStopped" \/ (ops_left /\ fds_closed)
        <3>1. caller["server"] = "done" /\ "server" \in Threads
            BY <2>1, <2>4 DEF StopIsUnderWay, Quiet, Threads
        <3>2. state_ # "kRunning"
            BY <2>1, <2>3, <3>1 DEF StopIsUnderWay
        <3>3. CASE state_ = "kStopping"
            <4>1. \A c \in Conns : conn[c] \notin {"running", "closing", "written"}
                BY <2>1, <3>2 DEF StopIsUnderWay, Quiet
            <4>2. fds_closed /\ pipe_read = "ended"
                BY <2>1, <3>3, <4>1 DEF StopIsUnderWay, TypeOK, Quiet
            <4>3. connections_ = {}
                BY <4>1 DEF connections_
            <4>4. QED
                BY <4>2, <4>3 DEF Quiet
        <3>4. QED
            BY <2>1, <3>2, <3>3 DEF TypeOK
    <2>5. QED
        BY <2>3, <2>4 DEF NoWakeUpIsLost, Served
<1>2. QED
    BY <1>1, Invariance, PTL

\* The worker's count of closing connections is right when it decides to close
\* the pipe (StopInternal, OnConnectionClose's callback): only a connection that
\* comes after that is leaked, and no function runs for one that was given back.
THEOREM Returns == Spec => []ConnectionsAreReturned
<1>1. IInv => ConnectionsAreReturned
    BY DEF IInv
<1>2. QED
    BY <1>1, Invariance, PTL
=============================================================================
