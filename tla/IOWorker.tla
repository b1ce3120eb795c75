------------------------------ MODULE IOWorker ------------------------------
(***************************************************************************)
(* An IO worker and its server (server/io_worker.cpp, server_base.cpp,     *)
(* timer.cpp).  The worker is one thread with an event loop.  Other        *)
(* threads give it functions to run, and wake it up through an eventfd;    *)
(* the server hands it connections through a pipe, and gets them back      *)
(* through the same pipe when they are closed.  To stop, the server has    *)
(* the worker close all of its connections, and waits until the event loop *)
(* has nothing left to do.                                                 *)
(*                                                                         *)
(* A read of the pipe that is done before the pipe is closed still calls   *)
(* its callback (module IOUring).                                          *)
(***************************************************************************)
EXTENDS Integers, FiniteSets, Sequences, Functions

CONSTANTS Conns,       \* connections, timers among them
          Callers,     \* other threads, each of which schedules one function
          NoOwner

VARIABLES
    server,     \* running, stopping, waiting, stopped
    state_,     \* of the worker: kRunning, kStopping, kStopped
    caller,     \* for each thread: idle, checked, notify, done
    fn,         \* for each thread, the owner of its function
    scheduled_functions_, idle_functions_,
    eventfd,    \* it has been written to and not read
    eventfd_read,           \* a read of it is under way
    pipe,       \* connections on their way to the worker
    pipe_read,  \* armed, ended, or the connection the read is done with
    conn,       \* new, piped, running, closing, written, returned, freed, leaked
    connections_on_closing_,
    fds_closed,
    ops_left,   \* a failed send of several parts has left some of them in ops_
    late,       \* connections that came when the pipe was closed already
    ran,        \* the functions that have run, with the state of their owner
    skipped     \* those whose owner had closed

callVars == <<caller, fn, scheduled_functions_, eventfd>>
vars == <<server, state_, callVars, idle_functions_, eventfd_read, pipe, pipe_read, conn,
          connections_on_closing_, fds_closed, ops_left, late, ran, skipped>>

Threads == Callers \cup {"server"}

\* There are finitely many connections, and no name stands for two things.
ASSUME WorkerAssumption ==
    /\ IsFiniteSet(Conns) /\ Conns \cap (Threads \cup {"armed", "ended"}) = {}
    /\ "server" \notin Callers

connections_ == {c \in Conns : conn[c] \in {"running", "closing"}}

\* SetupIOWorkers and Start.
Init ==
    /\ server = "running" /\ state_ = "kRunning"
    /\ caller = [t \in Threads |-> "idle"] /\ fn = [t \in Threads |-> NoOwner]
    /\ scheduled_functions_ = <<>> /\ idle_functions_ = <<>>
    /\ eventfd = FALSE /\ eventfd_read = TRUE
    /\ pipe = <<>> /\ pipe_read = "armed"
    /\ conn = [c \in Conns |-> "new"]
    /\ connections_on_closing_ = 0 /\ fds_closed = FALSE /\ ops_left = FALSE
    /\ late = {} /\ ran = {} /\ skipped = {}

(***************************************************************************)
(* Other threads: ScheduleFunction, in the three steps between which the   *)
(* worker may run.                                                         *)
(***************************************************************************)
ScheduleFunction(t, owner) ==
    /\ caller[t] = "idle"
    /\ caller' = [caller EXCEPT ![t] = IF state_ = "kRunning" THEN "checked" ELSE "done"]
    /\ fn' = [fn EXCEPT ![t] = owner]
    /\ UNCHANGED <<scheduled_functions_, eventfd>>

NeedNotify == scheduled_functions_ = <<>>

PushFunction(t) ==
    /\ caller[t] = "checked"
    /\ caller' = [caller EXCEPT ![t] = IF NeedNotify THEN "notify" ELSE "done"]
    /\ scheduled_functions_' = Append(scheduled_functions_, t)
    /\ UNCHANGED <<server, state_, fn, eventfd, idle_functions_, eventfd_read, pipe, pipe_read, conn,
                   connections_on_closing_, fds_closed, ops_left, late, ran, skipped>>

Notify(t) ==
    /\ caller[t] = "notify"
    /\ caller' = [caller EXCEPT ![t] = "done"] /\ eventfd' = TRUE
    /\ UNCHANGED <<server, state_, fn, scheduled_functions_, idle_functions_, eventfd_read, pipe,
                   pipe_read, conn, connections_on_closing_, fds_closed, ops_left, late, ran,
                   skipped>>

CallerSchedules(t) ==
    /\ \E owner \in {c \in Conns : conn[c] \notin {"new", "piped"}} \cup {NoOwner} :
         ScheduleFunction(t, owner)
    /\ UNCHANGED <<server, state_, idle_functions_, eventfd_read, pipe, pipe_read, conn,
                   connections_on_closing_, fds_closed, ops_left, late, ran, skipped>>

(***************************************************************************)
(* The server's thread.                                                    *)
(***************************************************************************)
\* A connection is accepted, or a timer created: RegisterConnection.
ServerRegistersConnection(c) ==
    /\ server = "running" /\ conn[c] = "new"
    /\ conn' = [conn EXCEPT ![c] = "piped"] /\ pipe' = Append(pipe, c)
    /\ UNCHANGED <<server, state_, callVars, idle_functions_, eventfd_read, pipe_read,
                   connections_on_closing_, fds_closed, ops_left, late, ran, skipped>>

\* OnConnectionClose of the server drops its reference.
DoReadClosedConnection ==
    /\ server = "running"
    /\ \E c \in Conns : conn[c] = "returned"
    /\ conn' = [c \in Conns |-> IF conn[c] = "returned" THEN "freed" ELSE conn[c]]
    /\ UNCHANGED <<server, state_, callVars, idle_functions_, eventfd_read, pipe, pipe_read,
                   connections_on_closing_, fds_closed, ops_left, late, ran, skipped>>

\* DoStop: ScheduleStop, then WaitForFinish.
DoStop ==
    /\ server = "running" /\ server' = "waiting"
    /\ ScheduleFunction("server", NoOwner)
    /\ UNCHANGED <<state_, idle_functions_, eventfd_read, pipe, pipe_read, conn,
                   connections_on_closing_, fds_closed, ops_left, late, ran, skipped>>

WaitForFinish ==
    /\ server = "waiting" /\ caller["server"] = "done" /\ state_ = "kStopped"
    /\ server' = "stopped"
    /\ UNCHANGED <<state_, callVars, idle_functions_, eventfd_read, pipe, pipe_read, conn,
                   connections_on_closing_, fds_closed, ops_left, late, ran, skipped>>

(***************************************************************************)
(* The worker's thread.                                                    *)
(***************************************************************************)
\* CloseWorkerFds: the reads that wait are cancelled.
CloseWorkerFds ==
    /\ fds_closed' = TRUE /\ eventfd_read' = FALSE
    /\ pipe_read' = IF pipe_read = "armed" THEN "ended" ELSE pipe_read

\* StopInternal: every connection is closed, or there is none.
StopInternal ==
    /\ state_' = "kStopping"
    /\ conn' = [c \in Conns |-> IF conn[c] = "running" THEN "closing" ELSE conn[c]]
    /\ IF connections_ = {} /\ connections_on_closing_ = 0
         THEN CloseWorkerFds
         ELSE UNCHANGED <<fds_closed, eventfd_read, pipe_read>>

\* Whether InvokeFunction runs a function of this owner.
OwnerIsHere(owner) == owner = NoOwner \/ owner \in connections_

OwnerState(owner) == IF owner = NoOwner THEN "none" ELSE conn[owner]

\* A function is named by the thread that gave it, an idle function by its owner.
InvokeFunctions(functions) ==
    /\ ran' = ran \cup {<<f[1], OwnerState(f[2])>> : f \in {f \in functions : OwnerIsHere(f[2])}}
    /\ skipped' = skipped \cup {f[1] : f \in {f \in functions : ~OwnerIsHere(f[2])}}

\* What RunScheduledFunctions leaves.  A mutated form first: it takes one function.
LeavesOthers == Tail(scheduled_functions_)

Leaves == <<>>

\* The callback of the eventfd.
RunScheduledFunctions ==
    /\ eventfd /\ eventfd_read /\ eventfd' = FALSE
    /\ IF state_ # "kRunning"
         THEN /\ eventfd_read' = FALSE
              /\ UNCHANGED <<scheduled_functions_, state_, conn, pipe_read, fds_closed, ran, skipped>>
         ELSE LET taken == {t \in Threads :
                              t \in Range(SubSeq(scheduled_functions_, 1,
                                                 Len(scheduled_functions_) - Len(Leaves)))} IN
              /\ scheduled_functions_' = Leaves
              /\ InvokeFunctions({<<t, fn[t]>> : t \in taken})
              /\ IF "server" \in taken
                   THEN StopInternal
                   ELSE UNCHANGED <<state_, conn, pipe_read, fds_closed, eventfd_read>>
    /\ UNCHANGED <<server, caller, fn, idle_functions_, pipe, connections_on_closing_, ops_left, late>>

\* A callback of a connection, or of a timer, schedules an idle function once.
ScheduleIdleFunction(c) ==
    /\ conn[c] = "running" /\ state_ = "kRunning"
    /\ c \notin {r[1] : r \in ran} \cup Range(idle_functions_)
    /\ idle_functions_' = Append(idle_functions_, c)
    /\ UNCHANGED <<server, state_, callVars, eventfd_read, pipe, pipe_read, conn,
                   connections_on_closing_, fds_closed, ops_left, late, ran, skipped>>

RunIdleFunctions ==
    /\ idle_functions_ # <<>> /\ state_ = "kRunning"
    /\ InvokeFunctions({<<c, c>> : c \in Range(idle_functions_)})
    /\ idle_functions_' = <<>>
    /\ UNCHANGED <<server, state_, callVars, eventfd_read, pipe, pipe_read, conn,
                   connections_on_closing_, fds_closed, ops_left, late>>

\* The state of a connection after RegisterConnection and Start.
Started == IF state_ = "kStopping" THEN "closing" ELSE "running"

\* The callback of the pipe.
OnPipeData ==
    /\ pipe_read \in Conns
    /\ conn' = [conn EXCEPT ![pipe_read] = Started]
    /\ pipe_read' = IF fds_closed THEN "ended" ELSE "armed"
    /\ late' = late \cup {c \in {pipe_read} : fds_closed}
    /\ UNCHANGED <<server, state_, callVars, idle_functions_, eventfd_read, pipe,
                   connections_on_closing_, fds_closed, ops_left, ran, skipped>>

\* A callback makes a connection in the worker's own thread (PickOrCreateConnection).
WorkerRegistersConnection(c) ==
    /\ connections_ # {} /\ conn[c] = "new"
    /\ conn' = [conn EXCEPT ![c] = Started]
    /\ late' = late \cup {d \in {c} : fds_closed}
    /\ UNCHANGED <<server, state_, callVars, idle_functions_, eventfd_read, pipe, pipe_read,
                   connections_on_closing_, fds_closed, ops_left, ran, skipped>>

\* The other end closes.
ScheduleClose(c) ==
    /\ conn[c] = "running" /\ conn' = [conn EXCEPT ![c] = "closing"]
    /\ UNCHANGED <<server, state_, callVars, idle_functions_, eventfd_read, pipe, pipe_read,
                   connections_on_closing_, fds_closed, ops_left, late, ran, skipped>>

\* A send of several parts fails before the last one: the connection is closed, and
\* the parts that are given up are never taken out of ops_.
SendAllFails(c) ==
    /\ c \in connections_ /\ conn' = [conn EXCEPT ![c] = "closing"]
    /\ ops_left' = TRUE
    /\ UNCHANGED <<server, state_, callVars, idle_functions_, eventfd_read, pipe, pipe_read,
                   connections_on_closing_, fds_closed, late, ran, skipped>>

\* The close is done: OnConnectionClose writes the connection to the pipe; a pipe
\* that is being closed takes no write.
OnConnectionClose(c) ==
    /\ conn[c] = "closing"
    /\ conn' = [conn EXCEPT ![c] = IF fds_closed THEN "leaked" ELSE "written"]
    /\ connections_on_closing_' = connections_on_closing_ + 1
    /\ UNCHANGED <<server, state_, callVars, idle_functions_, eventfd_read, pipe, pipe_read,
                   fds_closed, ops_left, late, ran, skipped>>

\* Whether all is returned.  A mutated form first.
NoneOpen(closing) == state_ = "kStopping" /\ connections_ = {}

AllReturned(closing) == state_ = "kStopping" /\ connections_ = {} /\ closing = 0

WriteDone(c) ==
    /\ conn[c] = "written" /\ conn' = [conn EXCEPT ![c] = "returned"]
    /\ connections_on_closing_' = connections_on_closing_ - 1
    /\ IF AllReturned(connections_on_closing_ - 1)
         THEN CloseWorkerFds
         ELSE UNCHANGED <<fds_closed, eventfd_read, pipe_read>>
    /\ UNCHANGED <<server, state_, callVars, idle_functions_, pipe, ops_left, late, ran, skipped>>

\* No operation is in ops_: the loop ends.
EventLoopEnds ==
    /\ state_ # "kStopped" /\ fds_closed /\ pipe_read = "ended"
    /\ connections_ = {} /\ (\A c \in Conns : conn[c] # "written") /\ ~ops_left
    /\ state_' = "kStopped"
    /\ UNCHANGED <<server, callVars, idle_functions_, eventfd_read, pipe, pipe_read, conn,
                   connections_on_closing_, fds_closed, ops_left, late, ran, skipped>>

\* The kernel ends a read of the pipe.
PipeReadDone ==
    /\ pipe_read = "armed" /\ pipe # <<>>
    /\ pipe_read' = Head(pipe) /\ pipe' = Tail(pipe)
    /\ UNCHANGED <<server, state_, callVars, idle_functions_, eventfd_read, conn,
                   connections_on_closing_, fds_closed, ops_left, late, ran, skipped>>

Next ==
    \/ \E t \in Callers : CallerSchedules(t)
    \/ \E t \in Threads : PushFunction(t) \/ Notify(t)
    \/ DoReadClosedConnection \/ DoStop \/ WaitForFinish
    \/ RunScheduledFunctions \/ RunIdleFunctions \/ OnPipeData \/ EventLoopEnds \/ PipeReadDone
    \/ \E c \in Conns :
         \/ ServerRegistersConnection(c) \/ WorkerRegistersConnection(c) \/ ScheduleIdleFunction(c)
         \/ ScheduleClose(c) \/ SendAllFails(c) \/ OnConnectionClose(c) \/ WriteDone(c)

Spec == Init /\ [][Next]_vars

(***************************************************************************)
(* Properties.                                                             *)
(***************************************************************************)
Quiet ==
    /\ \A t \in Threads : caller[t] \in {"idle", "done"}
    /\ ~(eventfd /\ eventfd_read)
    /\ pipe_read \notin Conns /\ ~(pipe_read = "armed" /\ pipe # <<>>)
    /\ \A c \in Conns : conn[c] \notin {"closing", "written"}
    /\ state_ # "kStopped" =>
         ~(fds_closed /\ pipe_read = "ended" /\ connections_ = {} /\ ~ops_left)

\* A worker that waits for events has run every function it was given before it
\* began to stop: no wake-up is lost between the push and the write to the
\* eventfd.  A worker that was told to stop has stopped; or it has closed its side
\* of the pipe, and waits for ever for the parts of a send that it gave up.
NoWakeUpIsLost ==
    Quiet =>
        /\ state_ = "kRunning" =>
             /\ scheduled_functions_ = <<>>
             /\ \A t \in Threads : caller[t] = "done" => t \in skipped \cup {r[1] : r \in ran}
        /\ server = "waiting" => state_ = "kStopped" \/ (ops_left /\ fds_closed)

\* A function runs while its owner is with the worker: never before it is started
\* and never after it was given back to the server, which may have freed it.
OwnersAreAlive == \A r \in ran : r[2] \in {"none", "running", "closing"}

\* A worker closes its side of the pipe when it has given back every connection
\* it was given, but for those it gets later; only those are leaked.  No
\* function of a connection runs after that (OwnersAreAlive).
ConnectionsAreReturned ==
    /\ fds_closed => \A c \in Conns \ late : conn[c] \in {"new", "piped", "returned", "freed"}
    /\ \A c \in Conns : conn[c] = "leaked" => c \in late
    /\ OwnersAreAlive
=============================================================================
