------------------------------ MODULE Launcher ------------------------------
(***************************************************************************)
(* The launcher of a function (launcher/launcher.cpp): a process with one  *)
(* libuv event loop that connects to the engine (engine_connection.cpp)    *)
(* and starts function processes when the engine asks for workers          *)
(* (func_process.cpp, common/subprocess.cpp).  A C++ process is one        *)
(* worker; in the other modes there is one process, which is told of       *)
(* further workers over a pipe.                                            *)
(*                                                                         *)
(* Each callback of the loop is an action.  The stream from the engine is  *)
(* a sequence of units: three for the handshake response, the last of      *)
(* which is its payload, and two for each message that asks for a worker.  *)
(* Standard output and error of a process are one pipe, "out".             *)
(***************************************************************************)
EXTENDS Integers, FiniteSets, SequencesExt

CONSTANTS Requests,    \* how many workers the engine asks for
          Faults       \* bound: failures of the connection, of writes and of processes

VARIABLES
    fprocess_mode_,     \* "kCppMode" or another one
    valid,              \* whether the launcher can use the handshake response
    state_, stop_event_,            \* of the launcher; none, sent or closed
    loop,                           \* whether uv_run has returned
    overtaken,                      \* what the last store of Start replaced: a set, of at most one state
    conn, reading,                  \* state_ of EngineConnection, the callback it waits for
    wire, message_buffer_,
    recvd,              \* clients that OnRecvMessage was called with
    func_processes_,    \* for each process that was started, whether it is still there
    proc,               \* [client, state, sub, alive, handles, closing, writes, told]
    fatal, faults

launcherVars == <<state_, stop_event_, loop, overtaken>>
connVars == <<conn, reading, wire, message_buffer_, recvd>>
procVars == <<func_processes_, proc>>
vars == <<fprocess_mode_, valid, launcherVars, connVars, procVars, fatal, faults>>

Processes == DOMAIN proc
Units(m) == <<<<m, 1>>, <<m, 2>>>>
Response == <<<<0, 1>>, <<0, 2>>, <<0, 3>>>>
Stream == Response \o FlattenSeq([m \in 1 .. Requests |-> Units(m)])

Fault == faults < Faults /\ faults' = faults + 1

Init ==
    /\ fprocess_mode_ \in {"kCppMode", "kGoMode"} /\ valid \in BOOLEAN
    /\ state_ = "kCreated" /\ stop_event_ = "none" /\ loop = "runs" /\ overtaken = {}
    /\ conn = "kHandshake" /\ reading = "connect" /\ wire = <<>> /\ message_buffer_ = <<>>
    /\ recvd = <<>> /\ func_processes_ = <<>> /\ proc = <<>> /\ fatal = {} /\ faults = 0

(***************************************************************************)
(* Function processes.  Their operations work on the record of one.        *)
(***************************************************************************)
\* Subprocess::Start: pipes for input, output and messages, and the process.
Handles == {"in", "out", "message", "process"}

\* FuncProcess::Start: the function configuration is the first thing to write.
NewProcess(client) ==
    [client |-> client, state |-> "kRunning", sub |-> "kRunning", alive |-> TRUE, killed |-> FALSE,
     handles |-> Handles, closing |-> {},
     writes |-> <<"config">>, told |-> <<>>]

\* uv_write refuses what is sent once the pipe is closed.
SendMessage(p, client) ==
    IF "message" \in p.handles THEN [p EXCEPT !.writes = Append(@, client)] ELSE p

\* Subprocess::Kill, with SIGKILL.
Kill(p) == IF p.sub = "kRunning" THEN [p EXCEPT !.killed = TRUE] ELSE p

\* FuncProcess::ScheduleClose.
CloseProcess(p) == IF p.state = "kRunning" THEN Kill([p EXCEPT !.state = "kClosing"]) ELSE p

\* Subprocess::ClosePipe, HandleScope::CloseHandle.
CloseHandles(p, hs) ==
    [p EXCEPT !.handles = @ \ hs, !.closing = @ \cup (hs \cap p.handles)]

(***************************************************************************)
(* What the engine asks for.                                               *)
(***************************************************************************)
\* OnRecvMessage, on a state s = [there, proc, recvd]: a process more, or a
\* message to the one there is.
OnRecvMessage(s, client) ==
    IF fprocess_mode_ = "kCppMode" \/ s.proc = <<>>
      THEN [there |-> Append(s.there, TRUE), proc |-> Append(s.proc, NewProcess(client)),
            recvd |-> Append(s.recvd, client)]
      ELSE [s EXCEPT !.proc[1] = SendMessage(@, client), !.recvd = Append(@, client)]

\* ReadMessages: the messages that are whole, and what is left.  A mutated form
\* first: what is left of a message is dropped.
DropTheRest(buffer) == <<>>

LeftOver(buffer) == SubSeq(buffer, 2 * (Len(buffer) \div 2) + 1, Len(buffer))

Whole(buffer) == [i \in 1 .. Len(buffer) \div 2 |-> buffer[2 * i][1]]

\* The messages are handled; a process may fail to start, which is fatal.
HandleMessages(buffer) ==
    LET s == FoldLeft(OnRecvMessage,
                      [there |-> func_processes_, proc |-> proc, recvd |-> recvd], Whole(buffer)) IN
    /\ message_buffer_' = LeftOver(buffer)
    /\ func_processes_' = s.there /\ proc' = s.proc /\ recvd' = s.recvd
    /\ \/ UNCHANGED <<fatal, faults>>
       \/ Len(s.proc) > Len(proc) /\ Fault /\ fatal' = {"start"}

(***************************************************************************)
(* The connection to the engine.                                           *)
(***************************************************************************)
\* EngineConnection::ScheduleClose: uv_close; no callback comes but the last.
ScheduleClose ==
    IF conn \in {"kHandshake", "kRunning"}
      THEN conn' = "kClosing" /\ reading' = "none" ELSE UNCHANGED <<conn, reading>>

Connect ==
    /\ fatal = {} /\ reading = "connect"
    /\ \/ reading' = "write" /\ UNCHANGED <<conn, faults>>
       \/ Fault /\ ScheduleClose
    /\ UNCHANGED <<fprocess_mode_, valid, launcherVars, wire, message_buffer_, recvd, procVars, fatal>>

\* The engine answers the handshake, and asks for workers from then on.
WriteHandshake ==
    /\ fatal = {} /\ reading = "write"
    /\ \/ reading' = "handshake" /\ wire' = Stream /\ UNCHANGED <<conn, faults>>
       \/ Fault /\ ScheduleClose /\ UNCHANGED wire
    /\ UNCHANGED <<fprocess_mode_, valid, launcherVars, message_buffer_, recvd, procVars, fatal>>

\* OnRecvHandshakeResponse.
RecvHandshakeResponse ==
    IF valid THEN conn' = "kRunning" /\ reading' = "message" ELSE ScheduleClose

\* The response may come in pieces, and with messages behind it; these are
\* handled even when the connection is being closed.
ReadHandshakeResponse ==
    /\ fatal = {} /\ reading = "handshake"
    /\ \E k \in 1 .. Len(wire) :
         LET buffer == message_buffer_ \o SubSeq(wire, 1, k) IN
         /\ wire' = SubSeq(wire, k + 1, Len(wire))
         /\ IF Len(buffer) < Len(Response)
              THEN message_buffer_' = buffer /\ UNCHANGED <<conn, reading, recvd, procVars, fatal, faults>>
              ELSE /\ RecvHandshakeResponse
                   /\ HandleMessages(SubSeq(buffer, Len(Response) + 1, Len(buffer)))
    /\ UNCHANGED <<fprocess_mode_, valid, launcherVars>>

ReadMessage ==
    /\ fatal = {} /\ reading = "message"
    /\ \E k \in 1 .. Len(wire) :
         /\ wire' = SubSeq(wire, k + 1, Len(wire))
         /\ HandleMessages(message_buffer_ \o SubSeq(wire, 1, k))
    /\ UNCHANGED <<fprocess_mode_, valid, launcherVars, conn, reading>>

\* The engine closes the connection, or it breaks.
ReadFails ==
    /\ fatal = {} /\ reading \in {"handshake", "message"}
    /\ Fault /\ ScheduleClose
    /\ UNCHANGED <<fprocess_mode_, valid, launcherVars, wire, message_buffer_, recvd, procVars, fatal>>

\* uv_async_send; a handle that is closed takes no event.
ScheduleStop == stop_event_' = IF stop_event_ = "none" THEN "sent" ELSE stop_event_

\* CloseCallback, OnEngineConnectionClose.
ConnClosed ==
    /\ fatal = {} /\ conn = "kClosing" /\ conn' = "kClosed"
    /\ ScheduleStop
    /\ UNCHANGED <<fprocess_mode_, valid, state_, loop, overtaken, reading, wire, message_buffer_, recvd, procVars,
                   fatal, faults>>

(***************************************************************************)
(* Life and death of a process.                                            *)
(***************************************************************************)
\* SendMessageCallback.
MessageSent(i) ==
    /\ fatal = {} /\ proc[i].alive /\ proc[i].writes # <<>>
    /\ proc' = [proc EXCEPT ![i].told = Append(@, Head(proc[i].writes)), ![i].writes = Tail(@)]
    /\ UNCHANGED <<fprocess_mode_, valid, launcherVars, connVars, func_processes_, fatal, faults>>

\* The same for a process that is gone: an error, and ScheduleClose.
SendFails(i) ==
    /\ fatal = {} /\ ~proc[i].alive /\ "message" \in proc[i].handles /\ proc[i].writes # <<>>
    /\ proc' = [proc EXCEPT ![i] = CloseProcess([@ EXCEPT !.writes = Tail(@)])]
    /\ UNCHANGED <<fprocess_mode_, valid, launcherVars, connVars, func_processes_, fatal, faults>>

\* More output than max_stdout_size_, or an error while reading it.
OutputFails(i) ==
    /\ fatal = {} /\ Fault /\ "out" \in proc[i].handles
    /\ proc' = [proc EXCEPT ![i] = Kill(@)]
    /\ UNCHANGED <<fprocess_mode_, valid, launcherVars, connVars, func_processes_, fatal>>

\* The process exits by itself or because it was killed.
Exits(i) ==
    /\ fatal = {} /\ proc[i].alive
    /\ \/ proc[i].killed /\ UNCHANGED faults
       \/ ~proc[i].killed /\ Fault
    /\ proc' = [proc EXCEPT ![i].alive = FALSE]
    /\ UNCHANGED <<fprocess_mode_, valid, launcherVars, connVars, func_processes_, fatal>>

\* OnReadStdout with UV_EOF, at the end of the process or before.
OutputEnds(i) ==
    /\ fatal = {} /\ "out" \in proc[i].handles
    /\ proc' = [proc EXCEPT ![i] = CloseHandles(@, {"out"})]
    /\ UNCHANGED <<fprocess_mode_, valid, launcherVars, connVars, func_processes_, fatal, faults>>

\* OnProcessExit.
ProcessExit(i) ==
    /\ fatal = {} /\ ~proc[i].alive /\ proc[i].sub = "kRunning"
    /\ proc' = [proc EXCEPT ![i] = [CloseHandles(@, @.handles) EXCEPT !.sub = "kExited"]]
    /\ UNCHANGED <<fprocess_mode_, valid, launcherVars, connVars, func_processes_, fatal, faults>>

\* OnFuncProcessExit: only a C++ process may exit.
OnFuncProcessExit(i) ==
    IF fprocess_mode_ = "kCppMode"
      THEN func_processes_' = [func_processes_ EXCEPT ![i] = FALSE] /\ UNCHANGED fatal
      ELSE fatal' = {"exited"} /\ UNCHANGED func_processes_

\* HandleScope: whether a handle that closes is the last.  A mutated form first:
\* handles that are open are not counted.
NoneCloses(p) == p.closing = {}

AllClosed(p) == p.closing = {} /\ p.handles = {}

\* OnHandleClose, with OnAllHandlesClosed and OnSubprocessExit after the last
\* one.  Writes that wait on the message pipe are cancelled before it is
\* closed; CloseHandle has made the pipe point to the HandleScope by then, which
\* their callback takes for a FuncProcess.
HandleClosed(i, h) ==
    /\ fatal = {} /\ h \in proc[i].closing
    /\ LET p == [proc[i] EXCEPT !.closing = @ \ {h}] IN
       IF h = "message" /\ p.writes # <<>>
         THEN fatal' = {"misdirected"} /\ UNCHANGED procVars
       ELSE IF AllClosed(p)
         THEN /\ proc' = [proc EXCEPT ![i] = [p EXCEPT !.sub = "kClosed", !.state = "kClosed"]]
              /\ OnFuncProcessExit(i)
       ELSE proc' = [proc EXCEPT ![i] = p] /\ UNCHANGED <<func_processes_, fatal>>
    /\ UNCHANGED <<fprocess_mode_, valid, launcherVars, connVars, faults>>

(***************************************************************************)
(* The beginning and the end.                                              *)
(***************************************************************************)
\* The last store of Start, which the thread of the loop may overtake.
StartReturns ==
    /\ fatal = {} /\ overtaken = {}
    /\ overtaken' = {state_} /\ state_' = "kRunning"
    /\ UNCHANGED <<fprocess_mode_, valid, stop_event_, loop, connVars, procVars, fatal, faults>>

\* A signal: StopLauncherHandler knows of the launcher when Start has returned.
Signal ==
    /\ fatal = {} /\ overtaken # {} /\ stop_event_ = "none" /\ ScheduleStop
    /\ UNCHANGED <<fprocess_mode_, valid, state_, loop, overtaken, connVars, procVars, fatal, faults>>

\* OnStop: entries of processes that are gone are null pointers.
Stop ==
    /\ fatal = {} /\ stop_event_ = "sent" /\ stop_event_' = "closed" /\ state_' = "kStopping"
    /\ ScheduleClose
    /\ IF \E i \in DOMAIN func_processes_ : ~func_processes_[i]
         THEN fatal' = {"null"} /\ UNCHANGED proc
         ELSE proc' = [i \in Processes |-> CloseProcess(proc[i])] /\ UNCHANGED fatal
    /\ UNCHANGED <<fprocess_mode_, valid, loop, overtaken, wire, message_buffer_, recvd, func_processes_,
                   faults>>

\* EventLoopThreadMain: uv_run returns when no handle is left.
NoHandleIsLeft ==
    stop_event_ = "closed" /\ conn = "kClosed" /\ \A i \in Processes : proc[i].sub = "kClosed"

LoopEnds ==
    /\ fatal = {} /\ loop = "runs" /\ NoHandleIsLeft
    /\ loop' = "ended" /\ state_' = "kStopped"
    /\ UNCHANGED <<fprocess_mode_, valid, stop_event_, overtaken, connVars, procVars, fatal, faults>>

Next ==
    \/ Connect \/ WriteHandshake \/ ReadHandshakeResponse \/ ReadMessage \/ ReadFails \/ ConnClosed
    \/ \E i \in Processes :
         \/ MessageSent(i) \/ SendFails(i) \/ OutputFails(i) \/ Exits(i) \/ OutputEnds(i)
         \/ ProcessExit(i) \/ \E h \in proc[i].closing : HandleClosed(i, h)
    \/ StartReturns \/ Signal \/ Stop \/ LoopEnds

Spec == Init /\ [][Next]_vars

(***************************************************************************)
(* Properties.                                                             *)
(***************************************************************************)
\* However the stream from the engine is cut, every request in it is handled
\* once and in order, also those that come together with the handshake response,
\* and has become a worker: a process of its own, or the first process, which
\* is told of the others in order after the configuration.
RequestsAreServed ==
    /\ \A i \in DOMAIN recvd : recvd[i] = i
    /\ IF fprocess_mode_ = "kCppMode"
         THEN Len(proc) = Len(recvd) /\ \A i \in Processes : proc[i].client = i
         ELSE \A i \in Processes :
                /\ i = 1 /\ proc[i].client = 1
                /\ ~proc[i].alive \/ proc[i].told \o proc[i].writes = <<"config">> \o Tail(recvd)
    /\ reading = "message" /\ wire = <<>> => Len(recvd) = Requests

Quiet ==
    /\ fatal = {} /\ stop_event_ # "sent" /\ conn # "kClosing"
    /\ overtaken # {} /\ (NoHandleIsLeft => loop = "ended")
    /\ \A i \in Processes :
         proc[i].closing = {} /\ (proc[i].alive => ~proc[i].killed)
         /\ (~proc[i].alive => proc[i].sub # "kRunning")

\* A process that exits is closed once, after all its handles (Subprocess's
\* DCHECK that it has exited); and a launcher that is told to stop, or that
\* loses its engine, stops when nothing is under way, with all its processes
\* closed, whatever they do meanwhile.  Its state is kStopped then, as
\* WaitForFinish and ~Launcher assert, unless Start was so late that its last
\* store came after that of the loop.
StopsWithItsProcesses ==
    /\ \A i \in Processes : proc[i].sub = "kClosed" => ~proc[i].alive /\ proc[i].handles = {}
    /\ Quiet /\ (stop_event_ = "closed" \/ conn = "kClosed") =>
         loop = "ended" /\ (state_ = "kStopped" \/ overtaken = {"kStopped"})
=============================================================================
