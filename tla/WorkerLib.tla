----------------------------- MODULE WorkerLib ------------------------------
(***************************************************************************)
(* What function workers of one engine share (worker/worker_lib.cpp): the  *)
(* input and the output of a call travel inside messages when they are     *)
(* small, and in a shared memory region that is named after the call when  *)
(* they are not; with use_fifo_for_nested_call the output of a nested call *)
(* goes to the caller over a FIFO of the call's own, past the engine.      *)
(*                                                                         *)
(* The workers that execute nested calls and the engine between them and   *)
(* the caller are modelled here; which worker gets a call, and when, is    *)
(* the subject of module Dispatcher.  The caller is FuncWorker or          *)
(* EventDrivenWorker.                                                      *)
(*                                                                         *)
(* A call is <<client, id>>: its caller, 0 for the gateway, and a number   *)
(* of the caller's (FuncCall::full_call_id, without the function).  What   *)
(* it is asked to do is a job; the output tells the job it is of.          *)
(***************************************************************************)
EXTENDS Integers, FiniteSets, SequencesExt

CONSTANTS Calls,       \* the calls there can be
          Programs,    \* jobs, with the flag of the engine and what the function does
          Faults       \* bound: how many times files cannot be made or opened

VARIABLES
    program,    \* [jobs, fifo, ...]; a job is [parent, input, output], with parent 0
                \* for a call of the gateway
    exec,       \* for each call [st, job], where it is executed
    shm,        \* regions that exist [kind, call, job]
    fifos,      \* calls with an output FIFO that the caller has open
    pipe,       \* for each call, what is in its output FIFO
    responses,  \* messages from workers to the engine [call, type, job, via]
    inbox,      \* messages from the engine to the caller
    replies,    \* for each job, the responses the gateway has got
    unheard,    \* calls with a FIFO into which the end of the call was not written
    faults

libVars == <<program, exec, shm, fifos, pipe, responses, inbox, replies, unheard, faults>>

Jobs == DOMAIN program.jobs
External == {j \in Jobs : program.jobs[j].parent = 0}
Input(j) == program.jobs[j].input
Output(j) == program.jobs[j].output
GatewayCall(j) == <<0, j>>
FromGateway(call) == call[1] = 0

\* Sizes: "small" data fits a message (MESSAGE_INLINE_DATA_SIZE), "medium" data a
\* write to a pipe that is atomic (PIPE_BUF); an output may be "failed".
FitsMessage(size) == size = "small"
FitsPipe(size) == size \in {"small", "medium"}

LibInit ==
    /\ program \in Programs
    /\ exec = [c \in Calls |-> [st |-> "none", job |-> 0]]
    /\ shm = {} /\ fifos = {} /\ pipe = [c \in Calls |-> <<>>]
    /\ responses = {} /\ inbox = {} /\ replies = [j \in Jobs |-> <<>>]
    /\ unheard = {} /\ faults = 0

\* Whether something that can fail does: the outcomes, and what they cost.
Tries(needed) == IF needed /\ faults < Faults THEN BOOLEAN ELSE {TRUE}
Spend(ok) == faults' = faults + (IF ok THEN 0 ELSE 1)

Region(kind, call) == {r \in shm : r.kind = kind /\ r.call = call}
NewRegion(kind, call, j) == [kind |-> kind, call |-> call, job |-> j]

(***************************************************************************)
(* The caller's side.                                                      *)
(***************************************************************************)
\* PrepareNewFuncCall: the region of an input that does not fit the message; a
\* region of that name may not exist already (O_EXCL).
CanPrepare(call, j) == FitsMessage(Input(j)) \/ Region("in", call) = {}
InputRegions(call, j) == IF FitsMessage(Input(j)) THEN {} ELSE {NewRegion("in", call, j)}

\* The engine gives the call to a worker (external: module Dispatcher).
InvokeFuncMessage(call, j) == exec' = [exec EXCEPT ![call] = [st |-> "dispatched", job |-> j]]

\* Opening an output: the job it is of, or 0.
OutputOf(call, ok) ==
    IF ok /\ Region("out", call) # {} THEN (CHOOSE r \in Region("out", call) : TRUE).job ELSE 0

\* FifoGetFuncCallOutput: a header alone stands for an output in a region.
FifoGetFuncCallOutput(call, ok) ==
    LET d == Head(pipe[call]) IN
    IF d.type = "failed" THEN 0 ELSE IF d.type = "shm" THEN OutputOf(call, ok) ELSE d.job

(***************************************************************************)
(* The side of the worker that executes the call.                          *)
(***************************************************************************)
GetFuncCallInput(call, ok) ==
    FitsMessage(Input(exec[call].job)) \/ (ok /\ Region("in", call) # {})

Response(call, type, via) == [call |-> call, type |-> type, job |-> exec[call].job, via |-> via]

Respond(call, type, via) ==
    /\ responses' = responses \cup {Response(call, type, via)}
    /\ exec' = [exec EXCEPT ![call].st = "done"]

\* The engine hears of the failure of a nested call, and the caller only if the
\* engine tells it.
RespondOnly(call) ==
    /\ Respond(call, "failed", 0)
    /\ unheard' = IF program.fifo THEN unheard \cup {call} ELSE unheard

\* WriteOutputToShm, or not: the regions after it.
WithOutput(call, type) ==
    IF type = "shm" THEN shm \cup {NewRegion("out", call, exec[call].job)} ELSE shm

\* FuncCallFinished, which is also what FifoFuncCallFinished does for a call of
\* the gateway.
FuncCallFinished(call, via) ==
    LET size == Output(exec[call].job) IN
    \E ok \in Tries(size \in {"medium", "large"}) :
        LET type == CASE size = "failed" -> "failed"
                      [] FitsMessage(size) -> "inline"
                      [] ~FitsMessage(size) /\ size # "failed" ->
                            IF ok /\ Region("out", call) = {} THEN "shm" ELSE "failed" IN
        /\ shm' = WithOutput(call, type)
        /\ Respond(call, type, via)
        /\ Spend(ok)

\* ExecuteFunc of the worker that was given a nested call.
ExecuteFunc(call) ==
    /\ exec[call].st = "dispatched" /\ ~FromGateway(call)
    /\ \E ok \in Tries(~FitsMessage(Input(exec[call].job))) :
         /\ IF GetFuncCallInput(call, ok)
              THEN exec' = [exec EXCEPT ![call].st = "running"] /\ UNCHANGED <<responses, unheard>>
              ELSE RespondOnly(call)
         /\ Spend(ok)
    /\ UNCHANGED <<program, shm, fifos, pipe, inbox, replies>>

FinishExecution(call) ==
    /\ exec[call].st = "running" /\ ~FromGateway(call) /\ ~program.fifo
    /\ FuncCallFinished(call, 0)
    /\ UNCHANGED <<program, fifos, pipe, inbox, replies, unheard>>

\* WriteOutputToFifo: first the FIFO is opened, which fails if the caller has
\* removed it ...
OpenOutputFifo(call) ==
    /\ exec[call].st = "running" /\ ~FromGateway(call) /\ program.fifo
    /\ IF call \in fifos
         THEN exec' = [exec EXCEPT ![call].st = "writing"] /\ UNCHANGED <<responses, unheard>>
         ELSE RespondOnly(call)
    /\ UNCHANGED <<program, shm, fifos, pipe, inbox, replies, faults>>

\* ... and then written.  A write to a FIFO that nobody has open any more raises
\* SIGPIPE, which is the end of the worker.
WriteOutputToFifo(call) ==
    /\ exec[call].st = "writing"
    /\ LET size == Output(exec[call].job) IN
       \E ok \in Tries(size = "large") :
         LET written == ok \/ size # "large"
             type == CASE size = "failed" -> "failed" [] FitsPipe(size) -> "inline" [] size = "large" -> "shm" IN
         /\ Spend(ok)
         /\ shm' = IF written THEN WithOutput(call, type) ELSE shm
         /\ IF ~written THEN RespondOnly(call) /\ UNCHANGED pipe
            ELSE IF call \in fifos
              THEN /\ pipe' = [pipe EXCEPT ![call] = Append(@, [type |-> type, job |-> exec[call].job])]
                   /\ Respond(call, IF size = "failed" THEN "failed" ELSE "inline", 0)
                   /\ UNCHANGED unheard
              ELSE /\ exec' = [exec EXCEPT ![call].st = "killed"]
                   /\ UNCHANGED <<pipe, responses, unheard>>
    /\ UNCHANGED <<program, fifos, inbox, replies>>

(***************************************************************************)
(* The engine.                                                             *)
(***************************************************************************)
\* HandleFuncCallCompleteMessage, HandleFuncCallFailedMessage: the result of a
\* gateway's call goes to the gateway, and its regions end, unless the output
\* cannot be opened; that of a nested call goes to the caller unless there is a
\* FIFO for it.
HandleResponse(m) ==
    /\ m \in responses /\ responses' = responses \ {m}
    /\ IF FromGateway(m.call)
         THEN \E ok \in Tries(m.type = "shm") :
                /\ replies' = [replies EXCEPT ![m.call[2]] =
                                  Append(@, IF ok THEN m ELSE [m EXCEPT !.type = "failed"])]
                /\ shm' = shm \ (Region("in", m.call) \cup (IF ok THEN Region("out", m.call) ELSE {}))
                /\ Spend(ok) /\ UNCHANGED inbox
         ELSE /\ inbox' = IF program.fifo THEN inbox ELSE inbox \cup {m}
              /\ UNCHANGED <<replies, shm, faults>>
    /\ UNCHANGED <<program, exec, fifos, pipe, unheard>>

\* ProcessDiscardedFuncCallIfNecessary: a nested call that waited too long for a
\* worker.  The engine itself tells the caller, over the FIFO.
DiscardFuncCall(call) ==
    /\ exec[call].st = "dispatched" /\ ~FromGateway(call) /\ program.fifo
    /\ faults < Faults /\ faults' = faults + 1
    /\ exec' = [exec EXCEPT ![call].st = "done"]
    /\ pipe' = IF call \in fifos
         THEN [pipe EXCEPT ![call] = Append(@, [type |-> "failed", job |-> exec[call].job])] ELSE pipe
    /\ UNCHANGED <<program, shm, fifos, responses, inbox, replies, unheard>>

LibNext ==
    \/ \E c \in Calls :
         \/ ExecuteFunc(c) \/ FinishExecution(c) \/ OpenOutputFifo(c) \/ WriteOutputToFifo(c)
         \/ DiscardFuncCall(c)
    \/ \E m \in responses : HandleResponse(m)

\* Nothing is under way between the caller, the engine and the other workers.
LibQuiet ==
    /\ responses = {} /\ inbox = {}
    /\ \A c \in Calls :
         /\ FromGateway(c) \/ exec[c].st \in {"none", "done", "killed"}
         /\ c \in fifos => pipe[c] = <<>>
=============================================================================
