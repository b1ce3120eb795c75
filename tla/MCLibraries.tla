---------------------------- MODULE MCLibraries -----------------------------
(***************************************************************************)
(* The libraries of the functions on top of the log, and the ZooKeeper     *)
(* watchers that every process uses, each by itself: Init chooses the      *)
(* component, and its variables are the ones that change.                  *)
(***************************************************************************)
EXTENDS Integers, Sequences

\* StateStore: three objects, two of which hash to the same tag, and four sets
\* of functions: transactions whose decisions depend on one another, a
\* transaction against plain writes, several writes at once against a read-only
\* transaction, and one transaction after another.
MCObjects == {11, 12, 13}
MCTag == [o \in MCObjects |-> IF o = 13 THEN 2 ELSE 1]

Txn(objs) ==
    <<<<"CreateTxnEnv", 0>>>> \o [i \in DOMAIN objs |-> <<"doWriteOp", objs[i]>>]
    \o <<<<"TxnCommit", 0>>>>

MCPrograms == {
    <<Txn(<<11>>), Txn(<<11, 13>>), Txn(<<13>>) \o <<<<"Get", 13>>>>>>,
    <<<<<<"CreateTxnEnv", 0>>, <<"Get", 11>>, <<"doWriteOp", 11>>, <<"doWriteOp", 13>>,
        <<"TxnCommit", 0>>, <<"Get", 11>>>>,
      <<<<"doWriteOp", 11>>, <<"doWriteOp", 12>>, <<"Sync", 11>>>>, <<>>>>,
    <<<<<<"MultiBegin", 11>>, <<"MultiAbort", 0>>, <<"MultiBegin", 11>>, <<"MultiCommit", 0>>,
        <<"MultiBegin", 11>>, <<"doWriteOp", 11>>, <<"doWriteOp", 12>>, <<"doWriteOp", 11>>,
        <<"MultiCommit", 0>>, <<"CreateEnv", 0>>, <<"Get", 11>>>>,
      <<<<"CreateReadOnlyTxnEnv", 0>>, <<"Get", 11>>, <<"Get", 12>>, <<"CreateEnv", 0>>,
        <<"Get", 11>>, <<"doWriteOp", 12>>>>, <<>>>>,
    <<<<<<"CreateTxnEnv", 0>>, <<"doWriteOp", 13>>, <<"TxnAbort", 0>>>> \o Txn(<<12, 11>>),
      Txn(<<11>>) \o <<<<"Get", 12>>>> \o Txn(<<12>>), <<>>>>}

\* LogQueue: two queues whose names hash to the same tag; one client pushes to
\* both, the first one first, and pops, in turn or from one of them, while
\* another drains them, the second one first, and may wait for it.
MCTurns == {[push |-> 1, pop |-> 2]}
MCCalls == {
    <<<<"Push", "Push">>, <<"PopBlocking">>>>,
    <<<<"Push", "PopBlocking", "Push">>, <<>>>>,
    <<<<"Push", "PopFromShard", "Push">>, <<>>>>,
    <<<<"Push", "Push", "Pop">>, <<>>>>}

VARIABLES
    unit,   \* the component that runs
    \* of StateStore
    log, aux, todo, seen, env, sync, check, outcome, fatal,
    \* of LogQueue
    queueLog, queueAux, queueSeen, queueTodo, queues, turn, run, popped, queueFatal,
    \* of DirWatcher
    mode, changes, children, births, childWatch, dataWatch, pending, eventfd, notifier,
    wire, inbox, nodes, watches, reported

S == INSTANCE StateStore WITH
    Clients <- {1, 2, 3}, Objects <- MCObjects, Tag <- MCTag, Programs <- MCPrograms

Q == INSTANCE LogQueue WITH
    Clients <- {1, 2}, Shards <- {1, 2}, Tag <- <<1, 1>>, Programs <- MCCalls,
    Turns <- MCTurns, Drainers <- {2}, log <- queueLog, aux <- queueAux, seen <- queueSeen,
    todo <- queueTodo, fatal <- queueFatal

Z == INSTANCE DirWatcher WITH
    Names <- {1, 2}, Modes <- {"sequential", "plain", "command"}, MaxChanges <- 4

\* The variables of a component that does not run.
SOff ==
    /\ log = 0 /\ aux = 0 /\ todo = 0 /\ seen = 0 /\ env = 0 /\ sync = 0 /\ check = 0
    /\ outcome = 0 /\ fatal = 0

QOff ==
    /\ queueLog = 0 /\ queueAux = 0 /\ queueSeen = 0 /\ queueTodo = 0 /\ queues = 0
    /\ turn = 0 /\ run = 0 /\ popped = 0 /\ queueFatal = 0

ZOff ==
    /\ mode = 0 /\ changes = 0 /\ children = 0 /\ births = 0 /\ childWatch = 0
    /\ dataWatch = 0 /\ pending = 0 /\ eventfd = 0 /\ notifier = 0 /\ wire = 0 /\ inbox = 0
    /\ nodes = 0 /\ watches = 0 /\ reported = 0

sVars == <<
    log, aux, todo, seen, env, sync, check, outcome, fatal>>
qVars == <<
    queueLog, queueAux, queueSeen, queueTodo, queues, turn, run, popped, queueFatal>>
zVars == <<
    mode, changes, children, births, childWatch, dataWatch, pending, eventfd, notifier,
    wire, inbox, nodes, watches, reported>>

Init ==
    \/ unit = "store" /\ S!Init /\ QOff /\ ZOff
    \/ unit = "queue" /\ Q!Init /\ SOff /\ ZOff
    \/ unit = "watcher" /\ Z!Init /\ SOff /\ QOff

Next ==
    \/ unit = "store" /\ S!Next /\ UNCHANGED <<unit, qVars, zVars>>
    \/ unit = "queue" /\ Q!Next /\ UNCHANGED <<unit, sVars, zVars>>
    \/ unit = "watcher" /\ Z!Next /\ UNCHANGED <<unit, sVars, qVars>>

vars == <<unit, sVars, qVars, zVars>>

\* The fairness of the components.
Spec ==
    /\ Init /\ [][Next]_vars
    /\ WF_vars(unit = "store" /\ S!Next /\ UNCHANGED <<unit, qVars, zVars>>)
    /\ \A c \in {1, 2} :
         WF_vars(unit = "queue" /\ (Q!Step(c) \/ Q!Call(c)) /\ UNCHANGED <<unit, sVars, zVars>>)
    /\ []<>(unit = "queue" => queueSeen[2] = Len(queueLog))
    /\ WF_vars(unit = "watcher" /\ Z!Serve /\ UNCHANGED <<unit, sVars, qVars>>)
    /\ WF_vars(unit = "watcher" /\ Z!Notify /\ UNCHANGED <<unit, sVars, qVars>>)
    /\ WF_vars(unit = "watcher" /\ Z!Loop /\ UNCHANGED <<unit, sVars, qVars>>)

(***************************************************************************)
(* The properties of the components.                                       *)
(***************************************************************************)
\* StateStore: a client's copy of an object, built with views that any client
\* cached as auxiliary data, is what replaying the log gives.
ViewsReplayTheLog == unit = "store" => S!ViewsReplayTheLog
\* StateStore: TxnCommit returns true exactly if every client concludes from
\* the log that the transaction took effect.
OutcomesFollowTheLog == unit = "store" => S!OutcomesFollowTheLog
\* StateStore: every function ends, and without a log.Fatalf.
FunctionsReturn == <>(unit = "store" => S!AllReturned)
\* LogQueue: a pop returns the element that is first at its place in the log.
PopsFollowTheLog == unit = "queue" => Q!PopsFollowTheLog
\* LogQueue: while a client goes on popping, every element is popped.
EveryPushIsPopped == <>[](unit = "queue" => Q!AllPopped)
\* DirWatcher: sequential znodes are reported once, in order, without a gap.
SequentialInOrder == unit = "watcher" => Z!SequentialInOrder
\* DirWatcher: the watcher ends up knowing what is there, and every command is
\* handled once.
WatcherCatchesUp == <>[](unit = "watcher" => Z!UpToDate)
=============================================================================
