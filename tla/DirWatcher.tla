----------------------------- MODULE DirWatcher -----------------------------
(***************************************************************************)
(* A directory of znodes as one process watches it: the directory watcher  *)
(* of common/zk_utils.cpp, on the ZooKeeper session of common/zk.cpp,      *)
(* whose event loop sends the requests that any thread enqueues and runs   *)
(* every callback.  ZooKeeper answers the requests of a session in order,  *)
(* a watch fires once, and its event reaches the client after the answer   *)
(* that set it and before any answer that shows the change.                *)
(*                                                                         *)
(* Three directories of the repository are watched this way: "view" and    *)
(* "freeze" hold sequential znodes that stay (mode "sequential"), "node"   *)
(* ephemeral ones that come and go ("plain"), and "cmd" commands that the  *)
(* controller deletes once it has seen them ("command").                   *)
(***************************************************************************)
EXTENDS Integers, FiniteSets, Sequences, SequencesExt

CONSTANTS Names,       \* the znodes of the directory, in order of creation
          Modes,       \* the kinds of directory
          MaxChanges   \* how many times other clients change the directory

VARIABLES
    mode,        \* what kind of directory this is
    changes,     \* changes made by other clients
    children,    \* the znodes in the directory
    births,      \* how often a znode was written: what it holds
    childWatch,  \* the server has a child watch of the session
    dataWatch,   \* the znodes with a data watch of the session
    pending,     \* ZKSession::pending_ops_
    eventfd,     \* new_op_eventfd_ is readable
    notifier,    \* another thread is about to write new_op_eventfd_
    wire,        \* requests sent
    inbox,       \* answers and events, in the order they arrive
    nodes,       \* DirWatcher::nodes_, with what the callbacks were given
    watches,     \* for each znode, the removed flags of its client watches
    reported     \* the created callbacks made

server == <<changes, children, births, childWatch, dataWatch>>
session == <<pending, eventfd, notifier, wire>>
client == <<nodes, watches, reported>>
vars == <<mode, server, session, inbox, client>>

GetChildren == [op |-> "children"]
Get(p, fromWatch) == [op |-> "get", path |-> p, fromWatch |-> fromWatch]
Delete(p) == [op |-> "delete", path |-> p]
Unrelated == [op |-> "other"]

\* Requests that callbacks enqueue; the first of a batch wakes the loop.
Enqueue(ops) ==
    /\ pending' = pending \o ops
    /\ eventfd' = (eventfd \/ (pending = <<>> /\ ops # <<>>))

Init ==
    /\ mode \in Modes /\ changes = 0
    /\ children = {} /\ births = [p \in Names |-> 0]
    /\ childWatch = FALSE /\ dataWatch = {}
    /\ pending = <<GetChildren>> /\ eventfd = TRUE /\ notifier = "idle"
    /\ wire = <<>> /\ inbox = <<>>
    /\ nodes = <<>> /\ watches = [p \in Names |-> <<>>] /\ reported = <<>>

(***************************************************************************)
(* ZooKeeper.                                                              *)
(***************************************************************************)
ChildEvent == IF childWatch THEN <<[event |-> "child"]>> ELSE <<>>
DataEvent(p, e) == IF p \in dataWatch THEN <<[event |-> e, path |-> p]>> ELSE <<>>

\* Another client creates, deletes or changes a znode.
CreateZNode(p) ==
    /\ changes < MaxChanges /\ changes' = changes + 1
    /\ p \notin children
    /\ mode = "sequential" => \A q \in Names : q < p <=> births[q] > 0
    /\ children' = children \cup {p}
    /\ births' = [births EXCEPT ![p] = @ + 1]
    /\ inbox' = inbox \o ChildEvent /\ childWatch' = FALSE
    /\ UNCHANGED <<mode, dataWatch, session, client>>

DeleteZNode(p) ==
    /\ changes < MaxChanges /\ changes' = changes + 1
    /\ mode = "plain" /\ p \in children
    /\ children' = children \ {p}
    /\ inbox' = inbox \o DataEvent(p, "deleted") \o ChildEvent
    /\ childWatch' = FALSE /\ dataWatch' = dataWatch \ {p}
    /\ UNCHANGED <<mode, births, session, client>>

ChangeZNode(p) ==
    /\ changes < MaxChanges /\ changes' = changes + 1
    /\ mode = "plain" /\ p \in children
    /\ births' = [births EXCEPT ![p] = @ + 1]
    /\ inbox' = inbox \o DataEvent(p, "changed")
    /\ dataWatch' = dataWatch \ {p}
    /\ UNCHANGED <<mode, children, childWatch, session, client>>

\* The server executes the oldest request of the session.
Serve ==
    /\ wire # <<>> /\ wire' = Tail(wire)
    /\ LET r == Head(wire) IN
       \/ /\ r.op = "children"
          /\ childWatch' = TRUE
          /\ inbox' = Append(inbox, [answer |-> "children", paths |-> children])
          /\ UNCHANGED <<children, dataWatch>>
       \/ /\ r.op = "get"
          /\ dataWatch' = IF r.path \in children THEN dataWatch \cup {r.path} ELSE dataWatch
          /\ inbox' = Append(inbox,
               [answer |-> "get", path |-> r.path, fromWatch |-> r.fromWatch,
                ok |-> r.path \in children, data |-> births[r.path]])
          /\ UNCHANGED <<children, childWatch>>
       \/ /\ r.op = "delete"
          /\ children' = children \ {r.path}
          /\ inbox' = IF r.path \in children
                        THEN inbox \o DataEvent(r.path, "deleted") \o ChildEvent
                        ELSE inbox
          /\ childWatch' = (childWatch /\ r.path \notin children)
          /\ dataWatch' = dataWatch \ {r.path}
       \/ r.op = "other" /\ UNCHANGED <<inbox, children, childWatch, dataWatch>>
    /\ UNCHANGED <<mode, changes, births, pending, eventfd, notifier, client>>

(***************************************************************************)
(* The session.                                                            *)
(***************************************************************************)
\* A thread of the process enqueues a request of its own: it decides under
\* the lock whether to wake the loop, and does so after it.
EnqueueNewOp ==
    /\ notifier = "idle"
    /\ pending' = Append(pending, Unrelated)
    /\ notifier' = IF pending = <<>> THEN "notify" ELSE "done"
    /\ UNCHANGED <<mode, server, eventfd, wire, inbox, client>>

Notify ==
    /\ notifier = "notify" /\ notifier' = "done"
    /\ eventfd' = TRUE
    /\ UNCHANGED <<mode, server, pending, wire, inbox, client>>

\* Requests are handed to the ZooKeeper client in the order enqueued.
DoOp(ops) == wire' = wire \o ops

\* The loop is woken and sends what is enqueued.
ProcessPendingOps ==
    /\ eventfd /\ eventfd' = FALSE
    /\ DoOp(pending) /\ pending' = <<>>
    /\ UNCHANGED <<mode, server, notifier, inbox, client>>

(***************************************************************************)
(* The directory watcher, run by the loop for each answer and event.       *)
(***************************************************************************)
\* The oldest message is an answer to a request of this kind: its callback
\* runs.
Completed(kind) ==
    inbox # <<>> /\ "answer" \in DOMAIN Head(inbox) /\ Head(inbox).answer = kind

\* The oldest message is the event of a watch.
Triggered(kinds) ==
    inbox # <<>> /\ "event" \in DOMAIN Head(inbox) /\ Head(inbox).event \in kinds

\* The watches of a znode whose callbacks run: not those marked removed.
LiveWatches(p) == SelectSeq(watches[p], LAMBDA removed : ~removed)

\* A completed request leaves its watch behind, removed or not.
OpCompleted(p, removed) == [watches EXCEPT ![p] = Append(@, removed)]

Orders(S) == {s \in [1 .. Cardinality(S) -> S] : \A p \in S : \E i \in DOMAIN s : s[i] = p}

\* A mutated form: the paths are taken as the server lists them.
GetChildrenCallbackUnsorted ==
    /\ Completed("children")
    /\ \E s \in Orders(Head(inbox).paths \ DOMAIN nodes) :
         Enqueue([i \in DOMAIN s |-> Get(s[i], FALSE)])
    /\ inbox' = Tail(inbox)
    /\ UNCHANGED <<mode, server, notifier, wire, client>>

\* The server lists the paths in any order; sequential znodes are sorted by
\* their number.  Znodes that are not known yet are read.
GetChildrenCallback ==
    /\ Completed("children")
    /\ LET new == Head(inbox).paths \ DOMAIN nodes IN
       \E s \in IF mode = "sequential" THEN {SetToSortSeq(new, <)} ELSE Orders(new) :
         Enqueue([i \in DOMAIN s |-> Get(s[i], FALSE)])
    /\ inbox' = Tail(inbox)
    /\ UNCHANGED <<mode, server, notifier, wire, client>>

\* The callbacks of the watcher's owner, the node watcher, which keeps what
\* a znode holds (the address of a node).
OnZNodeCreated(p, data) == [q \in DOMAIN nodes \cup {p} |-> IF q = p THEN data ELSE nodes[q]]
OnZNodeDeleted(p) == [q \in DOMAIN nodes \ {p} |-> nodes[q]]

\* A znode has been read: it is reported if it is new, and then the
\* controller deletes a command; a znode that is gone is forgotten.  The
\* watch stays unless the callback removes it.
GetCallback ==
    /\ Completed("get")
    /\ LET a == Head(inbox)  p == a.path  new == a.ok /\ p \notin DOMAIN nodes IN
       /\ nodes' = IF ~a.ok THEN OnZNodeDeleted(p)
                   ELSE IF new \/ a.fromWatch THEN OnZNodeCreated(p, a.data) ELSE nodes
       /\ reported' = IF new THEN Append(reported, p) ELSE reported
       /\ Enqueue(IF new /\ mode = "command" THEN <<Delete(p)>> ELSE <<>>)
       /\ watches' = IF a.ok THEN OpCompleted(p, ~new /\ ~a.fromWatch) ELSE watches
    /\ inbox' = Tail(inbox)
    /\ UNCHANGED <<mode, server, notifier, wire>>

GetChildrenWatchCallback ==
    /\ Triggered({"child"})
    /\ Enqueue(<<GetChildren>>)
    /\ inbox' = Tail(inbox)
    /\ UNCHANGED <<mode, server, notifier, wire, client>>

\* A mutated form: a znode that was deleted stays known.
GetWatchCallbackKeeps ==
    /\ Triggered({"deleted", "changed"})
    /\ LET e == Head(inbox)  p == e.path IN
       /\ Enqueue(IF e.event = "changed" THEN <<Get(p, TRUE)>> ELSE <<>>)
       /\ watches' = [watches EXCEPT ![p] = <<>>]
       /\ UNCHANGED nodes
    /\ inbox' = Tail(inbox)
    /\ UNCHANGED <<mode, server, notifier, wire, reported>>

\* Every watch of the znode fires; those that are removed do nothing.
GetWatchCallback ==
    /\ Triggered({"deleted", "changed"})
    /\ LET e == Head(inbox)  p == e.path  live == LiveWatches(p) IN
       /\ Enqueue(IF e.event = "changed"
                    THEN [i \in DOMAIN live |-> Get(p, TRUE)] ELSE <<>>)
       /\ nodes' = IF e.event = "deleted" /\ live # <<>> THEN OnZNodeDeleted(p) ELSE nodes
       /\ watches' = [watches EXCEPT ![p] = <<>>]
    /\ inbox' = Tail(inbox)
    /\ UNCHANGED <<mode, server, notifier, wire, reported>>

Loop ==
    \/ ProcessPendingOps \/ GetChildrenCallback \/ GetCallback
    \/ GetChildrenWatchCallback \/ GetWatchCallback

Next ==
    \/ \E p \in Names : CreateZNode(p) \/ DeleteZNode(p) \/ ChangeZNode(p)
    \/ Serve \/ EnqueueNewOp \/ Notify \/ Loop

Spec == Init /\ [][Next]_vars /\ WF_vars(Serve) /\ WF_vars(Notify) /\ WF_vars(Loop)

(***************************************************************************)
(* Properties.                                                             *)
(***************************************************************************)
\* Sequential znodes are reported once each, in the order of their numbers
\* and without a gap, however their creation interleaves with the answers:
\* view and freeze znodes reach every node as the controller wrote them.
SequentialInOrder ==
    mode = "sequential" =>
      \A i \in DOMAIN reported : reported[i] = SetToSortSeq(Names, <)[i]

CommandsHandled ==
    mode = "command" =>
      \A p \in Names : Cardinality({i \in DOMAIN reported : reported[i] = p}) = births[p]

UpToDate == nodes = [p \in children |-> births[p]] /\ CommandsHandled

\* No change is missed: once other clients stop changing the directory, the
\* watcher ends up knowing exactly the znodes that are there, with what they
\* hold, also when one was deleted and created anew between two requests.  A
\* command has been handled once for every time it was created, also when it
\* was created anew while its deletion was on the way.
WatcherCatchesUp == <>[]UpToDate
=============================================================================
