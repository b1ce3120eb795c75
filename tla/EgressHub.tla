----------------------------- MODULE EgressHub ------------------------------
(***************************************************************************)
(* Messages between nodes.  An IO worker has a hub for each node it sends  *)
(* to (server/egress_hub.cpp), with several sockets: what is to be sent is *)
(* gathered in a buffer and, when the event loop is idle, handed to one of *)
(* the sockets that are ready, in pieces of a write buffer's size.  A      *)
(* socket is ready when it is connected and its handshake is sent.  The    *)
(* receiver (server/ingress_connection.cpp, server_base.cpp) puts the      *)
(* messages together again.  A hub whose sockets are all gone is closed,   *)
(* and a new one is made when something is to be sent.                     *)
(*                                                                         *)
(* Sends of a socket are taken in order and its close waits for them       *)
(* (module IOUring).  A message is the sequence of its units <<m, k>>, of  *)
(* which the first one is the header and tells how many there are.         *)
(***************************************************************************)
EXTENDS Integers, FiniteSets, SequencesExt

CONSTANTS Sizes,       \* for each message, how many units it has
          Socks,       \* sockets of a hub: message_conn_per_worker
          MaxHubs,     \* bound: how many hubs are made
          BufSize,     \* units in a write buffer
          Faults       \* bound: how many sockets fail

VARIABLES
    sent,       \* messages SendMessage was called for, 1 .. sent
    hub,        \* the hub of the worker, 0 .. MaxHubs
    state_, write_buffer_, send_fn_scheduled_,
    connections_for_pick_,
    sock,       \* for each socket <<h, i>>: new, connecting, handshake, open, closing, closed
    queue,      \* for each socket, the data of its sends that are under way
    wire,       \* for each socket, what has left and is not received
    peer,       \* for each socket: none, handshake, open, gone
    read_buffer_,
    delivered,  \* for each socket, what new_message_cb_ was called with
    lost,       \* messages that went to a socket which failed, or to a hub that closes
    stopping,   \* the IO worker stops
    refused,    \* messages that were handed to a socket which took no more sends
    faults

hubVars == <<hub, state_, write_buffer_, send_fn_scheduled_, connections_for_pick_>>
peerVars == <<peer, read_buffer_, delivered>>
vars == <<sent, hubVars, sock, queue, wire, peerVars, lost, stopping, refused, faults>>

Messages == DOMAIN Sizes
Sockets == (1 .. MaxHubs) \X Socks
Mine == {s \in Sockets : s[1] = hub}
Units(m) == [k \in 1 .. Sizes[m] |-> <<m, k>>]
Of(units) == {u[1] : u \in Range(units)}
Handshake == <<0, 1>>

Init ==
    /\ sent = 0 /\ hub = 0 /\ state_ = "kClosed" /\ write_buffer_ = <<>>
    /\ send_fn_scheduled_ = FALSE /\ connections_for_pick_ = {}
    /\ sock = [s \in Sockets |-> "new"] /\ queue = [s \in Sockets |-> <<>>]
    /\ wire = [s \in Sockets |-> <<>>] /\ peer = [s \in Sockets |-> "none"]
    /\ read_buffer_ = [s \in Sockets |-> <<>>] /\ delivered = [s \in Sockets |-> <<>>]
    /\ lost = {} /\ stopping = FALSE /\ refused = {} /\ faults = 0

(***************************************************************************)
(* The hub.                                                                *)
(***************************************************************************)
\* Start: all sockets are being connected.
Start ==
    /\ hub < MaxHubs
    /\ hub' = hub + 1 /\ state_' = "kRunning"
    /\ sock' = [s \in Sockets |-> IF s[1] = hub + 1 THEN "connecting" ELSE sock[s]]

ScheduleSendFunction == send_fn_scheduled_' = TRUE

SendMessage(buffer) ==
    write_buffer_' = buffer \o Units(sent + 1) /\ ScheduleSendFunction

CreateEgressHub == Start /\ connections_for_pick_' = {} /\ SendMessage(<<>>)

\* The hub that sends the message; one that is made by a worker that stops is
\* closed at once.
PickOrCreateConnection ==
    \/ ~stopping /\ state_ = "kClosed" /\ CreateEgressHub /\ UNCHANGED lost
    \/ /\ state_ = "kRunning" /\ SendMessage(write_buffer_)
       /\ UNCHANGED <<hub, state_, connections_for_pick_, sock, lost>>
    \/ /\ stopping
       /\ lost' = lost \cup {sent + 1}
       /\ UNCHANGED <<hubVars, sock>>

SendSharedLogMessage ==
    /\ sent < Len(Sizes) /\ sent' = sent + 1
    /\ PickOrCreateConnection
    /\ UNCHANGED <<queue, wire, peerVars, stopping, refused, faults>>

\* RemoveSocket: the messages it was given and has not sent may be lost.
RemoveSocket(s) ==
    /\ connections_for_pick_' = connections_for_pick_ \ {s}
    /\ sock' = [sock EXCEPT ![s] = IF @ = "closed" THEN @ ELSE "closing"]

OnSocketConnected(s) ==
    /\ sock[s] = "connecting"
    /\ \/ /\ sock' = [sock EXCEPT ![s] = "handshake"]
          /\ queue' = [queue EXCEPT ![s] = <<<<Handshake>>>>]
          /\ peer' = [peer EXCEPT ![s] = "handshake"]
          /\ UNCHANGED <<connections_for_pick_, faults>>
       \/ /\ faults < Faults /\ faults' = faults + 1
          /\ RemoveSocket(s)
          /\ UNCHANGED <<queue, peer>>
    /\ UNCHANGED <<sent, hub, state_, write_buffer_, send_fn_scheduled_, wire, read_buffer_,
                   delivered, lost, stopping, refused>>

\* A mutated form first.
NotScheduled == UNCHANGED send_fn_scheduled_

ScheduleIfPending == send_fn_scheduled_' = (send_fn_scheduled_ \/ write_buffer_ # <<>>)

\* The callback of a send that is out.  That of the handshake adds the socket to
\* those that are ready, also when RemoveSocket has been called meanwhile.
SocketReady(s) ==
    /\ connections_for_pick_' = connections_for_pick_ \cup {s}
    /\ sock' = [sock EXCEPT ![s] = IF @ = "handshake" THEN "open" ELSE @]
    /\ ScheduleIfPending

SendDone(s) ==
    /\ queue[s] # <<>> /\ peer[s] # "gone"
    /\ queue' = [queue EXCEPT ![s] = Tail(@)]
    /\ wire' = [wire EXCEPT ![s] = @ \o Head(queue[s])]
    /\ IF Head(queue[s]) = <<Handshake>>
         THEN SocketReady(s)
         ELSE UNCHANGED <<connections_for_pick_, sock, send_fn_scheduled_>>
    /\ UNCHANGED <<sent, hub, state_, write_buffer_, peerVars, lost, stopping, refused, faults>>

\* The peer is gone: a send fails, or is taken in vain; the read that waits on
\* the socket ends.
SendToNobody(s) ==
    /\ queue[s] # <<>> /\ peer[s] = "gone"
    /\ queue' = [queue EXCEPT ![s] = Tail(@)]
    /\ lost' = lost \cup (Of(Head(queue[s])) \ {0})
    /\ \/ RemoveSocket(s) /\ UNCHANGED send_fn_scheduled_
       \/ IF Head(queue[s]) = <<Handshake>>
            THEN SocketReady(s)
            ELSE UNCHANGED <<connections_for_pick_, sock, send_fn_scheduled_>>
    /\ UNCHANGED <<sent, hub, state_, write_buffer_, wire, peerVars, stopping, refused, faults>>

ReadEnds(s) ==
    /\ sock[s] \in {"handshake", "open"} /\ peer[s] = "gone"
    /\ RemoveSocket(s)
    /\ UNCHANGED <<sent, hub, state_, write_buffer_, send_fn_scheduled_, queue, wire, peerVars,
                   lost, stopping, refused, faults>>

\* The close of the socket; the last one closes the hub, which is forgotten
\* with what it has not sent.
SocketClosed(s) ==
    /\ sock[s] = "closing" /\ queue[s] = <<>>
    /\ sock' = [sock EXCEPT ![s] = "closed"]
    /\ IF \A t \in Mine \ {s} : sock[t] = "closed"
         THEN /\ state_' = "kClosed" /\ write_buffer_' = <<>> /\ send_fn_scheduled_' = FALSE
              /\ connections_for_pick_' = {} /\ lost' = lost \cup Of(write_buffer_)
              /\ UNCHANGED hub
         ELSE UNCHANGED <<hubVars, lost>>
    /\ UNCHANGED <<sent, queue, wire, peerVars, stopping, refused, faults>>

\* SendPendingMessages, when the event loop is idle: one socket for all of the
\* buffer.
Pieces(units) ==
    [i \in 1 .. (Len(units) + BufSize - 1) \div BufSize |->
        SubSeq(units, (i - 1) * BufSize + 1, Min({i * BufSize, Len(units)}))]

\* connections_for_pick_.PickNext: any of them.
PickNext(s) == s \in connections_for_pick_

HandOver(s) == queue' = [queue EXCEPT ![s] = @ \o Pieces(write_buffer_)]

SendPendingMessages ==
    /\ send_fn_scheduled_ /\ send_fn_scheduled_' = FALSE
    /\ state_ = "kRunning"
    /\ IF connections_for_pick_ = {}
         THEN UNCHANGED <<write_buffer_, queue, refused>>
         ELSE \E s \in Mine :
                /\ PickNext(s) /\ write_buffer_' = <<>>
                /\ IF sock[s] = "open"
                     THEN HandOver(s) /\ UNCHANGED refused
                     ELSE refused' = refused \cup Of(write_buffer_) /\ UNCHANGED queue
    /\ UNCHANGED <<sent, hub, state_, connections_for_pick_, sock, wire, peerVars, lost, stopping, faults>>

\* The worker stops.
ScheduleClose ==
    /\ state_ = "kRunning" /\ state_' = "kClosing" /\ stopping' = TRUE
    /\ sock' = [s \in Sockets |-> IF s \in Mine /\ sock[s] # "closed" THEN "closing" ELSE sock[s]]
    /\ connections_for_pick_' = {}
    /\ UNCHANGED <<sent, hub, write_buffer_, send_fn_scheduled_, queue, wire, peerVars, lost,
                   refused, faults>>

(***************************************************************************)
(* The receiver.                                                           *)
(***************************************************************************)
\* OnNewMessageConnection reads the handshake and makes the connection.
OnNewMessageConnection(s) ==
    /\ peer[s] = "handshake" /\ wire[s] # <<>>
    /\ peer' = [peer EXCEPT ![s] = "open"]
    /\ wire' = [wire EXCEPT ![s] = Tail(@)]
    /\ UNCHANGED <<sent, hubVars, sock, queue, read_buffer_, delivered, lost, stopping, refused, faults>>

\* message_full_size_cb: the header tells the size.  A mutated form first: it
\* does not count itself.
FullSizeWithoutHeader(buffer) == Max({1, Sizes[buffer[1][1]] - 1})

FullSize(buffer) == Sizes[buffer[1][1]]

\* What is left of the buffer, and the messages.
RECURSIVE ProcessMessages(_, _)
ProcessMessages(buffer, out) ==
    IF buffer = <<>> \/ Len(buffer) < FullSize(buffer) THEN <<buffer, out>>
    ELSE LET size == FullSize(buffer) IN
         ProcessMessages(SubSeq(buffer, size + 1, Len(buffer)), Append(out, SubSeq(buffer, 1, size)))

OnRecvData(s) ==
    /\ peer[s] = "open"
    /\ \E k \in 1 .. Len(wire[s]) :
         LET p == ProcessMessages(read_buffer_[s] \o SubSeq(wire[s], 1, k), delivered[s]) IN
         /\ wire' = [wire EXCEPT ![s] = SubSeq(@, k + 1, Len(@))]
         /\ read_buffer_' = [read_buffer_ EXCEPT ![s] = p[1]]
         /\ delivered' = [delivered EXCEPT ![s] = p[2]]
    /\ UNCHANGED <<sent, hubVars, sock, queue, peer, lost, stopping, refused, faults>>

\* The sender has closed: OnRecvData reads the end.
ConnectionCloses(s) ==
    /\ peer[s] = "open" /\ sock[s] = "closed" /\ wire[s] = <<>>
    /\ peer' = [peer EXCEPT ![s] = "gone"]
    /\ UNCHANGED <<sent, hubVars, sock, queue, wire, read_buffer_, delivered, lost, stopping, refused, faults>>

\* The receiver ends, or the connection breaks.
PeerFails(s) ==
    /\ peer[s] \in {"handshake", "open"} /\ faults < Faults /\ faults' = faults + 1
    /\ peer' = [peer EXCEPT ![s] = "gone"]
    /\ lost' = lost \cup (Of(wire[s] \o read_buffer_[s]) \ {0})
    /\ wire' = [wire EXCEPT ![s] = <<>>] /\ read_buffer_' = [read_buffer_ EXCEPT ![s] = <<>>]
    /\ UNCHANGED <<sent, hubVars, sock, queue, delivered, stopping, refused>>

Next ==
    \/ SendSharedLogMessage \/ SendPendingMessages \/ ScheduleClose
    \/ \E s \in Sockets :
         \/ OnSocketConnected(s) \/ SendDone(s) \/ SendToNobody(s) \/ ReadEnds(s) \/ SocketClosed(s)
         \/ OnNewMessageConnection(s) \/ OnRecvData(s) \/ ConnectionCloses(s) \/ PeerFails(s)

Spec == Init /\ [][Next]_vars

(***************************************************************************)
(* Properties.                                                             *)
(***************************************************************************)
Received == UNION {Of(FlattenSeq(delivered[s])) : s \in Sockets}

\* What is delivered are whole messages, as they were sent, each at most once
\* and those of one socket in order, however they are cut into pieces, spread
\* over sockets and received.
MessagesAreWhole ==
    /\ \A s \in Sockets : \A i \in DOMAIN delivered[s] :
         LET d == delivered[s][i] IN
         d = Units(d[1][1]) /\ (i > 1 => delivered[s][i - 1][1][1] < d[1][1])
    /\ \A s, t \in Sockets :
         s # t => Of(FlattenSeq(delivered[s])) \cap Of(FlattenSeq(delivered[t])) = {}

Quiet ==
    /\ ~send_fn_scheduled_
    /\ \A s \in Sockets :
         /\ queue[s] = <<>> /\ wire[s] = <<>> /\ sock[s] \in {"new", "open", "closed"}
         /\ sock[s] = "open" => peer[s] = "open"

\* A message that does not arrive went to a socket that failed, or to a hub
\* that was closing; none stays in the buffer of a hub that has a socket, and
\* none gets stuck behind the sockets that are not ready.
NothingIsStuck == Quiet => \A m \in 1 .. sent : m \in Received \cup lost \cup refused
=============================================================================
