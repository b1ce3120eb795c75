-------------------------- MODULE ViewChangeProofs --------------------------
(***************************************************************************)
(* ViewChange keeps an inductive invariant: there is one reconfiguration   *)
(* at a time, the view directory lists the views in order, every node has  *)
(* installed a prefix of them, and every message is for a node that has    *)
(* its log space.  What the handlers take for granted of messages and held *)
(* requests follows.                                                       *)
(***************************************************************************)
EXTENDS ViewChange, TLAPS

-----------------------------------------------------------------------------
(* The inductive invariant.                                                 *)

\* A configuration that ReconfigView accepts.
GoodConfiguration == {w \in Configuration : Enough(w)}

Tail0 == [phylog : Sequencers, from : Sequencers, position : SUBSET Nat]
Tails == SUBSET Tail0

\* What is said of each of some physical logs: metalogs.
Positions == UNION {[P -> SUBSET Nat] : P \in SUBSET Sequencers}

Requests ==
    [kind : {"new", "freeze"}, view : Nat]
      \cup [kind : {"finalize"}, view : Nat, positions : Positions, tails : Positions]

Messages ==
    [type : {"METALOGS", "INDEX_DATA"}, ls : LogSpaces, from : Nodes, to : Nodes, data : Nat]
      \cup [type : {"META_PROG"}, ls : LogSpaces, from : Nodes, to : Nodes, data : SUBSET Nat]
      \cup [type : {"REPLICATE", "SHARD_PROG", "LOCAL_READ", "READ", "CONTINUE"},
            ls : LogSpaces, from : Nodes, to : Nodes, data : SUBSET Engines]

\* The znodes of the view directory, those that are under way included.
Znodes == viewDir \o creates

TypeControl ==
    /\ state \in {"Created", "Normal", "Reconfiguring"} /\ online \in SUBSET Nodes
    /\ views \in Seq(GoodConfiguration)
    /\ pending \in {None} \cup GoodConfiguration
    /\ seal \in {None} \cup [view : Nat, phylogs : SUBSET Sequencers, tails : Tails]
    /\ freezeSeen \in Nat
    /\ creates \in Seq(Requests) /\ viewDir \in Seq(Requests)
    /\ acked \in BOOLEAN
    /\ freezeDir \in Seq([view : Nat, tails : Tails])
TypeNodes ==
    /\ seen \in [Nodes -> Nat] /\ current \in [Nodes -> Int] /\ active \in SUBSET Engines
    /\ hold \in [Nodes -> SUBSET Messages] /\ net \in SUBSET Messages
TypeLogs ==
    /\ cuts \in [LogSpaces -> Seq(SUBSET Engines)]
    /\ stored \in [LogSpaces -> [Storages -> SUBSET Engines]]
    /\ got \in [LogSpaces -> [Nodes -> SUBSET Nat]]
TypeOK == TypeControl /\ TypeNodes /\ TypeLogs

\* All views have the engines and the storage nodes of the first one, and those
\* that run functions are among them, if they were waited for.
SameNodes(w) ==
    /\ Range(w.engines) = Range(views[1].engines)
    /\ Range(w.storages) = Range(views[1].storages)
ViewsAgree ==
    /\ state = "Created" <=> views = <<>>
    /\ Len(views) <= MaxViews
    /\ \A i \in DOMAIN views : SameNodes(views[i])
    /\ views # <<>> => Clients \ Late \subseteq Range(views[1].engines)

\* A reconfiguration is in one of three places: the seal, the request to publish
\* its end, and the answer to that request.
Finalizing(i) == i \in DOMAIN creates /\ creates[i].kind = "finalize"
Waiting ==
    /\ state = "Reconfiguring" /\ pending \in GoodConfiguration
    /\ Len(views) < MaxViews /\ SameNodes(pending)
OneReconfig ==
    /\ seal # None =>
         /\ Waiting /\ ~acked /\ \A i \in DOMAIN creates : ~Finalizing(i)
         /\ seal.view < Len(views) /\ seal.phylogs = ActivePhylogs(View(seal.view))
    /\ acked => Waiting /\ \A i \in DOMAIN creates : ~Finalizing(i)
    /\ \A i \in DOMAIN creates : Finalizing(i) =>
         Waiting /\ \A j \in DOMAIN creates : Finalizing(j) => i = j

\* The view directory has each view once, in order; a final position and a tail are
\* there for every physical log of its view.
OfView(z) ==
    /\ z.view < Len(views)
    /\ z.kind = "finalize" =>
         /\ z.positions \in [ActivePhylogs(View(z.view)) -> SUBSET Nat]
         /\ z.tails \in [ActivePhylogs(View(z.view)) -> SUBSET Nat]
ViewsInOrder ==
    /\ \A i \in DOMAIN Znodes : OfView(Znodes[i])
    /\ \A i, j \in DOMAIN Znodes :
         i < j /\ Znodes[i].kind = "new" /\ Znodes[j].kind = "new" => Znodes[i].view < Znodes[j].view
    /\ \A v \in 0 .. Len(views) - 1 :
         \E i \in DOMAIN Znodes : Znodes[i].kind = "new" /\ Znodes[i].view = v

\* A node has installed the views whose znodes it has seen.
Watching ==
    \A n \in Nodes :
      /\ current[n] \in -1 .. Len(views) - 1 /\ seen[n] <= Len(viewDir)
      /\ \A i \in DOMAIN Znodes :
           Znodes[i].kind = "new" => (i <= seen[n] <=> Znodes[i].view <= current[n])

EnginesActive ==
    \A e \in active : current[e] >= 0 /\ e \in Range(View(current[e]).engines)

CutsInView ==
    \A ls \in LogSpaces : \A k \in DOMAIN cuts[ls] :
      ViewOf(ls) < Len(views) /\ cuts[ls][k] \subseteq Range(View(ViewOf(ls)).engines)

\* A message is for a node with the log space.  A primary that sent metalogs has
\* installed the view, hence also one that gets progress of a replica.
Addressed(m) ==
    IF m.type = "LOCAL_READ" THEN m.to \in Clients /\ ViewOf(m.ls) = 0
    ELSE /\ ViewOf(m.ls) < Len(views)
         /\ m.ls \in Installed(m.to, ViewOf(m.ls))
         /\ m.type \in {"METALOGS", "META_PROG"} => ViewOf(m.ls) <= current[PrimaryOf(m.ls)]
         /\ m.type \in {"SHARD_PROG", "META_PROG"} => m.to = PrimaryOf(m.ls)
         /\ m.type = "META_PROG" => m.from \in Sequencers
         /\ m.type = "REPLICATE" => m.from \in Engines /\ m.to \in Storages
         /\ m.type \in {"INDEX_DATA", "READ", "CONTINUE"} =>
              m.to \in IndexEngineNodes(View(ViewOf(m.ls)), PrimaryOf(m.ls))
MessagesAddressed ==
    /\ \A m \in net : Addressed(m)
    /\ \A n \in Nodes : \A m \in hold[n] :
         Addressed(m) /\ m.to = n /\ ViewOf(m.ls) > current[n]

IInv ==
    /\ TypeOK /\ ViewsAgree /\ OneReconfig /\ ViewsInOrder /\ Watching
    /\ EnginesActive /\ CutsInView /\ MessagesAddressed

-----------------------------------------------------------------------------
(* Views.                                                                   *)

\* The arithmetic of views and znodes that is needed in several places.
LEMMA Numbers ==
    /\ \A k \in Nat : k >= 0
    /\ \A a \in Int, k \in Nat : k > a /\ k # a + 1 => k > a + 1
BY Z3

\* The length and the indices of a sequence, and what appending to it gives.
LEMMA Indices ==
    ASSUME NEW T, NEW q \in Seq(T)
    PROVE  Len(q) \in Nat /\ DOMAIN q \in SUBSET Nat /\ \A x \in T : Append(q, x) \in Seq(T)
OBVIOUS

\* What lists a set in order is a sequence that has its elements.
LEMMA InOrderLists ==
    ASSUME NEW S, NEW A \in SUBSET S, NEW q \in InOrder(A)
    PROVE  q \in Seq(S) /\ Range(q) = A
<1>1. PICK k \in 0 .. Cardinality(A) : q \in [1 .. k -> A]
    BY Zenon DEF InOrder
<1>2. Range(q) = A
    BY Zenon DEF InOrder
<1>3. k \in Nat
    BY <1>1
<1>4. q \in [1 .. k -> S]
    BY <1>1, Zenon
<1>5. q \in Seq(S)
    BY <1>3, <1>4
<1>6. QED
    BY <1>2, <1>5

\* An index modulo the length of a sequence is one of its indices.
LEMMA IndexModulo ==
    ASSUME NEW T, NEW seq \in Seq(T), Len(seq) > 0, NEW c \in Nat
    PROVE  seq[(c % Len(seq)) + 1] \in Range(seq)
<1>1. PICK n \in Nat : n = Len(seq) /\ n > 0
    OBVIOUS
<1>2. c % n \in 0 .. n - 1
    BY <1>1
<1>3. (c % Len(seq)) + 1 \in DOMAIN seq
    BY <1>1, <1>2
<1>4. QED
    BY <1>3, Zenon DEF Range

\* PlanRow deals out elements of the sequence.
LEMMA RowOfSequence ==
    ASSUME NEW T, NEW seq \in Seq(T), Len(seq) > 0, NEW k \in Nat, NEW i \in Nat \ {0}
    PROVE  PlanRow(seq, k, i) \subseteq Range(seq)
<1>1. SUFFICES ASSUME NEW j \in 0 .. k - 1
               PROVE  seq[(((i - 1) * k + j) % Len(seq)) + 1] \in Range(seq)
    BY Zenon DEF PlanRow
<1>2. (i - 1) * k \in Nat
    <2>1. i - 1 \in Nat
        OBVIOUS
    <2>2. ASSUME NEW a \in Nat, NEW b \in Nat PROVE a * b \in Nat
        OBVIOUS
    <2>3. QED
        BY <2>1, <2>2, Zenon
<1>3. PICK c \in Nat : c = (i - 1) * k
    BY <1>2, Zenon
<1>4. c + j \in Nat
    BY <1>1
<1>5. QED
    BY <1>3, <1>4, IndexModulo, Zenon

\* Where an element of a sequence is.
LEMMA PositionOf ==
    ASSUME NEW T, NEW seq \in Seq(T), NEW x \in Range(seq)
    PROVE  Position(seq, x) \in DOMAIN seq /\ Position(seq, x) \in Nat \ {0}
<1>1. \E i \in DOMAIN seq : seq[i] = x
    BY Zenon DEF Range
<1>2. Position(seq, x) \in DOMAIN seq
    BY <1>1, Zenon DEF Position
<1>3. QED
    BY <1>2

\* What a view derives from a configuration that was accepted.
LEMMA ConfigurationFacts ==
    ASSUME NEW w \in GoodConfiguration
    PROVE  /\ Range(w.sequencers) \subseteq Sequencers /\ Range(w.engines) \subseteq Engines
           /\ Range(w.storages) \subseteq Storages
           /\ ActivePhylogs(w) \subseteq Range(w.sequencers)
           /\ \A s \in Range(w.sequencers) :
                /\ ReplicaSequencers(w, s) \subseteq Range(w.sequencers)
                /\ IndexEngineNodes(w, s) \subseteq Range(w.engines)
           /\ \A e \in Range(w.engines) : StorageNodesOf(w, e) \subseteq Range(w.storages)
<1>1. /\ w.sequencers \in Seq(Sequencers) /\ w.engines \in Seq(Engines)
      /\ w.storages \in Seq(Storages) /\ Enough(w)
    BY DEF GoodConfiguration, Configuration
<1>2. /\ Len(w.sequencers) > 0 /\ Len(w.sequencers) >= NumPhylogs
      /\ Len(w.engines) > 0 /\ Len(w.storages) > 0
    BY <1>1, ReplicasAssumption DEF Enough
<1>3. /\ Range(w.sequencers) \subseteq Sequencers /\ Range(w.engines) \subseteq Engines
      /\ Range(w.storages) \subseteq Storages
    BY <1>1 DEF Range
<1>4. ActivePhylogs(w) \subseteq Range(w.sequencers)
    <2>1. ASSUME NEW i \in 1 .. NumPhylogs PROVE w.sequencers[i] \in Range(w.sequencers)
        <3>1. i \in DOMAIN w.sequencers
            BY <1>1, <1>2, ReplicasAssumption
        <3>2. QED
            BY <3>1, Zenon DEF Range
    <2>2. QED
        BY <2>1, Zenon DEF ActivePhylogs
<1>5. ASSUME NEW s \in Range(w.sequencers)
      PROVE  /\ ReplicaSequencers(w, s) \subseteq Range(w.sequencers)
             /\ IndexEngineNodes(w, s) \subseteq Range(w.engines)
    <2>1. Position(w.sequencers, s) \in Nat \ {0}
        BY <1>1, PositionOf, Zenon
    <2>2. ASSUME NEW j \in 1 .. MetalogReplicas - 1
          PROVE  w.sequencers[((Position(w.sequencers, s) - 1 + j) % Len(w.sequencers)) + 1]
                   \in Range(w.sequencers)
        <3>1. Position(w.sequencers, s) - 1 + j \in Nat
            BY <2>1, ReplicasAssumption
        <3>2. QED
            BY <1>1, <1>2, <3>1, IndexModulo, Zenon
    <2>3. ReplicaSequencers(w, s) \subseteq Range(w.sequencers)
        BY <2>2, Zenon DEF ReplicaSequencers
    <2>4. IndexEngineNodes(w, s) \subseteq Range(w.engines)
        <3>1. IndexReplicas \in Nat
            BY ReplicasAssumption
        <3>2. QED
            BY <1>1, <1>2, <2>1, <3>1, RowOfSequence, Zenon DEF IndexEngineNodes
    <2>5. QED
        BY <2>3, <2>4
<1>6. ASSUME NEW e \in Range(w.engines) PROVE StorageNodesOf(w, e) \subseteq Range(w.storages)
    <2>1. Position(w.engines, e) \in Nat \ {0} /\ UserlogReplicas \in Nat
        BY <1>1, PositionOf, ReplicasAssumption, Zenon
    <2>2. QED
        BY <1>1, <1>2, <2>1, RowOfSequence, Zenon DEF StorageNodesOf
<1>7. QED
    BY <1>3, <1>4, <1>5, <1>6, Zenon

\* The nodes of the three kinds are different ones.
LEMMA KindsOfNodes ==
    /\ \A n \in Sequencers : n \in Nodes /\ n \notin Engines /\ n \notin Storages
    /\ \A n \in Engines : n \in Nodes /\ n \notin Sequencers /\ n \notin Storages
    /\ \A n \in Storages : n \in Nodes /\ n \notin Sequencers /\ n \notin Engines
BY NodesAssumption, Zenon DEF Nodes

\* A view that exists is an accepted configuration, and its log spaces are log
\* spaces of the model.
LEMMA ViewFacts ==
    ASSUME TypeOK, ViewsAgree, NEW v \in Nat, v < Len(views)
    PROVE  /\ View(v) \in GoodConfiguration /\ v + 1 \in DOMAIN views
           /\ SameNodes(View(v))
           /\ \A s \in Sequencers : <<v, s>> \in LogSpaces
<1>1. views \in Seq(GoodConfiguration) /\ v + 1 \in DOMAIN views /\ MaxViews \in Nat
    BY NodesAssumption DEF TypeOK, TypeControl
<1>2. View(v) \in GoodConfiguration /\ SameNodes(View(v))
    <2>1. views[v + 1] \in GoodConfiguration
        BY <1>1
    <2>2. QED
        BY <1>1, <2>1, Zenon DEF View, ViewsAgree
<1>3. v \in 0 .. MaxViews - 1
    BY <1>1 DEF ViewsAgree, TypeOK, TypeControl
<1>4. QED
    BY <1>1, <1>2, <1>3 DEF LogSpaces

\* Who has the log space of a physical log: its sequencers, and all engines and
\* storage nodes of the view.
LEMMA InstalledFacts ==
    ASSUME TypeOK, ViewsAgree, NEW v \in Nat, v < Len(views), NEW s \in ActivePhylogs(View(v))
    PROVE  /\ s \in Sequencers /\ s \in Range(View(v).sequencers) /\ <<v, s>> \in LogSpaces
           /\ <<v, s>> \in Installed(s, v)
           /\ \A n \in ReplicaSequencers(View(v), s) : n \in Sequencers /\ <<v, s>> \in Installed(n, v)
           /\ \A n \in Range(View(v).engines) : n \in Engines /\ <<v, s>> \in Installed(n, v)
           /\ \A n \in Range(View(v).storages) : n \in Storages /\ <<v, s>> \in Installed(n, v)
           /\ \A e \in IndexEngineNodes(View(v), s) : e \in Engines /\ <<v, s>> \in Installed(e, v)
<1>1. View(v) \in GoodConfiguration /\ \A r \in Sequencers : <<v, r>> \in LogSpaces
    BY ViewFacts, Zenon
<1>2. s \in Range(View(v).sequencers) /\ s \in Sequencers
    BY <1>1, ConfigurationFacts, Zenon
<1>3. /\ ReplicaSequencers(View(v), s) \subseteq Sequencers
      /\ IndexEngineNodes(View(v), s) \subseteq Range(View(v).engines)
      /\ Range(View(v).engines) \subseteq Engines /\ Range(View(v).storages) \subseteq Storages
    <2>1. /\ ReplicaSequencers(View(v), s) \subseteq Range(View(v).sequencers)
          /\ Range(View(v).sequencers) \subseteq Sequencers
          /\ IndexEngineNodes(View(v), s) \subseteq Range(View(v).engines)
          /\ Range(View(v).engines) \subseteq Engines /\ Range(View(v).storages) \subseteq Storages
        BY <1>1, <1>2, ConfigurationFacts, Zenon
    <2>2. QED
        BY <2>1
<1>4. ASSUME NEW n,
             \/ n \in Sequencers /\ n \in {s} \cup ReplicaSequencers(View(v), s)
             \/ n \in Engines /\ n \in Range(View(v).engines)
             \/ n \in Storages /\ n \in Range(View(v).storages)
      PROVE  <<v, s>> \in Installed(n, v)
    BY <1>4, Zenon DEF Installed
<1>5. QED
    BY <1>1, <1>2, <1>3, <1>4, Zenon

\* The other way round: a node with a log space is a member of the view.
LEMMA InstalledIsMember ==
    ASSUME TypeOK, ViewsAgree, NEW v \in Nat, v < Len(views), NEW n, NEW ls \in Installed(n, v)
    PROVE  /\ ls \in LogSpaces /\ ViewOf(ls) = v /\ ls = <<v, PrimaryOf(ls)>>
           /\ PrimaryOf(ls) \in ActivePhylogs(View(v)) /\ PrimaryOf(ls) \in Sequencers
           /\ n \in Members(View(v))
           /\ n \in Sequencers => n \in {PrimaryOf(ls)} \cup ReplicaSequencers(View(v), PrimaryOf(ls))
           /\ n \in Engines => n \in Range(View(v).engines)
           /\ n \in Storages => n \in Range(View(v).storages)
<1>1. PICK s \in ActivePhylogs(View(v)) :
        /\ ls = <<v, s>>
        /\ \/ n \in Sequencers /\ n \in {s} \cup ReplicaSequencers(View(v), s)
           \/ n \in Engines /\ n \in Range(View(v).engines)
           \/ n \in Storages /\ n \in Range(View(v).storages)
    BY Zenon DEF Installed
<1>2. ViewOf(ls) = v /\ PrimaryOf(ls) = s
    BY <1>1 DEF ViewOf, PrimaryOf
<1>3. /\ s \in Sequencers /\ s \in Range(View(v).sequencers) /\ <<v, s>> \in LogSpaces
      /\ View(v) \in GoodConfiguration
    BY <1>1, InstalledFacts, ViewFacts, Zenon
<1>4. ReplicaSequencers(View(v), s) \subseteq Range(View(v).sequencers)
    BY <1>3, ConfigurationFacts, Zenon
<1>5. n \in Members(View(v))
    BY <1>1, <1>3, <1>4, Zenon DEF Members
<1>6. QED
    BY <1>1, <1>2, <1>3, <1>5, KindsOfNodes, Zenon

-----------------------------------------------------------------------------
(* What stays while a step is about something else.                         *)

\* Views are only added.
ViewsGrow == views' = views \/ \E w \in GoodConfiguration : views' = Append(views, w)

\* A view that exists stays as it is.
LEMMA ViewStays ==
    ASSUME TypeOK, ViewsGrow, NEW v \in Nat, v < Len(views)
    PROVE  /\ View(v)' = View(v) /\ v < Len(views')
           /\ \A n : Installed(n, v)' = Installed(n, v)
<1>1. views \in Seq(GoodConfiguration)
    BY DEF TypeOK, TypeControl
<1>2. views'[v + 1] = views[v + 1] /\ v < Len(views')
    <2>1. CASE views' = views
        BY <2>1
    <2>2. CASE \E w \in GoodConfiguration : views' = Append(views, w)
        BY <1>1, <2>2
    <2>3. QED
        BY <2>1, <2>2 DEF ViewsGrow
<1>3. View(v)' = View(v)
    BY <1>2, Zenon DEF View
<1>4. ASSUME NEW n PROVE Installed(n, v)' = Installed(n, v)
    <2>1. ActivePhylogs(View(v))' = ActivePhylogs(View(v))
        BY <1>3, Zenon DEF ActivePhylogs
    <2>2. ASSUME NEW p PROVE ReplicaSequencers(View(v), p)' = ReplicaSequencers(View(v), p)
        BY <1>3, Zenon DEF ReplicaSequencers, Position
    <2>3. Range(View(v).engines)' = Range(View(v).engines) /\ Range(View(v).storages)' = Range(View(v).storages)
        BY <1>3, Zenon DEF Range
    <2>4. QED
        BY <1>3, <2>1, <2>2, <2>3, Zenon DEF Installed
<1>5. QED
    BY <1>2, <1>3, <1>4, Zenon

\* A message stays addressed: views stay, and nodes only move on.
LEMMA AddressedStays ==
    ASSUME TypeOK, ViewsAgree, ViewsGrow, NEW m \in Messages, Addressed(m),
           \A n \in Nodes : current[n] \in Int /\ current'[n] \in Int /\ current[n] <= current'[n]
    PROVE  Addressed(m)'
<1>1. CASE m.type = "LOCAL_READ"
    BY <1>1, Zenon DEF Addressed
<1>2. CASE m.type # "LOCAL_READ"
    <2> DEFINE v == ViewOf(m.ls)
    <2>1. m.ls \in LogSpaces /\ v \in Nat
        BY DEF Messages, LogSpaces, ViewOf
    <2> HIDE DEF v
    <2>2. v < Len(views) /\ m.ls \in Installed(m.to, v)
        BY <1>2, Zenon DEF Addressed, v
    <2>3. /\ View(v)' = View(v) /\ v < Len(views') /\ Installed(m.to, v)' = Installed(m.to, v)
        BY <2>1, <2>2, ViewStays, Zenon
    <2>4. PrimaryOf(m.ls) \in Nodes
        BY <2>1, KindsOfNodes DEF LogSpaces, PrimaryOf
    <2>5. v <= current[PrimaryOf(m.ls)] => v <= current'[PrimaryOf(m.ls)]
        BY <2>1, <2>4
    <2>6. IndexEngineNodes(View(v), PrimaryOf(m.ls))' = IndexEngineNodes(View(v), PrimaryOf(m.ls))
        BY <2>3, Zenon DEF IndexEngineNodes, PlanRow, Position
    <2>7. /\ v < Len(views') /\ m.ls \in Installed(m.to, v)'
          /\ m.type \in {"METALOGS", "META_PROG"} => v <= current'[PrimaryOf(m.ls)]
          /\ m.type \in {"SHARD_PROG", "META_PROG"} => m.to = PrimaryOf(m.ls)
          /\ m.type = "META_PROG" => m.from \in Sequencers
          /\ m.type = "REPLICATE" => m.from \in Engines /\ m.to \in Storages
          /\ m.type \in {"INDEX_DATA", "READ", "CONTINUE"} => m.to \in IndexEngineNodes(View(v), PrimaryOf(m.ls))'
        BY <1>2, <2>2, <2>3, <2>5, <2>6, Zenon DEF Addressed, v
    <2>8. QED
        BY <1>2, <2>7, Zenon DEF Addressed, v
<1>3. QED
    BY <1>1, <1>2, Zenon

\* The controller and its directory of views do nothing.
ViewsRest ==
    /\ state' = state /\ views' = views /\ pending' = pending /\ seal' = seal
    /\ creates' = creates /\ acked' = acked /\ viewDir' = viewDir
ControlRests == ViewsRest /\ online' = online /\ freezeSeen' = freezeSeen
LEMMA ControlStays ==
    ASSUME IInv, ViewsRest
    PROVE  ViewsAgree' /\ OneReconfig' /\ ViewsInOrder' /\ ViewsGrow
<1> USE DEF ViewsRest, IInv
<1>1. Range(views[1].engines)' = Range(views[1].engines) /\ Range(views[1].storages)' = Range(views[1].storages)
    BY Zenon DEF Range
<1>2. ViewsAgree'
    BY <1>1, Zenon DEF ViewsAgree, SameNodes
<1>3. OneReconfig'
    <2>1. Waiting' <=> Waiting
        BY <1>1, Zenon DEF Waiting, SameNodes
    <2>2. \A i : Finalizing(i)' = Finalizing(i)
        BY Zenon DEF Finalizing
    <2>3. \A v : ActivePhylogs(View(v))' = ActivePhylogs(View(v))
        BY Zenon DEF ActivePhylogs, View
    <2>4. QED
        BY <2>1, <2>2, <2>3, Zenon DEF OneReconfig
<1>4. ViewsInOrder'
    <2>1. Znodes' = Znodes
        BY Zenon DEF Znodes
    <2>2. \A v : ActivePhylogs(View(v))' = ActivePhylogs(View(v))
        BY Zenon DEF ActivePhylogs, View
    <2>3. QED
        BY <2>1, <2>2, Zenon DEF ViewsInOrder, OfView
<1>5. QED
    BY <1>2, <1>3, <1>4, Zenon DEF ViewsGrow

\* The nodes' own views do not change.
NodesRest == seen' = seen /\ current' = current /\ active' = active
LEMMA NodesStay ==
    ASSUME IInv, ViewsRest, NodesRest PROVE Watching' /\ EnginesActive'
<1> USE DEF ViewsRest, NodesRest, IInv
<1>1. Znodes' = Znodes
    BY Zenon DEF Znodes
<1>2. Watching'
    BY <1>1, Zenon DEF Watching
<1>3. \A v : View(v)' = View(v)
    BY Zenon DEF View
<1>4. EnginesActive'
    BY <1>3, Zenon DEF EnginesActive, Range
<1>5. QED
    BY <1>2, <1>4

\* No cut is marked.
LEMMA CutsStay ==
    ASSUME TypeOK, CutsInView, ViewsGrow, cuts' = cuts PROVE CutsInView'
<1>1. SUFFICES ASSUME NEW ls \in LogSpaces, NEW k \in DOMAIN cuts[ls]
               PROVE  ViewOf(ls) < Len(views') /\ cuts[ls][k] \subseteq Range(View(ViewOf(ls)).engines)'
    BY Zenon DEF CutsInView
<1>2. ViewOf(ls) \in Nat
    BY DEF LogSpaces, ViewOf
<1>3. ViewOf(ls) < Len(views) /\ cuts[ls][k] \subseteq Range(View(ViewOf(ls)).engines)
    BY Zenon DEF CutsInView
<1>4. View(ViewOf(ls))' = View(ViewOf(ls)) /\ ViewOf(ls) < Len(views')
    BY <1>2, <1>3, ViewStays, Zenon
<1>5. QED
    BY <1>3, <1>4, Zenon DEF Range

\* A step that is about log spaces: messages are consumed and sent.
LEMMA LogStep ==
    ASSUME IInv, ControlRests, freezeDir' = freezeDir, NodesRest, TypeLogs', CutsInView',
           NEW new \in SUBSET Messages, \A m \in new : Addressed(m),
           net' \subseteq net \cup new, hold' = hold
    PROVE  IInv'
<1>1. TypeOK /\ ViewsAgree /\ MessagesAddressed
    BY Zenon DEF IInv
<1>2. TypeControl'
    BY <1>1, Zenon DEF TypeOK, TypeControl, ControlRests, ViewsRest
<1>3. TypeNodes'
    <2>1. net' \in SUBSET Messages
        BY <1>1 DEF TypeOK, TypeNodes
    <2>2. QED
        BY <1>1, <2>1, Zenon DEF TypeOK, TypeNodes, NodesRest
<1>4. ViewsAgree' /\ OneReconfig' /\ ViewsInOrder' /\ ViewsGrow /\ Watching' /\ EnginesActive'
    BY ControlStays, NodesStay, Zenon DEF ControlRests
<1>5. \A n \in Nodes : current[n] \in Int /\ current'[n] \in Int /\ current[n] <= current'[n]
    BY <1>1 DEF TypeOK, TypeNodes, NodesRest
<1>6. \A m \in Messages : Addressed(m) => Addressed(m)'
    BY <1>1, <1>4, <1>5, AddressedStays, Zenon
<1>7. MessagesAddressed'
    <2>1. \A m \in net' : m \in Messages /\ Addressed(m)
        BY <1>1, Zenon DEF MessagesAddressed, TypeOK, TypeNodes
    <2>2. \A n \in Nodes : \A m \in hold[n] : m \in Messages
        BY <1>1, Zenon DEF TypeOK, TypeNodes
    <2>3. QED
        BY <1>1, <1>6, <2>1, <2>2, Zenon DEF MessagesAddressed, NodesRest
<1>8. QED
    BY <1>2, <1>3, <1>4, <1>7, Zenon DEF IInv, TypeOK

\* A message that is held: it is of a view that its node has not installed.
LEMMA OnHoldStep ==
    ASSUME IInv, NEW m \in net, OnHoldRequest(m), ControlRests, freezeDir' = freezeDir, NodesRest
    PROVE  IInv'
<1>1. TypeOK /\ ViewsAgree /\ MessagesAddressed /\ CutsInView
    BY Zenon DEF IInv
<1>2. m \in Messages /\ m.to \in Nodes
    BY <1>1 DEF TypeOK, TypeNodes, Messages
<1>3. /\ net' = net \ {m} /\ cuts' = cuts /\ stored' = stored /\ got' = got
      /\ hold' = hold \/ hold' = [hold EXCEPT ![m.to] = @ \cup {m}]
      /\ ViewOf(m.ls) > current[m.to]
    <2>1. net' = net \ {m}
        BY DEF OnHoldRequest, Consume
    <2>2. QED
        BY <2>1, Zenon DEF OnHoldRequest, FromFuture
<1>4. TypeControl' /\ TypeLogs'
    BY <1>1, <1>3, Zenon DEF TypeOK, TypeControl, ControlRests, ViewsRest, TypeLogs
<1>5. hold \in [Nodes -> SUBSET Messages] /\ hold' \in [Nodes -> SUBSET Messages]
    BY <1>1, <1>2, <1>3 DEF TypeOK, TypeNodes
<1>6. TypeNodes'
    <2>1. net' \in SUBSET Messages
        BY <1>1, <1>3 DEF TypeOK, TypeNodes
    <2>2. QED
        BY <1>1, <1>5, <2>1, Zenon DEF TypeOK, TypeNodes, NodesRest
<1>7. ViewsAgree' /\ OneReconfig' /\ ViewsInOrder' /\ ViewsGrow /\ Watching' /\ EnginesActive' /\ CutsInView'
    BY <1>1, <1>3, ControlStays, NodesStay, CutsStay, Zenon DEF ControlRests
<1>8. \A n \in Nodes : current[n] \in Int /\ current'[n] \in Int /\ current[n] <= current'[n]
    BY <1>1 DEF TypeOK, TypeNodes, NodesRest
<1>9. \A x \in Messages : Addressed(x) => Addressed(x)'
    BY <1>1, <1>7, <1>8, AddressedStays, Zenon
<1>10. MessagesAddressed'
    <2>1. \A x \in net' : x \in Messages /\ Addressed(x)
        BY <1>1, <1>3, Zenon DEF MessagesAddressed, TypeOK, TypeNodes
    <2>2. ASSUME NEW n \in Nodes, NEW x \in hold'[n]
          PROVE  x \in Messages /\ Addressed(x) /\ x.to = n /\ ViewOf(x.ls) > current[n]
        <3>1. x \in hold[n] \/ (x = m /\ n = m.to)
            BY <1>2, <1>3, <1>5
        <3>2. CASE x \in hold[n]
            BY <1>1, <1>5, <3>2, Zenon DEF MessagesAddressed
        <3>3. CASE x = m /\ n = m.to
            BY <1>1, <1>2, <1>3, <3>3, Zenon DEF MessagesAddressed
        <3>4. QED
            BY <3>1, <3>2, <3>3, Zenon
    <2>3. QED
        BY <1>9, <2>1, <2>2, Zenon DEF MessagesAddressed, NodesRest
<1>11. QED
    BY <1>4, <1>6, <1>7, <1>10, Zenon DEF IInv, TypeOK

-----------------------------------------------------------------------------
(* The nodes learn of views.                                                *)

\* What is sent is a message.
LEMMA MsgIsMessage ==
    ASSUME NEW ls \in LogSpaces, NEW from \in Nodes, NEW to \in Nodes, NEW data
    PROVE  /\ \A t \in {"METALOGS", "INDEX_DATA"} :
                data \in Nat => Msg(t, ls, from, to, data) \in Messages
           /\ data \in SUBSET Nat => Msg("META_PROG", ls, from, to, data) \in Messages
           /\ \A t \in {"REPLICATE", "SHARD_PROG", "LOCAL_READ", "READ", "CONTINUE"} :
                data \in SUBSET Engines => Msg(t, ls, from, to, data) \in Messages
BY DEF Msg, Messages

\* What makes a message that is sent an addressed one.
LEMMA SentIsAddressed ==
    ASSUME NEW t, NEW v, NEW s, NEW from, NEW n, NEW data, t # "LOCAL_READ",
           v < Len(views), <<v, s>> \in Installed(n, v),
           t \in {"METALOGS", "META_PROG"} => v <= current[s],
           t \in {"SHARD_PROG", "META_PROG"} => n = s,
           t = "META_PROG" => from \in Sequencers,
           t = "REPLICATE" => from \in Engines /\ n \in Storages,
           t \in {"INDEX_DATA", "READ", "CONTINUE"} => n \in IndexEngineNodes(View(v), s)
    PROVE  Addressed(Msg(t, <<v, s>>, from, n, data))
<1> DEFINE x == Msg(t, <<v, s>>, from, n, data)
<1>1. x.type = t /\ x.ls = <<v, s>> /\ x.from = from /\ x.to = n /\ ViewOf(x.ls) = v /\ PrimaryOf(x.ls) = s
    BY DEF Msg, ViewOf, PrimaryOf
<1> HIDE DEF x
<1>2. Addressed(x)
    BY <1>1, Zenon DEF Addressed
<1>3. QED
    BY <1>2, Zenon DEF x

\* The znode that a watcher reports is the next one of the directory.
LEMMA NextZnode ==
    ASSUME IInv, NEW n \in Nodes, seen[n] < Len(viewDir)
    PROVE  /\ seen[n] \in Nat /\ seen[n] + 1 \in DOMAIN Znodes /\ viewDir[seen[n] + 1] = Znodes[seen[n] + 1]
           /\ viewDir[seen[n] + 1] \in Requests /\ OfView(viewDir[seen[n] + 1])
<1>1. /\ viewDir \in Seq(Requests) /\ creates \in Seq(Requests) /\ seen[n] \in Nat /\ ViewsInOrder
    BY Zenon DEF IInv, TypeOK, TypeControl, TypeNodes
<1>2. /\ seen[n] + 1 \in DOMAIN Znodes /\ viewDir[seen[n] + 1] = Znodes[seen[n] + 1]
      /\ viewDir[seen[n] + 1] \in Requests
    BY <1>1 DEF Znodes
<1>3. QED
    BY <1>1, <1>2, Zenon DEF ViewsInOrder

\* A node sees a znode that is not of a new view.
LEMMA OtherZnodeSeen ==
    ASSUME IInv, NEW n \in Nodes, seen[n] < Len(viewDir), viewDir[seen[n] + 1].kind # "new",
           seen' = [seen EXCEPT ![n] = @ + 1], current' = current, active' \subseteq active,
           ControlRests, freezeDir' \in Seq([view : Nat, tails : Tails]),
           hold' = hold, cuts' = cuts, TypeLogs',
           NEW new \in SUBSET Messages, \A m \in new : Addressed(m), net' \subseteq net \cup new
    PROVE  IInv'
<1>1. TypeOK /\ ViewsAgree /\ Watching /\ EnginesActive /\ CutsInView /\ MessagesAddressed
    BY Zenon DEF IInv
<1>2. /\ seen[n] \in Nat /\ seen[n] + 1 \in DOMAIN Znodes /\ viewDir[seen[n] + 1] = Znodes[seen[n] + 1]
    BY NextZnode, Zenon
<1>3. ViewsAgree' /\ OneReconfig' /\ ViewsInOrder' /\ ViewsGrow
    BY ControlStays, Zenon DEF ControlRests
<1>4. TypeControl'
    BY <1>1, Zenon DEF TypeOK, TypeControl, ControlRests, ViewsRest
<1>5. seen \in [Nodes -> Nat] /\ seen' \in [Nodes -> Nat]
    BY <1>1, <1>2 DEF TypeOK, TypeNodes
<1>6. TypeNodes'
    <2>1. active' \in SUBSET Engines
        BY <1>1, Zenon DEF TypeOK, TypeNodes
    <2>2. net' \in SUBSET Messages
        BY <1>1, Zenon DEF TypeOK, TypeNodes
    <2>3. QED
        BY <1>1, <1>5, <2>1, <2>2, Zenon DEF TypeOK, TypeNodes
<1>7. Watching'
    <2>1. Znodes' = Znodes /\ viewDir' = viewDir /\ views' = views /\ Len(viewDir) \in Nat
        <3>1. viewDir \in Seq(Requests)
            BY <1>1, Zenon DEF TypeOK, TypeControl
        <3>2. QED
            BY <3>1, Indices, Zenon DEF Znodes, ControlRests, ViewsRest
    <2>2. SUFFICES ASSUME NEW p \in Nodes
                   PROVE  /\ current[p] \in -1 .. Len(views) - 1 /\ seen'[p] <= Len(viewDir)
                          /\ \A i \in DOMAIN Znodes :
                               Znodes[i].kind = "new" => (i <= seen'[p] <=> Znodes[i].view <= current[p])
        BY <2>1, Zenon DEF Watching
    <2>3. /\ current[p] \in -1 .. Len(views) - 1 /\ seen[p] <= Len(viewDir)
          /\ \A i \in DOMAIN Znodes :
               Znodes[i].kind = "new" => (i <= seen[p] <=> Znodes[i].view <= current[p])
        BY <1>1, Zenon DEF Watching
    <2>4. CASE p # n
        <3>1. seen'[p] = seen[p]
            BY <1>5, <2>4
        <3>2. QED
            BY <2>3, <3>1, Zenon
    <2>5. CASE p = n
        <3>1. seen'[p] = seen[n] + 1 /\ seen'[p] <= Len(viewDir)
            BY <1>2, <1>5, <2>1, <2>5
        <3>2. ASSUME NEW i \in DOMAIN Znodes, Znodes[i].kind = "new"
              PROVE  i <= seen[n] + 1 <=> i <= seen[n]
            <4>1. i \in Nat /\ i # seen[n] + 1
                BY <1>1, <1>2, <3>2 DEF Znodes, TypeOK, TypeControl
            <4>2. QED
                BY <1>2, <4>1
        <3>3. QED
            BY <2>3, <2>5, <3>1, <3>2, Zenon
    <2>6. QED
        BY <2>4, <2>5, Zenon
<1>8. EnginesActive'
    <2>1. \A v : View(v)' = View(v)
        BY Zenon DEF View, ControlRests, ViewsRest
    <2>2. \A e \in active' : current[e] >= 0 /\ e \in Range(View(current[e]).engines)
        BY <1>1, Zenon DEF EnginesActive
    <2>3. QED
        BY <2>1, <2>2, Zenon DEF EnginesActive, Range
<1>9. CutsInView'
    BY <1>1, <1>3, CutsStay, Zenon
<1>10. \A m \in Messages : Addressed(m) => Addressed(m)'
    <2>1. \A p \in Nodes : current[p] \in Int /\ current'[p] \in Int /\ current[p] <= current'[p]
        BY <1>1 DEF TypeOK, TypeNodes
    <2>2. QED
        BY <1>1, <1>3, <2>1, AddressedStays, Zenon
<1>11. MessagesAddressed'
    <2>1. (\A m \in net : m \in Messages) /\ \A p \in Nodes : \A m \in hold[p] : m \in Messages
        BY <1>1, Zenon DEF TypeOK, TypeNodes
    <2>2. \A m \in net' : m \in Messages /\ Addressed(m)
        BY <1>1, <2>1, Zenon DEF MessagesAddressed
    <2>3. QED
        BY <1>1, <1>10, <2>1, <2>2, Zenon DEF MessagesAddressed
<1>12. QED
    BY <1>3, <1>4, <1>6, <1>7, <1>8, <1>9, <1>11, Zenon DEF IInv, TypeOK

\* A sequencer that freezes a view publishes its tails.
LEMMA FrozenSeen ==
    ASSUME IInv, NEW n \in Nodes, seen[n] < Len(viewDir), viewDir[seen[n] + 1].kind = "freeze",
           seen' = [seen EXCEPT ![n] = @ + 1], ControlRests,
           cuts' = cuts, stored' = stored,
           \/ SequencerViewFrozen(n, viewDir[seen[n] + 1].view)
           \/ EngineViewFrozen(n, viewDir[seen[n] + 1].view)
    PROVE  IInv'
<1>1. TypeOK /\ ViewsAgree
    BY Zenon DEF IInv
<1> DEFINE v == viewDir[seen[n] + 1].view
<1>2. v \in Nat /\ v < Len(views)
    <2>1. viewDir[seen[n] + 1] \in Requests /\ OfView(viewDir[seen[n] + 1])
        BY NextZnode, Zenon
    <2>2. v \in Nat
        BY <2>1 DEF Requests
    <2>3. QED
        BY <2>1, <2>2, Zenon DEF OfView
<1>3. /\ current' = current /\ hold' = hold /\ got' = got /\ net' = net /\ active' \subseteq active
    BY Zenon DEF SequencerViewFrozen, EngineViewFrozen
<1> DEFINE f == [view |-> v, tails |-> {[phylog |-> PrimaryOf(ls), from |-> n,
                                         position |-> MetalogPosition(ls, n)] : ls \in Installed(n, v)}]
<1>4. freezeDir' = freezeDir \/ (n \in Sequencers /\ freezeDir' = Append(freezeDir, f))
    BY Zenon DEF SequencerViewFrozen, EngineViewFrozen
<1> HIDE DEF v
<1>5. ASSUME n \in Sequencers PROVE f.tails \in Tails
    <2>1. ASSUME NEW ls \in Installed(n, v)
          PROVE  [phylog |-> PrimaryOf(ls), from |-> n, position |-> MetalogPosition(ls, n)] \in Tail0
        <3>1. PrimaryOf(ls) \in Sequencers /\ ls \in LogSpaces
            BY <1>1, <1>2, InstalledIsMember, Zenon
        <3>2. DOMAIN cuts[ls] \in SUBSET Nat /\ got[ls][n] \in SUBSET Nat
            <4>1. cuts[ls] \in Seq(SUBSET Engines) /\ got[ls][n] \in SUBSET Nat
                BY <1>1, <3>1, Zenon DEF TypeOK, TypeLogs
            <4>2. QED
                BY <4>1, Indices, Zenon
        <3>3. MetalogPosition(ls, n) \in SUBSET Nat
            BY <3>2, Zenon DEF MetalogPosition, Prefix
        <3>4. QED
            BY <1>5, <3>1, <3>3 DEF Tail0
    <2>2. QED
        BY <2>1, Zenon DEF Tails
<1>6. f.view = v /\ f = [view |-> f.view, tails |-> f.tails]
    BY Zenon
<1> HIDE DEF f
<1>7. freezeDir' \in Seq([view : Nat, tails : Tails])
    <2>1. freezeDir \in Seq([view : Nat, tails : Tails])
        BY <1>1, Zenon DEF TypeOK, TypeControl
    <2>2. CASE freezeDir' = freezeDir
        BY <2>1, <2>2, Zenon
    <2>3. CASE n \in Sequencers /\ freezeDir' = Append(freezeDir, f)
        <3>1. f \in [view : Nat, tails : Tails]
            BY <1>2, <1>5, <1>6, <2>3
        <3>2. ASSUME NEW T, NEW q \in Seq(T), NEW x \in T PROVE Append(q, x) \in Seq(T)
            OBVIOUS
        <3>3. QED
            BY <2>1, <2>3, <3>1, <3>2, Zenon
    <2>4. QED
        BY <1>4, <2>2, <2>3, Zenon
<1>8. TypeLogs'
    BY <1>1, <1>3, Zenon DEF TypeOK, TypeLogs
<1>9. viewDir[seen[n] + 1].kind # "new"
    OBVIOUS
<1>10. {} \in SUBSET Messages /\ (\A m \in {} : Addressed(m)) /\ net' \subseteq net \cup {}
    BY <1>3, Zenon
<1>11. QED
    BY <1>3, <1>7, <1>8, <1>9, <1>10, OtherZnodeSeen, Zenon

\* The index data that a storage node sends goes to engines with the index.
LEMMA IndexDataSent ==
    ASSUME TypeOK, ViewsAgree, NEW n \in Nodes, NEW v \in Nat, v < Len(views), NEW ls \in Installed(n, v),
           NEW e \in IndexEngineNodes(View(v), PrimaryOf(ls)), NEW k \in Nat
    PROVE  Msg("INDEX_DATA", ls, n, e, k) \in Messages /\ Addressed(Msg("INDEX_DATA", ls, n, e, k))
<1>1. PICK s : s = PrimaryOf(ls)
    BY Zenon
<1>2. ls \in LogSpaces /\ ls = <<v, s>> /\ s \in ActivePhylogs(View(v)) /\ e \in IndexEngineNodes(View(v), s)
    BY <1>1, InstalledIsMember, Zenon
<1>3. <<v, s>> \in LogSpaces /\ e \in Engines /\ e \in Nodes /\ <<v, s>> \in Installed(e, v)
    BY <1>2, InstalledFacts, KindsOfNodes, Zenon
<1>4. Msg("INDEX_DATA", <<v, s>>, n, e, k) \in Messages
    BY <1>3, MsgIsMessage, Zenon
<1>5. Addressed(Msg("INDEX_DATA", <<v, s>>, n, e, k))
    <2>1. \A t \in {"LOCAL_READ", "METALOGS", "META_PROG", "SHARD_PROG", "REPLICATE"} : t # "INDEX_DATA"
        OBVIOUS
    <2>2. QED
        BY <1>2, <1>3, <2>1, SentIsAddressed, Zenon
<1>6. QED
    BY <1>2, <1>4, <1>5, Zenon

\* A node is given the final tail of each log space it has.
LEMMA FinalizedSeen ==
    ASSUME IInv, NEW n \in Nodes, seen[n] < Len(viewDir), viewDir[seen[n] + 1].kind = "finalize",
           seen' = [seen EXCEPT ![n] = @ + 1], ControlRests,
           cuts' = cuts, stored' = stored,
           OnViewFinalized(n, viewDir[seen[n] + 1].view, viewDir[seen[n] + 1].positions,
                           viewDir[seen[n] + 1].tails)
    PROVE  IInv'
<1>1. TypeOK /\ ViewsAgree
    BY Zenon DEF IInv
<1> DEFINE v == viewDir[seen[n] + 1].view
           tails == viewDir[seen[n] + 1].tails
<1>2. v \in Nat /\ v < Len(views) /\ tails \in [ActivePhylogs(View(v)) -> SUBSET Nat]
    <2>1. viewDir[seen[n] + 1] \in Requests /\ OfView(viewDir[seen[n] + 1])
        BY NextZnode, Zenon
    <2>2. v \in Nat
        BY <2>1 DEF Requests
    <2>3. QED
        BY <2>1, <2>2, Zenon DEF OfView
<1> DEFINE new == UNION {IndexDataOf(ls, n, tails[PrimaryOf(ls)]) : ls \in Installed(n, v)}
<1>3. /\ current' = current /\ hold' = hold /\ net' \subseteq net \cup new /\ active' \subseteq active
      /\ freezeDir' = freezeDir
      /\ got' = [ls \in LogSpaces |->
                   IF ls \in Installed(n, v)
                     THEN [got[ls] EXCEPT ![n] = @ \cup tails[PrimaryOf(ls)]] ELSE got[ls]]
    BY Zenon DEF OnViewFinalized
<1> HIDE DEF v, tails
<1>4. ASSUME NEW ls \in Installed(n, v) PROVE tails[PrimaryOf(ls)] \in SUBSET Nat
    <2>1. PrimaryOf(ls) \in ActivePhylogs(View(v))
        BY <1>1, <1>2, InstalledIsMember, Zenon
    <2>2. QED
        BY <1>2, <2>1
<1>5. got' \in [LogSpaces -> [Nodes -> SUBSET Nat]]
    <2>1. got \in [LogSpaces -> [Nodes -> SUBSET Nat]]
        BY <1>1, Zenon DEF TypeOK, TypeLogs
    <2>2. ASSUME NEW ls \in LogSpaces, ls \in Installed(n, v)
          PROVE  [got[ls] EXCEPT ![n] = @ \cup tails[PrimaryOf(ls)]] \in [Nodes -> SUBSET Nat]
        <3>1. PICK h \in [Nodes -> SUBSET Nat] : h = got[ls]
            BY <2>1
        <3>2. h[n] \cup tails[PrimaryOf(ls)] \in SUBSET Nat
            BY <1>4, <2>2, <3>1, Zenon
        <3>3. [h EXCEPT ![n] = @ \cup tails[PrimaryOf(ls)]] \in [Nodes -> SUBSET Nat]
            BY <3>2, Zenon
        <3>4. QED
            BY <3>1, <3>3, Zenon
    <2>3. QED
        BY <1>3, <2>1, <2>2, Zenon
<1>6. TypeLogs'
    BY <1>1, <1>5, Zenon DEF TypeOK, TypeLogs
<1>7. ASSUME NEW m \in new PROVE m \in Messages /\ Addressed(m)
    <2>1. PICK ls \in Installed(n, v) : m \in IndexDataOf(ls, n, tails[PrimaryOf(ls)])
        BY <1>7, Zenon
    <2>2. PICK e \in IndexEngineNodes(View(ViewOf(ls)), PrimaryOf(ls)), k \in tails[PrimaryOf(ls)] :
            m = Msg("INDEX_DATA", ls, n, e, k)
        BY <2>1 DEF IndexDataOf
    <2>3. k \in Nat /\ ViewOf(ls) = v
        BY <1>1, <1>2, <1>4, <2>2, InstalledIsMember, Zenon
    <2>4. QED
        BY <1>1, <1>2, <2>2, <2>3, IndexDataSent, Zenon
<1>8. viewDir[seen[n] + 1].kind # "new" /\ freezeDir' \in Seq([view : Nat, tails : Tails])
    <2>1. viewDir[seen[n] + 1].kind # "new"
        OBVIOUS
    <2>2. QED
        BY <1>1, <1>3, <2>1, Zenon DEF TypeOK, TypeControl
<1> HIDE DEF new
<1>9. new \in SUBSET Messages /\ (\A m \in new : Addressed(m)) /\ net' \subseteq net \cup new
    BY <1>3, <1>7, Zenon
<1>10. QED
    BY <1>3, <1>6, <1>8, <1>9, OtherZnodeSeen, Zenon

\* The next znode of a new view is of the next view: a node installs views one
\* after the other.
LEMMA NextViewIsNext ==
    ASSUME IInv, NEW n \in Nodes, seen[n] < Len(viewDir), viewDir[seen[n] + 1].kind = "new"
    PROVE  /\ viewDir[seen[n] + 1].view = current[n] + 1 /\ current[n] \in Int
           /\ current[n] + 1 \in Nat /\ current[n] + 1 < Len(views)
<1>1. ViewsInOrder /\ Watching /\ Len(views) \in Nat /\ Znodes \in Seq(Requests)
    <2>1. viewDir \in Seq(Requests) /\ creates \in Seq(Requests) /\ views \in Seq(GoodConfiguration)
        BY Zenon DEF IInv, TypeOK, TypeControl
    <2>2. QED
        BY <2>1 DEF IInv, Znodes
<1>2. PICK i : i = seen[n] + 1
    BY Zenon
<1>3. /\ seen[n] \in Nat /\ i \in DOMAIN Znodes /\ viewDir[i] = Znodes[i] /\ OfView(viewDir[i])
      /\ viewDir[i] \in Requests /\ viewDir[i].kind = "new"
    BY <1>2, NextZnode, Zenon
<1>4. Znodes[i].view \in Nat /\ Znodes[i].view < Len(views) /\ Znodes[i].kind = "new" /\ i \in Nat /\ i = seen[n] + 1
    BY <1>1, <1>2, <1>3 DEF OfView, Requests
<1>5. current[n] \in -1 .. Len(views) - 1
    BY <1>1, Zenon DEF Watching
<1>6. Znodes[i].view > current[n]
    <2>1. i <= seen[n] <=> Znodes[i].view <= current[n]
        BY <1>1, <1>3, <1>4, Zenon DEF Watching
    <2>2. QED
        BY <1>1, <1>3, <1>4, <1>5, <2>1
<1>7. current[n] + 1 \in 0 .. Len(views) - 1 /\ current[n] \in Int
    BY <1>1, <1>4, <1>5, <1>6
<1>8. PICK j \in DOMAIN Znodes : Znodes[j].kind = "new" /\ Znodes[j].view = current[n] + 1
    BY <1>1, <1>7, Zenon DEF ViewsInOrder
<1>9. j \in Nat /\ ~(j <= seen[n])
    <2>1. j <= seen[n] <=> Znodes[j].view <= current[n]
        BY <1>1, <1>8, Zenon DEF Watching
    <2>2. ~(current[n] + 1 <= current[n]) /\ j \in Nat
        BY <1>1, <1>7
    <2>3. QED
        BY <1>8, <2>1, <2>2, Zenon
<1>10. ~(i < j)
    <2>1. i < j => Znodes[i].view < Znodes[j].view
        BY <1>1, <1>3, <1>4, <1>8, Zenon DEF ViewsInOrder
    <2>2. QED
        BY <1>4, <1>6, <1>7, <1>8, <2>1
<1>11. i = j
    BY <1>3, <1>4, <1>9, <1>10
<1>12. QED
    <2>1. current[n] + 1 \in Nat /\ current[n] + 1 < Len(views)
        BY <1>1, <1>7
    <2>2. viewDir[i].view = current[n] + 1
        BY <1>3, <1>8, <1>11, Zenon
    <2>3. QED
        BY <1>2, <1>7, <2>1, <2>2, Zenon

\* A node installs the next view: what it held for it is back in flight, and what it
\* still holds is of a later one.
LEMMA NewViewSeen ==
    ASSUME IInv, NEW n \in Nodes, seen[n] < Len(viewDir), viewDir[seen[n] + 1].kind = "new",
           seen' = [seen EXCEPT ![n] = @ + 1], ControlRests,
           cuts' = cuts, stored' = stored,
           InstallNextView(n, viewDir[seen[n] + 1].view),
           active' \subseteq active \/
             (active' = active \cup {n} /\ n \in Range(View(viewDir[seen[n] + 1].view).engines))
    PROVE  IInv'
<1>1. TypeOK /\ ViewsAgree /\ ViewsInOrder /\ Watching /\ EnginesActive /\ CutsInView /\ MessagesAddressed
    BY Zenon DEF IInv
<1> DEFINE v == viewDir[seen[n] + 1].view
           ready == {m \in hold[n] : ViewOf(m.ls) = v}
<1>2. /\ hold' = [hold EXCEPT ![n] = @ \ ready] /\ net' \subseteq net \cup ready
      /\ current' = [current EXCEPT ![n] = v] /\ freezeDir' = freezeDir /\ got' = got
    BY Zenon DEF InstallNextView, OnNewView, Unhold
<1>3. v = current[n] + 1 /\ current[n] \in Int /\ v \in Nat /\ v < Len(views)
    BY NextViewIsNext, Zenon
<1>4. /\ active' \subseteq active \/ (active' = active \cup {n} /\ n \in Range(View(v).engines))
    BY Zenon
<1>5. PICK i : i = seen[n] + 1
    BY Zenon
<1>6. /\ seen[n] \in Nat /\ i \in DOMAIN Znodes /\ Znodes[i].kind = "new" /\ Znodes[i].view = v
    BY <1>5, NextZnode, Zenon
<1> HIDE DEF v
<1>7. ViewsAgree' /\ OneReconfig' /\ ViewsInOrder' /\ ViewsGrow /\ views' = views /\ viewDir' = viewDir
    BY ControlStays, Zenon DEF ControlRests, ViewsRest
<1>8. TypeControl' /\ TypeLogs'
    BY <1>1, <1>2, Zenon DEF TypeOK, TypeControl, TypeLogs, ControlRests, ViewsRest
<1>9. /\ seen \in [Nodes -> Nat] /\ seen' \in [Nodes -> Nat]
      /\ current \in [Nodes -> Int] /\ current' \in [Nodes -> Int]
    BY <1>1, <1>2, <1>3, <1>6 DEF TypeOK, TypeNodes
<1>10. hold \in [Nodes -> SUBSET Messages] /\ hold' \in [Nodes -> SUBSET Messages]
    <2>1. hold \in [Nodes -> SUBSET Messages]
        BY <1>1, Zenon DEF TypeOK, TypeNodes
    <2> HIDE DEF ready
    <2>2. QED
        BY <1>2, <2>1
<1>11. View(v) \in GoodConfiguration /\ Range(View(v).engines) \subseteq Engines /\ SameNodes(View(v))
    BY <1>1, <1>3, ViewFacts, ConfigurationFacts, Zenon
<1>12. TypeNodes'
    <2>1. net' \in SUBSET Messages
        BY <1>1, <1>2, <1>10, Zenon DEF TypeOK, TypeNodes
    <2>2. active' \in SUBSET Engines
        BY <1>1, <1>4, <1>11, Zenon DEF TypeOK, TypeNodes
    <2>3. QED
        BY <1>9, <1>10, <2>1, <2>2, Zenon DEF TypeNodes
<1>13. \A p \in Nodes : current[p] \in Int /\ current'[p] \in Int /\ current[p] <= current'[p]
    BY <1>2, <1>3, <1>9
<1>14. \A p \in Nodes : p # n => current'[p] = current[p] /\ seen'[p] = seen[p] /\ hold'[p] = hold[p]
    BY <1>2, <1>9, <1>10, Zenon
<1>15. current'[n] = v /\ seen'[n] = seen[n] + 1 /\ hold'[n] = hold[n] \ ready
    BY <1>2, <1>9, <1>10, Zenon
<1>16. Watching'
    <2>1. Znodes' = Znodes /\ Len(viewDir) \in Nat /\ Len(views) \in Nat /\ Znodes \in Seq(Requests)
        <3>1. viewDir \in Seq(Requests) /\ creates \in Seq(Requests) /\ views \in Seq(GoodConfiguration)
            BY <1>1, Zenon DEF TypeOK, TypeControl
        <3>2. viewDir' = viewDir /\ creates' = creates
            BY Zenon DEF ControlRests, ViewsRest
        <3>3. ASSUME NEW T, NEW q \in Seq(T), NEW r \in Seq(T) PROVE q \o r \in Seq(T) /\ Len(q) \in Nat
            OBVIOUS
        <3>4. Znodes \in Seq(Requests) /\ Len(viewDir) \in Nat /\ Len(views) \in Nat
            BY <3>1, <3>3, Zenon DEF Znodes
        <3>5. QED
            BY <3>2, <3>4, Zenon DEF Znodes
    <2>2. SUFFICES ASSUME NEW p \in Nodes
                   PROVE  /\ current'[p] \in -1 .. Len(views) - 1 /\ seen'[p] <= Len(viewDir)
                          /\ \A k \in DOMAIN Znodes :
                               Znodes[k].kind = "new" => (k <= seen'[p] <=> Znodes[k].view <= current'[p])
        BY <1>7, <2>1, Zenon DEF Watching
    <2>3. CASE p # n
        BY <1>1, <1>14, <2>3, Zenon DEF Watching
    <2>4. CASE p = n
        <3>1. v \in -1 .. Len(views) - 1 /\ seen[n] + 1 <= Len(viewDir)
            BY <1>3, <1>6, <2>1
        <3>2. ASSUME NEW k \in DOMAIN Znodes, Znodes[k].kind = "new" PROVE k <= i <=> Znodes[k].view <= v
            <4>1. k \in Nat /\ i \in Nat /\ Znodes[k].view \in Nat
                BY <1>6, <2>1 DEF Requests
            <4>2. k < i => Znodes[k].view < v
                BY <1>1, <1>6, <3>2, Zenon DEF ViewsInOrder
            <4>3. i < k => v < Znodes[k].view
                BY <1>1, <1>6, <3>2, Zenon DEF ViewsInOrder
            <4>4. k = i => Znodes[k].view = v
                BY <1>6, Zenon
            <4>5. QED
                BY <1>3, <4>1, <4>2, <4>3, <4>4
        <3>3. QED
            BY <1>5, <1>15, <2>4, <3>1, <3>2, Zenon
    <2>5. QED
        BY <2>3, <2>4, Zenon
<1>17. EnginesActive'
    <2>1. SUFFICES ASSUME NEW e \in active' PROVE current'[e] >= 0 /\ e \in Range(View(current[e]).engines)'
        BY Zenon DEF EnginesActive
    <2>2. e \in Nodes
        BY <1>12, KindsOfNodes, Zenon DEF TypeNodes
    <2>3. PICK c : c = current'[e]
        BY Zenon
    <2>4. c >= 0 /\ e \in Range(View(c).engines)
        <3>1. CASE e # n
            <4>1. c = current[e] /\ e \in active
                BY <1>4, <1>14, <2>2, <2>3, <3>1, Zenon
            <4>2. QED
                BY <1>1, <4>1, Zenon DEF EnginesActive
        <3>2. CASE e = n
            <4>1. c = v /\ v >= 0
                BY <1>3, <1>15, <2>3, <3>2, Numbers, Zenon
            <4>2. CASE e \in active
                <5>1. current[n] >= 0 /\ n \in Range(View(current[n]).engines)
                    BY <1>1, <3>2, <4>2, Zenon DEF EnginesActive
                <5>2. PICK d \in Nat : d = current[n] /\ d < Len(views)
                    <6>1. current[n] \in Nat /\ current[n] < Len(views)
                        <7>1. Len(views) \in Nat
                            BY <1>1, Indices, Zenon DEF TypeOK, TypeControl
                        <7>2. QED
                            BY <1>3, <5>1, <7>1
                    <6>2. QED
                        BY <6>1, Zenon
                <5>3. SameNodes(View(d))
                    BY <1>1, <5>2, ViewFacts, Zenon
                <5>4. QED
                    BY <1>11, <3>2, <4>1, <5>1, <5>2, <5>3, Zenon DEF SameNodes
            <4>3. CASE e \notin active
                BY <1>4, <3>2, <4>1, <4>3, Zenon
            <4>4. QED
                BY <4>2, <4>3, Zenon
        <3>3. QED
            BY <3>1, <3>2, Zenon
    <2>5. View(c)' = View(c)
        BY <1>7, Zenon DEF View
    <2>6. QED
        BY <2>3, <2>4, <2>5, Zenon DEF View, Range
<1>18. CutsInView'
    BY <1>1, <1>7, CutsStay, Zenon
<1>19. \A m \in Messages : Addressed(m) => Addressed(m)'
    BY <1>1, <1>7, <1>13, AddressedStays, Zenon
<1>20. MessagesAddressed'
    <2>1. \A m \in net' : m \in Messages /\ Addressed(m)
        BY <1>1, <1>2, <1>10, Zenon DEF MessagesAddressed, TypeOK, TypeNodes
    <2>2. ASSUME NEW p \in Nodes, NEW m \in hold'[p]
          PROVE  m \in Messages /\ Addressed(m) /\ m.to = p /\ ViewOf(m.ls) > current'[p]
        <3>1. m \in Messages
            BY <1>10, Zenon
        <3>2. CASE p # n
            BY <1>1, <1>14, <2>2, <3>1, <3>2, Zenon DEF MessagesAddressed
        <3>3. CASE p = n
            <4>1. m \in hold[n] /\ ViewOf(m.ls) # v
                BY <1>15, <2>2, <3>3, Zenon
            <4>2. Addressed(m) /\ m.to = n /\ ViewOf(m.ls) > current[n]
                BY <1>1, <4>1, Zenon DEF MessagesAddressed
            <4>3. ViewOf(m.ls) \in Nat
                BY <3>1 DEF Messages, LogSpaces, ViewOf
            <4>4. ViewOf(m.ls) > v
                BY <1>3, <4>1, <4>2, <4>3, Numbers, Zenon
            <4>5. QED
                BY <1>15, <3>1, <3>3, <4>2, <4>4, Zenon
        <3>4. QED
            BY <3>2, <3>3, Zenon
    <2>3. QED
        BY <1>19, <2>1, <2>2, Zenon DEF MessagesAddressed
<1>21. QED
    BY <1>7, <1>8, <1>12, <1>16, <1>17, <1>18, <1>20, Zenon DEF IInv, TypeOK

\* The watcher of a node reports a znode.
LEMMA ZNodeCreatedStep ==
    ASSUME IInv, NEW n \in Nodes, OnZNodeCreated(n) PROVE IInv'
<1> DEFINE z == viewDir[seen[n] + 1]
<1>1. seen[n] < Len(viewDir) /\ seen' = [seen EXCEPT ![n] = @ + 1]
    BY Zenon DEF OnZNodeCreated
<1>2. ControlRests /\ cuts' = cuts /\ stored' = stored
    BY Zenon DEF OnZNodeCreated, controller, ControlRests, ViewsRest
<1>3. \/ z.kind = "new" /\ (SequencerViewCreated(n, z.view) \/ StorageViewCreated(n, z.view) \/ EngineViewCreated(n, z.view))
      \/ z.kind = "freeze" /\ (SequencerViewFrozen(n, z.view) \/ EngineViewFrozen(n, z.view))
      \/ z.kind = "finalize" /\ OnViewFinalized(n, z.view, z.positions, z.tails)
    BY Zenon DEF OnZNodeCreated
<1>4. CASE z.kind = "new" /\ (SequencerViewCreated(n, z.view) \/ StorageViewCreated(n, z.view) \/ EngineViewCreated(n, z.view))
    <2>1. /\ InstallNextView(n, z.view)
          /\ active' \subseteq active \/ (active' = active \cup {n} /\ n \in Range(View(z.view).engines))
        BY <1>4, Zenon DEF SequencerViewCreated, StorageViewCreated, EngineViewCreated
    <2>2. QED
        BY <1>1, <1>2, <1>4, <2>1, NewViewSeen, Zenon
<1>5. CASE z.kind = "freeze" /\ (SequencerViewFrozen(n, z.view) \/ EngineViewFrozen(n, z.view))
    BY <1>1, <1>2, <1>5, FrozenSeen, Zenon
<1>6. CASE z.kind = "finalize" /\ OnViewFinalized(n, z.view, z.positions, z.tails)
    BY <1>1, <1>2, <1>6, FinalizedSeen, Zenon
<1>7. QED
    BY <1>3, <1>4, <1>5, <1>6, Zenon

-----------------------------------------------------------------------------
(* The controller and ZooKeeper.                                            *)

\* The nodes and the log spaces do nothing.
LogsRest ==
    /\ NodesRest /\ hold' = hold /\ net' = net
    /\ cuts' = cuts /\ stored' = stored /\ got' = got
LEMMA ControlStep ==
    ASSUME IInv, LogsRest, ViewsGrow, TypeControl', ViewsAgree', OneReconfig', ViewsInOrder', Watching'
    PROVE  IInv'
<1>1. TypeOK /\ ViewsAgree /\ CutsInView /\ Watching /\ EnginesActive /\ MessagesAddressed
    BY Zenon DEF IInv
<1>2. TypeNodes' /\ TypeLogs'
    BY <1>1, Zenon DEF TypeOK, TypeNodes, TypeLogs, LogsRest, NodesRest
<1>3. CutsInView'
    BY <1>1, CutsStay, Zenon DEF LogsRest
<1>4. EnginesActive'
    <2>1. SUFFICES ASSUME NEW e \in active PROVE current[e] >= 0 /\ e \in Range(View(current[e]).engines)'
        BY Zenon DEF EnginesActive, LogsRest, NodesRest
    <2>2. current[e] >= 0 /\ e \in Range(View(current[e]).engines)
        BY <1>1, Zenon DEF EnginesActive
    <2>3. current[e] \in Nat /\ current[e] < Len(views)
        <3>1. current[e] \in -1 .. Len(views) - 1 /\ Len(views) \in Nat
            BY <1>1, KindsOfNodes DEF Watching, TypeOK, TypeControl, TypeNodes
        <3>2. QED
            BY <2>2, <3>1
    <2>4. PICK c \in Nat : c = current[e] /\ c = current'[e] /\ View(c)' = View(c)
        BY <1>1, <2>3, ViewStays, Zenon DEF LogsRest, NodesRest
    <2>5. View(current[e])' = View(current[e])
        BY <2>4, Zenon DEF View
    <2>6. QED
        BY <2>2, <2>5, Zenon DEF Range
<1>5. \A n \in Nodes : current[n] \in Int /\ current'[n] \in Int /\ current[n] <= current'[n]
    BY <1>1 DEF TypeOK, TypeNodes, LogsRest, NodesRest
<1>6. \A m \in Messages : Addressed(m) => Addressed(m)'
    BY <1>1, <1>5, AddressedStays, Zenon
<1>7. MessagesAddressed'
    <2>1. (\A m \in net : m \in Messages) /\ \A n \in Nodes : \A m \in hold[n] : m \in Messages
        BY <1>1, Zenon DEF TypeOK, TypeNodes
    <2>2. QED
        BY <1>1, <1>6, <2>1, Zenon DEF MessagesAddressed, LogsRest, NodesRest
<1>8. QED
    BY <1>2, <1>3, <1>4, <1>7, Zenon DEF IInv, TypeOK

\* The watcher reports that a node comes or goes.
LEMMA NodeOnlineStep ==
    ASSUME IInv, NEW n \in Nodes, OnNodeOnline(n) \/ OnNodeOffline(n) PROVE IInv'
<1>1. ViewsRest /\ LogsRest /\ freezeSeen' = freezeSeen /\ freezeDir' = freezeDir
    BY DEF OnNodeOnline, OnNodeOffline, zk, nodes, logs, ViewsRest, LogsRest, NodesRest
<1>2. online' \in SUBSET Nodes
    BY DEF OnNodeOnline, OnNodeOffline, IInv, TypeOK, TypeControl
<1>3. TypeControl'
    BY <1>1, <1>2, Zenon DEF ViewsRest, IInv, TypeOK, TypeControl
<1>4. ViewsAgree' /\ OneReconfig' /\ ViewsInOrder' /\ Watching' /\ ViewsGrow
    BY <1>1, ControlStays, NodesStay, Zenon DEF LogsRest
<1>5. QED
    BY <1>1, <1>3, <1>4, ControlStep, Zenon

\* A request to the view directory joins the znodes at the end.
LEMMA ZnodesGrow ==
    ASSUME TypeOK, NEW z \in Requests, creates' = Append(creates, z), viewDir' = viewDir
    PROVE  /\ Znodes \in Seq(Requests) /\ Len(Znodes) = Len(viewDir) + Len(creates)
           /\ Znodes' = Append(Znodes, z) /\ DOMAIN Znodes' = 1 .. Len(Znodes) + 1
           /\ \A i \in DOMAIN Znodes : i \in DOMAIN Znodes' /\ Znodes'[i] = Znodes[i]
           /\ Znodes'[Len(Znodes) + 1] = z
<1>1. viewDir \in Seq(Requests) /\ creates \in Seq(Requests)
    BY Zenon DEF TypeOK, TypeControl
<1>2. Znodes \in Seq(Requests) /\ Len(Znodes) = Len(viewDir) + Len(creates)
    BY <1>1 DEF Znodes
<1>3. Znodes' = Append(Znodes, z)
    BY <1>1 DEF Znodes
<1>4. QED
    BY <1>2, <1>3

\* A znode is still of its view when views are added.
LEMMA OfViewStays ==
    ASSUME TypeOK, ViewsGrow, NEW z \in Requests, OfView(z) PROVE OfView(z)'
<1>1. z.view \in Nat /\ z.view < Len(views)
    BY DEF Requests, OfView
<1>2. View(z.view)' = View(z.view) /\ z.view < Len(views')
    BY <1>1, ViewStays, Zenon
<1>3. ActivePhylogs(View(z.view))' = ActivePhylogs(View(z.view))
    BY <1>2, Zenon DEF ActivePhylogs
<1>4. QED
    BY <1>2, <1>3, Zenon DEF OfView

\* The znode of a new view comes last: no node has seen it.
LEMMA NewViewInOrder ==
    ASSUME IInv, NEW w \in GoodConfiguration, views' = Append(views, w),
           creates' = Append(creates, [kind |-> "new", view |-> Len(views)]), viewDir' = viewDir, NodesRest
    PROVE  ViewsInOrder' /\ Watching'
<1> DEFINE z == [kind |-> "new", view |-> Len(views)]
<1>1. TypeOK /\ ViewsInOrder /\ Watching /\ ViewsGrow
    BY Zenon DEF IInv, ViewsGrow
<1>2. views \in Seq(GoodConfiguration) /\ Len(views) \in Nat /\ Len(views') = Len(views) + 1 /\ viewDir \in Seq(Requests)
      /\ creates \in Seq(Requests)
    BY <1>1 DEF TypeOK, TypeControl
<1>3. z \in Requests /\ z.kind = "new" /\ z.view = Len(views) /\ z.kind # "finalize"
    BY <1>2 DEF Requests
<1> HIDE DEF z
<1>4. creates' = Append(creates, z)
    BY Zenon DEF z
<1>5. /\ Znodes \in Seq(Requests) /\ Len(Znodes) = Len(viewDir) + Len(creates)
      /\ DOMAIN Znodes' = 1 .. Len(Znodes) + 1
      /\ \A i \in DOMAIN Znodes : i \in DOMAIN Znodes' /\ Znodes'[i] = Znodes[i]
      /\ Znodes'[Len(Znodes) + 1] = z
    BY <1>1, <1>3, <1>4, ZnodesGrow
<1>6. \A i \in DOMAIN Znodes : Znodes[i].view \in Nat
    BY <1>5 DEF Requests
<1> DEFINE last == Len(Znodes) + 1
<1>7. last \in Nat /\ \A i \in DOMAIN Znodes' : i = last \/ i \in DOMAIN Znodes
    BY <1>5
<1>8. \A i \in DOMAIN Znodes : i \in Nat /\ i < last
    BY <1>5
<1>9. Znodes'[last] = z /\ last \in DOMAIN Znodes'
    BY <1>5
<1> HIDE DEF last
<1>10. ASSUME NEW i \in DOMAIN Znodes' PROVE OfView(Znodes[i])'
    <2>1. CASE i = last
        <3>1. z.view < Len(views') /\ z.kind # "finalize"
            BY <1>2, <1>3
        <3>2. QED
            BY <1>9, <2>1, <3>1, Zenon DEF OfView
    <2>2. CASE i \in DOMAIN Znodes
        <3>1. PICK y \in Requests : y = Znodes[i] /\ y = Znodes'[i]
            BY <1>5, <2>2
        <3>2. OfView(y)'
            BY <1>1, <2>2, <3>1, OfViewStays, Zenon DEF ViewsInOrder
        <3>3. QED
            BY <3>1, <3>2, Zenon DEF OfView, View, ActivePhylogs
    <2>3. QED
        BY <1>7, <2>1, <2>2, Zenon
<1>11. ASSUME NEW i \in DOMAIN Znodes', NEW j \in DOMAIN Znodes', i < j,
              Znodes'[i].kind = "new", Znodes'[j].kind = "new"
       PROVE  Znodes'[i].view < Znodes'[j].view
    <2>1. i \in DOMAIN Znodes
        BY <1>5, <1>7, <1>11 DEF last
    <2>2. Znodes'[i] = Znodes[i] /\ Znodes[i].view < Len(views)
        BY <1>1, <1>5, <2>1, Zenon DEF ViewsInOrder, OfView
    <2>3. CASE j = last
        BY <1>3, <1>9, <2>2, <2>3, Zenon
    <2>4. CASE j \in DOMAIN Znodes
        BY <1>1, <1>5, <1>11, <2>1, <2>4, Zenon DEF ViewsInOrder
    <2>5. QED
        BY <1>7, <2>3, <2>4, Zenon
<1>12. ASSUME NEW v \in 0 .. Len(views') - 1
       PROVE  \E i \in DOMAIN Znodes' : Znodes'[i].kind = "new" /\ Znodes'[i].view = v
    <2>1. CASE v = Len(views)
        BY <1>3, <1>9, <2>1, Zenon
    <2>2. CASE v # Len(views)
        <3>1. v \in 0 .. Len(views) - 1
            BY <1>2, <2>2
        <3>2. QED
            BY <1>1, <1>5, <3>1, Zenon DEF ViewsInOrder
    <2>3. QED
        BY <2>1, <2>2, Zenon
<1>13. ViewsInOrder'
    BY <1>10, <1>11, <1>12, Zenon DEF ViewsInOrder
<1>14. ASSUME NEW n \in Nodes, NEW i \in DOMAIN Znodes', Znodes'[i].kind = "new"
       PROVE  i <= seen[n] <=> Znodes'[i].view <= current[n]
    <2>1. /\ current[n] \in -1 .. Len(views) - 1 /\ seen[n] <= Len(viewDir) /\ seen[n] \in Nat
        BY <1>1, Zenon DEF Watching, TypeOK, TypeNodes
    <2>2. CASE i = last
        <3>1. last > seen[n]
            BY <1>2, <1>5, <2>1 DEF last
        <3>2. Znodes'[i].view > current[n]
            BY <1>2, <1>3, <1>9, <2>1, <2>2
        <3>3. QED
            BY <1>2, <1>3, <1>7, <1>9, <2>1, <2>2, <3>1, <3>2
    <2>3. CASE i \in DOMAIN Znodes
        BY <1>1, <1>5, <1>14, <2>3, Zenon DEF Watching
    <2>4. QED
        BY <1>7, <2>2, <2>3, Zenon
<1>15. ASSUME NEW n \in Nodes
       PROVE  current[n] \in -1 .. Len(views') - 1 /\ seen[n] <= Len(viewDir)
    <2>1. current[n] \in -1 .. Len(views) - 1 /\ seen[n] <= Len(viewDir)
        BY <1>1, Zenon DEF Watching
    <2>2. QED
        BY <1>2, <2>1
<1>16. Watching'
    BY <1>14, <1>15, Zenon DEF Watching, NodesRest
<1>17. QED
    BY <1>13, <1>16

\* A znode that freezes or finalizes a view leaves the order of the new ones.
LEMMA OtherZnodeInOrder ==
    ASSUME IInv, views' = views, NEW z \in Requests, z.kind # "new", OfView(z),
           creates' = Append(creates, z), viewDir' = viewDir, NodesRest
    PROVE  ViewsInOrder' /\ Watching'
<1>1. TypeOK /\ ViewsInOrder /\ Watching /\ ViewsGrow
    BY Zenon DEF IInv, ViewsGrow
<1>2. /\ Znodes \in Seq(Requests) /\ DOMAIN Znodes' = 1 .. Len(Znodes) + 1
      /\ \A i \in DOMAIN Znodes : i \in DOMAIN Znodes' /\ Znodes'[i] = Znodes[i]
      /\ Znodes'[Len(Znodes) + 1] = z
    BY <1>1, ZnodesGrow
<1>3. \A i \in DOMAIN Znodes' : Znodes'[i] = z \/ i \in DOMAIN Znodes
    BY <1>2
<1>4. ASSUME NEW i \in DOMAIN Znodes' PROVE OfView(Znodes[i])'
    <2>1. PICK y \in Requests : y = Znodes'[i] /\ OfView(y)
        <3>1. CASE Znodes'[i] = z
            BY <3>1
        <3>2. CASE i \in DOMAIN Znodes
            <4>1. Znodes[i] \in Requests
                BY <1>2, <3>2
            <4>2. QED
                BY <1>1, <1>2, <3>2, <4>1, Zenon DEF ViewsInOrder
        <3>3. QED
            BY <1>3, <3>1, <3>2, Zenon
    <2>2. OfView(y)'
        BY <1>1, <2>1, OfViewStays, Zenon
    <2>3. OfView(y)' <=> OfView(Znodes[i])'
        BY <2>1 DEF OfView
    <2>4. QED
        BY <2>2, <2>3
<1>5. ViewsInOrder'
    BY <1>1, <1>2, <1>3, <1>4, Zenon DEF ViewsInOrder
<1>6. Watching'
    BY <1>1, <1>2, <1>3, Zenon DEF Watching, NodesRest
<1>7. QED
    BY <1>5, <1>6

\* Before "start" there is nothing, and afterwards there is a view.
LEMMA BeforeStart ==
    ASSUME IInv, state = "Created"
    PROVE  views = <<>> /\ seal = None /\ ~acked /\ \A i \in DOMAIN creates : ~Finalizing(i)
<1>1. views = <<>>
    BY Zenon DEF IInv, ViewsAgree
<1>2. ~Waiting
    BY DEF Waiting
<1>3. QED
    BY <1>1, <1>2, Zenon DEF IInv, OneReconfig

\* A request that is not the end of a view leaves none among the requests.
LEMMA NoneFinalizing ==
    ASSUME TypeOK, \A i \in DOMAIN creates : ~Finalizing(i), NEW z, z.kind # "finalize",
           creates' = Append(creates, z)
    PROVE  \A i \in DOMAIN creates' : ~Finalizing(i)'
<1>1. creates \in Seq(Requests)
    BY Zenon DEF TypeOK, TypeControl
<1>2. ASSUME NEW i \in DOMAIN creates'
      PROVE  (i \in DOMAIN creates /\ creates'[i] = creates[i]) \/ creates'[i] = z
    BY <1>1
<1>3. QED
    BY <1>2, Zenon DEF Finalizing

\* "start": the first view.
LEMMA StartStep ==
    ASSUME IInv, StartCommandHandler PROVE IInv'
<1>1. TypeOK /\ state = "Created"
    BY Zenon DEF IInv, StartCommandHandler
<1>2. views = <<>> /\ seal = None /\ ~acked /\ \A i \in DOMAIN creates : ~Finalizing(i)
    BY <1>1, BeforeStart, Zenon
<1> DEFINE z == [kind |-> "new", view |-> Len(views)]
<1>3. PICK cfg \in [sequencers : InOrder(online \cap Sequencers),
                    engines : InOrder(online \cap Engines), storages : InOrder(online \cap Storages)] :
        /\ Nodes \ Late \subseteq online /\ Enough(cfg)
        /\ views' = Append(views, cfg) /\ creates' = Append(creates, z) /\ state' = "Normal"
    BY Zenon DEF StartCommandHandler, InstallNewView
<1>4. /\ online' = online /\ pending' = pending /\ seal' = seal /\ freezeSeen' = freezeSeen
      /\ acked' = acked /\ viewDir' = viewDir /\ freezeDir' = freezeDir /\ LogsRest
    BY DEF StartCommandHandler, nodes, logs, LogsRest, NodesRest
<1>5. /\ cfg.sequencers \in Seq(Sequencers) /\ cfg.engines \in Seq(Engines)
      /\ cfg.storages \in Seq(Storages) /\ Range(cfg.engines) = online \cap Engines
    <2>1. /\ cfg.sequencers \in InOrder(online \cap Sequencers) /\ cfg.engines \in InOrder(online \cap Engines)
          /\ cfg.storages \in InOrder(online \cap Storages)
        BY <1>3
    <2>2. /\ online \cap Sequencers \in SUBSET Sequencers /\ online \cap Engines \in SUBSET Engines
          /\ online \cap Storages \in SUBSET Storages
        BY Zenon
    <2>3. QED
        BY <2>1, <2>2, InOrderLists, Zenon
<1>6. cfg \in GoodConfiguration
    BY <1>3, <1>5 DEF GoodConfiguration, Configuration
<1>7. Clients \ Late \subseteq Range(cfg.engines)
    <2>1. Clients \ Late \subseteq online \cap Engines
        BY <1>3, ReplicasAssumption, Zenon DEF Nodes
    <2>2. QED
        BY <1>5, <2>1, Zenon
<1>8. views' = <<cfg>> /\ z.kind # "finalize" /\ ViewsGrow
    BY <1>2, <1>3, <1>6 DEF ViewsGrow
<1>9. TypeControl'
    <2>1. views' \in Seq(GoodConfiguration) /\ creates' \in Seq(Requests)
        <3>1. z \in Requests
            BY <1>2 DEF Requests
        <3>2. QED
            BY <1>1, <1>3, <1>6, <3>1, Indices, Zenon DEF TypeOK, TypeControl
    <2>2. QED
        BY <1>1, <1>3, <1>4, <2>1, Zenon DEF TypeOK, TypeControl
<1>10. ViewsAgree'
    <2>1. Len(views') = 1 /\ DOMAIN views' = {1} /\ views'[1] = cfg /\ views' # <<>> /\ MaxViews >= 1
        BY <1>8, NodesAssumption
    <2>2. \A i \in DOMAIN views' : SameNodes(views[i])'
        BY <2>1, Zenon DEF SameNodes
    <2>3. "Normal" # "Created" /\ Len(views') <= MaxViews
        BY <2>1, NodesAssumption
    <2>4. QED
        BY <1>3, <1>7, <2>1, <2>2, <2>3, Zenon DEF ViewsAgree, Range
<1>11. OneReconfig'
    <2>1. \A i \in DOMAIN creates' : ~Finalizing(i)'
        BY <1>1, <1>2, <1>3, <1>8, NoneFinalizing, Zenon
    <2>2. QED
        BY <1>2, <1>4, <2>1, Zenon DEF OneReconfig
<1>12. ViewsInOrder' /\ Watching'
    BY <1>3, <1>4, <1>6, NewViewInOrder, Zenon DEF LogsRest
<1>13. QED
    BY <1>4, <1>8, <1>9, <1>10, <1>11, <1>12, ControlStep, Zenon

\* "reconfig": the current view is frozen, for one with the same engines and
\* storage nodes.
LEMMA ReconfigStep ==
    ASSUME IInv, NEW cfg \in Reconfigs, ReconfigCommandHandler(cfg) PROVE IInv'
<1>1. TypeOK /\ ViewsAgree /\ state = "Normal" /\ Len(views) < MaxViews
    BY Zenon DEF IInv, ReconfigCommandHandler
<1>2. seal = None /\ ~acked /\ \A i \in DOMAIN creates : ~Finalizing(i)
    <2>1. ~Waiting
        BY <1>1 DEF Waiting
    <2>2. QED
        BY <2>1, Zenon DEF IInv, OneReconfig
<1> DEFINE v == Len(views) - 1
           z == [kind |-> "freeze", view |-> v]
           sl == [view |-> v, phylogs |-> ActivePhylogs(View(v)), tails |-> {}]
<1>3. /\ pending' = cfg /\ seal' = sl /\ creates' = Append(creates, z) /\ state' = "Reconfiguring"
      /\ Range(cfg.engines) = Range(views[Len(views)].engines)
      /\ Range(cfg.storages) = Range(views[Len(views)].storages) /\ Enough(cfg)
    BY Zenon DEF ReconfigCommandHandler, FreezeView
<1>4. /\ online' = online /\ views' = views /\ freezeSeen' = freezeSeen
      /\ acked' = acked /\ viewDir' = viewDir /\ freezeDir' = freezeDir /\ LogsRest
    BY DEF ReconfigCommandHandler, nodes, logs, LogsRest, NodesRest
<1>5. cfg \in GoodConfiguration
    BY <1>3, NodesAssumption DEF GoodConfiguration
<1>6. views \in Seq(GoodConfiguration) /\ Len(views) \in Nat /\ Len(views) >= 1 /\ v \in Nat /\ v < Len(views)
    <2>1. state # "Created"
        BY <1>1
    <2>2. views # <<>> /\ views \in Seq(GoodConfiguration)
        BY <1>1, <2>1, Zenon DEF ViewsAgree, TypeOK, TypeControl
    <2>3. QED
        BY <2>2
<1>7. SameNodes(cfg)
    <2>1. Len(views) \in DOMAIN views
        BY <1>6
    <2>2. SameNodes(views[Len(views)])
        BY <1>1, <2>1, Zenon DEF ViewsAgree
    <2>3. QED
        BY <1>3, <2>2, Zenon DEF SameNodes
<1>8. sl \in [view : Nat, phylogs : SUBSET Sequencers, tails : Tails]
    <2>1. View(v) \in GoodConfiguration
        BY <1>1, <1>6, ViewFacts, Zenon
    <2>2. ActivePhylogs(View(v)) \subseteq Range(View(v).sequencers) /\ Range(View(v).sequencers) \subseteq Sequencers
        BY <2>1, ConfigurationFacts, Zenon
    <2>3. {} \in Tails
        BY Zenon DEF Tails
    <2> HIDE DEF v
    <2>4. QED
        BY <1>6, <2>2, <2>3
<1>9. z \in Requests /\ z.kind # "new" /\ z.kind # "finalize" /\ z.view = v
    <2> HIDE DEF v
    <2>1. QED
        BY <1>6 DEF Requests
<1>10. sl.view = v /\ sl.phylogs = ActivePhylogs(View(v))
    BY Zenon
<1> HIDE DEF v, z, sl
<1>11. TypeControl'
    <2>1. creates' \in Seq(Requests)
        BY <1>1, <1>3, <1>9, Indices, Zenon DEF TypeOK, TypeControl
    <2>2. QED
        BY <1>1, <1>3, <1>4, <1>5, <1>8, <2>1, Zenon DEF TypeOK, TypeControl
<1>12. Range(views[1].engines)' = Range(views[1].engines) /\ Range(views[1].storages)' = Range(views[1].storages)
    BY <1>4, Zenon DEF Range
<1>13. ViewsAgree'
    <2>1. state' # "Created" /\ views # <<>>
        BY <1>3, <1>6
    <2>2. QED
        BY <1>1, <1>4, <1>12, <2>1, Zenon DEF ViewsAgree, SameNodes
<1>14. OneReconfig'
    <2>1. \A i \in DOMAIN creates' : ~Finalizing(i)'
        BY <1>1, <1>2, <1>3, <1>9, NoneFinalizing, Zenon
    <2>2. SameNodes(pending)'
        BY <1>3, <1>7, <1>12, Zenon DEF SameNodes, Range
    <2>3. Waiting'
        BY <1>1, <1>3, <1>4, <1>5, <2>2, Zenon DEF Waiting
    <2>4. seal'.view < Len(views') /\ seal'.phylogs = ActivePhylogs(View(seal.view))'
        BY <1>3, <1>4, <1>6, <1>10, Zenon DEF ActivePhylogs, View
    <2>5. QED
        BY <1>2, <1>4, <2>1, <2>3, <2>4, Zenon DEF OneReconfig
<1>15. OfView(z)
    BY <1>6, <1>9, Zenon DEF OfView
<1>16. ViewsInOrder' /\ Watching'
    BY <1>3, <1>4, <1>9, <1>15, OtherZnodeInOrder, Zenon DEF LogsRest
<1>17. QED
    BY <1>4, <1>11, <1>13, <1>14, <1>16, ControlStep, Zenon DEF ViewsGrow

\* The end of a view is published: the next one is installed.
LEMMA FinalizePublishedStep ==
    ASSUME IInv, FinalizePublished PROVE IInv'
<1>1. TypeOK /\ ViewsAgree /\ acked
    BY Zenon DEF IInv, FinalizePublished
<1>2. Waiting /\ seal = None /\ \A i \in DOMAIN creates : ~Finalizing(i)
    BY <1>1, Zenon DEF IInv, OneReconfig
<1> DEFINE z == [kind |-> "new", view |-> Len(views)]
<1>3. /\ acked' = FALSE /\ pending' = None
      /\ views' = Append(views, pending) /\ creates' = Append(creates, z) /\ state' = "Normal"
    BY Zenon DEF FinalizePublished, InstallNewView
<1>4. /\ online' = online /\ seal' = seal /\ freezeSeen' = freezeSeen
      /\ viewDir' = viewDir /\ freezeDir' = freezeDir /\ LogsRest
    BY DEF FinalizePublished, nodes, logs, LogsRest, NodesRest
<1>5. pending \in GoodConfiguration /\ Len(views) < MaxViews /\ SameNodes(pending) /\ ViewsGrow
    BY <1>2, <1>3, Zenon DEF Waiting, ViewsGrow
<1>6. views \in Seq(GoodConfiguration) /\ Len(views) \in Nat /\ views # <<>>
    <2>1. state # "Created"
        BY <1>2 DEF Waiting
    <2>2. QED
        BY <1>1, <2>1, Indices, Zenon DEF ViewsAgree, TypeOK, TypeControl
<1>7. z \in Requests /\ z.kind # "finalize"
    BY <1>6 DEF Requests
<1>8. TypeControl'
    <2>1. creates' \in Seq(Requests) /\ views' \in Seq(GoodConfiguration)
        BY <1>1, <1>3, <1>5, <1>6, <1>7, Indices, Zenon DEF TypeOK, TypeControl
    <2>2. QED
        BY <1>1, <1>3, <1>4, <2>1, Zenon DEF TypeOK, TypeControl
<1>9. ViewsAgree'
    <2>1. views'[1] = views[1] /\ Len(views') <= MaxViews /\ views' # <<>> /\ state' # "Created"
        BY <1>3, <1>5, <1>6, NodesAssumption
    <2>2. \A i \in DOMAIN views' : (i \in DOMAIN views /\ views'[i] = views[i]) \/ views'[i] = pending
        BY <1>3, <1>6
    <2>3. Range(views[1].engines)' = Range(views[1].engines) /\ Range(views[1].storages)' = Range(views[1].storages)
        BY <2>1, Zenon DEF Range
    <2>4. ASSUME NEW i \in DOMAIN views' PROVE SameNodes(views[i])'
        <3>1. PICK w : w = views'[i] /\ SameNodes(w)
            BY <1>1, <1>5, <2>2, Zenon DEF ViewsAgree
        <3>2. QED
            BY <2>3, <3>1, Zenon DEF SameNodes, Range
    <2>5. QED
        BY <1>1, <1>6, <2>1, <2>3, <2>4, Zenon DEF ViewsAgree
<1>10. OneReconfig'
    <2>1. \A i \in DOMAIN creates' : ~Finalizing(i)'
        BY <1>1, <1>2, <1>3, <1>7, NoneFinalizing, Zenon
    <2>2. QED
        BY <1>2, <1>3, <1>4, <2>1, Zenon DEF OneReconfig
<1>11. ViewsInOrder' /\ Watching'
    BY <1>3, <1>4, <1>5, NewViewInOrder, Zenon DEF LogsRest
<1>12. QED
    BY <1>4, <1>5, <1>8, <1>9, <1>10, <1>11, ControlStep, Zenon

\* ZooKeeper serves the oldest request: the znodes are the same ones.
LEMMA ServeCreateStep ==
    ASSUME IInv, ServeCreate PROVE IInv'
<1>1. TypeOK /\ ViewsAgree /\ OneReconfig /\ ViewsInOrder /\ Watching
    BY Zenon DEF IInv
<1>2. /\ creates # <<>> /\ creates' = Tail(creates) /\ viewDir' = Append(viewDir, Head(creates))
      /\ acked' = (acked \/ Head(creates).kind = "finalize")
    BY Zenon DEF ServeCreate
<1>3. /\ state' = state /\ online' = online /\ views' = views /\ pending' = pending /\ seal' = seal
      /\ freezeSeen' = freezeSeen /\ freezeDir' = freezeDir /\ LogsRest
    BY DEF ServeCreate, controller, nodes, logs, LogsRest, NodesRest
<1>4. creates \in Seq(Requests) /\ viewDir \in Seq(Requests)
    BY <1>1, Zenon DEF TypeOK, TypeControl
<1>5. /\ Head(creates) = creates[1] /\ creates[1] \in Requests /\ 1 \in DOMAIN creates
      /\ creates' \in Seq(Requests) /\ viewDir' \in Seq(Requests) /\ Len(viewDir') = Len(viewDir) + 1
      /\ \A i \in DOMAIN creates' : i + 1 \in DOMAIN creates /\ creates'[i] = creates[i + 1] /\ i + 1 # 1
    BY <1>2, <1>4
<1>6. Znodes' = Znodes
    BY <1>2, <1>4 DEF Znodes
<1>7. TypeControl'
    <2>1. acked' \in BOOLEAN
        BY <1>2, Zenon
    <2>2. QED
        BY <1>1, <1>3, <1>5, <2>1, Zenon DEF TypeOK, TypeControl
<1>8. Range(views[1].engines)' = Range(views[1].engines) /\ Range(views[1].storages)' = Range(views[1].storages)
    BY <1>3, Zenon DEF Range
<1>9. ViewsAgree'
    BY <1>1, <1>3, <1>8, Zenon DEF ViewsAgree, SameNodes
<1>10. OneReconfig'
    <2>1. Waiting' <=> Waiting
        BY <1>3, <1>8, Zenon DEF Waiting, SameNodes
    <2>2. \A i \in DOMAIN creates' : Finalizing(i)' => Finalizing(i + 1)
        BY <1>5, Zenon DEF Finalizing
    <2>3. Head(creates).kind = "finalize" => Finalizing(1)
        BY <1>5, Zenon DEF Finalizing
    <2>4. \A i, j \in DOMAIN creates' : i + 1 = j + 1 => i = j
        BY <1>5
    <2>5. \A v : ActivePhylogs(View(v))' = ActivePhylogs(View(v))
        BY <1>3, Zenon DEF ActivePhylogs, View
    <2>6. ASSUME seal # None
          PROVE  /\ Waiting' /\ ~acked' /\ \A i \in DOMAIN creates' : ~Finalizing(i)'
                 /\ seal.view < Len(views) /\ seal.phylogs = ActivePhylogs(View(seal.view))
        BY <1>1, <1>2, <1>5, <2>1, <2>2, <2>3, <2>6, Zenon DEF OneReconfig
    <2>7. ASSUME acked' PROVE Waiting' /\ \A i \in DOMAIN creates' : ~Finalizing(i)'
        <3>1. CASE acked
            BY <1>1, <1>5, <2>1, <2>2, <3>1, Zenon DEF OneReconfig
        <3>2. CASE Head(creates).kind = "finalize"
            BY <1>1, <1>5, <2>1, <2>2, <2>3, <3>2, Zenon DEF OneReconfig
        <3>3. QED
            BY <1>2, <2>7, <3>1, <3>2, Zenon
    <2>8. ASSUME NEW i \in DOMAIN creates', Finalizing(i)'
          PROVE  Waiting' /\ \A j \in DOMAIN creates' : Finalizing(j)' => i = j
        BY <1>1, <1>5, <2>1, <2>2, <2>4, <2>8, Zenon DEF OneReconfig
    <2>9. QED
        BY <1>3, <2>5, <2>6, <2>7, <2>8, Zenon DEF OneReconfig
<1>11. ViewsInOrder'
    <2>1. \A v : ActivePhylogs(View(v))' = ActivePhylogs(View(v))
        BY <1>3, Zenon DEF ActivePhylogs, View
    <2>2. QED
        BY <1>1, <1>3, <1>6, <2>1, Zenon DEF ViewsInOrder, OfView
<1>12. Watching'
    <2>1. \A n \in Nodes : seen[n] <= Len(viewDir')
        <3>1. \A n \in Nodes : seen[n] <= Len(viewDir) /\ seen[n] \in Nat
            BY <1>1, Zenon DEF Watching, TypeOK, TypeNodes
        <3>2. QED
            BY <1>4, <1>5, <3>1
    <2>2. QED
        BY <1>1, <1>3, <1>6, <2>1, Zenon DEF Watching, LogsRest, NodesRest
<1>13. QED
    BY <1>3, <1>7, <1>9, <1>10, <1>11, <1>12, ControlStep, Zenon DEF ViewsGrow

\* A sequencer's answer is another view's, completes the seal, or is kept.
LEMMA FreezeAnswerStep ==
    ASSUME IInv, OnFreezeZNodeCreated PROVE IInv'
<1> DEFINE f == freezeDir[freezeSeen + 1]
           sl == [seal EXCEPT !.tails = @ \cup f.tails]
           z == [kind |-> "finalize", view |-> sl.view, positions |-> BuildFinalTailMetalog(sl),
                 tails |-> FinalTails(sl)]
<1>1. TypeOK /\ ViewsAgree /\ OneReconfig
    BY Zenon DEF IInv
<1>2. /\ freezeSeen < Len(freezeDir) /\ freezeSeen' = freezeSeen + 1
      /\ \/ seal' = seal /\ creates' = creates
         \/ seal # None /\ CheckAllSealed(sl) /\ seal' = None /\ creates' = Append(creates, z)
         \/ seal # None /\ seal' = sl /\ creates' = creates
    BY Zenon DEF OnFreezeZNodeCreated, FreezeAnswer
<1>3. /\ state' = state /\ online' = online /\ views' = views /\ pending' = pending
      /\ acked' = acked /\ viewDir' = viewDir /\ freezeDir' = freezeDir /\ LogsRest
    BY DEF OnFreezeZNodeCreated, FreezeAnswer, nodes, logs, LogsRest, NodesRest
<1>4. freezeSeen' \in Nat /\ f \in [view : Nat, tails : Tails] /\ ViewsGrow
    <2>1. freezeSeen \in Nat /\ freezeDir \in Seq([view : Nat, tails : Tails]) /\ freezeSeen < Len(freezeDir)
        BY <1>1, <1>2, Zenon DEF TypeOK, TypeControl
    <2>2. f \in [view : Nat, tails : Tails] /\ freezeSeen + 1 \in Nat
        <3>1. ASSUME NEW T, NEW q \in Seq(T), NEW k \in Nat, k < Len(q) PROVE q[k + 1] \in T /\ k + 1 \in Nat
            BY <3>1
        <3>2. QED
            BY <2>1, <3>1, Zenon
    <2>3. QED
        BY <1>2, <1>3, <2>2, Zenon DEF ViewsGrow
<1>5. CASE seal' = seal /\ creates' = creates
    <2>1. ViewsRest
        BY <1>3, <1>5, Zenon DEF ViewsRest
    <2>2. TypeControl'
        BY <1>1, <1>3, <1>4, <1>5, Zenon DEF TypeOK, TypeControl
    <2>3. ViewsAgree' /\ OneReconfig' /\ ViewsInOrder' /\ Watching' /\ ViewsGrow
        BY <1>3, <2>1, ControlStays, NodesStay, Zenon DEF LogsRest
    <2>4. QED
        BY <1>3, <2>2, <2>3, ControlStep, Zenon
<1>6. ASSUME seal # None
      PROVE  /\ sl \in [view : Nat, phylogs : SUBSET Sequencers, tails : Tails]
             /\ sl.view = seal.view /\ sl.phylogs = seal.phylogs
    <2>1. seal \in [view : Nat, phylogs : SUBSET Sequencers, tails : Tails]
        BY <1>1, <1>6, Zenon DEF TypeOK, TypeControl
    <2>2. seal.tails \cup f.tails \in Tails
        <3>1. seal.tails \in Tails /\ f.tails \in Tails
            BY <1>4, <2>1
        <3>2. QED
            BY <3>1, Zenon DEF Tails
    <2> HIDE DEF f
    <2>3. QED
        BY <2>1, <2>2
<1>7. Range(views[1].engines)' = Range(views[1].engines) /\ Range(views[1].storages)' = Range(views[1].storages)
    BY <1>3, Zenon DEF Range
<1>8. ViewsAgree'
    BY <1>1, <1>3, <1>7, Zenon DEF ViewsAgree, SameNodes
<1>9. Waiting' <=> Waiting
    BY <1>3, <1>7, Zenon DEF Waiting, SameNodes
<1>10. \A v : ActivePhylogs(View(v))' = ActivePhylogs(View(v))
    BY <1>3, Zenon DEF ActivePhylogs, View
<1> HIDE DEF f, sl
<1>11. CASE seal # None /\ CheckAllSealed(sl) /\ seal' = None /\ creates' = Append(creates, z)
    <2>1. /\ Waiting /\ ~acked /\ (\A i \in DOMAIN creates : ~Finalizing(i))
          /\ sl.view < Len(views) /\ sl.phylogs = ActivePhylogs(View(sl.view))
        BY <1>1, <1>6, <1>11, Zenon DEF OneReconfig
    <2>2. /\ BuildFinalTailMetalog(sl) \in [ActivePhylogs(View(sl.view)) -> SUBSET Nat]
          /\ FinalTails(sl) \in [ActivePhylogs(View(sl.view)) -> SUBSET Nat]
        <3>1. sl.tails \in SUBSET Tail0
            BY <1>6, <1>11 DEF Tails
        <3>2. \A t \in Tail0 : t.position \in SUBSET Nat
            BY DEF Tail0
        <3>3. \A p : UNION {t.position : t \in TailsOf(sl.tails, p)} \in SUBSET Nat
            BY <3>1, <3>2, Zenon DEF TailsOf
        <3>4. \A p : UNION {LastOf(t.position) : t \in TailsOf(sl.tails, p)} \in SUBSET Nat
            BY <3>1, <3>2, Zenon DEF TailsOf, LastOf
        <3>5. QED
            BY <2>1, <3>3, <3>4, Zenon DEF BuildFinalTailMetalog, FinalTails
    <2>3. /\ z.kind = "finalize" /\ z.kind # "new" /\ z.view = sl.view
          /\ z.positions = BuildFinalTailMetalog(sl) /\ z.tails = FinalTails(sl) /\ z.view \in Nat
        BY <1>6, <1>11
    <2>4. z \in Requests
        <3>1. sl.phylogs \in SUBSET Sequencers /\ sl.view \in Nat
            BY <1>6, <1>11
        <3>2. BuildFinalTailMetalog(sl) \in Positions /\ FinalTails(sl) \in Positions
            BY <2>1, <2>2, <3>1, Zenon DEF Positions
        <3>3. QED
            BY <3>1, <3>2 DEF Requests
    <2> HIDE DEF z
    <2>5. OfView(z)
        BY <2>1, <2>2, <2>3, Zenon DEF OfView
    <2>6. TypeControl'
        <3>1. creates' \in Seq(Requests)
            BY <1>1, <1>11, <2>4, Indices, Zenon DEF TypeOK, TypeControl
        <3>2. QED
            BY <1>1, <1>3, <1>4, <1>11, <3>1, Zenon DEF TypeOK, TypeControl
    <2>7. OneReconfig'
        <3>1. creates \in Seq(Requests)
            BY <1>1, Zenon DEF TypeOK, TypeControl
        <3>2. \A i \in DOMAIN creates' : i = Len(creates) + 1 \/ (i \in DOMAIN creates /\ creates'[i] = creates[i])
            BY <1>11, <3>1
        <3>3. \A i \in DOMAIN creates' : Finalizing(i)' => i = Len(creates) + 1
            BY <2>1, <3>2, Zenon DEF Finalizing
        <3>4. QED
            BY <1>3, <1>9, <1>11, <2>1, <3>3, Zenon DEF OneReconfig
    <2>8. ViewsInOrder' /\ Watching'
        BY <1>3, <1>11, <2>3, <2>4, <2>5, OtherZnodeInOrder, Zenon DEF LogsRest
    <2>9. QED
        BY <1>3, <1>4, <1>8, <2>6, <2>7, <2>8, ControlStep, Zenon
<1>12. CASE seal # None /\ seal' = sl /\ creates' = creates
    <2>1. TypeControl'
        BY <1>1, <1>3, <1>4, <1>6, <1>12, Zenon DEF TypeOK, TypeControl
    <2>2. OneReconfig'
        <3>1. \A i : Finalizing(i)' <=> Finalizing(i)
            BY <1>12, Zenon DEF Finalizing
        <3>2. /\ Waiting /\ ~acked /\ (\A i \in DOMAIN creates : ~Finalizing(i))
              /\ sl.view < Len(views) /\ sl.phylogs = ActivePhylogs(View(sl.view))
            BY <1>1, <1>6, <1>12, Zenon DEF OneReconfig
        <3>3. seal'.view < Len(views') /\ seal'.phylogs = ActivePhylogs(View(seal.view))'
            BY <1>3, <1>12, <3>2, Zenon DEF ActivePhylogs, View
        <3>4. QED
            BY <1>3, <1>9, <1>12, <3>1, <3>2, <3>3, Zenon DEF OneReconfig
    <2>3. Znodes' = Znodes
        BY <1>3, <1>12, Zenon DEF Znodes
    <2>4. ViewsInOrder' /\ Watching'
        BY <1>3, <1>10, <2>3, Zenon DEF IInv, ViewsInOrder, Watching, OfView, LogsRest, NodesRest
    <2>5. QED
        BY <1>3, <1>4, <1>8, <2>1, <2>2, <2>4, ControlStep, Zenon
<1>13. QED
    BY <1>2, <1>5, <1>11, <1>12, Zenon

-----------------------------------------------------------------------------
(* Log spaces and messages.                                                 *)

\* What is known of a message that is under way.
LEMMA MessageFacts ==
    ASSUME IInv, NEW m \in net
    PROVE  /\ m \in Messages /\ m.ls \in LogSpaces /\ m.to \in Nodes /\ m.from \in Nodes /\ Addressed(m)
           /\ ViewOf(m.ls) \in Nat
           /\ m.type # "LOCAL_READ" =>
                /\ ViewOf(m.ls) < Len(views) /\ m.ls = <<ViewOf(m.ls), PrimaryOf(m.ls)>>
                /\ PrimaryOf(m.ls) \in ActivePhylogs(View(ViewOf(m.ls)))
<1>1. TypeOK /\ ViewsAgree /\ MessagesAddressed
    BY Zenon DEF IInv
<1>2. m \in Messages /\ Addressed(m)
    BY <1>1, Zenon DEF TypeOK, TypeNodes, MessagesAddressed
<1>3. m.ls \in LogSpaces /\ m.to \in Nodes /\ m.from \in Nodes
    BY <1>2 DEF Messages
<1>4. ViewOf(m.ls) \in Nat
    BY <1>3 DEF ViewOf, LogSpaces
<1>5. ASSUME m.type # "LOCAL_READ"
      PROVE  /\ ViewOf(m.ls) < Len(views) /\ m.ls = <<ViewOf(m.ls), PrimaryOf(m.ls)>>
             /\ PrimaryOf(m.ls) \in ActivePhylogs(View(ViewOf(m.ls)))
    <2>1. ViewOf(m.ls) < Len(views) /\ m.ls \in Installed(m.to, ViewOf(m.ls))
        BY <1>2, <1>5, Zenon DEF Addressed
    <2>2. QED
        BY <1>1, <1>4, <2>1, InstalledIsMember, Zenon
<1>6. QED
    BY <1>2, <1>3, <1>4, <1>5, Zenon

\* A message is consumed, and nothing that the invariant is about changes.
LEMMA QuietStep ==
    ASSUME IInv, ControlRests, freezeDir' = freezeDir, NodesRest, net' \subseteq net, hold' = hold,
           cuts' = cuts, stored' = stored, got' = got
    PROVE  IInv'
<1>1. TypeOK /\ CutsInView /\ ViewsGrow
    BY Zenon DEF IInv, ViewsGrow, ControlRests, ViewsRest
<1>2. TypeLogs'
    BY <1>1, Zenon DEF TypeOK, TypeLogs
<1>3. CutsInView'
    BY <1>1, CutsStay, Zenon
<1>4. {} \in SUBSET Messages /\ \A m \in {} : Addressed(m)
    BY Zenon
<1>5. net' \subseteq net \cup {}
    BY Zenon
<1>6. QED
    BY <1>2, <1>3, <1>4, <1>5, LogStep, Zenon

\* Messages that change nothing the invariant is about: outdated ones, progress
\* of a storage node, index data and a read that goes on and ends the engine.
LEMMA QuietHandlers ==
    ASSUME IInv, NEW m \in net, ControlRests, freezeDir' = freezeDir, NodesRest,
           Ignore(m) \/ OnRecvShardProgress(m) \/ OnRecvNewIndexData(m) \/ HandleContinuedRead(m)
    PROVE  IInv'
<1>1. net' \subseteq net
    BY Zenon DEF Ignore, OnRecvShardProgress, OnRecvNewIndexData, HandleContinuedRead, Consume
<1>2. hold' = hold /\ cuts' = cuts /\ stored' = stored /\ got' = got
    BY Zenon DEF Ignore, OnRecvShardProgress, OnRecvNewIndexData, HandleContinuedRead
<1>3. QED
    BY <1>1, <1>2, QuietStep, Zenon

\* A storage node keeps an entry of an engine.
LEMMA ReplicateStep ==
    ASSUME IInv, NEW m \in net, HandleReplicateRequest(m), ControlRests, freezeDir' = freezeDir, NodesRest
    PROVE  IInv'
<1>1. TypeOK /\ CutsInView /\ ViewsGrow
    BY Zenon DEF IInv, ViewsGrow, ControlRests, ViewsRest
<1>2. m.type = "REPLICATE" /\ m.ls \in LogSpaces /\ Addressed(m)
    BY MessageFacts, Zenon DEF HandleReplicateRequest
<1>3. m.from \in Engines /\ m.to \in Storages
    <2>1. m.type # "LOCAL_READ"
        BY <1>2
    <2>2. QED
        BY <1>2, <2>1, Zenon DEF Addressed
<1>4. /\ stored' = [stored EXCEPT ![m.ls][m.to] = @ \cup {m.from}] /\ net' \subseteq net \cup {}
      /\ hold' = hold /\ cuts' = cuts /\ got' = got
    BY Zenon DEF HandleReplicateRequest, Consume
<1>5. stored' \in [LogSpaces -> [Storages -> SUBSET Engines]]
    BY <1>1, <1>2, <1>3, <1>4 DEF TypeOK, TypeLogs
<1>6. TypeLogs'
    BY <1>1, <1>4, <1>5, Zenon DEF TypeOK, TypeLogs
<1>7. CutsInView'
    BY <1>1, <1>4, CutsStay, Zenon
<1>8. {} \in SUBSET Messages /\ \A x \in {} : Addressed(x)
    BY Zenon
<1>9. QED
    BY <1>4, <1>6, <1>7, <1>8, LogStep, Zenon

\* A read is passed to an engine with the index.
LEMMA ReadSent ==
    ASSUME IInv, ControlRests, freezeDir' = freezeDir, NodesRest,
           hold' = hold, cuts' = cuts, stored' = stored, got' = got,
           NEW t \in {"READ", "CONTINUE"}, NEW v \in Nat, v < Len(views), NEW from \in Nodes,
           NEW s \in ActivePhylogs(View(v)), NEW e \in IndexEngineNodes(View(v), s),
           net' \subseteq net \cup {Msg(t, <<v, s>>, from, e, {})}
    PROVE  IInv'
<1>1. TypeOK /\ ViewsAgree /\ CutsInView /\ ViewsGrow
    BY Zenon DEF IInv, ViewsGrow, ControlRests, ViewsRest
<1> DEFINE x == Msg(t, <<v, s>>, from, e, {})
<1>2. <<v, s>> \in LogSpaces /\ e \in Engines /\ e \in Nodes /\ <<v, s>> \in Installed(e, v)
    BY <1>1, InstalledFacts, KindsOfNodes, Zenon
<1>3. x \in Messages
    <2>1. {} \in SUBSET Engines /\ t \in {"REPLICATE", "SHARD_PROG", "LOCAL_READ", "READ", "CONTINUE"}
        BY Zenon
    <2>2. QED
        BY <1>2, <2>1, MsgIsMessage, Zenon
<1>4. Addressed(x)
    <2>1. \A u \in {"LOCAL_READ", "METALOGS", "META_PROG", "SHARD_PROG", "REPLICATE"} : u # t
        OBVIOUS
    <2>2. QED
        BY <1>2, <2>1, SentIsAddressed, Zenon
<1> HIDE DEF x
<1>5. {x} \in SUBSET Messages /\ (\A y \in {x} : Addressed(y)) /\ net' \subseteq net \cup {x}
    BY <1>3, <1>4, Zenon DEF x
<1>6. TypeLogs' /\ CutsInView'
    BY <1>1, CutsStay, Zenon DEF TypeOK, TypeLogs
<1>7. QED
    BY <1>5, <1>6, LogStep, Zenon

\* The index of a view answers a read, or passes it to the view before.
LEMMA QueryStep ==
    ASSUME IInv, ControlRests, freezeDir' = freezeDir, NodesRest,
           hold' = hold, cuts' = cuts, stored' = stored, got' = got,
           NEW m, NEW i, NEW e \in Nodes, NEW v \in Nat, v < Len(views), ProcessQuery(m, i, e, v)
    PROVE  IInv'
<1>1. \/ net' \subseteq net
      \/ /\ v > 0
         /\ \E s \in ActivePhylogs(View(v - 1)) : \E j \in IndexEngineNodes(View(v - 1), s) :
              net' = (net \ {m}) \cup {Msg("CONTINUE", <<v - 1, s>>, e, j, {})}
    BY Zenon DEF ProcessQuery, Consume
<1>2. CASE net' \subseteq net
    BY <1>2, QuietStep, Zenon
<1>3. ASSUME v > 0, NEW s \in ActivePhylogs(View(v - 1)), NEW j \in IndexEngineNodes(View(v - 1), s),
             net' = (net \ {m}) \cup {Msg("CONTINUE", <<v - 1, s>>, e, j, {})}
      PROVE  IInv'
    <2>1. PICK u \in Nat : u = v - 1 /\ u < Len(views)
        <3>1. Len(views) \in Nat
            BY Indices, Zenon DEF IInv, TypeOK, TypeControl
        <3>2. v - 1 \in Nat /\ v - 1 < Len(views)
            BY <1>3, <3>1
        <3>3. QED
            BY <3>2, Zenon
    <2>2. net' \subseteq net \cup {Msg("CONTINUE", <<u, s>>, e, j, {})}
        BY <1>3, <2>1, Zenon
    <2>3. s \in ActivePhylogs(View(u)) /\ j \in IndexEngineNodes(View(u), s)
        BY <2>1, Zenon
    <2>4. "CONTINUE" \in {"READ", "CONTINUE"}
        OBVIOUS
    <2>5. QED
        BY <2>1, <2>2, <2>3, <2>4, ReadSent, Zenon
<1>4. QED
    BY <1>1, <1>2, <1>3, Zenon

\* An engine of the view reads locally, or asks one that has the index.
LEMMA LocalReadStep ==
    ASSUME IInv, NEW m \in net, HandleLocalRead(m), ControlRests, freezeDir' = freezeDir, NodesRest
    PROVE  IInv'
<1>1. TypeOK /\ Watching
    BY Zenon DEF IInv
<1>2. /\ m.type = "LOCAL_READ" /\ m.to \in Nodes /\ Addressed(m) /\ ViewOf(m.ls) = 0
      /\ ~(ViewOf(m.ls) > current[m.to])
    BY MessageFacts, Zenon DEF HandleLocalRead, Addressed, FromFuture
<1>3. PICK v : v = current[m.to]
    BY Zenon
<1>4. v \in Nat /\ v < Len(views)
    <2>1. v \in -1 .. Len(views) - 1 /\ Len(views) \in Nat
        BY <1>1, <1>2, <1>3, Indices, Zenon DEF Watching, TypeOK, TypeControl
    <2>2. QED
        BY <1>2, <1>3, <2>1
<1>5. /\ hold' = hold /\ cuts' = cuts /\ stored' = stored /\ got' = got
    BY Zenon DEF HandleLocalRead
<1>6. \/ ProcessQuery(m, m.to, m.to, v)
      \/ \E s \in ActivePhylogs(View(v)) : \E e \in IndexEngineNodes(View(v), s) :
           net' = (net \ {m}) \cup {Msg("READ", <<v, s>>, m.to, e, {})}
    BY <1>3, Zenon DEF HandleLocalRead, Consume, PickIndexEngineNode
<1>7. CASE ProcessQuery(m, m.to, m.to, v)
    BY <1>2, <1>4, <1>5, <1>7, QueryStep, Zenon
<1>8. ASSUME NEW s \in ActivePhylogs(View(v)), NEW e \in IndexEngineNodes(View(v), s),
             net' = (net \ {m}) \cup {Msg("READ", <<v, s>>, m.to, e, {})}
      PROVE  IInv'
    <2>1. net' \subseteq net \cup {Msg("READ", <<v, s>>, m.to, e, {})} /\ "READ" \in {"READ", "CONTINUE"}
        BY <1>8, Zenon
    <2>2. QED
        BY <1>2, <1>4, <1>5, <2>1, ReadSent, Zenon
<1>9. QED
    BY <1>6, <1>7, <1>8, Zenon

\* An engine with the index serves another one.
LEMMA RemoteReadStep ==
    ASSUME IInv, NEW m \in net, HandleRemoteRead(m), ControlRests, freezeDir' = freezeDir, NodesRest
    PROVE  IInv'
<1>1. m.type # "LOCAL_READ" /\ ProcessQuery(m, m.to, m.from, ViewOf(m.ls))
    <2>1. "READ" # "LOCAL_READ"
        OBVIOUS
    <2>2. QED
        BY <2>1, Zenon DEF HandleRemoteRead
<1>2. m.from \in Nodes /\ ViewOf(m.ls) \in Nat /\ ViewOf(m.ls) < Len(views)
    BY <1>1, MessageFacts, Zenon
<1>3. /\ hold' = hold /\ cuts' = cuts /\ stored' = stored /\ got' = got
    BY Zenon DEF HandleRemoteRead
<1>4. QED
    BY <1>1, <1>2, <1>3, QueryStep, Zenon

\* A metalog reaches a node.  A replica that reports its position does so to a
\* primary that has installed the view.
LEMMA MetaLogsStep ==
    ASSUME IInv, NEW m \in net, OnRecvNewMetaLogs(m), ControlRests, freezeDir' = freezeDir, NodesRest
    PROVE  IInv'
<1>1. TypeOK /\ ViewsAgree /\ CutsInView /\ ViewsGrow
    BY Zenon DEF IInv, ViewsGrow, ControlRests, ViewsRest
<1>2. m.type = "METALOGS"
    BY Zenon DEF OnRecvNewMetaLogs
<1>3. PICK v, s : v = ViewOf(m.ls) /\ s = PrimaryOf(m.ls)
    BY Zenon
<1>4. /\ m \in Messages /\ m.ls \in LogSpaces /\ m.to \in Nodes /\ v \in Nat /\ v < Len(views)
      /\ m.ls = <<v, s>> /\ s \in ActivePhylogs(View(v)) /\ Addressed(m)
    <2>1. m.type # "LOCAL_READ"
        BY <1>2
    <2>2. QED
        BY <1>3, <2>1, MessageFacts, Zenon
<1>5. m.data \in Nat
    BY <1>2, <1>4 DEF Messages
<1>6. v <= current[s]
    <2>1. m.type # "LOCAL_READ" /\ m.type \in {"METALOGS", "META_PROG"}
        BY <1>2
    <2>2. QED
        BY <1>3, <1>4, <2>1, Zenon DEF Addressed
<1>7. s \in Nodes /\ <<v, s>> \in Installed(s, v)
    BY <1>1, <1>4, InstalledFacts, KindsOfNodes, Zenon
<1>8. /\ got' = [got EXCEPT ![m.ls][m.to] = @ \cup {m.data}]
      /\ hold' = hold /\ cuts' = cuts /\ stored' = stored
    BY Zenon DEF OnRecvNewMetaLogs
<1>9. got' \in [LogSpaces -> [Nodes -> SUBSET Nat]]
    <2>1. got \in [LogSpaces -> [Nodes -> SUBSET Nat]]
        BY <1>1, Zenon DEF TypeOK, TypeLogs
    <2> DEFINE P == SUBSET Nat
    <2>2. ASSUME NEW S \in P PROVE S \cup {m.data} \in P
        BY <1>5, Zenon
    <2>3. got \in [LogSpaces -> [Nodes -> P]]
        BY <2>1, Zenon
    <2> HIDE DEF P
    <2>4. got' \in [LogSpaces -> [Nodes -> P]]
        BY <1>4, <1>8, <2>2, <2>3, Zenon
    <2>5. QED
        BY <2>4, Zenon DEF P
<1>10. TypeLogs' /\ CutsInView'
    BY <1>1, <1>8, <1>9, CutsStay, Zenon DEF TypeOK, TypeLogs
<1> DEFINE progressed == {Msg("META_PROG", m.ls, m.to, s, Prefix(got'[m.ls][m.to]))}
           indexed == {Msg("INDEX_DATA", m.ls, m.to, e, m.data) : e \in IndexEngineNodes(View(v), s)}
<1>11. CASE net' \subseteq net
    <2>1. {} \in SUBSET Messages /\ (\A x \in {} : Addressed(x)) /\ net' \subseteq net \cup {}
        BY <1>11, Zenon
    <2>2. QED
        BY <1>8, <1>10, <2>1, LogStep, Zenon
<1>12. CASE m.to \in Sequencers /\ net' \subseteq net \cup progressed
    <2>1. Prefix(got'[m.ls][m.to]) \in SUBSET Nat
        <3>1. got'[m.ls][m.to] \in SUBSET Nat
            BY <1>4, <1>9, Zenon
        <3>2. QED
            BY <3>1, Zenon DEF Prefix
    <2>2. progressed \in SUBSET Messages
        BY <1>4, <1>7, <2>1, MsgIsMessage
    <2>3. \A x \in progressed : Addressed(x)
        <3>1. /\ "META_PROG" # "LOCAL_READ" /\ "META_PROG" # "REPLICATE"
              /\ "META_PROG" \notin {"INDEX_DATA", "READ", "CONTINUE"}
            OBVIOUS
        <3>2. Addressed(Msg("META_PROG", <<v, s>>, m.to, s, Prefix(got'[m.ls][m.to])))
            BY <1>4, <1>6, <1>7, <1>12, <3>1, SentIsAddressed, Zenon
        <3>3. QED
            BY <1>4, <3>2, Zenon
    <2> HIDE DEF progressed
    <2>4. QED
        BY <1>8, <1>10, <1>12, <2>2, <2>3, LogStep, Zenon
<1>13. CASE net' \subseteq net \cup indexed
    <2>1. ASSUME NEW e \in IndexEngineNodes(View(v), s)
          PROVE  /\ Msg("INDEX_DATA", m.ls, m.to, e, m.data) \in Messages
                 /\ Addressed(Msg("INDEX_DATA", m.ls, m.to, e, m.data))
        <3>1. e \in Nodes /\ <<v, s>> \in Installed(e, v)
            BY <1>1, <1>4, InstalledFacts, KindsOfNodes, Zenon
        <3>2. Msg("INDEX_DATA", m.ls, m.to, e, m.data) \in Messages
            BY <1>4, <1>5, <3>1, MsgIsMessage
        <3>3. /\ "INDEX_DATA" # "LOCAL_READ" /\ "INDEX_DATA" # "REPLICATE" /\ "INDEX_DATA" # "META_PROG"
              /\ "INDEX_DATA" \notin {"METALOGS", "META_PROG"} /\ "INDEX_DATA" \notin {"SHARD_PROG", "META_PROG"}
            OBVIOUS
        <3>4. Addressed(Msg("INDEX_DATA", <<v, s>>, m.to, e, m.data))
            BY <1>4, <3>1, <3>3, SentIsAddressed, Zenon
        <3>5. QED
            BY <1>4, <3>2, <3>4, Zenon
    <2>2. indexed \in SUBSET Messages /\ \A x \in indexed : Addressed(x)
        BY <2>1, Zenon
    <2> HIDE DEF indexed
    <2>3. QED
        BY <1>8, <1>10, <1>13, <2>2, LogStep, Zenon
<1>14. \/ net' \subseteq net
       \/ m.to \in Sequencers /\ net' \subseteq net \cup progressed
       \/ net' \subseteq net \cup indexed
    <2>1. CASE m.to \in Sequencers
        <3>1. \/ Consume(m, progressed) \/ Consume(m, {})
            BY <1>3, <2>1, KindsOfNodes, Zenon DEF OnRecvNewMetaLogs
        <3> HIDE DEF progressed
        <3>2. QED
            BY <2>1, <3>1, Zenon DEF Consume
    <2>2. CASE m.to \in Storages
        <3>1. Consume(m, indexed)
            BY <1>3, <2>2, KindsOfNodes, Zenon DEF OnRecvNewMetaLogs, ViewFor
        <3> HIDE DEF indexed
        <3>2. QED
            BY <3>1, Zenon DEF Consume
    <2>3. CASE m.to \in Engines
        <3>1. Consume(m, {})
            BY <2>3, KindsOfNodes, Zenon DEF OnRecvNewMetaLogs
        <3>2. QED
            BY <3>1, Zenon DEF Consume
    <2>4. QED
        BY <1>4, <2>1, <2>2, <2>3, Zenon DEF Nodes
<1>15. QED
    BY <1>11, <1>12, <1>13, <1>14, Zenon

\* The primary propagates what became replicated to engines and storage nodes of
\* the view: those of a cut are.
LEMMA MetaLogProgressStep ==
    ASSUME IInv, NEW m \in net, OnRecvMetaLogProgress(m), ControlRests, freezeDir' = freezeDir, NodesRest
    PROVE  IInv'
<1>1. TypeOK /\ ViewsAgree /\ CutsInView /\ ViewsGrow
    BY Zenon DEF IInv, ViewsGrow, ControlRests, ViewsRest
<1>2. m.type = "META_PROG"
    BY Zenon DEF OnRecvMetaLogProgress
<1> DEFINE v == ViewOf(m.ls)
           s == PrimaryOf(m.ls)
           rep == [replica[m.ls] EXCEPT ![m.from] = @ \cup m.data]
           old == ReplicatedPosition(m.ls, View(v), replica[m.ls])
           upto == ReplicatedPosition(m.ls, View(v), rep)
           to(k) == (cuts[m.ls][k] \cup IndexEngineNodes(View(v), s))
                      \cup UNION {StorageNodesOf(View(v), e) : e \in cuts[m.ls][k]}
           new == UNION {{Msg("METALOGS", m.ls, m.to, n, k) : n \in to(k)} : k \in upto \ old}
<1>3. /\ replica' = [replica EXCEPT ![m.ls] = rep] /\ Consume(m, new)
      /\ hold' = hold /\ cuts' = cuts /\ stored' = stored /\ got' = got
    BY Zenon DEF OnRecvMetaLogProgress, ViewFor
<1>4. v = ViewOf(m.ls) /\ s = PrimaryOf(m.ls)
    BY Zenon
<1> HIDE DEF v, s
<1>5. /\ m \in Messages /\ m.ls \in LogSpaces /\ m.to \in Nodes /\ v \in Nat /\ v < Len(views)
      /\ m.ls = <<v, s>> /\ s \in ActivePhylogs(View(v)) /\ Addressed(m)
    <2>1. m.type # "LOCAL_READ"
        BY <1>2
    <2>2. QED
        BY <1>4, <2>1, MessageFacts, Zenon
<1>6. v <= current[s]
    <2>1. m.type # "LOCAL_READ" /\ m.type \in {"METALOGS", "META_PROG"}
        BY <1>2
    <2>2. QED
        BY <1>4, <1>5, <2>1, Zenon DEF Addressed
<1>7. View(v) \in GoodConfiguration /\ s \in Range(View(v).sequencers)
    BY <1>1, <1>5, InstalledFacts, ViewFacts, Zenon
<1>8. TypeLogs' /\ CutsInView'
    BY <1>1, <1>3, CutsStay, Zenon DEF TypeOK, TypeLogs
<1>9. upto \subseteq DOMAIN cuts[m.ls]
    BY Zenon DEF ReplicatedPosition
<1> HIDE DEF old, upto, rep, to
<1>10. ASSUME NEW k \in upto \ old, NEW n \in to(k)
       PROVE  /\ Msg("METALOGS", m.ls, m.to, n, k) \in Messages
              /\ Addressed(Msg("METALOGS", m.ls, m.to, n, k))
    <2>1. cuts[m.ls] \in Seq(SUBSET Engines)
        BY <1>1, <1>5, Zenon DEF TypeOK, TypeLogs
    <2>2. k \in Nat /\ k \in DOMAIN cuts[m.ls]
        BY <1>9, <2>1, Indices, Zenon
    <2>3. cuts[m.ls][k] \subseteq Range(View(v).engines)
        BY <1>1, <1>4, <1>5, <2>2, Zenon DEF CutsInView
    <2>4. n \in Range(View(v).engines) \/ n \in Range(View(v).storages)
        <3>1. \/ n \in cuts[m.ls][k] \/ n \in IndexEngineNodes(View(v), s)
              \/ \E e \in cuts[m.ls][k] : n \in StorageNodesOf(View(v), e)
            BY Zenon DEF to
        <3>2. /\ IndexEngineNodes(View(v), s) \subseteq Range(View(v).engines)
              /\ \A e \in Range(View(v).engines) : StorageNodesOf(View(v), e) \subseteq Range(View(v).storages)
            BY <1>7, ConfigurationFacts, Zenon
        <3>3. QED
            BY <2>3, <3>1, <3>2, Zenon
    <2>5. n \in Nodes /\ <<v, s>> \in Installed(n, v)
        BY <1>1, <1>5, <2>4, InstalledFacts, KindsOfNodes, Zenon
    <2>6. Msg("METALOGS", m.ls, m.to, n, k) \in Messages
        BY <1>5, <2>2, <2>5, MsgIsMessage
    <2>7. /\ "METALOGS" # "LOCAL_READ" /\ "METALOGS" # "REPLICATE" /\ "METALOGS" # "META_PROG"
          /\ "METALOGS" \notin {"INDEX_DATA", "READ", "CONTINUE"} /\ "METALOGS" \notin {"SHARD_PROG", "META_PROG"}
        OBVIOUS
    <2>8. Addressed(Msg("METALOGS", <<v, s>>, m.to, n, k))
        BY <1>5, <1>6, <2>5, <2>7, SentIsAddressed, Zenon
    <2>9. QED
        BY <1>5, <2>6, <2>8, Zenon
<1>11. new \in SUBSET Messages /\ \A x \in new : Addressed(x)
    <2>1. ASSUME NEW x \in new PROVE x \in Messages /\ Addressed(x)
        <3>1. PICK k \in upto \ old : x \in {Msg("METALOGS", m.ls, m.to, n, k) : n \in to(k)}
            BY Zenon
        <3>2. QED
            BY <1>10, <3>1, Zenon
    <2> HIDE DEF new
    <2>2. QED
        BY <2>1, Zenon
<1>12. net' \subseteq net \cup new
    BY <1>3, Zenon DEF Consume
<1> HIDE DEF new
<1>13. QED
    BY <1>3, <1>8, <1>11, <1>12, LogStep, Zenon

\* An engine that takes appends is one of its view: its entry goes to storage nodes
\* of the view.
LEMMA LocalAppendStep ==
    ASSUME IInv, NEW e \in Engines, HandleLocalAppend(e) PROVE IInv'
<1>1. TypeOK /\ ViewsAgree /\ CutsInView /\ Watching /\ EnginesActive
    BY Zenon DEF IInv
<1>2. ControlRests /\ freezeDir' = freezeDir /\ NodesRest /\ hold' = hold
    BY DEF HandleLocalAppend, controller, zk, nodes, ControlRests, ViewsRest, NodesRest
<1>3. cuts' = cuts /\ stored' = stored /\ got' = got /\ ViewsGrow
    BY <1>2, Zenon DEF HandleLocalAppend, ControlRests, ViewsRest, ViewsGrow
<1> DEFINE v == current[e]
<1>4. PICK s \in ActivePhylogs(View(v)) :
        net' = net \cup {Msg("REPLICATE", <<v, s>>, e, n, {}) : n \in StorageNodesOf(View(v), e)}
    BY Zenon DEF HandleLocalAppend
<1>5. v = current[e]
    BY Zenon
<1> HIDE DEF v
<1>6. v \in Nat /\ v < Len(views) /\ e \in Range(View(v).engines) /\ e \in Nodes
    <2>1. v >= 0 /\ e \in Range(View(v).engines)
        BY <1>1, <1>5, Zenon DEF HandleLocalAppend, EnginesActive
    <2>2. v \in -1 .. Len(views) - 1 /\ views \in Seq(GoodConfiguration)
        BY <1>1, <1>5, KindsOfNodes, Zenon DEF Watching, TypeOK, TypeControl
    <2>3. QED
        BY <2>1, <2>2, KindsOfNodes
<1> DEFINE new == {Msg("REPLICATE", <<v, s>>, e, n, {}) : n \in StorageNodesOf(View(v), e)}
<1>7. ASSUME NEW n \in StorageNodesOf(View(v), e)
      PROVE  /\ Msg("REPLICATE", <<v, s>>, e, n, {}) \in Messages
             /\ Addressed(Msg("REPLICATE", <<v, s>>, e, n, {}))
    <2>1. n \in Range(View(v).storages)
        BY <1>1, <1>6, ViewFacts, ConfigurationFacts, Zenon
    <2>2. <<v, s>> \in LogSpaces /\ n \in Storages /\ n \in Nodes /\ <<v, s>> \in Installed(n, v)
        BY <1>1, <1>6, <2>1, InstalledFacts, KindsOfNodes, Zenon
    <2>3. Msg("REPLICATE", <<v, s>>, e, n, {}) \in Messages
        <3>1. {} \in SUBSET Engines
            BY Zenon
        <3>2. QED
            BY <1>6, <2>2, <3>1, MsgIsMessage
    <2>4. /\ "REPLICATE" # "LOCAL_READ" /\ "REPLICATE" \notin {"METALOGS", "META_PROG"} /\ "REPLICATE" # "META_PROG"
          /\ "REPLICATE" \notin {"INDEX_DATA", "READ", "CONTINUE"} /\ "REPLICATE" \notin {"SHARD_PROG", "META_PROG"}
        OBVIOUS
    <2>5. QED
        BY <1>6, <2>2, <2>3, <2>4, SentIsAddressed, Zenon
<1>8. new \in SUBSET Messages /\ (\A x \in new : Addressed(x)) /\ net' \subseteq net \cup new
    BY <1>4, <1>7, Zenon
<1>9. TypeLogs' /\ CutsInView'
    BY <1>1, <1>3, CutsStay, Zenon DEF TypeOK, TypeLogs
<1> HIDE DEF new
<1>10. QED
    BY <1>2, <1>8, <1>9, LogStep, Zenon

\* A function reads.
LEMMA StartReadStep ==
    ASSUME IInv, NEW e \in Clients, StartRead(e) PROVE IInv'
<1>1. TypeOK /\ CutsInView
    BY Zenon DEF IInv
<1>2. ControlRests /\ freezeDir' = freezeDir /\ NodesRest /\ hold' = hold
    BY DEF StartRead, controller, zk, nodes, ControlRests, ViewsRest, NodesRest
<1>3. cuts' = cuts /\ stored' = stored /\ got' = got /\ ViewsGrow
    BY <1>2, Zenon DEF StartRead, ControlRests, ViewsRest, ViewsGrow
<1> DEFINE x == Msg("LOCAL_READ", <<0, CHOOSE s \in Sequencers : TRUE>>, e, e, {})
<1>4. net' = net \cup {x}
    BY Zenon DEF StartRead
<1>5. x \in Messages
    <2>1. Sequencers # {} /\ MaxViews \in Nat \ {0}
        BY NodesAssumption
    <2>2. PICK p \in Sequencers : p = CHOOSE s \in Sequencers : TRUE
        BY <2>1
    <2>3. <<0, p>> \in LogSpaces
        BY <2>1, <2>2 DEF LogSpaces
    <2>4. e \in Nodes /\ {} \in SUBSET Engines
        BY ReplicasAssumption, KindsOfNodes
    <2>5. QED
        BY <2>2, <2>3, <2>4, MsgIsMessage
<1>6. x.type = "LOCAL_READ" /\ x.to = e /\ ViewOf(x.ls) = 0
    BY DEF Msg, ViewOf
<1> HIDE DEF x
<1>7. Addressed(x)
    BY <1>6, Zenon DEF Addressed
<1>8. {x} \in SUBSET Messages /\ (\A y \in {x} : Addressed(y)) /\ net' \subseteq net \cup {x}
    BY <1>4, <1>5, <1>7, Zenon
<1>9. TypeLogs' /\ CutsInView'
    BY <1>1, <1>3, CutsStay, Zenon DEF TypeOK, TypeLogs
<1>10. QED
    BY <1>2, <1>8, <1>9, LogStep, Zenon

\* A storage node of the view sends its progress to the primary.
LEMMA SendShardProgressStep ==
    ASSUME IInv, NEW n \in Storages, NEW ls \in LogSpaces, SendShardProgressIfNeeded(n, ls) PROVE IInv'
<1>1. TypeOK /\ ViewsAgree /\ CutsInView /\ Watching
    BY Zenon DEF IInv
<1>2. ControlRests /\ freezeDir' = freezeDir /\ NodesRest /\ hold' = hold
    BY DEF SendShardProgressIfNeeded, controller, zk, nodes, ControlRests, ViewsRest, NodesRest
<1>3. cuts' = cuts /\ stored' = stored /\ got' = got /\ ViewsGrow
    BY <1>2, Zenon DEF SendShardProgressIfNeeded, ControlRests, ViewsRest, ViewsGrow
<1> DEFINE v == ViewOf(ls)
           s == PrimaryOf(ls)
           x == Msg("SHARD_PROG", ls, n, s, stored[ls][n])
<1>4. net' = net \cup {x} /\ current[n] = v /\ ls \in Installed(n, v)
    BY Zenon DEF SendShardProgressIfNeeded
<1>5. v \in Nat /\ v < Len(views)
    <2>1. v \in Nat
        BY DEF LogSpaces, ViewOf
    <2>2. v \in -1 .. Len(views) - 1 /\ views \in Seq(GoodConfiguration)
        BY <1>1, <1>4, KindsOfNodes, Zenon DEF Watching, TypeOK, TypeControl
    <2> HIDE DEF v
    <2>3. QED
        BY <2>1, <2>2
<1> HIDE DEF v, s
<1>6. ls = <<v, s>> /\ s \in ActivePhylogs(View(v))
    BY <1>1, <1>4, <1>5, InstalledIsMember, Zenon DEF s
<1>7. s \in Nodes /\ n \in Nodes /\ <<v, s>> \in Installed(s, v)
    BY <1>1, <1>5, <1>6, InstalledFacts, KindsOfNodes, Zenon
<1>8. x \in Messages
    <2>1. stored[ls][n] \in SUBSET Engines
        BY <1>1, Zenon DEF TypeOK, TypeLogs
    <2>2. QED
        BY <1>7, <2>1, MsgIsMessage
<1>9. Addressed(x)
    <2>1. /\ "SHARD_PROG" # "LOCAL_READ" /\ "SHARD_PROG" # "REPLICATE" /\ "SHARD_PROG" # "META_PROG"
          /\ "SHARD_PROG" \notin {"METALOGS", "META_PROG"} /\ "SHARD_PROG" \notin {"INDEX_DATA", "READ", "CONTINUE"}
        OBVIOUS
    <2>2. Addressed(Msg("SHARD_PROG", <<v, s>>, n, s, stored[ls][n]))
        BY <1>5, <1>7, <2>1, SentIsAddressed, Zenon
    <2>3. QED
        BY <1>6, <2>2, Zenon
<1>10. {x} \in SUBSET Messages /\ (\A y \in {x} : Addressed(y)) /\ net' \subseteq net \cup {x}
    <2> HIDE DEF x
    <2>1. QED
        BY <1>4, <1>8, <1>9, Zenon
<1>11. TypeLogs' /\ CutsInView'
    BY <1>1, <1>3, CutsStay, Zenon DEF TypeOK, TypeLogs
<1> HIDE DEF x
<1>12. QED
    BY <1>2, <1>10, <1>11, LogStep, Zenon

\* The primary marks a cut of engines of its view, and sends it to its replicas.
LEMMA MarkNextCutStep ==
    ASSUME IInv, NEW s \in Sequencers, MarkNextCutIfDoable(s) PROVE IInv'
<1>1. TypeOK /\ ViewsAgree /\ CutsInView /\ Watching
    BY Zenon DEF IInv
<1>2. ControlRests /\ freezeDir' = freezeDir /\ NodesRest /\ hold' = hold
    BY DEF MarkNextCutIfDoable, controller, zk, nodes, ControlRests, ViewsRest, NodesRest
<1>3. stored' = stored /\ got' = got /\ ViewsGrow
    BY <1>2, Zenon DEF MarkNextCutIfDoable, ControlRests, ViewsRest, ViewsGrow
<1> DEFINE v == current[s]
           ls == <<v, s>>
           cut == {e \in Engines :
                     /\ e \in Range(View(v).engines)
                     /\ \A n \in StorageNodesOf(View(v), e) : e \in progress[ls][n]} \ UNION Range(cuts[ls])
           new == {Msg("METALOGS", ls, s, r, Len(cuts[ls]) + 1) : r \in ReplicaSequencers(View(v), s)}
<1>4. /\ v >= 0 /\ s \in ActivePhylogs(View(v)) /\ cuts' = [cuts EXCEPT ![ls] = Append(@, cut)]
      /\ net' = net \cup new
    BY Zenon DEF MarkNextCutIfDoable
<1>5. cut \subseteq Range(View(v).engines) /\ cut \in SUBSET Engines
    BY Zenon
<1>6. v \in Nat /\ v < Len(views) /\ v <= current[s] /\ s \in Nodes
    <2>1. v \in -1 .. Len(views) - 1 /\ Len(views) \in Nat /\ s \in Nodes
        BY <1>1, KindsOfNodes, Indices, Zenon DEF Watching, TypeOK, TypeControl
    <2>2. v = current[s]
        BY Zenon
    <2> HIDE DEF v
    <2>3. QED
        BY <1>4, <2>1, <2>2
<1> HIDE DEF v, cut
<1>7. ls \in LogSpaces /\ ViewOf(ls) = v
    <2>1. <<v, s>> \in LogSpaces
        BY <1>1, <1>4, <1>6, InstalledFacts, Zenon
    <2>2. QED
        BY <2>1 DEF ViewOf
<1>8. cuts[ls] \in Seq(SUBSET Engines) /\ Len(cuts[ls]) + 1 \in Nat
    BY <1>1, <1>7 DEF TypeOK, TypeLogs
<1>9. TypeLogs'
    <2>1. cuts' \in [LogSpaces -> Seq(SUBSET Engines)]
        <3>1. Append(cuts[ls], cut) \in Seq(SUBSET Engines)
            BY <1>5, <1>8, Indices, Zenon
        <3>2. QED
            BY <1>1, <1>4, <1>7, <3>1, Zenon DEF TypeOK, TypeLogs
    <2>2. QED
        BY <1>1, <1>3, <2>1, Zenon DEF TypeOK, TypeLogs
<1>10. CutsInView'
    <2>1. \A u : View(u)' = View(u)
        BY <1>2, Zenon DEF View, ControlRests, ViewsRest
    <2>2. SUFFICES ASSUME NEW l \in LogSpaces, NEW k \in DOMAIN cuts'[l]
                   PROVE  ViewOf(l) < Len(views) /\ cuts'[l][k] \subseteq Range(View(ViewOf(l)).engines)
        BY <1>2, <2>1, Zenon DEF CutsInView, ControlRests, ViewsRest, Range
    <2>3. CASE l = ls
        <3>1. cuts'[l] = Append(cuts[ls], cut)
            BY <1>1, <1>4, <1>7, <2>3, Zenon DEF TypeOK, TypeLogs
        <3>2. (k \in DOMAIN cuts[ls] /\ cuts'[l][k] = cuts[ls][k]) \/ cuts'[l][k] = cut
            BY <1>8, <3>1
        <3>3. QED
            BY <1>1, <1>5, <1>6, <1>7, <2>3, <3>2, Zenon DEF CutsInView
    <2>4. CASE l # ls
        <3>1. cuts'[l] = cuts[l]
            BY <1>1, <1>4, <2>4, Zenon DEF TypeOK, TypeLogs
        <3>2. QED
            BY <1>1, <3>1, Zenon DEF CutsInView
    <2>5. QED
        BY <2>3, <2>4, Zenon
<1>11. ASSUME NEW r \in ReplicaSequencers(View(v), s)
       PROVE  /\ Msg("METALOGS", ls, s, r, Len(cuts[ls]) + 1) \in Messages
              /\ Addressed(Msg("METALOGS", ls, s, r, Len(cuts[ls]) + 1))
    <2>1. r \in Nodes /\ <<v, s>> \in Installed(r, v)
        BY <1>1, <1>4, <1>6, InstalledFacts, KindsOfNodes, Zenon
    <2>2. Msg("METALOGS", ls, s, r, Len(cuts[ls]) + 1) \in Messages
        BY <1>6, <1>7, <1>8, <2>1, MsgIsMessage
    <2>3. /\ "METALOGS" # "LOCAL_READ" /\ "METALOGS" # "REPLICATE" /\ "METALOGS" # "META_PROG"
          /\ "METALOGS" \notin {"INDEX_DATA", "READ", "CONTINUE"} /\ "METALOGS" \notin {"SHARD_PROG", "META_PROG"}
        OBVIOUS
    <2>4. QED
        BY <1>6, <2>1, <2>2, <2>3, SentIsAddressed, Zenon
<1>12. new \in SUBSET Messages /\ (\A x \in new : Addressed(x)) /\ net' \subseteq net \cup new
    BY <1>4, <1>11, Zenon
<1> HIDE DEF new
<1>13. QED
    BY <1>2, <1>9, <1>10, <1>12, LogStep, Zenon

-----------------------------------------------------------------------------
(* Every step.                                                              *)

\* A message reaches its node.
LEMMA MessageStep ==
    ASSUME IInv, NEW m \in net, MessageHandler(m) PROVE IInv'
<1>1. ControlRests /\ freezeDir' = freezeDir /\ NodesRest
    BY DEF MessageHandler, controller, zk, ControlRests, ViewsRest, NodesRest
<1>2. \/ OnHoldRequest(m) \/ Ignore(m)
      \/ HandleReplicateRequest(m) \/ OnRecvShardProgress(m)
      \/ OnRecvNewMetaLogs(m) \/ OnRecvMetaLogProgress(m)
      \/ OnRecvNewIndexData(m)
      \/ HandleLocalRead(m) \/ HandleRemoteRead(m) \/ HandleContinuedRead(m)
    BY Zenon DEF MessageHandler
<1>3. CASE OnHoldRequest(m)
    BY <1>1, <1>3, OnHoldStep, Zenon
<1>4. CASE Ignore(m) \/ OnRecvShardProgress(m) \/ OnRecvNewIndexData(m) \/ HandleContinuedRead(m)
    BY <1>1, <1>4, QuietHandlers, Zenon
<1>5. CASE HandleReplicateRequest(m)
    BY <1>1, <1>5, ReplicateStep, Zenon
<1>6. CASE OnRecvNewMetaLogs(m)
    BY <1>1, <1>6, MetaLogsStep, Zenon
<1>7. CASE OnRecvMetaLogProgress(m)
    BY <1>1, <1>7, MetaLogProgressStep, Zenon
<1>8. CASE HandleLocalRead(m)
    BY <1>1, <1>8, LocalReadStep, Zenon
<1>9. CASE HandleRemoteRead(m)
    BY <1>1, <1>9, RemoteReadStep, Zenon
<1>10. QED
    BY <1>2, <1>3, <1>4, <1>5, <1>6, <1>7, <1>8, <1>9, Zenon

\* A step that changes nothing.
LEMMA Stuttering ==
    ASSUME IInv, UNCHANGED vars PROVE IInv'
<1>1. ViewsRest /\ LogsRest /\ online' = online /\ freezeSeen' = freezeSeen /\ freezeDir' = freezeDir
    BY DEF vars, controller, zk, nodes, logs, ViewsRest, LogsRest, NodesRest
<1>2. ViewsAgree' /\ OneReconfig' /\ ViewsInOrder' /\ Watching' /\ ViewsGrow
    BY <1>1, ControlStays, NodesStay, Zenon DEF LogsRest
<1>3. TypeControl'
    BY <1>1, Zenon DEF IInv, TypeOK, TypeControl, ViewsRest
<1>4. QED
    BY <1>1, <1>2, <1>3, ControlStep, Zenon

\* Every step keeps the invariant.
LEMMA StepKeepsInvariant ==
    ASSUME IInv, [Next]_vars PROVE IInv'
<1>1. CASE OnFreezeZNodeCreated
    BY <1>1, FreezeAnswerStep, Zenon
<1>2. CASE FinalizePublished
    BY <1>2, FinalizePublishedStep, Zenon
<1>3. CASE ServeCreate
    BY <1>3, ServeCreateStep, Zenon
<1>4. ASSUME NEW n \in Nodes, OnZNodeCreated(n) PROVE IInv'
    BY <1>4, ZNodeCreatedStep, Zenon
<1>5. ASSUME NEW n \in Storages, NEW ls \in LogSpaces, SendShardProgressIfNeeded(n, ls) PROVE IInv'
    BY <1>5, SendShardProgressStep, Zenon
<1>6. ASSUME NEW s \in Sequencers, MarkNextCutIfDoable(s) PROVE IInv'
    BY <1>6, MarkNextCutStep, Zenon
<1>7. ASSUME NEW m \in net, MessageHandler(m) PROVE IInv'
    BY <1>7, MessageStep, Zenon
<1>8. ASSUME NEW n \in Nodes, OnNodeOnline(n) \/ OnNodeOffline(n) PROVE IInv'
    BY <1>8, NodeOnlineStep, Zenon
<1>9. CASE StartCommandHandler
    BY <1>9, StartStep, Zenon
<1>10. ASSUME NEW cfg \in Reconfigs, ReconfigCommandHandler(cfg) PROVE IInv'
    BY <1>10, ReconfigStep, Zenon
<1>11. ASSUME NEW e \in Clients, HandleLocalAppend(e) \/ StartRead(e) PROVE IInv'
    <2>1. e \in Engines
        BY ReplicasAssumption
    <2>2. QED
        BY <1>11, <2>1, LocalAppendStep, StartReadStep, Zenon
<1>12. CASE UNCHANGED vars
    BY <1>12, Stuttering, Zenon
<1>13. QED
    BY <1>1, <1>2, <1>3, <1>4, <1>5, <1>6, <1>7, <1>8, <1>9, <1>10, <1>11, <1>12, Zenon DEF Next, System

\* Before anything happened.
LEMMA InitHolds == Init => IInv
<1> SUFFICES ASSUME Init PROVE IInv
    OBVIOUS
<1>1. /\ views = <<>> /\ creates = <<>> /\ viewDir = <<>> /\ freezeDir = <<>> /\ state = "Created"
      /\ seal = None /\ pending = None /\ acked = FALSE /\ freezeSeen = 0 /\ online = {}
      /\ active = {} /\ net = {}
    BY Zenon DEF Init
<1>2. TypeControl
    <2>1. views \in Seq(GoodConfiguration) /\ creates \in Seq(Requests) /\ viewDir \in Seq(Requests)
          /\ freezeDir \in Seq([view : Nat, tails : Tails])
        BY <1>1
    <2>2. freezeSeen \in Nat /\ online \in SUBSET Nodes /\ acked \in BOOLEAN
        BY <1>1, Zenon
    <2>3. QED
        BY <1>1, <2>1, <2>2, Zenon DEF TypeControl
<1>3. TypeNodes
    BY DEF Init, TypeNodes
<1>4. TypeLogs
    BY DEF Init, TypeLogs
<1>5. Znodes = <<>> /\ Len(views) = 0 /\ DOMAIN views = {} /\ DOMAIN Znodes = {} /\ DOMAIN creates = {}
    BY <1>1 DEF Znodes
<1>6. ViewsAgree
    BY <1>1, <1>5, NodesAssumption DEF ViewsAgree
<1>7. OneReconfig
    BY <1>1, <1>5, Zenon DEF OneReconfig
<1>8. ViewsInOrder
    <2>1. 0 .. Len(views) - 1 = {}
        BY <1>5
    <2>2. QED
        BY <1>5, <2>1, Zenon DEF ViewsInOrder
<1>9. Watching
    <2>1. \A n \in Nodes : current[n] \in -1 .. Len(views) - 1 /\ seen[n] <= Len(viewDir)
        BY <1>1, <1>5 DEF Init
    <2>2. QED
        BY <1>5, <2>1, Zenon DEF Watching
<1>10. EnginesActive
    BY <1>1, Zenon DEF EnginesActive
<1>11. CutsInView
    BY DEF Init, CutsInView
<1>12. MessagesAddressed
    BY <1>1, Zenon DEF Init, MessagesAddressed
<1>13. QED
    BY <1>2, <1>3, <1>4, <1>6, <1>7, <1>8, <1>9, <1>10, <1>11, <1>12, Zenon DEF IInv, TypeOK

-----------------------------------------------------------------------------
(* The theorems.                                                            *)

\* The invariant holds in every reachable state.  It says that there is one
\* reconfiguration at a time, that the view directory lists the views in order and
\* that every node has installed a prefix of them.
THEOREM ViewChangeInvariant == Spec => []IInv
<1>1. Init => IInv
    BY InitHolds
<1>2. IInv /\ [Next]_vars => IInv'
    BY StepKeepsInvariant
<1>3. QED
    BY <1>1, <1>2, PTL DEF Spec

\* What the invariant says of messages that are on their way or on hold.
LEMMA InvariantMessages == IInv => NoMessageIsFatal
<1>1. SUFFICES ASSUME IInv, NEW m \in net \cup Held, m.type # "LOCAL_READ"
               PROVE  /\ m.type = "META_PROG" => ~FromFuture(m)
                      /\ m.ls \in Installed(m.to, ViewOf(m.ls))
                      /\ m.type \in {"INDEX_DATA", "READ", "CONTINUE"} =>
                           m.to \in IndexEngineNodes(ViewFor(m), PrimaryOf(m.ls))
    BY Zenon DEF NoMessageIsFatal
<1>2. m \in Messages /\ Addressed(m)
    <2>1. m \in net \/ \E n \in Nodes : m \in hold[n]
        BY Zenon DEF Held
    <2>2. (\A x \in net : x \in Messages) /\ \A n \in Nodes : \A x \in hold[n] : x \in Messages
        BY <1>1, Zenon DEF IInv, TypeOK, TypeNodes
    <2>3. QED
        BY <1>1, <2>1, <2>2, Zenon DEF IInv, MessagesAddressed
<1>3. /\ m.ls \in Installed(m.to, ViewOf(m.ls))
      /\ m.type \in {"INDEX_DATA", "READ", "CONTINUE"} => m.to \in IndexEngineNodes(ViewFor(m), PrimaryOf(m.ls))
    BY <1>1, <1>2, Zenon DEF Addressed, ViewFor
<1>4. ASSUME m.type = "META_PROG" PROVE ~FromFuture(m)
    <2>1. m.type \in {"METALOGS", "META_PROG"} /\ m.type \in {"SHARD_PROG", "META_PROG"}
        BY <1>4
    <2>2. ViewOf(m.ls) <= current[m.to]
        BY <1>1, <1>2, <2>1, Zenon DEF Addressed
    <2>3. ViewOf(m.ls) \in Nat /\ current[m.to] \in Int
        BY <1>1, <1>2 DEF Messages, LogSpaces, ViewOf, IInv, TypeOK, TypeNodes
    <2>4. QED
        BY <2>2, <2>3 DEF FromFuture
<1>5. QED
    BY <1>3, <1>4

\* What it says of requests on hold.
LEMMA InvariantHolds == IInv => HoldsAreClaimed
<1>1. SUFFICES ASSUME IInv, NEW n \in Nodes, NEW m \in hold[n], ViewOf(m.ls) < Len(views)
               PROVE  n \in Members(ViewFor(m)) \/ (m.type = "LOCAL_READ" /\ n \in Late)
    <2>1. IInv => \A n \in Nodes : \A m \in hold[n] : ViewOf(m.ls) > current[n]
        BY Zenon DEF IInv, MessagesAddressed
    <2>2. QED
        BY <2>1 DEF HoldsAreClaimed
<1>2. TypeOK /\ ViewsAgree /\ m \in Messages /\ Addressed(m) /\ m.to = n
    BY <1>1, Zenon DEF IInv, MessagesAddressed, TypeOK, TypeNodes
<1>3. ViewOf(m.ls) \in Nat
    BY <1>2 DEF Messages, LogSpaces, ViewOf
<1>4. CASE m.type = "LOCAL_READ"
    <2>1. n \in Clients /\ SameNodes(View(ViewOf(m.ls)))
        BY <1>1, <1>2, <1>3, <1>4, ViewFacts, Zenon DEF Addressed
    <2>2. views # <<>>
        BY <1>1, <1>3
    <2>3. n \in Late \/ n \in Range(View(ViewOf(m.ls)).engines)
        BY <1>2, <2>1, <2>2, Zenon DEF ViewsAgree, SameNodes
    <2>4. QED
        BY <1>4, <2>3, Zenon DEF Members, ViewFor
<1>5. CASE m.type # "LOCAL_READ"
    BY <1>1, <1>2, <1>3, <1>5, InstalledIsMember, Zenon DEF Addressed, ViewFor
<1>6. QED
    BY <1>4, <1>5, Zenon

\* No message on its way or on hold makes its handler panic: a replica's progress
\* never overtakes the primary's view, GetLogSpaceChecked finds the log space, and
\* index data and remote reads reach engines that index it.
THEOREM MessagesAreNotFatal == Spec => []NoMessageIsFatal
BY ViewChangeInvariant, InvariantMessages, PTL

\* A node holds requests only for views that it has not installed, and is a member
\* of those: OnNewView's "Not expect on-hold requests" is met by no message, only by
\* the local reads of an engine that the first view leaves out.
THEOREM HeldRequestsAreClaimed == Spec => []HoldsAreClaimed
BY ViewChangeInvariant, InvariantHolds, PTL

\* A node that installs a view had the one before.
ViewsAreConsecutive ==
    \A n \in Nodes : current'[n] # current[n] => current'[n] = current[n] + 1

\* Whatever a node's watcher reports, the view it installs is the one after its
\* current view: "Views are not consecutive" (utils.cpp:28) is never met.
THEOREM NodesInstallViewsInOrder == Spec => [][ViewsAreConsecutive]_vars
<1>1. ASSUME IInv, Next PROVE ViewsAreConsecutive
    <2>1. CASE current' = current
        BY <2>1, Zenon DEF ViewsAreConsecutive
    <2>2. ASSUME NEW n \in Nodes, OnZNodeCreated(n) PROVE ViewsAreConsecutive
        <3>1. CASE current' = current
            BY <3>1, Zenon DEF ViewsAreConsecutive
        <3>2. CASE current' # current
            <4>1. /\ seen[n] < Len(viewDir) /\ viewDir[seen[n] + 1].kind = "new"
                  /\ current' = [current EXCEPT ![n] = viewDir[seen[n] + 1].view]
                <5>1. \A v, positions, tails : ~OnViewFinalized(n, v, positions, tails)
                    BY <3>2, Zenon DEF OnViewFinalized
                <5>2. QED
                    BY <2>2, <3>2, <5>1, Zenon DEF OnZNodeCreated, SequencerViewCreated, StorageViewCreated,
                        EngineViewCreated, InstallNextView, SequencerViewFrozen, EngineViewFrozen
            <4>2. viewDir[seen[n] + 1].view = current[n] + 1
                BY <1>1, <4>1, NextViewIsNext, Zenon
            <4>3. current \in [Nodes -> Int]
                BY <1>1, Zenon DEF IInv, TypeOK, TypeNodes
            <4>4. QED
                BY <4>1, <4>2, <4>3, Zenon DEF ViewsAreConsecutive
        <3>3. QED
            BY <3>1, <3>2, Zenon
    <2>3. ASSUME NEW m \in net, MessageHandler(m) PROVE current' = current
        BY <2>3, Zenon DEF MessageHandler
    <2>4. ASSUME OnFreezeZNodeCreated \/ FinalizePublished \/ ServeCreate \/ StartCommandHandler PROVE current' = current
        BY <2>4 DEF OnFreezeZNodeCreated, FreezeAnswer, FinalizePublished, ServeCreate, StartCommandHandler, nodes
    <2>5. ASSUME NEW n, NEW ls, SendShardProgressIfNeeded(n, ls) \/ MarkNextCutIfDoable(n)
                   \/ OnNodeOnline(n) \/ OnNodeOffline(n) \/ ReconfigCommandHandler(n) \/ HandleLocalAppend(n) \/ StartRead(n)
          PROVE  current' = current
        BY <2>5, Zenon DEF SendShardProgressIfNeeded, MarkNextCutIfDoable, OnNodeOnline, OnNodeOffline,
                           ReconfigCommandHandler, HandleLocalAppend, StartRead, nodes
    <2>6. QED
        BY <1>1, <2>1, <2>2, <2>3, <2>4, <2>5, Zenon DEF Next, System
<1>2. QED
    BY <1>1, ViewChangeInvariant, PTL DEF Spec

\* What a node sees next in the view directory is the end of a view of which its
\* metalogs are past the end, or too far behind it for the tail.
CannotFinalize(n) ==
    LET z == viewDir[seen[n] + 1] IN
    /\ seen[n] < Len(viewDir) /\ z.kind = "finalize"
    /\ \E ls \in Installed(n, z.view) :
         \/ SeesTheFuture(ls, n, z.positions[PrimaryOf(ls)])
         \/ FallsShort(ls, n, z.positions[PrimaryOf(ls)], z.tails[PrimaryOf(ls)])

\* A read of an engine waits for the first view, which leaves the engine out.
ReadIsLeftOut(n) ==
    LET z == viewDir[seen[n] + 1] IN
    /\ seen[n] < Len(viewDir) /\ z.kind = "new" /\ z.view = 0
    /\ n \in Late /\ n \notin Members(View(0)) /\ \E m \in hold[n] : m.type = "LOCAL_READ"

\* A read from a later view reaches the index of an earlier one.
ReadGoesOn(n) == \E m \in net : m.type = "CONTINUE" /\ m.to = n

\* What a node that meets a FATAL was about to do.
FatalsAreKnown ==
    \A n \in dead' \ dead : CannotFinalize(n) \/ ReadIsLeftOut(n) \/ ReadGoesOn(n)

\* Whatever views the nodes have, no step ends a process but these: LogSpaceBase::Finalize
\* past the final position or short of it (log_space_base.cpp:72, :84, :88), a local
\* read that waits on an engine that the first view leaves out (utils.cpp:34), and a
\* read that goes on from a later view (index.cpp:219).  The other FATALs on the
\* way of messages, that of META_PROG from a future view included, are never met.
THEOREM OnlyKnownStepsAreFatal == Spec => [][FatalsAreKnown]_vars
<1>1. ASSUME IInv, Next PROVE FatalsAreKnown
    <2>1. ASSUME dead' = dead PROVE FatalsAreKnown
        BY <2>1, Zenon DEF FatalsAreKnown
    <2>2. ASSUME NEW m \in net, MessageHandler(m) PROVE FatalsAreKnown
        <3>1. CASE OnHoldRequest(m)
            <4>1. m.type = "META_PROG" => m.type # "LOCAL_READ"
                OBVIOUS
            <4>2. ~(m.type = "META_PROG")
                BY <1>1, <2>2, <3>1, <4>1, InvariantMessages, Zenon DEF MessageHandler, OnHoldRequest, NoMessageIsFatal
            <4>3. QED
                BY <2>1, <3>1, <4>2, Zenon DEF OnHoldRequest
        <3>2. CASE HandleContinuedRead(m)
            BY <3>2, Zenon DEF HandleContinuedRead, FatalsAreKnown, ReadGoesOn
        <3>3. CASE ~OnHoldRequest(m) /\ ~HandleContinuedRead(m)
            <4>1. dead' = dead
                BY <2>2, <3>3, Zenon DEF MessageHandler, Ignore, HandleReplicateRequest, OnRecvShardProgress,
                    OnRecvNewMetaLogs, OnRecvMetaLogProgress, OnRecvNewIndexData, HandleLocalRead, HandleRemoteRead
            <4>2. QED
                BY <2>1, <4>1, Zenon
        <3>4. QED
            BY <3>1, <3>2, <3>3, Zenon
    <2>3. ASSUME NEW n \in Nodes, OnZNodeCreated(n) PROVE FatalsAreKnown
        <3> DEFINE z == viewDir[seen[n] + 1]
        <3>1. n \notin dead /\ seen[n] < Len(viewDir)
            BY <2>3, Zenon DEF OnZNodeCreated
        <3>2. CASE z.kind = "new" /\ InstallNextView(n, z.view)
            <4>1. z.view < Len(views)
                BY <1>1, <3>1, <3>2, NextViewIsNext, Zenon
            <4>2. CASE dead' = dead
                BY <2>1, <4>2, Zenon
            <4>3. CASE dead' # dead
                <5>1. PICK m \in hold[n] :
                        ViewOf(m.ls) = z.view /\ n \notin Members(View(z.view)) /\ dead' = dead \cup {n}
                    BY <3>2, <4>3, Zenon DEF InstallNextView, OnNewView, Unhold
                <5>2. m.type = "LOCAL_READ" /\ n \in Late
                    BY <1>1, <3>1, <4>1, <5>1, InvariantHolds, Zenon DEF HoldsAreClaimed, ViewFor
                <5>3. Addressed(m)
                    BY <1>1, Zenon DEF IInv, MessagesAddressed
                <5>4. z.view = 0
                    BY <5>1, <5>2, <5>3, Zenon DEF Addressed
                <5>5. ReadIsLeftOut(n)
                    BY <3>1, <3>2, <5>1, <5>2, <5>4, Zenon DEF ReadIsLeftOut
                <5>6. QED
                    BY <5>1, <5>5, Zenon DEF FatalsAreKnown
            <4>4. QED
                BY <4>2, <4>3, Zenon
        <3>3. CASE SequencerViewFrozen(n, z.view) \/ EngineViewFrozen(n, z.view)
            BY <2>1, <3>3, Zenon DEF SequencerViewFrozen, EngineViewFrozen
        <3>4. CASE z.kind = "finalize" /\ OnViewFinalized(n, z.view, z.positions, z.tails)
            <4>1. dead' = dead \/ (dead' = dead \cup {n} /\ CannotFinalize(n))
                BY <3>1, <3>4, Zenon DEF OnViewFinalized, CannotFinalize
            <4>2. QED
                BY <2>1, <4>1, Zenon DEF FatalsAreKnown
        <3>5. QED
            BY <2>3, <3>2, <3>3, <3>4, Zenon DEF OnZNodeCreated, SequencerViewCreated, StorageViewCreated, EngineViewCreated
    <2>4. ASSUME OnFreezeZNodeCreated \/ FinalizePublished \/ ServeCreate \/ StartCommandHandler PROVE dead' = dead
        BY <2>4 DEF OnFreezeZNodeCreated, FreezeAnswer, FinalizePublished, ServeCreate, StartCommandHandler, nodes
    <2>5. ASSUME NEW n, NEW ls, SendShardProgressIfNeeded(n, ls) \/ MarkNextCutIfDoable(n)
                   \/ OnNodeOnline(n) \/ OnNodeOffline(n)
                   \/ ReconfigCommandHandler(n) \/ HandleLocalAppend(n) \/ StartRead(n)
          PROVE  dead' = dead
        BY <2>5, Zenon DEF SendShardProgressIfNeeded, MarkNextCutIfDoable, OnNodeOnline, OnNodeOffline,
                           ReconfigCommandHandler, HandleLocalAppend, StartRead, nodes
    <2>6. QED
        BY <1>1, <2>1, <2>2, <2>3, <2>4, <2>5, Zenon DEF Next, System
<1>2. QED
    BY <1>1, ViewChangeInvariant, PTL DEF Spec
=============================================================================
