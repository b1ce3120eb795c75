----------------------------- MODULE ViewChange -----------------------------
(***************************************************************************)
(* The control plane of the shared log: the controller, which installs a   *)
(* first view on command and replaces it on command by sealing it          *)
(* (log/controller.cpp), the ZooKeeper directories it speaks through, and  *)
(* the sequencers, engines and storage nodes, which learn of views one     *)
(* znode at a time, each at its own pace, while messages of the view they  *)
(* left and of the view they have not heard of yet reach them.             *)
(*                                                                         *)
(* A directory of sequential znodes is read by every watcher in order and  *)
(* without a gap: that is what DirWatcher establishes.  What a log space   *)
(* does inside one view is kept as small as the view changes need: which   *)
(* engines' entries are stored, the cuts the primary has marked, and which *)
(* of them a node has been given; MetaLog and LogSpace have the detail.    *)
(***************************************************************************)
EXTENDS Integers, FiniteSets, Sequences, Functions

CONSTANTS
    Sequencers, Engines, Storages,  \* node ids, disjoint sets of numbers
    MetalogReplicas, UserlogReplicas, IndexReplicas, NumPhylogs,
    TailEntries,   \* slog_num_tail_metalog_entries
    Late,          \* nodes that come and go; the operator does not wait for them
    Clients,       \* engines that run functions, which append and read
    Reconfigs,     \* the node orders that the shuffles and "seq" may produce
    MaxViews, MaxOps  \* at most so many appends and reads

ASSUME ReplicasAssumption ==
    /\ MetalogReplicas \in Nat \ {0, 1} /\ NumPhylogs \in Nat \ {0}
    /\ UserlogReplicas \in Nat \ {0} /\ IndexReplicas \in Nat \ {0}
    /\ TailEntries \in Nat \ {0} /\ Clients \subseteq Engines

Configuration ==
    [sequencers : Seq(Sequencers), engines : Seq(Engines), storages : Seq(Storages)]

\* Nodes of different kinds have different ids, and the controller orders nodes
\* that it knows.
ASSUME NodesAssumption ==
    /\ Sequencers \cap Engines = {} /\ Sequencers \cap Storages = {} /\ Engines \cap Storages = {}
    /\ Sequencers # {} /\ MaxViews \in Nat \ {0}
    /\ Reconfigs \subseteq Configuration

VARIABLES
    \* The controller.
    state,      \* state_
    online,     \* sequencer_nodes_, engine_nodes_ and storage_nodes_ together
    views,      \* views_: view v is views[v + 1]
    pending,    \* pending_reconfig_, or None
    seal,       \* ongoing_seal_, or None
    freezeSeen, \* how many freeze znodes its watcher has reported
    \* ZooKeeper.
    creates,    \* the controller's Create requests on their way
    acked,      \* the answer to its "view/finalize" request is on its way
    viewDir,    \* the znodes of the view directory
    freezeDir,  \* the znodes of the freeze directory
    \* The nodes.
    seen,       \* how many view znodes a node's watcher has reported
    current,    \* the id of current_view_, -1 before the first
    active,     \* engines whose current_view_active_ is set
    hold,       \* FutureRequests::onhold_requests_
    frozen,     \* <<node, view>>: the node froze its log spaces of the view
    finalized,  \* <<storage node, view>>: its view_finalized_ was set in the view
    dead,       \* nodes that met a FATAL
    \* The log spaces.
    cuts,       \* the metalogs the primary marked: the engines each covers
    progress,   \* storage progress known to the primary
    replica,    \* metalog position each replica reported to the primary
    stored,     \* engines whose entry a storage node has
    got,        \* the metalogs a node has been given
    sent,       \* the progress a storage node has sent
    appended,   \* <<engine, view>>: the engine has appended in the view
    appends,    \* entries an engine still waits for: pending_appends_
    reads,      \* where the one read of an engine stands
    net         \* messages in flight

controller == <<state, online, views, pending, seal, freezeSeen>>
zk == <<creates, acked, viewDir, freezeDir>>
nodes == <<seen, current, active, hold, frozen, finalized, dead>>
logs == <<cuts, progress, replica, stored, got, sent, appended, appends, reads, net>>
vars == <<controller, zk, nodes, logs>>

None == [none |-> TRUE]
Nodes == Sequencers \cup Engines \cup Storages
LogSpaces == (0 .. MaxViews - 1) \X Sequencers
ViewOf(ls) == ls[1]
PrimaryOf(ls) == ls[2]
\* The sequences that list S in increasing order: there is one.
InOrder(S) ==
    {q \in UNION {[1 .. k -> S] : k \in 0 .. Cardinality(S)} :
        Range(q) = S /\ \A i, j \in DOMAIN q : i < j => q[i] < q[j]}

(***************************************************************************)
(* What a view derives from its configuration.                             *)
(***************************************************************************)
View(v) == views[v + 1]
Position(s, x) == CHOOSE i \in DOMAIN s : s[i] = x
ActivePhylogs(w) == {w.sequencers[i] : i \in 1 .. NumPhylogs}
ReplicaSequencers(w, s) ==
    LET n == Len(w.sequencers) IN
    {w.sequencers[((Position(w.sequencers, s) - 1 + j) % n) + 1] :
        j \in 1 .. MetalogReplicas - 1}
\* Row i of a plan that deals the nodes of seq out, k to a row.
PlanRow(seq, k, i) == {seq[(((i - 1) * k + j) % Len(seq)) + 1] : j \in 0 .. k - 1}
StorageNodesOf(w, e) ==
    PlanRow(w.storages, UserlogReplicas, Position(w.engines, e))
IndexEngineNodes(w, s) ==
    PlanRow(w.engines, IndexReplicas, Position(w.sequencers, s))
Members(w) == Range(w.sequencers) \cup Range(w.engines) \cup Range(w.storages)

Msg(t, ls, from, to, data) ==
    [type |-> t, ls |-> ls, from |-> from, to |-> to, data |-> data]

Init ==
    /\ state = "Created" /\ online = {} /\ views = <<>>
    /\ pending = None /\ seal = None /\ freezeSeen = 0
    /\ creates = <<>> /\ acked = FALSE /\ viewDir = <<>> /\ freezeDir = <<>>
    /\ seen = [n \in Nodes |-> 0] /\ current = [n \in Nodes |-> -1]
    /\ active = {} /\ hold = [n \in Nodes |-> {}]
    /\ frozen = {} /\ finalized = {} /\ dead = {}
    /\ cuts = [ls \in LogSpaces |-> <<>>]
    /\ progress = [ls \in LogSpaces |-> [n \in Storages |-> {}]]
    /\ replica = [ls \in LogSpaces |-> [n \in Sequencers |-> {}]]
    /\ stored = [ls \in LogSpaces |-> [n \in Storages |-> {}]]
    /\ got = [ls \in LogSpaces |-> [n \in Nodes |-> {}]]
    /\ sent = [ls \in LogSpaces |-> [n \in Storages |-> {}]]
    /\ appended = {} /\ appends = [e \in Engines |-> {}]
    /\ reads = [e \in Engines |-> "none"] /\ net = {}

(***************************************************************************)
(* The controller.                                                         *)
(***************************************************************************)
\* The node watcher reports that a node comes or goes.  Once there is a view
\* nothing reads the sets of nodes, and they are kept as they are.
OnNodeOnline(n) ==
    /\ state = "Created" /\ n \notin online
    /\ online' = online \cup {n}
    /\ UNCHANGED <<state, views, pending, seal, freezeSeen, zk, nodes, logs>>

OnNodeOffline(n) ==
    /\ state = "Created" /\ n \in online \cap Late
    /\ online' = online \ {n}
    /\ UNCHANGED <<state, views, pending, seal, freezeSeen, zk, nodes, logs>>

Enough(cfg) ==
    /\ Len(cfg.sequencers) >= MetalogReplicas
    /\ Len(cfg.sequencers) >= NumPhylogs
    /\ Len(cfg.engines) >= IndexReplicas
    /\ Len(cfg.storages) >= UserlogReplicas

\* ReconfigView outside of the states kNormal and kReconfiguring.
InstallNewView(cfg) ==
    /\ views' = Append(views, cfg)
    /\ creates' = Append(creates, [kind |-> "new", view |-> Len(views)])
    /\ state' = "Normal"

FreezeView(v) ==
    /\ seal' = [view |-> v, phylogs |-> ActivePhylogs(View(v)), tails |-> {}]
    /\ creates' = Append(creates, [kind |-> "freeze", view |-> v])
    /\ state' = "Reconfiguring"

\* "start": the first view is made of the nodes that are online.
StartCommandHandler ==
    /\ state = "Created"
    /\ Nodes \ Late \subseteq online
    /\ Cardinality(online \cap Sequencers) >= NumPhylogs
    /\ \E cfg \in [sequencers : InOrder(online \cap Sequencers),
                  engines : InOrder(online \cap Engines),
                  storages : InOrder(online \cap Storages)] :
         Enough(cfg) /\ InstallNewView(cfg)
    /\ UNCHANGED <<online, pending, seal, freezeSeen,
                   acked, viewDir, freezeDir, nodes, logs>>

\* "reconfig": the nodes of the current view in another order, or with "seq"
\* other sequencers.  The new view waits until the current one is sealed.
ReconfigCommandHandler(cfg) ==
    /\ state = "Normal" /\ Len(views) < MaxViews
    /\ Len(cfg.sequencers) = Len(views[Len(views)].sequencers)
    /\ Range(cfg.engines) = Range(views[Len(views)].engines)
    /\ Range(cfg.storages) = Range(views[Len(views)].storages)
    /\ Enough(cfg)
    /\ pending' = cfg
    /\ FreezeView(Len(views) - 1)
    /\ UNCHANGED <<online, views, freezeSeen,
                   acked, viewDir, freezeDir, nodes, logs>>

TailsOf(tails, s) == {t \in tails : t.phylog = s}
Quorum == (MetalogReplicas + 1) \div 2
CheckAllSealed(sl) ==
    \A s \in sl.phylogs : Cardinality(TailsOf(sl.tails, s)) >= Quorum
BuildFinalTailMetalog(sl) ==
    [s \in sl.phylogs |-> UNION {t.position : t \in TailsOf(sl.tails, s)}]
\* The last metalogs before a position, which a sequencer that froze publishes.
LastOf(position) == {k \in position : Cardinality({j \in position : j > k}) < TailEntries}
FinalTails(sl) ==
    [s \in sl.phylogs |-> UNION {LastOf(t.position) : t \in TailsOf(sl.tails, s)}]

\* An answer for view v counts; it completes the seal or is kept.
FreezeAnswer(v) ==
    /\ freezeSeen < Len(freezeDir)
    /\ freezeSeen' = freezeSeen + 1
    /\ LET f == freezeDir[freezeSeen + 1]
           sl == [seal EXCEPT !.tails = @ \cup f.tails] IN
       IF seal = None \/ f.view # v
         THEN UNCHANGED <<seal, creates>>
         ELSE IF CheckAllSealed(sl)
           THEN /\ seal' = None
                /\ creates' = Append(creates,
                     [kind |-> "finalize", view |-> sl.view,
                      positions |-> BuildFinalTailMetalog(sl), tails |-> FinalTails(sl)])
           ELSE seal' = sl /\ UNCHANGED creates
    /\ UNCHANGED <<state, online, views, pending,
                   acked, viewDir, freezeDir, nodes, logs>>

\* A mutated form: it takes answers for the view to come.
OnFreezeZNodeCreatedNext == FreezeAnswer(Len(views))

\* The freeze watcher reports the answer of a sequencer.
OnFreezeZNodeCreated == FreezeAnswer(seal.view)

\* The callback of the Create of "view/finalize".
FinalizePublished ==
    /\ acked
    /\ acked' = FALSE
    /\ pending' = None
    /\ InstallNewView(pending)
    /\ UNCHANGED <<online, seal, freezeSeen, viewDir, freezeDir, nodes, logs>>

\* ZooKeeper executes the controller's oldest request.
ServeCreate ==
    /\ creates # <<>>
    /\ creates' = Tail(creates)
    /\ viewDir' = Append(viewDir, Head(creates))
    /\ acked' = (acked \/ Head(creates).kind = "finalize")
    /\ UNCHANGED <<controller, freezeDir, nodes, logs>>

(***************************************************************************)
(* The nodes: what the view watcher's callbacks do.                        *)
(***************************************************************************)
\* Log spaces of view v that node n holds.
Installed(n, v) ==
    LET w == View(v) IN
    {<<v, s>> : s \in {p \in ActivePhylogs(w) :
        \/ n \in Sequencers /\ n \in {p} \cup ReplicaSequencers(w, p)
        \/ n \in Engines /\ n \in Range(w.engines)
        \/ n \in Storages /\ n \in Range(w.storages)}}

\* FutureRequests::OnNewView hands back what was on hold for the view, and the
\* node handles it again: it is back in flight.  It panics when a node that
\* the view leaves out held something.
Unhold(n, v, again) ==
    LET ready == {m \in hold[n] : ViewOf(m.ls) = v} IN
    /\ hold' = [hold EXCEPT ![n] = @ \ ready]
    /\ IF n \in Members(View(v))
         THEN net' = (IF again THEN net \cup ready ELSE net) /\ UNCHANGED dead
         ELSE /\ dead' = IF ready = {} THEN dead ELSE dead \cup {n}
              /\ UNCHANGED net


OnNewView(n, v) == Unhold(n, v, TRUE)

InstallNextView(n, v) ==
    /\ OnNewView(n, v)
    /\ current' = [current EXCEPT ![n] = v]
    /\ UNCHANGED <<frozen, finalized, freezeDir, got, appends>>

\* A node of each kind installs its log spaces, takes its held requests back
\* and makes the view current; an engine of the view takes appends again.
SequencerViewCreated(n, v) ==
    n \in Sequencers /\ InstallNextView(n, v) /\ UNCHANGED active

StorageViewCreated(n, v) ==
    n \in Storages /\ InstallNextView(n, v) /\ UNCHANGED active

EngineViewCreated(n, v) ==
    /\ n \in Engines /\ InstallNextView(n, v)
    /\ active' = IF n \in Range(View(v).engines) THEN active \cup {n} ELSE active

\* A metalog position p is the set 1 .. p of the metalogs before it, so that the
\* greater of two positions is their union.  This is the longest run of metalogs
\* from the first one.
Prefix(S) == {k \in S : 1 .. k \subseteq S}
MetalogPosition(ls, n) ==
    IF n = PrimaryOf(ls) THEN DOMAIN cuts[ls] ELSE Prefix(got[ls][n])

\* A sequencer freezes its primary and its backups and publishes their
\* tails, if it has any.
SequencerViewFrozen(n, v) ==
    /\ n \in Sequencers
    /\ IF Installed(n, v) # {}
         THEN /\ frozen' = frozen \cup {<<n, v>>}
              /\ freezeDir' = Append(freezeDir,
                   [view |-> v, tails |->
                      {[phylog |-> PrimaryOf(ls), from |-> n,
                        position |-> MetalogPosition(ls, n)] : ls \in Installed(n, v)}])
         ELSE UNCHANGED <<frozen, freezeDir>>
    /\ UNCHANGED <<current, active, hold, finalized, dead, got, appends, net>>

\* An engine stops taking appends; a storage node has no callback.
EngineViewFrozen(n, v) ==
    /\ n \in Engines \cup Storages
    /\ active' = active \ {n}
    /\ UNCHANGED <<current, hold, frozen, finalized, freezeDir, dead, got, appends, net>>

\* What ends a sequencer that finalizes a log space: it is more than one metalog
\* past the final position, or the tail closes a gap before later metalogs.
\* Engines and storage nodes are only given metalogs below the final position.
SeesTheFuture(ls, n, final) ==
    LET position == MetalogPosition(ls, n) IN
    /\ n \in Sequencers
    /\ IF final \subseteq position
         THEN Cardinality(position \ final) > 1
         ELSE ~(Prefix(got[ls][n] \cup final) \subseteq final)

\* A node has to apply metalog k in its turn: sequencers and indexes each of them,
\* the log spaces in lite mode those with their shards.
Applies(ls, n, k) ==
    LET w == View(ViewOf(ls)) IN
    \/ n \in Sequencers \cup IndexEngineNodes(w, PrimaryOf(ls)) \cup cuts[ls][k]
    \/ n \in Storages /\ \E e \in cuts[ls][k] : n \in StorageNodesOf(w, e)

\* What ends any node: what it lacks is older than the final tail.
FallsShort(ls, n, final, tail) ==
    n # PrimaryOf(ls) /\ \E k \in final \ (got[ls][n] \cup tail) : Applies(ls, n, k)

\* The index data of the metalogs of a tail that are new to a storage node.
IndexDataOf(ls, n, tail) ==
    {Msg("INDEX_DATA", ls, n, e, k) :
        e \in IndexEngineNodes(View(ViewOf(ls)), PrimaryOf(ls)),
        k \in {j \in tail \ got[ls][n] : Applies(ls, n, j)}}

\* Every log space is given the final tail.  An engine answers the appends that
\* are left with DISCARDED; a storage node sends the index data of what is new.
OnViewFinalized(n, v, positions, tails) ==
    LET mine == Installed(n, v)
        fatal == {ls \in mine :
                    \/ SeesTheFuture(ls, n, positions[PrimaryOf(ls)])
                    \/ FallsShort(ls, n, positions[PrimaryOf(ls)], tails[PrimaryOf(ls)])} IN
    /\ finalized' = finalized \cup (({n} \cap Storages) \X {v})
    /\ dead' = IF fatal = {} THEN dead ELSE dead \cup {n}
    /\ got' = [ls \in LogSpaces |->
                 IF ls \in mine
                   THEN [got[ls] EXCEPT ![n] = @ \cup tails[PrimaryOf(ls)]]
                   ELSE got[ls]]
    /\ appends' = IF n \in Engines
                    THEN [appends EXCEPT ![n] = {ls \in @ : ViewOf(ls) # v}]
                    ELSE appends
    /\ net' = net \cup IF n \in Storages
                          THEN UNION {IndexDataOf(ls, n, tails[PrimaryOf(ls)]) : ls \in mine} ELSE {}
    /\ UNCHANGED <<current, active, hold, frozen, freezeDir>>

\* The view watcher of a node reports the next znode.
OnZNodeCreated(n) ==
    /\ n \notin dead /\ seen[n] < Len(viewDir)
    /\ seen' = [seen EXCEPT ![n] = @ + 1]
    /\ LET z == viewDir[seen[n] + 1] IN
       \/ /\ z.kind = "new"
          /\ \/ SequencerViewCreated(n, z.view) \/ StorageViewCreated(n, z.view)
             \/ EngineViewCreated(n, z.view)
       \/ /\ z.kind = "freeze"
          /\ SequencerViewFrozen(n, z.view) \/ EngineViewFrozen(n, z.view)
       \/ z.kind = "finalize" /\ OnViewFinalized(n, z.view, z.positions, z.tails)
    /\ UNCHANGED <<controller, creates, acked, viewDir,
                   cuts, progress, replica, stored, sent, appended, reads>>

(***************************************************************************)
(* The nodes: requests and messages.                                       *)
(***************************************************************************)
Consume(m, new) == net' = (net \ {m}) \cup new
FromPast(m) == ViewOf(m.ls) < current[m.to]
FrozenAt(m) == <<m.to, ViewOf(m.ls)>> \in frozen
ViewFor(m) == View(ViewOf(m.ls))

\* A mutated form: the current view counts as future.
FromFutureOrCurrent(m) == ViewOf(m.ls) >= current[m.to]

FromFuture(m) == ViewOf(m.ls) > current[m.to]

\* ONHOLD_IF_FROM_FUTURE_VIEW, and ONHOLD_IF_SEEN_FUTURE_VIEW of a local
\* read, whose first metalog progress is of view 0; the primary panics on a
\* replica's progress in a view it does not have: PANIC_IF_FROM_FUTURE_VIEW.
OnHoldRequest(m) ==
    /\ FromFuture(m)
    /\ IF m.type = "META_PROG"
         THEN dead' = dead \cup {m.to} /\ UNCHANGED hold
         ELSE hold' = [hold EXCEPT ![m.to] = @ \cup {m}] /\ UNCHANGED dead
    /\ Consume(m, {})
    /\ UNCHANGED <<cuts, progress, replica, stored, sent, got, appended, appends, reads>>

\* IGNORE_IF_FROM_PAST_VIEW and RETURN_IF_LOGSPACE_INACTIVE of a sequencer.
\* RETURN_IF_LOGSPACE_FINALIZED never returns: no log space becomes kFinalized.
Outdated(m) ==
    \/ m.type \in {"REPLICATE", "METALOGS", "SHARD_PROG", "META_PROG"} /\ FromPast(m)
    \/ m.to \in Sequencers /\ FrozenAt(m)

Ignore(m) ==
    /\ ~FromFuture(m) /\ Outdated(m)
    /\ Consume(m, {})
    /\ UNCHANGED <<hold, dead, cuts, progress, replica, stored, got, sent, appended, appends, reads>>

Ops == Cardinality(appended) + Cardinality({e \in Engines : reads[e] # "none"})

\* HandleLocalAppend of an engine whose view is active; its entry goes to its
\* storage nodes.  One entry for each engine and view.
HandleLocalAppend(e) ==
    /\ e \in active /\ e \notin dead /\ Ops < MaxOps
    /\ LET v == current[e] IN
       \E s \in ActivePhylogs(View(v)) :
         /\ <<e, v>> \notin appended
         /\ appended' = appended \cup {<<e, v>>}
         /\ appends' = [appends EXCEPT ![e] = @ \cup {<<v, s>>}]
         /\ net' = net \cup {Msg("REPLICATE", <<v, s>>, e, n, {}) :
                               n \in StorageNodesOf(View(v), e)}
    /\ UNCHANGED <<controller, zk, nodes, cuts, progress, replica, stored, got, sent, reads>>

HandleReplicateRequest(m) ==
    /\ m.type = "REPLICATE" /\ ~FromFuture(m) /\ ~Outdated(m)
    /\ stored' = [stored EXCEPT ![m.ls][m.to] = @ \cup {m.from}]
    /\ Consume(m, {})
    /\ UNCHANGED <<hold, dead, cuts, progress, replica, got, sent, appended, appends, reads>>

\* The timer of a storage node: progress it has not sent yet.
SendShardProgressIfNeeded(n, ls) ==
    /\ n \notin dead /\ current[n] = ViewOf(ls) /\ <<n, ViewOf(ls)>> \notin finalized
    /\ ls \in Installed(n, ViewOf(ls))
    /\ LET m == Msg("SHARD_PROG", ls, n, PrimaryOf(ls), stored[ls][n]) IN
       /\ stored[ls][n] # sent[ls][n]
       /\ sent' = [sent EXCEPT ![ls][n] = stored[ls][n]]
       /\ net' = net \cup {m}
    /\ UNCHANGED <<controller, zk, nodes, cuts, progress, replica, stored, got,
                   appended, appends, reads>>

OnRecvShardProgress(m) ==
    /\ m.type = "SHARD_PROG" /\ ~FromFuture(m) /\ ~Outdated(m)
    /\ progress' = [progress EXCEPT ![m.ls][m.from] = @ \cup m.data]
    /\ Consume(m, {})
    /\ UNCHANGED <<hold, dead, cuts, replica, stored, got, sent, appended, appends, reads>>

\* The position that the upper half of the replicas has reached.
ReplicatedPosition(ls, w, rep) ==
    LET R == ReplicaSequencers(w, PrimaryOf(ls))
        half == Cardinality(R) - (Cardinality(R) \div 2) IN
    {k \in DOMAIN cuts[ls] : Cardinality({r \in R : k \in rep[r]}) >= half}

\* The timer of the primary: the next cut, once the last one is replicated.
MarkNextCutIfDoable(s) ==
    /\ s \notin dead /\ current[s] >= 0
    /\ LET v == current[s]  ls == <<v, s>>
           new == {e \in Engines :
                     /\ e \in Range(View(v).engines)
                     /\ \A n \in StorageNodesOf(View(v), e) : e \in progress[ls][n]}
                  \ UNION Range(cuts[ls]) IN
       /\ s \in ActivePhylogs(View(v)) /\ <<s, v>> \notin frozen
       /\ ReplicatedPosition(ls, View(v), replica[ls]) = DOMAIN cuts[ls]
       /\ new # {}
       /\ cuts' = [cuts EXCEPT ![ls] = Append(@, new)]
       /\ net' = net \cup {Msg("METALOGS", ls, s, r, Len(cuts[ls]) + 1) :
                             r \in ReplicaSequencers(View(v), s)}
    /\ UNCHANGED <<controller, zk, nodes, progress, replica, stored, got, sent, appended, appends, reads>>

\* A metalog reaches a backup, which reports its position; a storage node,
\* which sends the index data of the entries it has; or an engine, which
\* completes its append.
OnRecvNewMetaLogs(m) ==
    /\ m.type = "METALOGS" /\ ~FromFuture(m) /\ ~Outdated(m)
    /\ got' = [got EXCEPT ![m.ls][m.to] = @ \cup {m.data}]
    /\ appends' = IF m.to \in Engines /\ m.to \in cuts[m.ls][m.data]
                    THEN [appends EXCEPT ![m.to] = @ \ {m.ls}] ELSE appends
    /\ Consume(m,
         CASE m.to \in Sequencers ->
                IF Prefix(got'[m.ls][m.to]) # Prefix(got[m.ls][m.to])
                  THEN {Msg("META_PROG", m.ls, m.to, PrimaryOf(m.ls), Prefix(got'[m.ls][m.to]))}
                  ELSE {}
           [] m.to \in Storages ->
                {Msg("INDEX_DATA", m.ls, m.to, e, m.data) :
                    e \in IndexEngineNodes(ViewFor(m), PrimaryOf(m.ls))}
           [] m.to \in Engines -> {})
    /\ UNCHANGED <<hold, dead, cuts, progress, replica, stored, sent, appended, reads>>

\* The primary learns a replica's position and propagates the metalogs that
\* became replicated to the engines and storage nodes they concern.
OnRecvMetaLogProgress(m) ==
    /\ m.type = "META_PROG" /\ ~FromFuture(m) /\ ~Outdated(m)
    /\ LET rep == [replica[m.ls] EXCEPT ![m.from] = @ \cup m.data]
           old == ReplicatedPosition(m.ls, ViewFor(m), replica[m.ls])
           new == ReplicatedPosition(m.ls, ViewFor(m), rep)
           engines(k) == cuts[m.ls][k] \cup IndexEngineNodes(ViewFor(m), PrimaryOf(m.ls))
           storages(k) == UNION {StorageNodesOf(ViewFor(m), e) : e \in cuts[m.ls][k]} IN
       /\ replica' = [replica EXCEPT ![m.ls] = rep]
       /\ Consume(m, UNION {{Msg("METALOGS", m.ls, m.to, n, k) :
                                n \in engines(k) \cup storages(k)} : k \in new \ old})
    /\ UNCHANGED <<hold, dead, cuts, progress, stored, got, sent, appended, appends, reads>>

\* Index data of a past view is still for the index of that view.
OnRecvNewIndexData(m) ==
    /\ m.type = "INDEX_DATA" /\ ~FromFuture(m)
    /\ Consume(m, {})
    /\ UNCHANGED <<hold, dead, cuts, progress, replica, stored, got, sent, appended, appends, reads>>

\* A function reads: one read for each engine.
StartRead(e) ==
    /\ e \notin dead /\ reads[e] = "none"
    /\ Ops < MaxOps
    /\ reads' = [reads EXCEPT ![e] = "started"]
    /\ net' = net \cup {Msg("LOCAL_READ", <<0, CHOOSE s \in Sequencers : TRUE>>, e, e, {})}
    /\ UNCHANGED <<controller, zk, nodes, cuts, progress, replica, stored, got, sent, appended, appends>>

\* A mutated form: any engine of the view is asked.
PickEngineNode(v, s) == Range(View(v).engines)

PickIndexEngineNode(v, s) == IndexEngineNodes(View(v), s)

\* ProcessIndexQueryResults at engine i, which has an index of view v, for a read
\* of engine e: it is answered, or goes on in the index of the view before.  That
\* index never becomes kFinalized, for which the read then waits; if it is on
\* another engine, a message is sent there.
ProcessQuery(m, i, e, v) ==
    \/ reads' = [reads EXCEPT ![e] = "done"] /\ Consume(m, {})
    \/ /\ v > 0 /\ reads' = [reads EXCEPT ![e] = "continued"]
       /\ \E s \in ActivePhylogs(View(v - 1)) :
            IF i \in IndexEngineNodes(View(v - 1), s) THEN Consume(m, {})
            ELSE \E j \in IndexEngineNodes(View(v - 1), s) :
                   Consume(m, {Msg("CONTINUE", <<v - 1, s>>, e, j, {})})

\* The engine has the index of log space <<v, s>>, or asks one that has.
HandleLocalRead(m) ==
    /\ m.type = "LOCAL_READ" /\ ~FromFuture(m)
    /\ LET v == current[m.to] IN
       \E s \in ActivePhylogs(View(v)) :
         IF m.to \in IndexEngineNodes(View(v), s)
           THEN ProcessQuery(m, m.to, m.to, v)
           ELSE /\ reads' = [reads EXCEPT ![m.to] = "remote"]
                /\ \E e \in PickIndexEngineNode(v, s) :
                     Consume(m, {Msg("READ", <<v, s>>, m.to, e, {})})
    /\ UNCHANGED <<hold, dead, cuts, progress, replica, stored, got, sent, appended, appends>>

HandleRemoteRead(m) ==
    /\ m.type = "READ" /\ ~FromFuture(m)
    /\ ProcessQuery(m, m.to, m.from, ViewOf(m.ls))
    /\ UNCHANGED <<hold, dead, cuts, progress, replica, stored, got, sent, appended, appends>>

\* A read that goes on is taken as one from the start, with the metalog progress of
\* a later view: MakeQuery panics.
HandleContinuedRead(m) ==
    /\ m.type = "CONTINUE" /\ ~FromFuture(m)
    /\ dead' = dead \cup {m.to}
    /\ Consume(m, {})
    /\ UNCHANGED <<hold, cuts, progress, replica, stored, got, sent, appended, appends, reads>>

MessageHandler(m) ==
    /\ m.to \notin dead
    /\ \/ OnHoldRequest(m) \/ Ignore(m)
       \/ HandleReplicateRequest(m) \/ OnRecvShardProgress(m)
       \/ OnRecvNewMetaLogs(m) \/ OnRecvMetaLogProgress(m)
       \/ OnRecvNewIndexData(m)
       \/ HandleLocalRead(m) \/ HandleRemoteRead(m) \/ HandleContinuedRead(m)
    /\ UNCHANGED <<controller, zk, seen, current, active, frozen, finalized>>

(***************************************************************************)
(* The operator decides when to start and to reconfigure, functions when   *)
(* to append and to read; everything else happens by itself.               *)
(***************************************************************************)
System ==
    \/ OnFreezeZNodeCreated \/ FinalizePublished \/ ServeCreate
    \/ \E n \in Nodes : OnZNodeCreated(n)
    \/ \E n \in Storages, ls \in LogSpaces : SendShardProgressIfNeeded(n, ls)
    \/ \E s \in Sequencers : MarkNextCutIfDoable(s)
    \/ \E m \in net : MessageHandler(m)

Next ==
    \/ System
    \/ \E n \in Nodes : OnNodeOnline(n) \/ OnNodeOffline(n)
    \/ StartCommandHandler
    \/ \E cfg \in Reconfigs : ReconfigCommandHandler(cfg)
    \/ \E e \in Clients : HandleLocalAppend(e) \/ StartRead(e)

Spec == Init /\ [][Next]_vars /\ WF_vars(System)

(***************************************************************************)
(* Properties.                                                             *)
(***************************************************************************)
Held == UNION {hold[n] : n \in Nodes}

\* Whatever message is on its way or on hold, its handler meets none of its
\* FATALs: a replica's progress never overtakes the primary's own view (the
\* comment at PANIC_IF_FROM_FUTURE_VIEW believes so), the receiver has the
\* log space that GetLogSpaceChecked looks up, and index data and remote
\* reads only reach engines that index the log space.  Only a read that goes on
\* from a later view ends the index engine it reaches.
NoMessageIsFatal ==
    \A m \in {x \in net \cup Held : x.type # "LOCAL_READ" /\ x.to \notin dead} :
      /\ m.type = "META_PROG" => ~FromFuture(m)
      /\ m.ls \in Installed(m.to, ViewOf(m.ls))
      /\ m.type \in {"INDEX_DATA", "READ", "CONTINUE"} =>
           m.to \in IndexEngineNodes(ViewFor(m), PrimaryOf(m.ls))

\* FutureRequests::OnNewView's "Not expect on-hold requests": a node holds
\* requests only for views it has not installed, and for none that leaves
\* it out, but for local reads before the first view: they end an engine that
\* joined too late for it.
HoldsAreClaimed ==
    \A n \in Nodes \ dead : \A m \in hold[n] :
      /\ ViewOf(m.ls) > current[n]
      /\ ViewOf(m.ls) < Len(views) =>
           n \in Members(ViewFor(m)) \/ (m.type = "LOCAL_READ" /\ n \in Late)

\* A reconfiguration that the controller accepts ends: whatever the order in
\* which sequencers freeze and answer, the sealed view is finalized and
\* every node that lives installs the next one.
ReconfigCompletes ==
    \A v \in 1 .. MaxViews - 1 :
      (pending # None /\ Len(views) = v)
        ~> (Len(views) > v /\ \A n \in Nodes \ dead : current[n] >= v)

=============================================================================
