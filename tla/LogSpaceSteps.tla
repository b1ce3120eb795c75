--------------------------- MODULE LogSpaceSteps ----------------------------
(***************************************************************************)
(* The invariant of LogSpaceFacts is inductive: one lemma for each action  *)
(* of LogSpace.                                                            *)
(***************************************************************************)
EXTENDS LogSpaceFacts

-----------------------------------------------------------------------------
(* Frame lemmas: what each conjunct of the invariant depends on.            *)

\* Chained is about the metalogs.
LEMMA SameChain ==
    ASSUME Chained, UNCHANGED metalogs
    PROVE  Chained'
<1>1. \A p, e : EndAt(p, e)' = EndAt(p, e)
    BY DEF EndAt, ShardEnd
<1>2. QED
    BY <1>1 DEF Chained

\* Following is about the nodes' positions and the metalogs on their way.
LEMMA SameFollowing ==
    ASSUME Following, UNCHANGED <<position, progress, pendingMeta, metalogs>>,
           \A n \in Nodes : inbox'[n] \subseteq inbox[n]
    PROVE  Following'
BY Zenon DEF Following, EndAt, ShardEnd

\* Reported is about the storages' progress.
LEMMA SameReported ==
    ASSUME Reported, UNCHANGED <<metalogs, reported, stored, nextLocalId>>
    PROVE  Reported'
BY Zenon DEF Reported, EndAt, ShardEnd

\* Issued is about REPLICATE messages and pending entries.
LEMMA SameIssued ==
    ASSUME Issued, UNCHANGED <<replicate, pendingEntries, nextLocalId>>
    PROVE  Issued'
BY Zenon DEF Issued

\* Pending is about what is pending at nodes that are not finalized.
LEMMA SamePending ==
    ASSUME Pending, UNCHANGED <<pendingAppends, progress, nextLocalId, pendingEntries, stored>>,
           \A n \in Nodes : phase'[n] # "finalized" => phase[n] # "finalized"
    PROVE  Pending'
BY Zenon DEF Pending, Nodes

\* Final is about finalized nodes.
LEMMA SameFinal ==
    ASSUME Final, UNCHANGED <<view, metalogs, discarded, position>>,
           \A n \in Nodes : phase'[n] = "finalized" <=> phase[n] = "finalized"
    PROVE  Final'
BY Zenon DEF Final, EndAt, ShardEnd, Nodes

\* LiteModeSkipsNothing is about the entries that nodes have handled.
LEMMA SameHandled ==
    ASSUME LiteModeSkipsNothing, UNCHANGED <<acked, live, position, metalogs>>,
           \A n \in Nodes : phase'[n] # "missing_entry"
    PROVE  LiteModeSkipsNothing'
BY DEF LiteModeSkipsNothing, NoMissingEntry, OrderedEntries, StoredEntries

\* The initial state satisfies the invariant.
LEMMA InitIInv == Init => IInv
<1> SUFFICES ASSUME Init PROVE IInv
    OBVIOUS
<1>1. TypeOK
    <2>1. /\ nextLocalId \in [Engines -> 0..MaxLocalId]
          /\ \A s \in Storages : stored[s] \in [SourceEngineNodes(s) -> 0..MaxLocalId]
          /\ \A s \in Storages : reported[s] \in [SourceEngineNodes(s) -> 0..MaxLocalId]
          /\ \A n \in Nodes : progress[n] \in [InterestedShards(n) -> Nat]
          /\ position \in [Nodes -> Nat]
        BY BoundAssumption DEF Init
    <2>2. /\ stored = [s \in Storages |-> stored[s]]
          /\ reported = [s \in Storages |-> reported[s]]
          /\ progress = [n \in Nodes |-> progress[n]]
          /\ storedDirty \in [Storages -> BOOLEAN]
        BY Zenon DEF Init
    <2>3. /\ pendingAppends \in [Engines -> SUBSET Nat]
          /\ acked \in [Engines -> SUBSET LogEntries]
          /\ discarded \in [Engines -> SUBSET Nat]
          /\ pendingEntries \in [Storages -> SUBSET (Engines \X Nat)]
          /\ live \in [Storages -> SUBSET LogEntries]
          /\ pendingMeta \in [Nodes -> SUBSET Nat]
          /\ phase \in [Nodes -> {"normal", "frozen", "finalized", "missing_entry", "insufficient"}]
          /\ replicate \subseteq (Engines \X Nat) \X Storages
          /\ inbox \in [Nodes -> SUBSET Nat]
          /\ view \in {"normal", "frozen", "finalized"}
        BY DEF Init
    <2>4. metalogs \in Seq(MetaLogProto)
        BY DEF Init
    <2>5. QED
        BY <2>1, <2>2, <2>3, <2>4, Zenon DEF TypeOK
<1>2. Len(metalogs) = 0 /\ metalogs = <<>>
    BY DEF Init
<1>3. Chained
    BY <1>2 DEF Chained
<1>4. /\ \A n \in Nodes : /\ position[n] = 0 /\ pendingMeta[n] = {} /\ inbox[n] = {}
                            /\ \A e \in InterestedShards(n) : progress[n][e] = 0
      /\ \A e \in Engines : EndAt(0, e) = 0
    <2>1. \A e \in Engines : EndAt(0, e) = 0
        BY DEF EndAt
    <2>2. \A n \in Nodes : position[n] = 0 /\ pendingMeta[n] = {} /\ inbox[n] = {}
        BY DEF Init
    <2>3. \A n \in Nodes : \A e \in InterestedShards(n) : progress[n][e] = 0
        BY DEF Init
    <2>4. QED
        BY <2>1, <2>2, <2>3, Zenon
<1>5. Following
    BY <1>2, <1>4, Interested DEF Following
<1>6. \A e \in Engines : \A s \in StorageNodes[e] : s \in Storages /\ e \in SourceEngineNodes(s)
    BY NodeAssumption DEF SourceEngineNodes
<1>7. Reported
    <2> SUFFICES ASSUME NEW e \in Engines, NEW s \in StorageNodes[e]
                 PROVE  /\ EndAt(Len(metalogs), e) <= reported[s][e]
                        /\ reported[s][e] <= stored[s][e] /\ stored[s][e] <= nextLocalId[e]
        BY DEF Reported
    <2>1. stored[s][e] = 0 /\ reported[s][e] = 0 /\ nextLocalId[e] = 0
        BY <1>6 DEF Init
    <2>2. EndAt(Len(metalogs), e) = 0
        BY <1>2, <1>4
    <2>3. QED
        BY <2>1, <2>2
<1>8. Issued
    BY Zenon DEF Init, Issued
<1>9. Pending
    <2>1. ASSUME NEW e \in Engines
          PROVE  pendingAppends[e] = progress[e][e] .. (nextLocalId[e] - 1)
        <3>1. e \in Nodes /\ e \in InterestedShards(e)
            BY DEF Nodes, InterestedShards
        <3>2. pendingAppends[e] = {} /\ progress[e][e] = 0 /\ nextLocalId[e] = 0
            BY <1>4, <3>1 DEF Init
        <3>3. QED
            BY <3>2
    <2>2. ASSUME NEW s \in Storages, NEW e \in SourceEngineNodes(s)
          PROVE  progress[s][e] .. (stored[s][e] - 1) = {}
        <3>1. s \in Nodes /\ e \in InterestedShards(s)
            BY Interested DEF Nodes
        <3>2. progress[s][e] = 0 /\ stored[s][e] = 0
            BY <1>4, <3>1 DEF Init
        <3>3. QED
            BY <3>2
    <2>3. QED
        BY <2>1, <2>2 DEF Pending
<1>10. Final
    BY DEF Init, Final, Nodes
<1>11. LiteModeSkipsNothing
    <2>1. \A e : OrderedEntries(e, 0) = {}
        BY DEF OrderedEntries
    <2>2. \A n \in Nodes : position[n] = 0 /\ phase[n] # "missing_entry"
        BY DEF Init
    <2>3. /\ \A e \in Engines : acked[e] = {} /\ e \in Nodes
          /\ \A s \in Storages : live[s] = {} /\ s \in Nodes
        BY DEF Init, Nodes
    <2>4. \A s \in Storages : {} = StoredEntries(s, position[s])
        BY <2>1, <2>2, <2>3 DEF StoredEntries
    <2>5. QED
        BY <2>1, <2>2, <2>3, <2>4, Zenon DEF LiteModeSkipsNothing, NoMissingEntry
<1>12. QED
    BY <1>1, <1>3, <1>5, <1>7, <1>8, <1>9, <1>10, <1>11 DEF IInv

-----------------------------------------------------------------------------
(* Metalogs reach a node, in messages or in view/finalize.                  *)

\* AdvanceMetaLogProgress keeps a node's progress at the end of what it passed.
LEMMA AdvanceFollows ==
    ASSUME SetFacts, TypeOK, Chained, Following, NEW n \in Nodes, NEW pend, Pendable(n, pend),
           AdvanceMetaLogProgress(n, pend, Applied(n, pend)), UNCHANGED metalogs,
           \A x \in Nodes : inbox'[x] \subseteq inbox[x]
    PROVE  /\ Following'
           /\ position' \in [Nodes -> Nat] /\ pendingMeta' \in [Nodes -> SUBSET Nat]
           /\ progress' = [x \in Nodes |-> progress'[x]]
           /\ \A x \in Nodes : progress'[x] \in [InterestedShards(x) -> Nat]
           /\ \A x \in Nodes : x # n => position'[x] = position[x] /\ progress'[x] = progress[x]
           /\ position'[n] = PositionAfter(n, Applied(n, pend))
           /\ \A e \in InterestedShards(n) :
                progress'[n][e] = EndAt(PositionAfter(n, Applied(n, pend)), e)
<1> DEFINE app == Applied(n, pend)
           q == PositionAfter(n, app)
           prog == IF app = {} THEN progress[n]
                   ELSE [e \in InterestedShards(n) |-> ShardEnd(Max(app), e)]
<1>1. /\ pendingMeta' = [pendingMeta EXCEPT ![n] = pend \ app]
      /\ position' = [position EXCEPT ![n] = q]
      /\ progress' = [progress EXCEPT ![n] = prog]
    BY Zenon DEF AdvanceMetaLogProgress
<1>2. /\ q \in Nat /\ q <= Len(metalogs)
      /\ \A i \in pend \ app : q <= i /\ i < Len(metalogs)
      /\ \A e \in InterestedShards(n) :
           EndAt(q, e) = IF app = {} THEN progress[n][e] ELSE ShardEnd(Max(app), e)
    BY AdvanceBounds, Zenon
<1>3. /\ pendingMeta \in [Nodes -> SUBSET Nat] /\ position \in [Nodes -> Nat]
      /\ progress = [x \in Nodes |-> progress[x]]
      /\ \A x \in Nodes : progress[x] \in [InterestedShards(x) -> Nat]
      /\ pend \in SUBSET Nat /\ Len(metalogs) \in Nat
    BY MetaLogTypes, Zenon DEF TypeOK, Pendable
<1> HIDE DEF app, q
<1>4. prog \in [InterestedShards(n) -> Nat] /\ \A e \in InterestedShards(n) : prog[e] = EndAt(q, e)
    <2>1. \A e \in InterestedShards(n) : prog[e] = EndAt(q, e)
        BY <1>2
    <2>2. \A e \in InterestedShards(n) : EndAt(q, e) \in Nat
        <3>1. q \in 0..Len(metalogs)
            BY <1>2, <1>3
        <3>2. QED
            BY <3>1, MetaLogTypes, Interested, Zenon
    <2>3. prog = [e \in InterestedShards(n) |-> prog[e]]
        <3>1. CASE app = {}
            BY <1>3, <3>1
        <3>2. CASE app # {}
            BY <3>2
        <3>3. QED
            BY <3>1, <3>2
    <2>4. QED
        BY <2>1, <2>2, <2>3
<1> HIDE DEF prog
<1>5. /\ position' \in [Nodes -> Nat] /\ pendingMeta' \in [Nodes -> SUBSET Nat]
      /\ position'[n] = q /\ pendingMeta'[n] = pend \ app
      /\ \A x \in Nodes : x # n => position'[x] = position[x] /\ pendingMeta'[x] = pendingMeta[x]
    BY <1>1, <1>2, <1>3
<1>6. /\ progress' = [x \in Nodes |-> IF x = n THEN prog ELSE progress[x]]
    BY <1>1, <1>3
<1>7. /\ progress' = [x \in Nodes |-> progress'[x]]
      /\ progress'[n] = prog
      /\ \A x \in Nodes : x # n => progress'[x] = progress[x]
    BY <1>6, Zenon
<1>8. \A x \in Nodes : progress'[x] \in [InterestedShards(x) -> Nat]
    BY <1>3, <1>4, <1>7, Zenon
<1>9. Following'
    <2>2. ASSUME NEW x \in Nodes
          PROVE  /\ position'[x] <= Len(metalogs)
                 /\ \A e \in InterestedShards(x) : progress'[x][e] = EndAt(position'[x], e)
                 /\ \A i \in pendingMeta'[x] : position'[x] <= i /\ i < Len(metalogs)
                 /\ \A i \in inbox'[x] : i < Len(metalogs)
        <3>1. \A i \in inbox'[x] : i < Len(metalogs)
            BY DEF Following
        <3>2. CASE x = n
            BY <1>2, <1>4, <1>5, <1>7, <3>1, <3>2
        <3>3. CASE x # n
            BY <1>5, <1>7, <3>1, <3>3, Zenon DEF Following
        <3>4. QED
            BY <3>2, <3>3
    <2>3. QED
        BY <2>2, Zenon DEF Following, EndAt, ShardEnd
<1>10. QED
    BY <1>4, <1>5, <1>7, <1>8, <1>9, Zenon DEF app, q

\* A finalized node has no metalog left to apply.
LEMMA FinalizedIsDone ==
    ASSUME SetFacts, TypeOK, Final, NEW n \in Nodes, NEW pend, Pendable(n, pend), phase[n] = "finalized"
    PROVE  pend = {} /\ Applied(n, pend) = {}
<1>1. position[n] = Len(metalogs) /\ Len(metalogs) \in Nat
    BY MetaLogTypes DEF Final
<1>2. ASSUME NEW i \in pend PROVE FALSE
    <2>1. i \in Nat /\ position[n] <= i /\ i < Len(metalogs)
        BY Zenon DEF Pendable
    <2>2. QED
        BY <1>1, <2>1
<1>3. QED
    BY <1>2, Zenon DEF Applied

\* An engine applies metalogs: the appends that they order return, and those that
\* stay pending are the ones past its progress.
LEMMA ProducerStep ==
    ASSUME SetFacts, IInv, NEW e \in Engines, NEW pend, Pendable(e, pend), NEW final \in BOOLEAN,
           AdvanceMetaLogProgress(e, pend, Applied(e, pend)),
           ProducerOnNewLogs(e, NewLogs(e, Applied(e, pend)), final),
           final => /\ view = "finalized" /\ phase[e] = "frozen"
                    /\ PositionAfter(e, Applied(e, pend)) = Len(metalogs),
           inbox' \in [Nodes -> SUBSET Nat], \A x \in Nodes : inbox'[x] \subseteq inbox[x],
           UNCHANGED <<nextLocalId, storageVars, replicate, metaVars>>
    PROVE  IInv'
<1> DEFINE app == Applied(e, pend)
           q == PositionAfter(e, app)
           new == NewLogs(e, app)
           ids == {x.localid : x \in new}
           gone == IF final THEN pendingAppends[e] \ ids ELSE {}
<1>1. /\ TypeOK /\ Chained /\ Following /\ Reported /\ Issued /\ Pending /\ Final
      /\ LiteModeSkipsNothing
    BY DEF IInv
<1>2. /\ e \in Nodes /\ InterestedShards(e) = {e} /\ e \in InterestedShards(e)
      /\ Len(metalogs) \in Nat
    BY <1>1, Interested, MetaLogTypes DEF Nodes
<1>3. UNCHANGED <<nextLocalId, pendingEntries, live, stored, storedDirty, reported,
                  replicate, metalogs, view>>
    BY DEF storageVars, metaVars
<1>4. /\ acked' = [acked EXCEPT ![e] = @ \cup new]
      /\ discarded' = [discarded EXCEPT ![e] = @ \cup gone]
      /\ pendingAppends' = [pendingAppends EXCEPT ![e] = @ \ (ids \cup gone)]
      /\ phase' = [phase EXCEPT ![e] =
             IF ~(ids \subseteq pendingAppends[e]) THEN "missing_entry"
             ELSE IF final THEN "finalized" ELSE @]
    BY Zenon DEF ProducerOnNewLogs
<1>5. /\ Following'
      /\ position' \in [Nodes -> Nat] /\ pendingMeta' \in [Nodes -> SUBSET Nat]
      /\ progress' = [x \in Nodes |-> progress'[x]]
      /\ \A x \in Nodes : progress'[x] \in [InterestedShards(x) -> Nat]
      /\ \A x \in Nodes : x # e => position'[x] = position[x] /\ progress'[x] = progress[x]
      /\ position'[e] = q /\ progress'[e][e] = EndAt(q, e)
    BY <1>1, <1>2, <1>3, AdvanceFollows, Zenon
<1>6. /\ q \in Nat /\ q <= Len(metalogs) /\ q \in 0..Len(metalogs)
      /\ app = {} => q = position[e]
    <2>1. /\ q \in Nat /\ q <= Len(metalogs)
          /\ app = {} => q = position[e]
        BY <1>1, <1>2, AdvanceBounds, Zenon
    <2>2. QED
        BY <1>2, <2>1
<1>7. new = New(e, app)
    BY <1>2 DEF NewLogs, New
<1>8. /\ OrderedEntries(e, q) = OrderedEntries(e, position[e]) \cup new
      /\ new \subseteq LogEntries
      /\ \A x \in new : x.localid \in progress[e][e] .. (EndAt(q, e) - 1)
      /\ \A id \in progress[e][e] .. (EndAt(q, e) - 1) : \E x \in new : x.localid = id
    <2>1. TakesTo(e, e, app, q)
        BY <1>1, <1>2, AppliedEntries
    <2> HIDE DEF app, q, new
    <2>2. QED
        BY <1>7, <2>1, Zenon DEF TakesTo
<1>9. phase[e] = "finalized" => app = {}
    BY <1>1, <1>2, FinalizedIsDone
<1>10. app = {} => new = {}
    BY <1>7 DEF New
<1>11. final => /\ view = "finalized" /\ phase[e] = "frozen" /\ q = Len(metalogs)
    OBVIOUS
<1> HIDE DEF app, q, new
<1>12. ids = progress[e][e] .. (EndAt(q, e) - 1)
    BY <1>8
<1>13. /\ EndAt(q, e) \in Nat /\ nextLocalId[e] \in Nat /\ EndAt(q, e) <= nextLocalId[e]
       /\ progress[e][e] \in Nat /\ progress[e][e] <= EndAt(q, e)
    <2>1. /\ EndAt(q, e) \in Nat /\ nextLocalId[e] \in Nat /\ EndAt(q, e) <= nextLocalId[e]
        BY <1>1, <1>6, OrderedIsStored
    <2>2. position[e] \in Nat /\ position[e] <= q
        BY <1>1, <1>2, AdvanceBounds, Zenon DEF TypeOK, q, app
    <2>3. position[e] \in 0..Len(metalogs)
        BY <1>2, <1>6, <2>2
    <2>4. progress[e][e] = EndAt(position[e], e) /\ EndAt(position[e], e) \in Nat
        BY <1>1, <1>2, <2>3, MetaLogTypes, Zenon DEF Following
    <2>5. EndAt(position[e], e) <= EndAt(q, e)
        BY <1>1, <1>6, <2>2, <2>3, EndsGrow, Zenon
    <2>6. QED
        BY <2>1, <2>4, <2>5
<1>14. phase[e] # "finalized" => pendingAppends[e] = progress[e][e] .. (nextLocalId[e] - 1)
    BY <1>1, Zenon DEF Pending
<1>15. ids \subseteq pendingAppends[e]
    <2>1. CASE phase[e] = "finalized"
        BY <1>9, <1>10, <2>1
    <2>2. CASE phase[e] # "finalized"
        <3>1. \A id \in progress[e][e] .. (EndAt(q, e) - 1) :
                  id \in progress[e][e] .. (nextLocalId[e] - 1)
            BY <1>13
        <3>2. QED
            BY <1>12, <1>14, <2>2, <3>1, Zenon
    <2>3. QED
        BY <2>1, <2>2, Zenon
<1> HIDE DEF ids, gone
<1>16. /\ phase' = [phase EXCEPT ![e] = IF final THEN "finalized" ELSE @]
       /\ phase \in [Nodes -> {"normal", "frozen", "finalized", "missing_entry", "insufficient"}]
    BY <1>1, <1>4, <1>15 DEF TypeOK
<1>17. /\ phase'[e] = IF final THEN "finalized" ELSE phase[e]
       /\ \A x \in Nodes : x # e => phase'[x] = phase[x]
    BY <1>2, <1>16
<1>18. gone \subseteq pendingAppends[e] /\ (final => gone = pendingAppends[e] \ ids)
       /\ (~final => gone = {})
    BY DEF gone
<1>19. /\ acked'[e] = acked[e] \cup new
       /\ discarded'[e] = discarded[e] \cup gone
       /\ pendingAppends'[e] = pendingAppends[e] \ (ids \cup gone)
       /\ \A x \in Engines : x # e => /\ acked'[x] = acked[x] /\ discarded'[x] = discarded[x]
                                       /\ pendingAppends'[x] = pendingAppends[x]
    BY <1>1, <1>4 DEF TypeOK
<1>20. TypeOK'
    <2>1. /\ acked' \in [Engines -> SUBSET LogEntries]
          /\ discarded' \in [Engines -> SUBSET Nat]
          /\ pendingAppends' \in [Engines -> SUBSET Nat]
        BY <1>1, <1>4, <1>8, <1>18 DEF TypeOK
    <2>2. phase' \in [Nodes -> {"normal", "frozen", "finalized", "missing_entry", "insufficient"}]
        BY <1>16, Zenon
    <2>3. QED
        BY <1>1, <1>3, <1>5, <2>1, <2>2, Zenon DEF TypeOK
<1>21. Chained' /\ Reported' /\ Issued'
    BY <1>1, <1>3, SameChain, SameReported, SameIssued, Zenon
<1>22. Pending'
    <2>1. ASSUME NEW x \in Engines, phase'[x] # "finalized"
          PROVE  pendingAppends'[x] = progress'[x][x] .. (nextLocalId'[x] - 1)
        <3>1. CASE x = e
            <4>1. ~final /\ phase[e] # "finalized"
                BY <1>17, <2>1, <3>1
            <4>2. pendingAppends'[e] = (progress[e][e] .. (nextLocalId[e] - 1))
                                          \ (progress[e][e] .. (EndAt(q, e) - 1))
                BY <1>12, <1>14, <1>18, <1>19, <4>1, Zenon
            <4>3. QED
                BY <1>3, <1>5, <1>13, <3>1, <4>2
        <3>2. CASE x # e
            BY <1>1, <1>3, <1>5, <1>17, <1>19, <2>1, <3>2, Zenon DEF Pending, Nodes
        <3>3. QED
            BY <3>1, <3>2
    <2>2. ASSUME NEW s \in Storages
          PROVE  s \in Nodes /\ phase'[s] = phase[s] /\ progress'[s] = progress[s]
        <3>1. s \in Nodes /\ s # e
            BY NodeAssumption DEF Nodes
        <3>2. QED
            BY <1>5, <1>17, <3>1
    <2>3. QED
        BY <1>1, <1>3, <2>1, <2>2, Zenon DEF Pending
<1>23. Final'
    <2>1. ASSUME NEW x \in Nodes, phase'[x] = "finalized"
          PROVE  view = "finalized" /\ position'[x] = Len(metalogs)
        <3>1. CASE x # e
            BY <1>1, <1>5, <1>17, <2>1, <3>1, Zenon DEF Final
        <3>2. CASE x = e /\ final
            BY <1>5, <1>11, <3>2
        <3>3. CASE x = e /\ ~final
            <4>1. phase[e] = "finalized" /\ q = position[e]
                BY <1>6, <1>9, <1>17, <2>1, <3>3
            <4>2. QED
                BY <1>1, <1>2, <1>5, <3>3, <4>1 DEF Final
        <3>4. QED
            BY <3>1, <3>2, <3>3
    <2>2. ASSUME NEW x \in Engines, NEW id \in discarded'[x]
          PROVE  phase'[x] = "finalized" /\ EndAt(Len(metalogs), x) <= id
        <3>1. CASE x # e
            BY <1>1, <1>17, <1>19, <2>2, <3>1, Zenon DEF Final, Nodes
        <3>2. CASE x = e /\ id \in discarded[e]
            BY <1>1, <1>17, <3>2 DEF Final
        <3>3. CASE x = e /\ id \in gone
            <4>1. final /\ id \in pendingAppends[e] \ ids /\ q = Len(metalogs)
                BY <1>11, <1>18, <3>3, Zenon
            <4>2. id \in progress[e][e] .. (nextLocalId[e] - 1)
                BY <1>11, <1>14, <4>1, Zenon
            <4>3. id \notin progress[e][e] .. (EndAt(q, e) - 1)
                BY <1>12, <4>1
            <4>4. EndAt(q, e) <= id
                BY <1>13, <4>2, <4>3
            <4>5. QED
                BY <1>17, <3>3, <4>1, <4>4, Zenon
        <3>4. QED
            BY <1>19, <2>2, <3>1, <3>2, <3>3
    <2>3. QED
        BY <1>3, <2>1, <2>2, Zenon DEF Final, EndAt, ShardEnd
<1>24. LiteModeSkipsNothing'
    <2>1. NoMissingEntry'
        BY <1>1, <1>2, <1>17, Zenon DEF LiteModeSkipsNothing, NoMissingEntry
    <2>2. ASSUME NEW x \in Engines PROVE acked'[x] = OrderedEntries(x, position'[x])
        <3>1. CASE x = e
            BY <1>1, <1>5, <1>8, <1>19, <3>1, Zenon DEF LiteModeSkipsNothing
        <3>2. CASE x # e
            BY <1>1, <1>5, <1>19, <3>2, Zenon DEF LiteModeSkipsNothing, Nodes
        <3>3. QED
            BY <3>1, <3>2
    <2>3. ASSUME NEW s \in Storages PROVE position'[s] = position[s]
        <3>1. s \in Nodes /\ s # e
            BY NodeAssumption DEF Nodes
        <3>2. QED
            BY <1>5, <3>1
    <2>4. QED
        BY <1>1, <1>3, <2>1, <2>2, <2>3 DEF LiteModeSkipsNothing, OrderedEntries, StoredEntries
<1>25. QED
    BY <1>5, <1>20, <1>21, <1>22, <1>23, <1>24 DEF IInv
\* A storage applies metalogs: the entries that they order become live, and those
\* past its progress stay pending.
LEMMA StorageStep ==
    ASSUME SetFacts, IInv, NEW s \in Storages, NEW pend, Pendable(s, pend), NEW final \in BOOLEAN,
           AdvanceMetaLogProgress(s, pend, Applied(s, pend)),
           StorageOnNewLogs(s, NewLogs(s, Applied(s, pend)), final),
           final => /\ view = "finalized" /\ phase[s] = "normal"
                    /\ PositionAfter(s, Applied(s, pend)) = Len(metalogs),
           inbox' \in [Nodes -> SUBSET Nat], \A x \in Nodes : inbox'[x] \subseteq inbox[x],
           UNCHANGED <<engineVars, stored, storedDirty, reported, replicate, metaVars>>
    PROVE  IInv'
<1> DEFINE app == Applied(s, pend)
           q == PositionAfter(s, app)
           new == NewLogs(s, app)
           ids == {<<x.engine, x.localid>> : x \in new}
<1>1. /\ TypeOK /\ Chained /\ Following /\ Reported /\ Issued /\ Pending /\ Final
      /\ LiteModeSkipsNothing
    BY DEF IInv
<1>2. /\ s \in Nodes /\ s \notin Engines /\ InterestedShards(s) = SourceEngineNodes(s)
      /\ Len(metalogs) \in Nat
      /\ \A e \in SourceEngineNodes(s) : e \in Engines /\ s \in StorageNodes[e]
    BY <1>1, Interested, MetaLogTypes, NodeAssumption DEF Nodes, SourceEngineNodes, InterestedShards
<1>3. UNCHANGED <<nextLocalId, pendingAppends, acked, discarded, stored, storedDirty, reported,
                  replicate, metalogs, view>>
    BY Zenon DEF engineVars, metaVars
<1>4. /\ live' = [live EXCEPT ![s] = @ \cup new]
      /\ pendingEntries' = [pendingEntries EXCEPT ![s] = IF final THEN {} ELSE @ \ ids]
      /\ phase' = [phase EXCEPT ![s] =
             IF ~(ids \subseteq pendingEntries[s]) THEN "missing_entry"
             ELSE IF final THEN "finalized" ELSE @]
    BY Zenon DEF StorageOnNewLogs
<1>5. /\ Following'
      /\ position' \in [Nodes -> Nat] /\ pendingMeta' \in [Nodes -> SUBSET Nat]
      /\ progress' = [x \in Nodes |-> progress'[x]]
      /\ \A x \in Nodes : progress'[x] \in [InterestedShards(x) -> Nat]
      /\ \A x \in Nodes : x # s => position'[x] = position[x] /\ progress'[x] = progress[x]
      /\ position'[s] = q
      /\ \A e \in SourceEngineNodes(s) : progress'[s][e] = EndAt(q, e)
    BY <1>1, <1>2, <1>3, AdvanceFollows, Zenon
<1>6. /\ q \in Nat /\ q <= Len(metalogs) /\ q \in 0..Len(metalogs)
      /\ app = {} => q = position[s]
      /\ position[s] \in Nat /\ position[s] <= q
    <2>1. /\ q \in Nat /\ q <= Len(metalogs) /\ position[s] <= q
          /\ app = {} => q = position[s]
        BY <1>1, <1>2, AdvanceBounds, Zenon
    <2>2. position[s] \in Nat
        BY <1>1, <1>2, Zenon DEF TypeOK
    <2>3. QED
        BY <1>2, <2>1, <2>2
<1>7. \A e \in SourceEngineNodes(s) : TakesTo(s, e, app, q)
    BY <1>1, <1>2, AppliedEntries, Zenon
<1>8. new = UNION {New(e, app) : e \in SourceEngineNodes(s)}
    BY <1>2 DEF NewLogs, New
<1>9. phase[s] = "finalized" => app = {}
    BY <1>1, <1>2, FinalizedIsDone, Zenon
<1>10. app = {} => new = {}
    <2>1. \A e : New(e, {}) = {}
        BY Zenon DEF New
    <2>2. QED
        BY <1>8, <2>1, Zenon
<1>11. final => /\ view = "finalized" /\ phase[s] = "normal" /\ q = Len(metalogs)
    OBVIOUS
<1> HIDE DEF app, q, new
<1>12. new \subseteq LogEntries
    <2> SUFFICES ASSUME NEW x \in new PROVE x \in LogEntries
        OBVIOUS
    <2>1. PICK e \in SourceEngineNodes(s) : x \in New(e, app)
        BY <1>8, Zenon
    <2>2. New(e, app) \subseteq LogEntries
        BY <1>7, Zenon DEF TakesTo
    <2>3. QED
        BY <2>1, <2>2, Zenon
<1>13. ASSUME NEW y \in ids
       PROVE  \E e \in SourceEngineNodes(s) : \E id \in progress[s][e] .. (EndAt(q, e) - 1) :
                  y = <<e, id>>
    <2>1. PICK x \in new : y = <<x.engine, x.localid>>
        OBVIOUS
    <2>2. PICK e \in SourceEngineNodes(s) : x \in New(e, app)
        BY <1>8, <2>1, Zenon
    <2>3. x.engine = e /\ x.localid \in progress[s][e] .. (EndAt(q, e) - 1)
        BY <1>7, <2>2, Zenon DEF TakesTo
    <2>4. QED
        BY <2>1, <2>3, Zenon
<1>14. ASSUME NEW e \in SourceEngineNodes(s)
       PROVE  /\ EndAt(q, e) \in Nat /\ stored[s][e] \in Nat /\ EndAt(q, e) <= stored[s][e]
              /\ progress[s][e] \in Nat /\ progress[s][e] <= EndAt(q, e)
    <2>1. EndAt(q, e) \in Nat /\ stored[s][e] \in Nat /\ EndAt(q, e) <= stored[s][e]
        BY <1>1, <1>2, <1>6, OrderedIsStored, Zenon
    <2>2. position[s] \in 0..Len(metalogs)
        BY <1>2, <1>6
    <2>3. progress[s][e] = EndAt(position[s], e) /\ EndAt(position[s], e) \in Nat
        BY <1>1, <1>2, <2>2, MetaLogTypes, Zenon DEF Following
    <2>4. EndAt(position[s], e) <= EndAt(q, e)
        BY <1>1, <1>2, <1>6, <2>2, EndsGrow, Zenon
    <2>5. QED
        BY <2>1, <2>3, <2>4, Zenon
<1>15. phase[s] # "finalized" =>
          \A e \in SourceEngineNodes(s) : \A id \in progress[s][e] .. (stored[s][e] - 1) :
              <<e, id>> \in pendingEntries[s]
    BY <1>1, Zenon DEF Pending
<1>16. ids \subseteq pendingEntries[s]
    <2>1. CASE phase[s] = "finalized"
        BY <1>9, <1>10, <2>1
    <2>2. CASE phase[s] # "finalized"
        <3>1. ASSUME NEW y \in ids PROVE y \in pendingEntries[s]
            <4>1. PICK e \in SourceEngineNodes(s) :
                      \E id \in progress[s][e] .. (EndAt(q, e) - 1) : y = <<e, id>>
                BY <1>13, Zenon
            <4>2. PICK id \in progress[s][e] .. (EndAt(q, e) - 1) : y = <<e, id>>
                BY <4>1
            <4>3. id \in progress[s][e] .. (stored[s][e] - 1)
                BY <1>14
            <4>4. QED
                BY <1>15, <2>2, <4>2, <4>3, Zenon
        <3>2. QED
            BY <3>1, Zenon
    <2>3. QED
        BY <2>1, <2>2, Zenon
<1> HIDE DEF ids
<1>17. /\ phase' = [phase EXCEPT ![s] = IF final THEN "finalized" ELSE @]
       /\ phase \in [Nodes -> {"normal", "frozen", "finalized", "missing_entry", "insufficient"}]
    BY <1>1, <1>4, <1>16 DEF TypeOK
<1>18. /\ phase'[s] = IF final THEN "finalized" ELSE phase[s]
       /\ \A x \in Nodes : x # s => phase'[x] = phase[x]
    BY <1>2, <1>17, Zenon
<1>19. /\ live'[s] = live[s] \cup new
       /\ pendingEntries'[s] = IF final THEN {} ELSE pendingEntries[s] \ ids
       /\ \A x \in Storages : x # s => /\ live'[x] = live[x]
                                        /\ pendingEntries'[x] = pendingEntries[x]
    BY <1>1, <1>4 DEF TypeOK
<1>20. \A x \in Engines : /\ x \in Nodes /\ phase'[x] = phase[x] /\ progress'[x] = progress[x]
                           /\ position'[x] = position[x]
    <2> SUFFICES ASSUME NEW x \in Engines
                 PROVE  /\ x \in Nodes /\ phase'[x] = phase[x] /\ progress'[x] = progress[x]
                        /\ position'[x] = position[x]
        BY Zenon
    <2>1. x \in Nodes /\ x # s
        BY <1>2 DEF Nodes
    <2>2. QED
        BY <1>5, <1>18, <2>1
<1>21. TypeOK'
    <2>1. /\ live' \in [Storages -> SUBSET LogEntries]
          /\ pendingEntries' \in [Storages -> SUBSET (Engines \X Nat)]
        BY <1>1, <1>4, <1>12 DEF TypeOK
    <2>2. phase' \in [Nodes -> {"normal", "frozen", "finalized", "missing_entry", "insufficient"}]
        BY <1>17, Zenon
    <2>3. QED
        BY <1>1, <1>3, <1>5, <2>1, <2>2, Zenon DEF TypeOK
<1>22. Chained' /\ Reported'
    BY <1>1, <1>3, SameChain, SameReported, Zenon
<1>23. Issued'
    <2>1. ASSUME NEW x \in Storages PROVE pendingEntries'[x] \subseteq pendingEntries[x]
        BY <1>19, Zenon
    <2>2. QED
        BY <1>1, <1>3, <2>1, Zenon DEF Issued
<1>24. Pending'
    <2>1. ASSUME NEW x \in Storages, phase'[x] # "finalized", NEW e \in SourceEngineNodes(x),
                 NEW id \in progress'[x][e] .. (stored[x][e] - 1)
          PROVE  <<e, id>> \in pendingEntries'[x]
        <3>1. CASE x = s
            <4>1. ~final /\ phase[s] # "finalized" /\ e \in SourceEngineNodes(s)
                BY <1>18, <2>1, <3>1
            <4>2. /\ EndAt(q, e) \in Nat /\ stored[s][e] \in Nat
                  /\ progress[s][e] \in Nat /\ progress[s][e] <= EndAt(q, e)
                BY <1>14, <4>1, Zenon
            <4>3. id \in EndAt(q, e) .. (stored[s][e] - 1)
                BY <1>5, <2>1, <3>1, <4>1, Zenon
            <4>4. id \in progress[s][e] .. (stored[s][e] - 1) /\ ~(id \in progress[s][e] .. (EndAt(q, e) - 1))
                <5>1. PICK a \in Nat : a = progress[s][e]
                    BY <4>2, Zenon
                <5>2. PICK b \in Nat : b = EndAt(q, e) /\ a <= b
                    BY <4>2, <5>1, Zenon
                <5>3. PICK c \in Nat : c = stored[s][e]
                    BY <4>2, Zenon
                <5>4. id \in b .. (c - 1)
                    BY <4>3, <5>2, <5>3, Zenon
                <5>5. id \in a .. (c - 1) /\ ~(id \in a .. (b - 1))
                    BY <5>2, <5>4
                <5>6. QED
                    BY <5>1, <5>2, <5>3, <5>5, Zenon
            <4>5. <<e, id>> \in pendingEntries[s]
                BY <1>15, <4>1, <4>4, Zenon
            <4>6. <<e, id>> \notin ids
                <5> SUFFICES ASSUME <<e, id>> \in ids PROVE FALSE
                    OBVIOUS
                <5>1. PICK f \in SourceEngineNodes(s) :
                          \E i \in progress[s][f] .. (EndAt(q, f) - 1) : <<e, id>> = <<f, i>>
                    BY <1>13, Zenon
                <5>2. PICK i \in progress[s][f] .. (EndAt(q, f) - 1) : <<e, id>> = <<f, i>>
                    BY <5>1, Zenon
                <5>3. e = f /\ id = i
                    BY <5>2
                <5>4. QED
                    BY <4>4, <5>2, <5>3, Zenon
            <4>7. QED
                BY <1>19, <3>1, <4>1, <4>5, <4>6, Zenon
        <3>2. CASE x # s
            <4>1. x \in Nodes
                BY DEF Nodes
            <4>2. phase[x] # "finalized" /\ progress'[x] = progress[x]
                  /\ pendingEntries'[x] = pendingEntries[x]
                BY <1>5, <1>18, <1>19, <2>1, <3>2, <4>1
            <4>3. QED
                BY <1>1, <2>1, <4>2, Zenon DEF Pending
        <3>3. QED
            BY <3>1, <3>2, Zenon
    <2>2. QED
        BY <1>1, <1>3, <1>20, <2>1, Zenon DEF Pending
<1>25. Final'
    <2>1. ASSUME NEW x \in Nodes, phase'[x] = "finalized"
          PROVE  view = "finalized" /\ position'[x] = Len(metalogs)
        <3>1. CASE x # s
            BY <1>1, <1>5, <1>18, <2>1, <3>1, Zenon DEF Final
        <3>2. CASE x = s /\ final
            BY <1>5, <1>11, <3>2
        <3>3. CASE x = s /\ ~final
            <4>1. phase[s] = "finalized" /\ q = position[s]
                BY <1>6, <1>9, <1>18, <2>1, <3>3, Zenon
            <4>2. QED
                BY <1>1, <1>2, <1>5, <3>3, <4>1 DEF Final
        <3>4. QED
            BY <3>1, <3>2, <3>3
    <2>2. QED
        BY <1>1, <1>3, <1>20, <2>1, Zenon DEF Final, EndAt, ShardEnd
<1>26. LiteModeSkipsNothing'
    <2>1. NoMissingEntry'
        BY <1>1, <1>2, <1>18, Zenon DEF LiteModeSkipsNothing, NoMissingEntry
    <2>2. ASSUME NEW x \in Storages PROVE live'[x] = StoredEntries(x, position'[x])
        <3>1. CASE x = s
            <4>1. live'[s] = live[s] \cup new /\ live[s] = StoredEntries(s, position[s])
                BY <1>1, <1>19, Zenon DEF LiteModeSkipsNothing
            <4>2. \A e \in SourceEngineNodes(s) :
                      OrderedEntries(e, q) = OrderedEntries(e, position[s]) \cup New(e, app)
                BY <1>7, Zenon DEF TakesTo
            <4>3. ASSUME NEW y
                  PROVE  y \in StoredEntries(s, q) <=> y \in StoredEntries(s, position[s]) \/ y \in new
                <5>1. \A p : y \in StoredEntries(s, p) <=>
                               \E e \in SourceEngineNodes(s) : y \in OrderedEntries(e, p)
                    BY Zenon DEF StoredEntries
                <5>2. y \in new <=> \E e \in SourceEngineNodes(s) : y \in New(e, app)
                    BY <1>8, Zenon
                <5>3. QED
                    BY <4>2, <5>1, <5>2, Zenon
            <4>4. StoredEntries(s, q) = StoredEntries(s, position[s]) \cup new
                BY <4>3, Zenon
            <4>5. QED
                BY <1>5, <3>1, <4>1, <4>4, Zenon
        <3>2. CASE x # s
            <4>1. x \in Nodes
                BY Zenon DEF Nodes
            <4>2. position'[x] = position[x] /\ live'[x] = live[x]
                BY <1>5, <1>19, <3>2, <4>1, Zenon
            <4>3. QED
                BY <1>1, <4>2, Zenon DEF LiteModeSkipsNothing
        <3>3. QED
            BY <3>1, <3>2, Zenon
    <2>3. \A x \in Engines : acked'[x] = OrderedEntries(x, position'[x])
        BY <1>1, <1>3, <1>20, Zenon DEF LiteModeSkipsNothing
    <2>4. QED
        BY <1>3, <2>1, <2>2, <2>3 DEF LiteModeSkipsNothing, OrderedEntries, StoredEntries
<1>27. QED
    BY <1>5, <1>21, <1>22, <1>23, <1>24, <1>25, <1>26 DEF IInv
\* ProvideMetaLog keeps metalogs that are decided and not below the position.
LEMMA ProvidedPendable ==
    ASSUME SetFacts, TypeOK, Following, NEW n \in Nodes, NEW ms \in SUBSET Nat,
           \A i \in ms : i < Len(metalogs)
    PROVE  Pendable(n, Provided(n, ms))
<1>1. pendingMeta[n] \in SUBSET Nat /\ \A i \in pendingMeta[n] : position[n] <= i /\ i < Len(metalogs)
    BY Zenon DEF TypeOK, Following
<1>2. position[n] \in Nat
    BY Zenon DEF TypeOK
<1>3. QED
    BY <1>1, <1>2, Zenon DEF Pendable, Provided

\* view/finalize has metalogs that are decided.
LEMMA FinalTailPendable ==
    ASSUME SetFacts, TypeOK, Following, NEW n \in Nodes
    PROVE  Pendable(n, Provided(n, FinalTail))
<1>1. Len(metalogs) \in Nat
    BY MetaLogTypes
<1>2. FinalTail \in SUBSET Nat /\ \A i \in FinalTail : i < Len(metalogs)
    <2>1. \A i \in 0 .. (Len(metalogs) - 1) : i \in Nat /\ i < Len(metalogs)
        BY <1>1
    <2>2. FinalTail \subseteq 0 .. (Len(metalogs) - 1)
        BY Zenon DEF FinalTail
    <2>3. QED
        BY <2>1, <2>2, Zenon
<1>3. QED
    BY <1>2, ProvidedPendable

\* A METALOGS message leaves the inbox of the node that receives it.
LEMMA Received ==
    ASSUME SetFacts, TypeOK, NEW n \in Nodes, NEW i \in inbox[n],
           inbox' = [inbox EXCEPT ![n] = @ \ {i}]
    PROVE  inbox' \in [Nodes -> SUBSET Nat] /\ \A x \in Nodes : inbox'[x] \subseteq inbox[x]
<1>1. inbox \in [Nodes -> SUBSET Nat]
    BY DEF TypeOK
<1>2. QED
    BY <1>1

\* The METALOGS handler of an engine keeps the invariant.
LEMMA EngineOnRecvNewMetaLogsInv ==
    ASSUME SetFacts, IInv, NEW e \in Engines, EngineOnRecvNewMetaLogs(e)
    PROVE  IInv'
<1>1. TypeOK /\ Following /\ e \in Nodes
    BY DEF IInv, Nodes
<1>2. PICK i \in inbox[e] :
          /\ inbox' = [inbox EXCEPT ![e] = @ \ {i}]
          /\ AdvanceMetaLogProgress(e, Provided(e, {i}), Applied(e, Provided(e, {i})))
          /\ ProducerOnNewLogs(e, NewLogs(e, Applied(e, Provided(e, {i}))), FALSE)
          /\ UNCHANGED <<nextLocalId, storageVars, replicate, metaVars>>
    BY Zenon DEF EngineOnRecvNewMetaLogs
<1>3. Pendable(e, Provided(e, {i}))
    <2>1. {i} \in SUBSET Nat /\ \A j \in {i} : j < Len(metalogs)
        BY <1>1 DEF TypeOK, Following
    <2>2. QED
        BY <1>1, <2>1, ProvidedPendable
<1>4. inbox' \in [Nodes -> SUBSET Nat] /\ \A x \in Nodes : inbox'[x] \subseteq inbox[x]
    BY <1>1, <1>2, Received, Zenon
<1>5. FALSE \in BOOLEAN /\ ~FALSE
    OBVIOUS
<1>6. QED
    BY <1>2, <1>3, <1>4, <1>5, ProducerStep, Zenon

\* The METALOGS handler of a storage keeps the invariant.
LEMMA StorageOnRecvNewMetaLogsInv ==
    ASSUME SetFacts, IInv, NEW s \in Storages, StorageOnRecvNewMetaLogs(s)
    PROVE  IInv'
<1>1. TypeOK /\ Following /\ s \in Nodes
    BY DEF IInv, Nodes
<1>2. PICK i \in inbox[s] :
          /\ inbox' = [inbox EXCEPT ![s] = @ \ {i}]
          /\ AdvanceMetaLogProgress(s, Provided(s, {i}), Applied(s, Provided(s, {i})))
          /\ StorageOnNewLogs(s, NewLogs(s, Applied(s, Provided(s, {i}))), FALSE)
          /\ UNCHANGED <<engineVars, stored, storedDirty, reported, replicate, metaVars>>
    BY Zenon DEF StorageOnRecvNewMetaLogs
<1>3. Pendable(s, Provided(s, {i}))
    <2>1. {i} \in SUBSET Nat /\ \A j \in {i} : j < Len(metalogs)
        BY <1>1 DEF TypeOK, Following
    <2>2. QED
        BY <1>1, <2>1, ProvidedPendable
<1>4. inbox' \in [Nodes -> SUBSET Nat] /\ \A x \in Nodes : inbox'[x] \subseteq inbox[x]
    BY <1>1, <1>2, Received, Zenon
<1>5. FALSE \in BOOLEAN /\ ~FALSE
    OBVIOUS
<1>6. QED
    BY <1>2, <1>3, <1>4, <1>5, StorageStep, Zenon

\* The phase of one node changes, not to "finalized" nor to "missing_entry", and
\* nothing else does.
LEMMA PhaseStep ==
    ASSUME SetFacts, IInv, NEW n \in Nodes, phase[n] # "finalized", NEW to \in {"frozen", "insufficient"},
           phase' = [phase EXCEPT ![n] = to],
           UNCHANGED <<engineVars, storageVars, baseVars, netVars, metaVars>>
    PROVE  IInv'
<1>1. /\ TypeOK /\ Chained /\ Following /\ Reported /\ Issued /\ Pending /\ Final
      /\ LiteModeSkipsNothing
    BY DEF IInv
<1>2. UNCHANGED <<nextLocalId, pendingAppends, acked, discarded, pendingEntries, live, stored,
                  storedDirty, reported, position, progress, pendingMeta, replicate, inbox,
                  metalogs, view>>
    BY DEF engineVars, storageVars, baseVars, netVars, metaVars
<1>3. phase \in [Nodes -> {"normal", "frozen", "finalized", "missing_entry", "insufficient"}]
    BY <1>1, Zenon DEF TypeOK
<1>4. /\ phase' \in [Nodes -> {"normal", "frozen", "finalized", "missing_entry", "insufficient"}]
      /\ \A x \in Nodes : phase'[x] = IF x = n THEN to ELSE phase[x]
    BY <1>3
<1>5. /\ \A x \in Nodes : phase'[x] = "finalized" <=> phase[x] = "finalized"
      /\ \A x \in Nodes : phase'[x] # "missing_entry"
    BY <1>1, <1>4 DEF LiteModeSkipsNothing, NoMissingEntry
<1>6. TypeOK'
    BY <1>1, <1>2, <1>4, Zenon DEF TypeOK
<1>7. Chained' /\ Following' /\ Reported' /\ Issued'
    BY <1>1, <1>2, SameChain, SameFollowing, SameReported, SameIssued, Zenon
<1>8. Pending' /\ Final' /\ LiteModeSkipsNothing'
    BY <1>1, <1>2, <1>5, SamePending, SameFinal, SameHandled
<1>9. QED
    BY <1>6, <1>7, <1>8 DEF IInv

\* An engine that sees view/freeze keeps the invariant.
LEMMA EngineOnViewFrozenInv ==
    ASSUME SetFacts, IInv, NEW e \in Engines, EngineOnViewFrozen(e)
    PROVE  IInv'
<1>1. e \in Nodes
    BY DEF Nodes
<1>2. /\ phase[e] # "finalized" /\ phase' = [phase EXCEPT ![e] = "frozen"]
      /\ UNCHANGED <<engineVars, storageVars, baseVars, netVars, metaVars>>
    BY DEF EngineOnViewFrozen
<1>3. "frozen" \in {"frozen", "insufficient"}
    OBVIOUS
<1>4. QED
    BY <1>1, <1>2, <1>3, PhaseStep, Zenon

\* A node whose Finalize fails keeps the invariant.
LEMMA FinalizeFailsInv ==
    ASSUME SetFacts, IInv, NEW n \in Nodes, phase[n] # "finalized", NEW app, FinalizeFails(n, app)
    PROVE  IInv'
<1>1. /\ phase' = [phase EXCEPT ![n] = "insufficient"]
      /\ UNCHANGED <<engineVars, storageVars, baseVars, netVars, metaVars>>
    BY DEF FinalizeFails
<1>2. "insufficient" \in {"frozen", "insufficient"}
    OBVIOUS
<1>3. QED
    BY <1>1, <1>2, PhaseStep, Zenon

\* An engine that sees view/finalize keeps the invariant.
LEMMA EngineOnViewFinalizedInv ==
    ASSUME SetFacts, IInv, NEW e \in Engines, EngineOnViewFinalized(e)
    PROVE  IInv'
<1> DEFINE pend == Provided(e, FinalTail)
           app == Applied(e, pend)
<1>1. TypeOK /\ Following /\ e \in Nodes
    BY DEF IInv, Nodes
<1>2. Pendable(e, pend)
    BY <1>1, FinalTailPendable
<1>3. view = "finalized" /\ phase[e] = "frozen"
    BY DEF EngineOnViewFinalized
<1>4. CASE FinalizeFails(e, app)
    <2>1. phase[e] # "finalized"
        BY <1>3
    <2> HIDE DEF app
    <2>2. QED
        BY <1>1, <1>4, <2>1, FinalizeFailsInv
<1>5. CASE /\ PositionAfter(e, app) = Len(metalogs)
           /\ AdvanceMetaLogProgress(e, pend, app)
           /\ ProducerOnNewLogs(e, NewLogs(e, app), TRUE)
           /\ UNCHANGED <<nextLocalId, storageVars, netVars, metaVars>>
    <2>1. /\ inbox' \in [Nodes -> SUBSET Nat] /\ \A x \in Nodes : inbox'[x] \subseteq inbox[x]
          /\ UNCHANGED <<nextLocalId, storageVars, replicate, metaVars>>
        BY <1>1, <1>5 DEF TypeOK, netVars
    <2>2. TRUE \in BOOLEAN
        OBVIOUS
    <2> HIDE DEF pend
    <2>3. QED
        BY <1>2, <1>3, <1>5, <2>1, <2>2, ProducerStep, Zenon
<1>6. QED
    BY <1>4, <1>5, Zenon DEF EngineOnViewFinalized

\* A storage that sees view/finalize keeps the invariant.
LEMMA StorageOnViewFinalizedInv ==
    ASSUME SetFacts, IInv, NEW s \in Storages, StorageOnViewFinalized(s)
    PROVE  IInv'
<1> DEFINE pend == Provided(s, FinalTail)
           app == Applied(s, pend)
<1>1. TypeOK /\ Following /\ s \in Nodes
    BY DEF IInv, Nodes
<1>2. Pendable(s, pend)
    BY <1>1, FinalTailPendable
<1>3. view = "finalized" /\ phase[s] = "normal"
    BY DEF StorageOnViewFinalized
<1>4. CASE FinalizeFails(s, app)
    <2>1. phase[s] # "finalized"
        BY <1>3
    <2> HIDE DEF app
    <2>2. QED
        BY <1>1, <1>4, <2>1, FinalizeFailsInv
<1>5. CASE /\ PositionAfter(s, app) = Len(metalogs)
           /\ AdvanceMetaLogProgress(s, pend, app)
           /\ StorageOnNewLogs(s, NewLogs(s, app), TRUE)
           /\ UNCHANGED <<engineVars, stored, storedDirty, reported, netVars, metaVars>>
    <2>1. /\ inbox' \in [Nodes -> SUBSET Nat] /\ \A x \in Nodes : inbox'[x] \subseteq inbox[x]
          /\ UNCHANGED <<engineVars, stored, storedDirty, reported, replicate, metaVars>>
        BY <1>1, <1>5 DEF TypeOK, netVars
    <2>2. TRUE \in BOOLEAN
        OBVIOUS
    <2> HIDE DEF pend
    <2>3. QED
        BY <1>2, <1>3, <1>5, <2>1, <2>2, StorageStep, Zenon
<1>6. QED
    BY <1>4, <1>5, Zenon DEF StorageOnViewFinalized
-----------------------------------------------------------------------------
(* Appends, REPLICATE and SHARD_PROG messages.                              *)

\* A node's progress in a shard is of issued local ids.
LEMMA ProgressIssued ==
    ASSUME SetFacts, TypeOK, Chained, Following, Reported, NEW n \in Nodes, NEW e \in InterestedShards(n)
    PROVE  progress[n][e] \in Nat /\ nextLocalId[e] \in Nat /\ progress[n][e] <= nextLocalId[e]
<1>1. e \in Engines /\ progress[n][e] = EndAt(position[n], e)
    BY Interested, Zenon DEF Following
<1>2. position[n] \in 0..Len(metalogs)
    <2>1. Len(metalogs) \in Nat /\ position[n] \in Nat /\ position[n] <= Len(metalogs)
        BY MetaLogTypes, Zenon DEF TypeOK, Following
    <2>2. QED
        BY <2>1
<1>3. EndAt(position[n], e) \in Nat /\ nextLocalId[e] \in Nat /\ EndAt(position[n], e) <= nextLocalId[e]
    BY <1>1, <1>2, OrderedIsStored, Zenon
<1>4. QED
    BY <1>1, <1>3, Zenon

\* HandleLocalAppend keeps the invariant.
LEMMA HandleLocalAppendInv ==
    ASSUME SetFacts, IInv, NEW e \in Engines, HandleLocalAppend(e)
    PROVE  IInv'
<1>1. /\ TypeOK /\ Chained /\ Following /\ Reported /\ Issued /\ Pending /\ Final
      /\ LiteModeSkipsNothing
    BY DEF IInv
<1>2. /\ phase[e] = "normal" /\ nextLocalId[e] < MaxLocalId
      /\ pendingAppends' = [pendingAppends EXCEPT ![e] = @ \cup {nextLocalId[e]}]
      /\ nextLocalId' = [nextLocalId EXCEPT ![e] = @ + 1]
      /\ replicate' = replicate \cup ({<<e, nextLocalId[e]>>} \X StorageNodes[e])
      /\ UNCHANGED <<acked, discarded, pendingEntries, live, stored, storedDirty, reported,
                     position, progress, pendingMeta, phase, inbox, metalogs, view>>
    BY DEF HandleLocalAppend, storageVars, baseVars, metaVars
<1>3. /\ nextLocalId \in [Engines -> 0..MaxLocalId] /\ pendingAppends \in [Engines -> SUBSET Nat]
      /\ \A x \in Engines : nextLocalId[x] \in Nat
    BY <1>1, BoundAssumption DEF TypeOK
<1>4. /\ nextLocalId'[e] = nextLocalId[e] + 1
      /\ pendingAppends'[e] = pendingAppends[e] \cup {nextLocalId[e]}
      /\ \A x \in Engines : x # e => /\ nextLocalId'[x] = nextLocalId[x]
                                      /\ pendingAppends'[x] = pendingAppends[x]
      /\ \A x \in Engines : nextLocalId'[x] \in Nat /\ nextLocalId[x] <= nextLocalId'[x]
    BY <1>2, <1>3
<1>5. TypeOK'
    <2>1. nextLocalId' \in [Engines -> 0..MaxLocalId]
        BY <1>2, <1>3, BoundAssumption
    <2>2. pendingAppends' \in [Engines -> SUBSET Nat]
        BY <1>2, <1>3
    <2>3. replicate' \subseteq (Engines \X Nat) \X Storages
        <3>1. StorageNodes[e] \subseteq Storages /\ <<e, nextLocalId[e]>> \in Engines \X Nat
            BY <1>3, NodeAssumption
        <3>2. QED
            BY <1>1, <1>2, <3>1 DEF TypeOK
    <2>4. QED
        BY <1>1, <1>2, <2>1, <2>2, <2>3, Zenon DEF TypeOK
<1>6. Chained' /\ Following' /\ Final' /\ LiteModeSkipsNothing'
    <2>1. \A n \in Nodes : phase'[n] # "missing_entry"
        BY <1>1, <1>2, Zenon DEF LiteModeSkipsNothing, NoMissingEntry
    <2>2. QED
        BY <1>1, <1>2, <2>1, SameChain, SameFollowing, SameFinal, SameHandled, Zenon
<1>7. Reported'
    <2>1. ASSUME NEW x \in Engines, NEW s \in StorageNodes[x]
          PROVE  stored[s][x] <= nextLocalId'[x]
        <3>1. s \in Storages /\ x \in SourceEngineNodes(s)
            BY NodeAssumption DEF SourceEngineNodes
        <3>2. stored[s][x] \in Nat
            BY <1>1, <3>1, BoundAssumption DEF TypeOK
        <3>3. stored[s][x] <= nextLocalId[x]
            BY <1>1 DEF Reported
        <3>4. QED
            BY <1>3, <1>4, <3>2, <3>3
    <2>2. QED
        BY <1>1, <1>2, <2>1, Zenon DEF Reported, EndAt, ShardEnd
<1>8. Issued'
    <2>1. ASSUME NEW x \in Engines, NEW id \in Nat, id < nextLocalId[x] PROVE id < nextLocalId'[x]
        BY <1>3, <1>4, <2>1
    <2>2. ASSUME NEW r \in replicate'
          PROVE  r[2] \in StorageNodes[r[1][1]] /\ r[1][2] < nextLocalId'[r[1][1]]
        <3>1. CASE r \in replicate
            <4>1. r[1][1] \in Engines /\ r[1][2] \in Nat
                BY <1>1, <3>1 DEF TypeOK
            <4>2. r[2] \in StorageNodes[r[1][1]] /\ r[1][2] < nextLocalId[r[1][1]]
                BY <1>1, <3>1 DEF Issued
            <4>3. QED
                BY <2>1, <4>1, <4>2
        <3>2. CASE r \in {<<e, nextLocalId[e]>>} \X StorageNodes[e]
            <4>1. r[1][1] = e /\ r[1][2] = nextLocalId[e] /\ r[2] \in StorageNodes[e]
                BY <3>2
            <4>2. QED
                BY <1>3, <1>4, <4>1
        <3>3. QED
            BY <1>2, <2>2, <3>1, <3>2
    <2>3. ASSUME NEW s \in Storages, NEW y \in pendingEntries[s] PROVE y[2] < nextLocalId'[y[1]]
        <3>1. y[1] \in Engines /\ y[2] \in Nat
            BY <1>1 DEF TypeOK
        <3>2. y[2] < nextLocalId[y[1]]
            BY <1>1 DEF Issued
        <3>3. QED
            BY <2>1, <3>1, <3>2
    <2>4. QED
        BY <1>2, <2>2, <2>3, Zenon DEF Issued
<1>9. Pending'
    <2>1. ASSUME NEW x \in Engines, phase[x] # "finalized"
          PROVE  pendingAppends'[x] = progress[x][x] .. (nextLocalId'[x] - 1)
        <3>1. CASE x = e
            <4>1. e \in Nodes /\ e \in InterestedShards(e)
                BY DEF Nodes, InterestedShards
            <4>2. progress[e][e] \in Nat /\ nextLocalId[e] \in Nat /\ progress[e][e] <= nextLocalId[e]
                BY <1>1, <4>1, ProgressIssued
            <4>3. pendingAppends[e] = progress[e][e] .. (nextLocalId[e] - 1)
                BY <1>1, <1>2, Zenon DEF Pending
            <4>4. ASSUME NEW a \in Nat, NEW b \in Nat, a <= b
                  PROVE  (a .. (b - 1)) \cup {b} = a .. ((b + 1) - 1)
                BY <4>4
            <4>5. pendingAppends'[e] = (progress[e][e] .. (nextLocalId[e] - 1)) \cup {nextLocalId[e]}
                BY <1>4, <4>3, Zenon
            <4>6. pendingAppends'[e] = progress[e][e] .. ((nextLocalId[e] + 1) - 1)
                BY <4>2, <4>4, <4>5, Zenon
            <4>7. QED
                BY <1>4, <3>1, <4>6, Zenon
        <3>2. CASE x # e
            BY <1>1, <1>4, <2>1, <3>2, Zenon DEF Pending
        <3>3. QED
            BY <3>1, <3>2
    <2>2. QED
        BY <1>1, <1>2, <2>1, Zenon DEF Pending
<1>10. QED
    BY <1>5, <1>6, <1>7, <1>8, <1>9 DEF IInv

\* SendShardProgressIfNeeded keeps the invariant.
LEMMA SendShardProgressInv ==
    ASSUME SetFacts, IInv, NEW s \in Storages, SendShardProgressIfNeeded(s)
    PROVE  IInv'
<1>1. /\ TypeOK /\ Chained /\ Following /\ Reported /\ Issued /\ Pending /\ Final
      /\ LiteModeSkipsNothing
    BY DEF IInv
<1>2. /\ storedDirty' = [storedDirty EXCEPT ![s] = FALSE]
      /\ reported' = [reported EXCEPT ![s] = stored[s]]
      /\ UNCHANGED <<nextLocalId, pendingAppends, acked, discarded, pendingEntries, live, stored,
                     position, progress, pendingMeta, phase, replicate, inbox, metalogs, view>>
    BY DEF SendShardProgressIfNeeded, engineVars, baseVars, netVars, metaVars
<1>3. reported = [x \in Storages |-> reported[x]]
    BY <1>1, Zenon DEF TypeOK
<1>4. reported' = [x \in Storages |-> IF x = s THEN stored[s] ELSE reported[x]]
    BY <1>2, <1>3
<1>5. /\ reported' = [x \in Storages |-> reported'[x]]
      /\ reported'[s] = stored[s]
      /\ \A x \in Storages : x # s => reported'[x] = reported[x]
    BY <1>4, Zenon
<1>6. TypeOK'
    <2>1. \A x \in Storages : reported'[x] \in [SourceEngineNodes(x) -> 0..MaxLocalId]
        BY <1>1, <1>5, Zenon DEF TypeOK
    <2>2. storedDirty' \in [Storages -> BOOLEAN]
        BY <1>1, <1>2 DEF TypeOK
    <2>3. QED
        BY <1>1, <1>2, <1>5, <2>1, <2>2, Zenon DEF TypeOK
<1>7. /\ Chained' /\ Following' /\ Issued' /\ Pending' /\ Final' /\ LiteModeSkipsNothing'
    <2>1. \A n \in Nodes : phase'[n] # "missing_entry"
        BY <1>1, <1>2, Zenon DEF LiteModeSkipsNothing, NoMissingEntry
    <2>2. QED
        BY <1>1, <1>2, <2>1, SameChain, SameFollowing, SameIssued, SamePending, SameFinal, SameHandled
<1>8. Reported'
    <2>1. ASSUME NEW e \in Engines, NEW x \in StorageNodes[e]
          PROVE  EndAt(Len(metalogs), e) <= reported'[x][e] /\ reported'[x][e] <= stored[x][e]
        <3>1. x \in Storages /\ e \in SourceEngineNodes(x) /\ Len(metalogs) \in Nat
            BY <1>1, NodeAssumption, MetaLogTypes, Zenon DEF SourceEngineNodes
        <3>2. CASE x # s
            BY <1>1, <1>5, <3>1, <3>2, Zenon DEF Reported
        <3>3. CASE x = s
            <4>1. stored[s][e] \in Nat
                BY <1>1, <3>1, <3>3, BoundAssumption DEF TypeOK
            <4>2. Len(metalogs) \in 0..Len(metalogs)
                BY <3>1
            <4>3. EndAt(Len(metalogs), e) <= stored[s][e]
                BY <1>1, <3>3, <4>2, OrderedIsStored
            <4>4. reported'[x][e] = stored[x][e]
                BY <1>5, <3>3
            <4>5. QED
                BY <3>3, <4>1, <4>3, <4>4
        <3>4. QED
            BY <3>2, <3>3, Zenon
    <2>2. QED
        BY <1>1, <1>2, <2>1, Zenon DEF Reported, EndAt, ShardEnd
<1>9. QED
    BY <1>6, <1>7, <1>8 DEF IInv

\* Publishing view/freeze keeps the invariant.
LEMMA FreezeViewInv ==
    ASSUME SetFacts, IInv, FreezeView
    PROVE  IInv'
<1>1. /\ TypeOK /\ Chained /\ Following /\ Reported /\ Issued /\ Pending /\ Final
      /\ LiteModeSkipsNothing
    BY DEF IInv
<1>2. /\ view = "normal" /\ view' = "frozen"
      /\ UNCHANGED <<nextLocalId, pendingAppends, acked, discarded, pendingEntries, live, stored,
                     storedDirty, reported, position, progress, pendingMeta, phase, replicate,
                     inbox, metalogs>>
    BY DEF FreezeView, engineVars, storageVars, baseVars, netVars
<1>3. \A n \in Nodes : phase[n] # "finalized" /\ phase[n] # "missing_entry"
    BY <1>1, <1>2 DEF Final, LiteModeSkipsNothing, NoMissingEntry
<1>4. TypeOK'
    BY <1>1, <1>2, Zenon DEF TypeOK
<1>5. Chained' /\ Following' /\ Reported' /\ Issued'
    BY <1>1, <1>2, SameChain, SameFollowing, SameReported, SameIssued
<1>6. Pending' /\ LiteModeSkipsNothing'
    BY <1>1, <1>2, <1>3, SamePending, SameHandled
<1>7. Final'
    BY <1>1, <1>2, <1>3, Zenon DEF Final, Nodes
<1>8. QED
    BY <1>4, <1>5, <1>6, <1>7 DEF IInv
\* AdvanceShardProgress finds the first local id that the storage does not hold:
\* there is one, as it holds issued local ids only.
LEMMA StoredUpToIsFound ==
    ASSUME SetFacts, IInv, NEW s \in Storages, NEW e \in SourceEngineNodes(s),
           NEW entries \in SUBSET (Engines \X Nat),
           \A id \in Nat : <<e, id>> \in entries => id < nextLocalId[e]
    PROVE  /\ StoredUpTo(s, e, entries) \in stored[s][e] .. MaxLocalId
           /\ stored[s][e] \in Nat /\ StoredUpTo(s, e, entries) \in Nat
           /\ StoredUpTo(s, e, entries) <= nextLocalId[e]
           /\ \A id \in stored[s][e] .. (StoredUpTo(s, e, entries) - 1) : <<e, id>> \in entries
<1>1. /\ e \in Engines /\ s \in StorageNodes[e]
      /\ nextLocalId[e] \in Nat /\ nextLocalId[e] <= MaxLocalId /\ MaxLocalId \in Nat
      /\ stored[s][e] \in Nat /\ stored[s][e] <= MaxLocalId
    <2>1. e \in Engines /\ s \in StorageNodes[e]
        BY DEF SourceEngineNodes
    <2>2. /\ nextLocalId \in [Engines -> 0..MaxLocalId]
          /\ stored[s] \in [SourceEngineNodes(s) -> 0..MaxLocalId]
        BY Zenon DEF IInv, TypeOK
    <2>3. nextLocalId[e] \in 0..MaxLocalId /\ stored[s][e] \in 0..MaxLocalId
        BY <2>1, <2>2, Zenon
    <2>4. QED
        BY <2>1, <2>3, BoundAssumption
<1>2. stored[s][e] <= nextLocalId[e]
    BY <1>1 DEF IInv, Reported
<1> DEFINE S == {p \in Nat : stored[s][e] <= p /\ <<e, p>> \notin entries}
<1>3. nextLocalId[e] \in S
    <2>1. ~(nextLocalId[e] < nextLocalId[e])
        BY <1>1
    <2>2. QED
        BY <1>1, <1>2, <2>1
<1>4. PICK p \in S : \A i \in S : p <= i
    <2>1. S \in SUBSET Nat /\ S # {}
        BY <1>3
    <2> HIDE DEF S
    <2>2. QED
        BY <2>1, LeastNatural, Zenon
<1>5. p \in Nat /\ stored[s][e] <= p /\ <<e, p>> \notin entries /\ p <= nextLocalId[e]
    BY <1>3, <1>4
<1>6. ASSUME NEW id \in stored[s][e] .. (p - 1) PROVE <<e, id>> \in entries
    <2>1. id \in Nat /\ stored[s][e] <= id /\ ~(p <= id)
        BY <1>1, <1>5
    <2>2. id \notin S
        BY <1>4, <2>1
    <2>3. QED
        BY <2>1, <2>2
<1>7. p \in stored[s][e] .. MaxLocalId
    BY <1>1, <1>5
<1> DEFINE u == StoredUpTo(s, e, entries)
<1>8. /\ u \in stored[s][e] .. MaxLocalId
      /\ \A id \in stored[s][e] .. (u - 1) : <<e, id>> \in entries
    <2>1. \E x \in stored[s][e] .. MaxLocalId :
              /\ \A id \in stored[s][e] .. (x - 1) : <<e, id>> \in entries
              /\ <<e, x>> \notin entries
        BY <1>5, <1>6, <1>7, Zenon
    <2>2. QED
        BY <2>1, Zenon DEF StoredUpTo
<1> HIDE DEF u
<1>9. u \in Nat /\ stored[s][e] <= u
    BY <1>1, <1>8
<1>10. u <= nextLocalId[e]
    <2>1. CASE u = stored[s][e]
        BY <1>1, <1>2, <2>1
    <2>2. CASE u # stored[s][e]
        <3>1. u - 1 \in Nat /\ u - 1 \in stored[s][e] .. (u - 1)
            BY <1>1, <1>9, <2>2
        <3>2. <<e, u - 1>> \in entries
            BY <1>8, <3>1, Zenon
        <3>3. u - 1 < nextLocalId[e]
            BY <3>1, <3>2, Zenon
        <3>4. QED
            BY <1>1, <1>9, <3>3
    <2>3. QED
        BY <2>1, <2>2
<1>11. QED
    BY <1>1, <1>8, <1>9, <1>10, Zenon DEF u

\* LogStorage::Store keeps the invariant.
LEMMA HandleReplicateRequestInv ==
    ASSUME SetFacts, IInv, NEW s \in Storages, HandleReplicateRequest(s)
    PROVE  IInv'
<1>1. /\ TypeOK /\ Chained /\ Following /\ Reported /\ Issued /\ Pending /\ Final
      /\ LiteModeSkipsNothing
    BY DEF IInv
<1>2. PICK r \in replicate :
          /\ r[2] = s
          /\ replicate' = replicate \ {r}
          /\ pendingEntries' = [pendingEntries EXCEPT ![s] = pendingEntries[s] \cup {r[1]}]
          /\ stored' = [stored EXCEPT ![s][r[1][1]] =
                           StoredUpTo(s, r[1][1], pendingEntries[s] \cup {r[1]})]
          /\ storedDirty' = [storedDirty EXCEPT ![s] =
                 @ \/ StoredUpTo(s, r[1][1], pendingEntries[s] \cup {r[1]}) > stored[s][r[1][1]]]
          /\ UNCHANGED <<engineVars, live, reported, baseVars, phase, inbox, metaVars>>
    BY Zenon DEF HandleReplicateRequest
<1>3. UNCHANGED <<nextLocalId, pendingAppends, acked, discarded, live, reported, position,
                  progress, pendingMeta, phase, inbox, metalogs, view>>
    BY <1>2 DEF engineVars, baseVars, metaVars
<1> DEFINE e == r[1][1]
           entries == pendingEntries[s] \cup {r[1]}
           upto == StoredUpTo(s, e, entries)
<1>4. /\ e \in Engines /\ r[1][2] \in Nat /\ r[1] = <<e, r[1][2]>> /\ r[1] \in Engines \X Nat
      /\ s \in StorageNodes[e] /\ r[1][2] < nextLocalId[e]
    <2>1. r \in (Engines \X Nat) \X Storages
        BY <1>1, <1>2 DEF TypeOK
    <2>2. s \in StorageNodes[e] /\ r[1][2] < nextLocalId[e]
        BY <1>1, <1>2 DEF Issued
    <2>3. QED
        BY <2>1, <2>2
<1>5. e \in SourceEngineNodes(s)
    BY <1>4 DEF SourceEngineNodes
<1>6. entries \in SUBSET (Engines \X Nat)
    BY <1>1, <1>4 DEF TypeOK
<1> HIDE DEF e
<1>7. ASSUME NEW y \in entries PROVE y[2] < nextLocalId[y[1]]
    <2>1. CASE y \in pendingEntries[s]
        BY <1>1, <2>1 DEF Issued
    <2>2. CASE y = r[1]
        BY <1>4, <2>2 DEF e
    <2>3. QED
        BY <1>7, <2>1, <2>2
<1>8. \A id \in Nat : <<e, id>> \in entries => id < nextLocalId[e]
    <2> SUFFICES ASSUME NEW id \in Nat, <<e, id>> \in entries PROVE id < nextLocalId[e]
        OBVIOUS
    <2>1. <<e, id>>[2] < nextLocalId[<<e, id>>[1]]
        BY <1>7, Zenon
    <2>2. QED
        BY <2>1
<1> HIDE DEF entries
<1>9. /\ upto \in stored[s][e] .. MaxLocalId
      /\ stored[s][e] \in Nat /\ upto \in Nat
      /\ upto <= nextLocalId[e]
      /\ \A id \in stored[s][e] .. (upto - 1) : <<e, id>> \in entries
    BY <1>5, <1>6, <1>8, StoredUpToIsFound
<1>10. /\ pendingEntries' = [pendingEntries EXCEPT ![s] = entries]
       /\ stored' = [stored EXCEPT ![s][e] = upto]
       /\ storedDirty' = [storedDirty EXCEPT ![s] = @ \/ upto > stored[s][e]]
    BY <1>2, Zenon DEF entries, e
<1> HIDE DEF upto
<1>11. /\ stored = [x \in Storages |-> stored[x]]
       /\ \A x \in Storages : stored[x] \in [SourceEngineNodes(x) -> 0..MaxLocalId]
       /\ pendingEntries \in [Storages -> SUBSET (Engines \X Nat)]
    BY <1>1, Zenon DEF TypeOK
<1>12. stored' = [x \in Storages |-> IF x = s THEN [stored[s] EXCEPT ![e] = upto] ELSE stored[x]]
    BY <1>10, <1>11, Zenon
<1>13. /\ stored' = [x \in Storages |-> stored'[x]]
       /\ stored'[s] = [stored[s] EXCEPT ![e] = upto]
       /\ \A x \in Storages : x # s => stored'[x] = stored[x]
    BY <1>12, Zenon
<1>14. /\ stored'[s] \in [SourceEngineNodes(s) -> 0..MaxLocalId]
       /\ stored'[s][e] = upto
       /\ \A x \in SourceEngineNodes(s) : x # e => stored'[s][x] = stored[s][x]
    <2>1. upto \in 0..MaxLocalId
        BY <1>9, BoundAssumption
    <2>2. QED
        BY <1>5, <1>11, <1>13, <2>1
<1>15. /\ pendingEntries' \in [Storages -> SUBSET (Engines \X Nat)]
       /\ pendingEntries'[s] = entries
       /\ \A x \in Storages : x # s => pendingEntries'[x] = pendingEntries[x]
    BY <1>6, <1>10, <1>11
<1>16. TypeOK'
    <2>1. \A x \in Storages : stored'[x] \in [SourceEngineNodes(x) -> 0..MaxLocalId]
        BY <1>11, <1>13, <1>14, Zenon
    <2>2. storedDirty' \in [Storages -> BOOLEAN]
        <3>1. (storedDirty[s] \/ upto > stored[s][e]) \in BOOLEAN
            OBVIOUS
        <3>2. storedDirty \in [Storages -> BOOLEAN]
            BY <1>1, Zenon DEF TypeOK
        <3>3. QED
            BY <1>10, <3>1, <3>2, Zenon
    <2>3. replicate' \subseteq (Engines \X Nat) \X Storages
        BY <1>1, <1>2, Zenon DEF TypeOK
    <2>4. QED
        BY <1>1, <1>3, <1>13, <1>15, <2>1, <2>2, <2>3, Zenon DEF TypeOK
<1>17. Chained' /\ Following' /\ Final' /\ LiteModeSkipsNothing'
    <2>1. \A n \in Nodes : phase'[n] # "missing_entry"
        BY <1>1, <1>3 DEF LiteModeSkipsNothing, NoMissingEntry
    <2>2. QED
        BY <1>1, <1>3, <2>1, SameChain, SameFollowing, SameFinal, SameHandled
<1>18. Reported'
    <2>1. ASSUME NEW f \in Engines, NEW x \in StorageNodes[f]
          PROVE  reported[x][f] <= stored'[x][f] /\ stored'[x][f] <= nextLocalId[f]
        <3>1. x \in Storages /\ f \in SourceEngineNodes(x)
            BY NodeAssumption DEF SourceEngineNodes
        <3>2. reported[x][f] <= stored[x][f] /\ stored[x][f] <= nextLocalId[f]
            BY <1>1 DEF Reported
        <3>3. CASE x = s /\ f = e
            <4>1. reported[s][e] \in Nat /\ stored[s][e] \in Nat /\ nextLocalId[e] \in Nat
                BY <1>1, <3>1, <3>3, BoundAssumption DEF TypeOK
            <4>2. stored[s][e] <= upto
                BY <1>9, <4>1, BoundAssumption
            <4>3. QED
                BY <1>9, <1>14, <3>2, <3>3, <4>1, <4>2
        <3>4. CASE ~(x = s /\ f = e)
            <4>1. stored'[x][f] = stored[x][f]
                BY <1>13, <1>14, <3>1, <3>4, Zenon
            <4>2. QED
                BY <3>2, <4>1, Zenon
        <3>5. QED
            BY <3>3, <3>4
    <2>2. QED
        BY <1>1, <1>3, <2>1, Zenon DEF Reported, EndAt, ShardEnd
<1>19. Issued'
    <2>1. ASSUME NEW x \in Storages, NEW y \in pendingEntries'[x] PROVE y[2] < nextLocalId[y[1]]
        <3>1. CASE x = s
            BY <1>7, <1>15, <2>1, <3>1
        <3>2. CASE x # s
            BY <1>1, <1>15, <2>1, <3>2, Zenon DEF Issued
        <3>3. QED
            BY <3>1, <3>2
    <2>2. \A x \in replicate' : x \in replicate
        BY <1>2
    <2>3. QED
        BY <1>1, <1>3, <2>1, <2>2, Zenon DEF Issued
<1>20. Pending'
    <2>1. ASSUME NEW x \in Storages, phase[x] # "finalized", NEW f \in SourceEngineNodes(x),
                 NEW id \in progress[x][f] .. (stored'[x][f] - 1)
          PROVE  <<f, id>> \in pendingEntries'[x]
        <3>1. \A i \in progress[x][f] .. (stored[x][f] - 1) : <<f, i>> \in pendingEntries[x]
            BY <1>1, <2>1, Zenon DEF Pending
        <3>2. pendingEntries[x] \subseteq pendingEntries'[x]
            BY <1>15, Zenon DEF entries
        <3>3. CASE x = s /\ f = e
            <4>1. progress[s][e] \in Nat
                <5>1. s \in Nodes /\ e \in InterestedShards(s)
                    BY <1>5, Interested, Zenon DEF Nodes
                <5>2. QED
                    BY <1>1, <5>1 DEF TypeOK
            <4>2. id \in progress[s][e] .. (upto - 1)
                BY <1>14, <2>1, <3>3, Zenon
            <4>3. \/ id \in progress[s][e] .. (stored[s][e] - 1)
                  \/ id \in stored[s][e] .. (upto - 1)
                BY <1>9, <4>1, <4>2
            <4>4. CASE id \in progress[s][e] .. (stored[s][e] - 1)
                BY <3>1, <3>2, <3>3, <4>4, Zenon
            <4>5. CASE id \in stored[s][e] .. (upto - 1)
                BY <1>9, <1>15, <3>3, <4>5, Zenon
            <4>6. QED
                BY <4>3, <4>4, <4>5
        <3>4. CASE ~(x = s /\ f = e)
            <4>1. stored'[x][f] = stored[x][f]
                BY <1>13, <1>14, <2>1, <3>4, Zenon
            <4>2. QED
                BY <2>1, <3>1, <3>2, <4>1, Zenon
        <3>5. QED
            BY <3>3, <3>4
    <2>2. QED
        BY <1>1, <1>3, <2>1, Zenon DEF Pending
<1>21. QED
    BY <1>16, <1>17, <1>18, <1>19, <1>20 DEF IInv
-----------------------------------------------------------------------------
(* A metalog is decided.                                                    *)

\* One more metalog keeps the metalogs chained.
LEMMA DecideChained ==
    ASSUME SetFacts, TypeOK, Chained, NEW m \in NextMetaLogs, metalogs' = Append(metalogs, m)
    PROVE  Chained'
<1>1. PICK L \in Nat : L = Len(metalogs)
    BY MetaLogTypes
<1>2. m \in MetaLogProto
    BY NextMetaLogIsNext
<1>3. /\ Len(metalogs') = L + 1 /\ L + 1 \in Nat
      /\ \A i \in 1..L : metalogs'[i] = metalogs[i]
      /\ metalogs'[L + 1] = m
      /\ \A p \in 0..L, e \in Engines : EndAt(p, e)' = EndAt(p, e)
      /\ \A e \in Engines : EndAt(L + 1, e)' = m.starts[e] + m.deltas[e]
    <2>1. L + 1 \in Nat
        BY <1>1
    <2>2. ASSUME NEW e \in Engines PROVE EndAt(L + 1, e)' = m.starts[e] + m.deltas[e]
        BY <1>1, <1>2, <2>1, Appended, Zenon
    <2>3. QED
        BY <1>1, <1>2, <2>1, <2>2, Appended
<1>4. /\ \A i \in 1..L :
           /\ metalogs[i].start + Cardinality(EntriesOf(metalogs[i], Engines)) <= m.start
      /\ \A e \in Engines : m.starts[e] = EndAt(L, e) /\ m.starts[e] \in Nat /\ m.deltas[e] \in Nat
    BY <1>1, NextMetaLogIsNext
<1>5. ASSUME NEW i \in 1..(L + 1), NEW j \in 1..(L + 1), i < j
      PROVE  /\ \A e \in Engines : EndAt(i, e)' <= metalogs'[j].starts[e]
             /\ metalogs'[i].start + Cardinality(EntriesOf(metalogs'[i], Engines))
                   <= metalogs'[j].start
    <2>1. i \in 1..L /\ i \in 0..L /\ i <= L /\ L \in 0..L /\ metalogs'[i] = metalogs[i]
        <3>1. i \in 1..L
            BY <1>5
        <3>2. QED
            BY <1>3, <3>1
    <2>2. CASE j \in 1..L
        BY <1>1, <1>3, <1>5, <2>1, <2>2, Zenon DEF Chained
    <2>3. CASE j = L + 1
        <3>1. ASSUME NEW e \in Engines PROVE EndAt(i, e) <= EndAt(L, e)
            BY <1>1, <2>1, EndsGrow
        <3>2. QED
            BY <1>3, <1>4, <2>1, <2>3, <3>1, Zenon
    <2>4. j \in 1..L \/ j = L + 1
        BY <1>5
    <2>5. QED
        BY <2>2, <2>3, <2>4, Zenon
<1>6. ASSUME NEW e \in Engines, NEW p \in 1..(L + 1), NEW id \in 0 .. (EndAt(p, e)' - 1)
      PROVE  \E i \in 1..p : id \in metalogs'[i].starts[e] .. (EndAt(i, e)' - 1)
    <2>1. ASSUME NEW k \in 1..L, k <= p, id \in 0 .. (EndAt(k, e) - 1)
          PROVE  \E i \in 1..p : id \in metalogs'[i].starts[e] .. (EndAt(i, e)' - 1)
        <3>1. PICK i \in 1..k : id \in metalogs[i].starts[e] .. (EndAt(i, e) - 1)
            BY <1>1, <2>1 DEF Chained
        <3>2. i \in 1..L /\ i \in 0..L /\ i \in 1..p
            BY <2>1
        <3>3. metalogs'[i] = metalogs[i] /\ EndAt(i, e)' = EndAt(i, e)
            BY <1>3, <3>2
        <3>4. QED
            BY <3>1, <3>2, <3>3, Zenon
    <2>2. CASE p \in 1..L
        <3>1. p \in 0..L /\ p <= p
            BY <2>2
        <3>2. EndAt(p, e)' = EndAt(p, e)
            BY <1>3, <3>1
        <3>3. id \in 0 .. (EndAt(p, e) - 1)
            BY <1>6, <3>2, Zenon
        <3>4. QED
            BY <2>1, <2>2, <3>1, <3>3, Zenon
    <2>3. CASE p = L + 1
        <3>1. /\ EndAt(p, e)' = m.starts[e] + m.deltas[e] /\ metalogs'[p] = m
              /\ m.starts[e] = EndAt(L, e) /\ m.starts[e] \in Nat /\ m.deltas[e] \in Nat
            BY <1>3, <1>4, <2>3, Zenon
        <3>2. id \in Nat /\ id < m.starts[e] + m.deltas[e]
            BY <1>6, <3>1
        <3>3. CASE m.starts[e] <= id
            <4>1. p \in 1..p
                BY <2>3
            <4>2. id \in m.starts[e] .. ((m.starts[e] + m.deltas[e]) - 1)
                BY <3>1, <3>2, <3>3
            <4>3. id \in metalogs'[p].starts[e] .. (EndAt(p, e)' - 1)
                BY <3>1, <4>2, Zenon
            <4>4. QED
                BY <4>1, <4>3, Zenon
        <3>4. CASE ~(m.starts[e] <= id)
            <4>1. id < EndAt(L, e) /\ EndAt(L, e) \in Nat
                BY <3>1, <3>2, <3>4
            <4>2. L # 0
                BY <4>1, <3>2 DEF EndAt
            <4>3. L \in 1..L /\ L <= p /\ id \in 0 .. (EndAt(L, e) - 1)
                BY <2>3, <3>2, <4>1, <4>2
            <4>4. QED
                BY <2>1, <4>3, Zenon
        <3>5. QED
            BY <3>3, <3>4, Zenon
    <2>4. p \in 1..L \/ p = L + 1
        BY <1>6
    <2>5. QED
        BY <2>2, <2>3, <2>4, Zenon
<1>7. QED
    BY <1>3, <1>5, <1>6, Zenon DEF Chained

\* Deciding a metalog while the view is not finalized keeps the invariant.
LEMMA DecideStep ==
    ASSUME SetFacts, IInv, NEW m \in NextMetaLogs, DecideMetaLog(m), view # "finalized",
           view' \in {"normal", "frozen", "finalized"},
           UNCHANGED <<engineVars, storageVars, baseVars, phase, replicate>>
    PROVE  IInv'
<1>1. /\ TypeOK /\ Chained /\ Following /\ Reported /\ Issued /\ Pending /\ Final
      /\ LiteModeSkipsNothing
    BY DEF IInv
<1>2. UNCHANGED <<nextLocalId, pendingAppends, acked, discarded, pendingEntries, live, stored,
                  storedDirty, reported, position, progress, pendingMeta, phase, replicate>>
    BY DEF engineVars, storageVars, baseVars
<1>3. /\ metalogs' = Append(metalogs, m)
      /\ inbox' = [n \in Nodes |-> IF n \in Concerned(m.deltas)
                                   THEN inbox[n] \cup {Len(metalogs)} ELSE inbox[n]]
    BY DEF DecideMetaLog
<1>4. PICK L \in Nat : L = Len(metalogs)
    BY <1>1, MetaLogTypes
<1>5. m \in MetaLogProto /\ \A e \in Engines : \A s \in StorageNodes[e] :
                                m.starts[e] + m.deltas[e] <= reported[s][e]
    BY <1>1, NextMetaLogIsNext
<1>6. /\ metalogs' \in Seq(MetaLogProto) /\ Len(metalogs') = L + 1 /\ L + 1 \in Nat
      /\ \A p \in 0..L, e \in Engines : EndAt(p, e)' = EndAt(p, e)
      /\ \A p \in 0..L, e \in Engines : OrderedEntries(e, p)' = OrderedEntries(e, p)
      /\ \A e \in Engines : EndAt(L + 1, e)' = m.starts[e] + m.deltas[e]
    <2>1. L + 1 \in Nat
        BY <1>4
    <2>2. ASSUME NEW e \in Engines PROVE EndAt(L + 1, e)' = m.starts[e] + m.deltas[e]
        BY <1>1, <1>3, <1>4, <1>5, <2>1, Appended, Zenon
    <2>3. QED
        BY <1>1, <1>3, <1>4, <1>5, <2>1, <2>2, Appended, Zenon
<1>7. ASSUME NEW n \in Nodes
      PROVE  /\ inbox'[n] \subseteq inbox[n] \cup {L}
             /\ position[n] \in Nat /\ position[n] <= L /\ position[n] \in 0..L
    <2>1. inbox'[n] \subseteq inbox[n] \cup {L}
        BY <1>3, <1>4
    <2>2. position[n] \in Nat /\ position[n] <= L
        BY <1>1, <1>4, Zenon DEF TypeOK, Following
    <2>3. QED
        BY <2>1, <2>2
<1>8. TypeOK'
    <2>1. inbox' \in [Nodes -> SUBSET Nat]
        <3>1. \A n \in Nodes : inbox[n] \in SUBSET Nat
            BY <1>1, Zenon DEF TypeOK
        <3>2. QED
            BY <1>3, <1>4, <3>1
    <2>2. QED
        BY <1>1, <1>2, <1>6, <2>1, Zenon DEF TypeOK
<1>9. Chained'
    BY <1>1, <1>3, DecideChained
<1>10. Following'
    <2>1. ASSUME NEW n \in Nodes
          PROVE  /\ position[n] <= L + 1
                 /\ \A i \in pendingMeta[n] : position[n] <= i /\ i < L + 1
                 /\ \A i \in inbox'[n] : i < L + 1
        <3>1. /\ pendingMeta[n] \in SUBSET Nat /\ inbox[n] \in SUBSET Nat
              /\ \A i \in pendingMeta[n] : position[n] <= i /\ i < L
              /\ \A i \in inbox[n] : i < L
            BY <1>1, <1>4, Zenon DEF TypeOK, Following
        <3>2. QED
            BY <1>7, <3>1
    <2>2. ASSUME NEW n \in Nodes, NEW e \in InterestedShards(n)
          PROVE  progress[n][e] = EndAt(position[n], e)'
        <3>1. PICK p \in 0..L : p = position[n]
            BY <1>7
        <3>2. e \in Engines
            BY Interested
        <3>3. EndAt(p, e)' = EndAt(p, e)
            BY <1>6, <3>1, <3>2, Zenon
        <3>4. progress[n][e] = EndAt(p, e)
            BY <1>1, <3>1 DEF Following
        <3>5. position'[n] = p
            BY <1>2, <3>1
        <3>6. QED
            BY <3>3, <3>4, <3>5 DEF EndAt, ShardEnd
    <2>3. QED
        BY <1>2, <1>6, <2>1, <2>2, Zenon DEF Following
<1>11. Reported'
    <2>1. ASSUME NEW e \in Engines, NEW s \in StorageNodes[e]
          PROVE  EndAt(Len(metalogs), e)' <= reported[s][e]
        <3>1. EndAt(L + 1, e)' <= reported[s][e]
            BY <1>5, <1>6, Zenon
        <3>2. QED
            BY <1>6, <3>1, Zenon DEF EndAt, ShardEnd
    <2>2. QED
        BY <1>1, <1>2, <2>1, Zenon DEF Reported
<1>12. Issued' /\ Pending'
    BY <1>1, <1>2, SameIssued, SamePending
<1>13. Final'
    <2>1. \A n \in Nodes : phase[n] # "finalized"
        BY <1>1, Zenon DEF Final
    <2>2. \A e \in Engines : discarded[e] = {}
        BY <1>1, <2>1 DEF Final, Nodes
    <2>3. QED
        BY <1>2, <2>1, <2>2, Zenon DEF Final
<1>14. LiteModeSkipsNothing'
    <2>1. ASSUME NEW n \in Nodes, NEW e \in Engines
          PROVE  OrderedEntries(e, position[n])' = OrderedEntries(e, position[n])
        <3>1. PICK p \in 0..L : p = position[n]
            BY <1>7
        <3>2. OrderedEntries(e, p)' = OrderedEntries(e, p)
            BY <1>6, Zenon
        <3>3. position'[n] = p
            BY <1>2, <3>1
        <3>4. QED
            BY <3>1, <3>2, <3>3 DEF OrderedEntries
    <2>2. NoMissingEntry'
        BY <1>1, <1>2 DEF LiteModeSkipsNothing, NoMissingEntry
    <2>3. \A e \in Engines : acked'[e] = OrderedEntries(e, position[e])'
        BY <1>1, <1>2, <2>1, Zenon DEF LiteModeSkipsNothing, Nodes
    <2>4. ASSUME NEW s \in Storages
          PROVE  live'[s] = UNION {OrderedEntries(e, position[s])' : e \in SourceEngineNodes(s)}
        <3>1. \A e \in SourceEngineNodes(s) :
                  OrderedEntries(e, position[s])' = OrderedEntries(e, position[s])
            BY <2>1, Zenon DEF SourceEngineNodes, Nodes
        <3>2. live'[s] = UNION {OrderedEntries(e, position[s]) : e \in SourceEngineNodes(s)}
            BY <1>1, <1>2, Zenon DEF LiteModeSkipsNothing, StoredEntries
        <3>3. ASSUME NEW y PROVE y \in live'[s] <=> \E e \in SourceEngineNodes(s) :
                                                        y \in OrderedEntries(e, position[s])'
            BY <3>1, <3>2, Zenon
        <3>4. QED
            BY <3>3, Zenon
    <2>5. QED
        BY <2>2, <2>3, <2>4, Zenon DEF LiteModeSkipsNothing, StoredEntries
<1>15. QED
    BY <1>8, <1>9, <1>10, <1>11, <1>12, <1>13, <1>14 DEF IInv

\* Propagating a metalog keeps the invariant.
LEMMA PropagateMetaLogInv ==
    ASSUME SetFacts, IInv, PropagateMetaLog
    PROVE  IInv'
<1>1. view # "finalized" /\ UNCHANGED <<engineVars, storageVars, baseVars, phase, replicate, view>>
    BY DEF PropagateMetaLog
<1>2. PICK m \in NextMetaLogs : DecideMetaLog(m)
    BY DEF PropagateMetaLog
<1>3. view' \in {"normal", "frozen", "finalized"}
    BY <1>1 DEF IInv, TypeOK
<1>4. QED
    BY <1>1, <1>2, <1>3, DecideStep

\* Publishing view/finalize keeps the invariant.
LEMMA FinalizeViewInv ==
    ASSUME SetFacts, IInv, FinalizeView
    PROVE  IInv'
<1>1. /\ view = "frozen" /\ view' = "finalized"
      /\ UNCHANGED <<engineVars, storageVars, baseVars, phase, replicate>>
    BY DEF FinalizeView
<1>2. CASE \E m \in NextMetaLogs : DecideMetaLog(m)
    <2>1. PICK m \in NextMetaLogs : DecideMetaLog(m)
        BY <1>2
    <2>2. view # "finalized" /\ view' \in {"normal", "frozen", "finalized"}
        BY <1>1
    <2>3. QED
        BY <1>1, <2>1, <2>2, DecideStep
<1>3. CASE UNCHANGED <<metalogs, inbox>>
    <2>1. /\ TypeOK /\ Chained /\ Following /\ Reported /\ Issued /\ Pending /\ Final
          /\ LiteModeSkipsNothing
        BY DEF IInv
    <2>2. UNCHANGED <<nextLocalId, pendingAppends, acked, discarded, pendingEntries, live, stored,
                      storedDirty, reported, position, progress, pendingMeta, phase, replicate,
                      inbox, metalogs>>
        BY <1>1, <1>3 DEF engineVars, storageVars, baseVars
    <2>3. \A n \in Nodes : phase[n] # "finalized" /\ phase[n] # "missing_entry"
        BY <1>1, <2>1 DEF Final, LiteModeSkipsNothing, NoMissingEntry
    <2>4. TypeOK'
        BY <1>1, <2>1, <2>2, Zenon DEF TypeOK
    <2>5. Chained' /\ Following' /\ Reported' /\ Issued'
        BY <2>1, <2>2, SameChain, SameFollowing, SameReported, SameIssued
    <2>6. Pending' /\ LiteModeSkipsNothing'
        BY <2>1, <2>2, <2>3, SamePending, SameHandled
    <2>7. Final'
        BY <2>1, <2>2, <2>3, Zenon DEF Final, Nodes
    <2>8. QED
        BY <2>4, <2>5, <2>6, <2>7 DEF IInv
<1>4. QED
    BY <1>2, <1>3 DEF FinalizeView
-----------------------------------------------------------------------------
(* Every step.                                                              *)

\* Every step keeps the invariant.
LEMMA NextIInv ==
    ASSUME SetFacts, IInv, [Next]_vars
    PROVE  IInv'
<1>1. CASE UNCHANGED vars
    <2>1. /\ TypeOK /\ Chained /\ Following /\ Reported /\ Issued /\ Pending /\ Final
          /\ LiteModeSkipsNothing
        BY DEF IInv
    <2>2. UNCHANGED <<nextLocalId, pendingAppends, acked, discarded, pendingEntries, live, stored,
                      storedDirty, reported, position, progress, pendingMeta, phase, replicate,
                      inbox, metalogs, view>>
        BY <1>1 DEF vars, engineVars, storageVars, baseVars, netVars, metaVars
    <2>3. TypeOK'
        BY <2>1, <2>2, Zenon DEF TypeOK
    <2>4. \A n \in Nodes : phase'[n] # "missing_entry"
        BY <2>1, <2>2, Zenon DEF LiteModeSkipsNothing, NoMissingEntry
    <2>5. Chained' /\ Following' /\ Reported' /\ Issued'
        BY <2>1, <2>2, SameChain, SameFollowing, SameReported, SameIssued
    <2>6. Pending' /\ Final' /\ LiteModeSkipsNothing'
        BY <2>1, <2>2, <2>4, SamePending, SameFinal, SameHandled
    <2>7. QED
        BY <2>3, <2>5, <2>6 DEF IInv
<1>2. CASE \E e \in Engines : HandleLocalAppend(e)
    BY <1>2, HandleLocalAppendInv
<1>3. CASE \E e \in Engines : EngineOnRecvNewMetaLogs(e)
    BY <1>3, EngineOnRecvNewMetaLogsInv
<1>4. CASE \E e \in Engines : EngineOnViewFrozen(e)
    BY <1>4, EngineOnViewFrozenInv
<1>5. CASE \E e \in Engines : EngineOnViewFinalized(e)
    BY <1>5, EngineOnViewFinalizedInv
<1>6. CASE \E s \in Storages : HandleReplicateRequest(s)
    BY <1>6, HandleReplicateRequestInv
<1>7. CASE \E s \in Storages : SendShardProgressIfNeeded(s)
    BY <1>7, SendShardProgressInv
<1>8. CASE \E s \in Storages : StorageOnRecvNewMetaLogs(s)
    BY <1>8, StorageOnRecvNewMetaLogsInv
<1>9. CASE \E s \in Storages : StorageOnViewFinalized(s)
    BY <1>9, StorageOnViewFinalizedInv
<1>10. CASE PropagateMetaLog
    BY <1>10, PropagateMetaLogInv
<1>11. CASE FreezeView
    BY <1>11, FreezeViewInv
<1>12. CASE FinalizeView
    BY <1>12, FinalizeViewInv
<1>13. QED
    BY <1>1, <1>2, <1>3, <1>4, <1>5, <1>6, <1>7, <1>8, <1>9, <1>10, <1>11, <1>12, Zenon DEF Next

=============================================================================
