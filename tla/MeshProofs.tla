----------------------------- MODULE MeshProofs -----------------------------
(***************************************************************************)
(* For every number of kings and lings: no syncer loses a trigger, each    *)
(* has one heartbeat under way, and the council's table stays well formed  *)
(* through whatever they report.                                           *)
(***************************************************************************)
EXTENDS Mesh, FiniteSetTheorems, TLAPS

\* Also while a request is under way: what was connected since it was built is
\* known to the token.  A node that shuts down has no syncer any more.
Triggered ==
    /\ sync \in [Nodes -> {"rest", "busy", "off"}]
    /\ notify \in [Nodes -> BOOLEAN]
    /\ \A n \in Nodes : n \in unsaid /\ sync[n] # "off" => notify[n]

\* Nothing has been connected when the syncers start.
LEMMA InitTriggered == Init => Triggered
    BY DEF Init, Triggered

\* A syncer that gets its answer, or none, goes on with the token it has.
LEMMA ReturnsKeeps ==
    ASSUME Triggered, NEW m, Returns(m), UNCHANGED <<notify, unsaid>>
    PROVE  Triggered'
  BY DEF Triggered, Returns

\* A token is put next to every connection that is not reported yet.
LEMMA TriggerKeeps ==
    ASSUME Triggered, NEW nodes, triggerSync(nodes), UNCHANGED sync
    PROVE  Triggered'
  BY DEF Triggered, triggerSync

\* A turn of the syncer reads the connections after it has taken the token.
LEMMA SyncKeeps ==
    ASSUME Triggered, NEW n \in Nodes, Sync(n)
    PROVE  Triggered'
  <1>1. /\ notify' \in [Nodes -> BOOLEAN]
        /\ sync' \in [Nodes -> {"rest", "busy", "off"}]
    BY DEF Triggered, Sync
  <1>2. ASSUME NEW p \in Nodes, p \in unsaid', sync'[p] # "off"
        PROVE  notify'[p]
    <2>1. p # n /\ p \in unsaid /\ sync[p] # "off"
      BY <1>2 DEF Triggered, Sync
    <2>2. notify[p]
      BY <2>1 DEF Triggered
    <2>3. notify'[p] = notify[p]
      BY <2>1 DEF Triggered, Sync
    <2> QED  BY <2>2, <2>3
  <1> QED  BY <1>1, <1>2 DEF Triggered

LEMMA NextTriggered == Triggered /\ [Next]_vars => Triggered'
<1> SUFFICES ASSUME Triggered, [Next]_vars PROVE Triggered'
  OBVIOUS
<1> USE DEF council, syncer
<1>1. ASSUME NEW n \in Nodes, Sync(n) PROVE Triggered'
  BY <1>1, SyncKeeps
<1>2. ASSUME NEW n \in Nodes, OnStateChanged(n) PROVE Triggered'
  <2>1. CASE KingOnStateChanged(n)
    BY <2>1 DEF KingOnStateChanged, Fetches, Triggered
  <2>2. CASE LingOnStateChanged(n)
    <3>1. UNCHANGED sync /\ \E nodes : triggerSync(nodes)
      BY <2>2 DEF LingOnStateChanged, Fetches
    <3> QED  BY <3>1, TriggerKeeps
  <2> QED  BY <1>2, <2>1, <2>2 DEF OnStateChanged
<1>3. ASSUME NEW n \in Nodes, Stop(n) PROVE Triggered'
  BY <1>3 DEF Stop, Becomes, Triggered
<1>4. ASSUME NEW n \in Nodes, Ends(n) \/ FinalSyncTimeout(n) PROVE Triggered'
  BY <1>4 DEF Ends, FinalSync, FinalSyncTimeout, Drained, CloseAll, Triggered
<1>5. ASSUME NEW m, Lose(m) \/ Handle(m) PROVE Triggered'
  BY <1>5, ReturnsKeeps DEF Lose, Handle
<1>6. CASE CouncilRestart
  BY <1>6 DEF CouncilRestart, Triggered
<1>7. ASSUME NEW l \in Lings, NEW k \in Kings, Break(l, k)
      PROVE Triggered'
  BY <1>7 DEF Break, Triggered
<1>8. ASSUME NEW k \in Kings, DrainTimeout(k) PROVE Triggered'
  BY <1>8 DEF DrainTimeout, Triggered
<1>9. CASE UNCHANGED vars
  BY <1>9 DEF vars, Triggered
<1> QED
  BY <1>1, <1>2, <1>3, <1>4, <1>5, <1>6, <1>7, <1>8, <1>9 DEF Next

-----------------------------------------------------------------------------
(* The council's table.                                                     *)

\* A number of lings is a number.
LEMMA LingsCounted ==
    ASSUME NEW S \in SUBSET Lings
    PROVE  Cardinality(S) \in Nat
  BY FS_Subset, FS_CardinalityType, NodeAssumption

LEMMA EmptyTyped == EmptyState \in State
  BY DEF EmptyState, State, NoService, Service, Status

\* What a node reads of a state is a state.
LEMMA SeenTyped ==
    ASSUME NEW s \in State, NEW n \in Nodes
    PROVE  Seen(s, n) \in State
<1>1. NoService \in Service /\ "none" \in Status
  BY DEF NoService, Service, Status
<1>2. /\ \A m \in Nodes : s.status[m] \in Status
      /\ \A l \in Lings : s.service[l] \in Service
      /\ s.revision \in Nat
  BY DEF State
<1> QED  BY <1>1, <1>2 DEF Seen, State

\* Services are taken from kings that shut down, and nothing else changes.
LEMMA EvictedTyped ==
    ASSUME NEW s \in State
    PROVE  Evicted(s) \in State /\ Evicted(s).status = s.status
<1> DEFINE leaves(l) == \E k \in Kings : Placed(s, l, k) /\ s.status[k] = "down"
           after == [l \in Lings |->
                       IF leaves(l) THEN [s.service[l] EXCEPT !.at = None, !.kingReady = FALSE]
                                    ELSE s.service[l]]
<1>1. /\ s.revision \in Nat
      /\ s.status \in [Nodes -> Status] /\ s.service \in [Lings -> Service]
      /\ s = [revision |-> s.revision, status |-> s.status, service |-> s.service]
  BY DEF State
<1>2. \A r \in Service : [r EXCEPT !.at = None, !.kingReady = FALSE] \in Service
  BY DEF Service
<1>3. \A l \in Lings : s.service[l] \in Service
  BY ONLY <1>1
<1> HIDE DEF leaves
<1>4. \A l \in Lings : (IF leaves(l) THEN [s.service[l] EXCEPT !.at = None, !.kingReady = FALSE]
                                     ELSE s.service[l]) \in Service
  BY ONLY <1>2, <1>3
<1>5. after \in [Lings -> Service]
  BY ONLY <1>4
<1>6. Evicted(s) = [s EXCEPT !.service = after]
  BY DEF Evicted, leaves
<1> HIDE DEF after
<1>7. Evicted(s) = [revision |-> s.revision, status |-> s.status, service |-> after]
  BY ONLY <1>1, <1>6
<1>8. Evicted(s) \in State
  BY ONLY <1>1, <1>5, <1>7 DEF State
<1> QED  BY ONLY <1>7, <1>8

\* Provision puts services on kings that serve, and changes nothing else.
LEMMA ProvisionTyped ==
    ASSUME NEW s \in State, NEW t \in Provision(s)
    PROVE  t \in State /\ t.status = s.status
<1> DEFINE open == {k \in Kings : s.status[k] = "up"}
           homeless == {l \in Lings : Evicted(s).service[l].id # 0
                                         /\ Evicted(s).service[l].at = None}
<1>1. Evicted(s) \in State /\ Evicted(s).status = s.status
  BY EvictedTyped
<1>2. CASE t = Evicted(s)
  BY <1>1, <1>2
<1>3. ASSUME NEW home \in [homeless -> open],
             t = [Evicted(s) EXCEPT !.revision = @ + Cardinality(homeless),
                                    !.service = [l \in Lings |->
                    IF l \in homeless THEN [Evicted(s).service[l] EXCEPT !.at = home[l]]
                                      ELSE Evicted(s).service[l]]]
      PROVE  t \in State /\ t.status = s.status
  <2>1. \A l \in Lings : Evicted(s).service[l] \in Service
    BY <1>1 DEF State
  <2>2. \A l \in homeless : home[l] \in Kings
    BY <1>3
  <2>3. \A l \in homeless : [Evicted(s).service[l] EXCEPT !.at = home[l]] \in Service
    BY <2>1, <2>2 DEF Service
  <2> HIDE DEF homeless
  <2>4. t.service \in [Lings -> Service] /\ t.status = Evicted(s).status
    BY <1>1, <1>3, <2>1, <2>3 DEF State
  <2>6. t.revision \in Nat
    <3>1. Cardinality(homeless) \in Nat
      BY LingsCounted DEF homeless
    <3>2. Evicted(s).revision \in Nat
      BY <1>1 DEF State
    <3>3. t.revision = Evicted(s).revision + Cardinality(homeless)
      BY <1>1, <1>3 DEF State
    <3> QED  BY ONLY <3>1, <3>2, <3>3
  <2>5. t \in State
    BY <1>1, <1>3, <2>4, <2>6 DEF State
  <2> QED  BY <1>1, <2>4, <2>5
<1> QED  BY <1>2, <1>3 DEF Provision

\* Marking services ready moves none and tells nothing of who is listed.
LEMMA MarkedTyped ==
    ASSUME table \in State, NEW m, NEW ids
    PROVE  /\ Marked(m, ids) \in State
           /\ Marked(m, ids).status = table.status
           /\ \A l \in Lings : /\ Marked(m, ids).service[l].id = table.service[l].id
                              /\ Marked(m, ids).service[l].at = table.service[l].at
<1> DEFINE flag(r) == Flagged(r, m)
           new == {l \in Lings : /\ table.service[l].id \in ids
                                 /\ flag(table.service[l]) # table.service[l]}
           after == [l \in Lings |-> IF l \in new THEN flag(table.service[l])
                                     ELSE table.service[l]]
           count == table.revision + Cardinality(new)
<1>1. /\ table.revision \in Nat
      /\ table.status \in [Nodes -> Status] /\ table.service \in [Lings -> Service]
      /\ table = [revision |-> table.revision, status |-> table.status,
                  service |-> table.service]
  BY DEF State
<1>2. \A r \in Service : flag(r) \in Service /\ flag(r).id = r.id /\ flag(r).at = r.at
  BY DEF Service, Flagged
<1>3. Marked(m, ids) = [table EXCEPT !.revision = count, !.service = after]
  BY DEF Marked
<1>8. count \in Nat
  <2>1. Cardinality(new) \in Nat
    BY LingsCounted
  <2> QED  BY <1>1, <2>1
<1> HIDE DEF flag, new, count
<1>4. after \in [Lings -> Service]
  BY ONLY <1>1, <1>2
<1>5. \A l \in Lings : /\ after[l].id = table.service[l].id
                     /\ after[l].at = table.service[l].at
  BY ONLY <1>1, <1>2
<1> HIDE DEF after
<1>6. Marked(m, ids) = [revision |-> count, status |-> table.status, service |-> after]
  BY ONLY <1>1, <1>3
<1>7. Marked(m, ids) \in State
  BY ONLY <1>1, <1>4, <1>6, <1>8 DEF State
<1> QED  BY ONLY <1>5, <1>6, <1>7

\* A king's report lists it and touches no service.
LEMMA KingPut ==
    ASSUME NEW s \in State, NEW m \in Beat, m.from \in Kings
    PROVE  /\ PutKing(s, m) \in State
           /\ PutKing(s, m).service = s.service
           /\ \A n \in Nodes : \/ PutKing(s, m).status[n] = s.status[n]
                              \/ PutKing(s, m).status[n] \in {"up", "down"}
<1> DEFINE now == IF s.status[m.from] # "none" /\ m.down THEN "down" ELSE "up"
           count == s.revision + 1
           put == [s EXCEPT !.revision = count, !.status[m.from] = now]
<1>1. /\ s.revision \in Nat /\ count \in Nat
      /\ s.status \in [Nodes -> Status] /\ s.service \in [Lings -> Service]
      /\ s = [revision |-> s.revision, status |-> s.status, service |-> s.service]
  BY DEF State
<1>2. now \in {"up", "down"} /\ now \in Status
  BY DEF Status
<1>3. PutKing(s, m) = s \/ PutKing(s, m) = put
  BY DEF PutKing
<1>8. put = [s EXCEPT !.revision = count, !.status[m.from] = now]
  OBVIOUS
<1> HIDE DEF now, count, put
<1>4. put = [revision |-> count, status |-> [s.status EXCEPT ![m.from] = now],
             service |-> s.service]
  BY ONLY <1>1, <1>8
<1>5. [s.status EXCEPT ![m.from] = now] \in [Nodes -> Status]
  BY ONLY <1>1, <1>2
<1>6. put \in State /\ put.service = s.service
  BY ONLY <1>1, <1>4, <1>5 DEF State
<1>7. \A n \in Nodes : put.status[n] = s.status[n] \/ put.status[n] \in {"up", "down"}
  BY ONLY <1>1, <1>2, <1>4
<1> QED  BY <1>3, <1>6, <1>7

\* A ling's report lists it and gives it a service, if it has none.
LEMMA LingPut ==
    ASSUME fresh \in Nat \ {0}, NEW s \in State, NEW m \in Beat, m.from \in Lings
    PROVE  /\ PutLing(s, m) \in State
           /\ \A k \in Kings : PutLing(s, m).status[k] = s.status[k]
           /\ \A l \in Lings :
                 \/ PutLing(s, m).service[l] = s.service[l]
                 \/ l = m.from /\ PutLing(s, m).service[l] = [NoService EXCEPT !.id = fresh]
<1> DEFINE now == IF m.down THEN "down" ELSE "up"
           flips == s.status[m.from] \notin {"none", now}
           new == s.service[m.from].id = 0
           count == s.revision + (IF flips THEN 1 ELSE 0) + (IF new THEN 1 ELSE 0)
           given == IF new THEN [NoService EXCEPT !.id = fresh] ELSE s.service[m.from]
<1>1. /\ s.revision \in Nat
      /\ s.status \in [Nodes -> Status] /\ s.service \in [Lings -> Service]
      /\ s = [revision |-> s.revision, status |-> s.status, service |-> s.service]
  BY DEF State
<1>2. now \in Status /\ count \in Nat
  BY <1>1 DEF Status
<1>3. given \in Service /\ (given = s.service[m.from] \/ given = [NoService EXCEPT !.id = fresh])
  BY <1>1 DEF NoService, Service
<1>4. PutLing(s, m) = [s EXCEPT !.revision = count, !.status[m.from] = now,
                                !.service[m.from] = given]
  BY <1>1 DEF PutLing
<1> HIDE DEF now, count, given
<1>5. PutLing(s, m) = [revision |-> count, status |-> [s.status EXCEPT ![m.from] = now],
                       service |-> [s.service EXCEPT ![m.from] = given]]
  BY ONLY <1>1, <1>4
<1>6. /\ [s.status EXCEPT ![m.from] = now] \in [Nodes -> Status]
      /\ [s.service EXCEPT ![m.from] = given] \in [Lings -> Service]
  BY ONLY <1>1, <1>2, <1>3
<1>7. PutLing(s, m) \in State
  BY ONLY <1>2, <1>5, <1>6 DEF State
<1>8. \A k \in Kings : PutLing(s, m).status[k] = s.status[k]
  BY ONLY <1>1, <1>5, NodeAssumption, m.from \in Lings DEF Nodes
<1>9. \A l \in Lings :
        \/ PutLing(s, m).service[l] = s.service[l]
        \/ l = m.from /\ PutLing(s, m).service[l] = [NoService EXCEPT !.id = fresh]
  BY ONLY <1>1, <1>3, <1>5
<1> QED  BY <1>7, <1>8, <1>9

\* A heartbeat, accepted or refused, leaves a table behind.
LEMMA HandledTyped ==
    ASSUME table \in State, fresh \in Nat \ {0}, NEW m \in Beat, NEW t \in Handled(m)
    PROVE  t \in State
<1>1. ASSUME NEW ids PROVE Marked(m, ids) \in State
  BY MarkedTyped
<1>2. ASSUME NEW s \in State, m.from \in Kings PROVE PutKing(s, m) \in State
  BY <1>2, KingPut
<1>3. ASSUME NEW s \in State, m.from \in Lings PROVE PutLing(s, m) \in State
  BY <1>3, LingPut
<1>4. m.from \in Kings \/ m.from \in Lings
  BY DEF Beat, Nodes
<1> QED  BY <1>1, <1>2, <1>3, <1>4, ProvisionTyped DEF Handled

-----------------------------------------------------------------------------
(* Types, and the heartbeats under way.                                     *)

\* A syncer rests only when its heartbeat has returned, and the last one is
\* sent by a shutdown, once.
Beats ==
    /\ wire \subseteq Beat
    /\ \A m \in wire : IF m.final THEN life[m.from] \in {"final", "drain", "gone"}
                                   ELSE sync[m.from] # "rest"
    /\ \A m1, m2 \in wire : m1.from = m2.from /\ m1.final = m2.final => m1 = m2

\* A node that shuts down had been delivered a state.
Views ==
    /\ view \in [Nodes -> State \cup {NoState}]
    /\ \A n \in Nodes : life[n] # "up" => view[n] \in State

Rest ==
    /\ table \in State /\ fresh \in Nat \ {0}
    /\ unsaid \subseteq Nodes
    /\ life \in [Nodes -> {"up", "ending", "final", "drain", "gone"}]
    /\ conn \in [Lings -> [Kings -> Nat]]
    /\ left \in 0..MaxEvents

Inv == Triggered /\ Beats /\ Views /\ Rest

LEMMA InitInv == Init => Inv
<1> SUFFICES ASSUME Init PROVE Inv
  OBVIOUS
<1>1. Triggered
  BY InitTriggered
<1>2. Beats
  BY DEF Init, Beats
<1>3. Views
  BY DEF Init, Views
<1>4. Rest
  BY EmptyTyped, BoundAssumption DEF Init, Rest, NoConn
<1> QED  BY <1>1, <1>2, <1>3, <1>4 DEF Inv

LEMMA PayloadTyped ==
    ASSUME Inv, NEW n \in Nodes, NEW last \in BOOLEAN, view[n] \in State
    PROVE  /\ Payload(n, last) \in Beat
           /\ Payload(n, last).from = n /\ Payload(n, last).final = last
<1>1. readyServiceIDs(n) \in SUBSET Nat
  <2>1. CASE n \in Kings
    <3>1. {conn[l][n] : l \in Lings} \subseteq Nat
      BY <2>1 DEF Inv, Rest
    <3> QED  BY <2>1, <3>1 DEF readyServiceIDs, KingReadyServiceIDs
  <2>2. CASE n \notin Kings
    <3>1. n \in Lings
      BY <2>2 DEF Nodes
    <3>2. view[n].service[n].id \in Nat
      BY <3>1 DEF State, Service
    <3> QED  BY <2>2, <3>2 DEF readyServiceIDs, LingReadyServiceIDs
  <2> QED  BY <2>1, <2>2
<1> QED  BY <1>1 DEF Payload, Beat

LEMMA SyncTyped ==
    ASSUME Inv, NEW n \in Nodes, Sync(n)
    PROVE  Inv'
<1>1. Triggered'
  BY SyncKeeps DEF Inv
<1>2. view[n] \in State
  BY DEF Inv, Views, Sync
<1> DEFINE p == Payload(n, FALSE)
<1>3. p \in Beat /\ p.from = n /\ p.final = FALSE
  BY <1>2, PayloadTyped
<1>4. wire' = wire \cup {p} /\ sync' = [sync EXCEPT ![n] = "busy"] /\ life' = life
  BY DEF Sync
<1>5. \A m \in wire : ~(m.from = n /\ m.final = FALSE)
  BY DEF Sync, Inv, Beats
<1>6. \A m \in wire : m.from \in Nodes /\ m.final \in BOOLEAN
  BY DEF Inv, Beats, Beat
<1> HIDE DEF p
<1>7. Beats'
  <2>1. wire' \subseteq Beat
    BY <1>3, <1>4 DEF Inv, Beats
  <2>2. \A m \in wire' : IF m.final THEN life'[m.from] \in {"final", "drain", "gone"}
                                    ELSE sync'[m.from] # "rest"
    BY <1>3, <1>4, <1>6 DEF Inv, Beats, Triggered
  <2>3. \A m1, m2 \in wire' : m1.from = m2.from /\ m1.final = m2.final => m1 = m2
    BY <1>3, <1>4, <1>5 DEF Inv, Beats
  <2> QED  BY <2>1, <2>2, <2>3 DEF Beats
<1>8. Views' /\ Rest'
  BY DEF Sync, Inv, Views, Rest, council
<1> QED  BY <1>1, <1>7, <1>8 DEF Inv

\* The answer takes the one heartbeat from the wire that its node waits for.
LEMMA ReturnsTyped ==
    ASSUME Inv, NEW m \in wire, wire' = wire \ {m}, Returns(m)
    PROVE  /\ Beats'
           /\ life' \in [Nodes -> {"up", "ending", "final", "drain", "gone"}]
           /\ \A n \in Nodes : life'[n] # "up" => life[n] # "up"
<1> USE DEF Inv, Triggered, Beats, Rest
<1>1. m.from \in Nodes /\ m.final \in BOOLEAN
  BY DEF Beat
<1>2. CASE m.final
  <2>1. /\ life' = [life EXCEPT ![m.from] = IF @ = "final" THEN "drain" ELSE @]
        /\ sync' = sync
    BY <1>2 DEF Returns
  <2> QED  BY <1>1, <2>1
<1>3. CASE ~m.final
  <2>1. /\ sync' = [sync EXCEPT ![m.from] = IF @ = "busy" THEN "rest" ELSE @]
        /\ life' = life
    BY <1>3 DEF Returns
  <2>2. \A b \in wire' : ~b.final => b.from # m.from
    BY <1>1, <1>3 DEF Beat
  <2>3. \A b \in wire' : b \in wire /\ b.from \in Nodes
    BY DEF Beat
  <2>4. \A b \in wire' : ~b.final => sync'[b.from] # "rest"
    BY <2>1, <2>2, <2>3
  <2> QED  BY <2>1, <2>3, <2>4
<1> QED  BY <1>2, <1>3

LEMMA WireTyped ==
    ASSUME Inv, NEW m \in wire, Lose(m) \/ Handle(m)
    PROVE  Inv'
<1>1. Triggered'
  BY ReturnsKeeps DEF Inv, Lose, Handle
<1>2. wire' = wire \ {m} /\ Returns(m)
  BY DEF Lose, Handle
<1>3. /\ Beats' /\ life' \in [Nodes -> {"up", "ending", "final", "drain", "gone"}]
      /\ \A n \in Nodes : life'[n] # "up" => life[n] # "up"
  BY <1>2, ReturnsTyped
<1>4. Views'
  BY <1>3 DEF Lose, Handle, Inv, Views
<1>5. CASE Lose(m)
  <2>1. Rest'
    BY <1>3, <1>5, BoundAssumption DEF Lose, Happens, Inv, Rest, council
  <2> QED  BY <1>1, <1>3, <1>4, <2>1 DEF Inv
<1>6. CASE Handle(m)
  <2>1. m \in Beat
    BY DEF Inv, Beats
  <2>2. table' \in State
    BY <1>6, <2>1, HandledTyped DEF Handle, Inv, Rest
  <2>3. Rest'
    BY <1>3, <1>6, <2>2 DEF Handle, Inv, Rest
  <2> QED  BY <1>1, <1>3, <1>4, <2>3 DEF Inv
<1> QED  BY <1>5, <1>6

\* A delivery changes nothing but what the node sees and is connected to.
LEMMA DeliveryTyped ==
    ASSUME Inv, NEW n \in Nodes, OnStateChanged(n), Triggered'
    PROVE  Inv'
<1>1. Fetches(n)
  BY DEF OnStateChanged, KingOnStateChanged, LingOnStateChanged
<1>2. Seen(table, n) \in State
  BY SeenTyped DEF Inv, Rest
<1>3. Views'
  BY <1>1, <1>2 DEF Fetches, Inv, Views
<1>4. Beats'
  BY <1>1 DEF Fetches, Inv, Beats
<1>6. CASE n \in Kings /\ KingOnStateChanged(n)
  <2>1. Rest'
    BY <1>1, <1>6 DEF KingOnStateChanged, Fetches, Inv, Rest
  <2> QED  BY <1>3, <1>4, <2>1 DEF Inv
<1>7. CASE n \in Lings /\ LingOnStateChanged(n)
  <2> DEFINE groups == TunnelGroups(table, n)
             i == table.service[n].id
             dialled == {k \in groups : conn[n][k] = NoConn /\ Admits(k, i)}
  <2>1. i \in Nat
    BY <1>7 DEF Inv, Rest, State, Service
  <2>2. dialled \subseteq Kings
    BY DEF TunnelGroups
  <2>3. conn' = [conn EXCEPT ![n] =
                   [k \in Kings |-> IF k \in dialled THEN i ELSE Kept(n, groups)[k]]]
    BY <1>7 DEF LingOnStateChanged
  <2>4. \A k \in Kings : Kept(n, groups)[k] \in Nat
    BY <1>7 DEF Kept, NoConn, Inv, Rest
  <2> HIDE DEF groups, i, dialled
  <2>5. conn' \in [Lings -> [Kings -> Nat]]
    BY <2>1, <2>3, <2>4 DEF Inv, Rest
  <2>6. unsaid' \subseteq Nodes
    BY <1>7, <2>2 DEF LingOnStateChanged, triggerSync, dialled, groups, i, Inv, Rest, Nodes
  <2>7. Rest'
    BY <1>1, <2>5, <2>6 DEF Fetches, Inv, Rest
  <2> QED  BY <1>3, <1>4, <2>7 DEF Inv
<1> QED  BY <1>6, <1>7 DEF OnStateChanged

\* A node sends its last heartbeat once: after it, it is not ending any more.
LEMMA ShutdownTyped ==
    ASSUME Inv, NEW n \in Nodes, Stop(n) \/ Ends(n) \/ FinalSyncTimeout(n), Triggered'
    PROVE  Inv'
<1> USE DEF Becomes, syncer, council
<1>1. CASE Stop(n)
  <2>1. Beats'
    <3>1. \A m \in wire : m.from \in Nodes
      BY DEF Inv, Beats, Beat
    <3> QED  BY <1>1, <3>1 DEF Stop, Inv, Beats, Triggered, Rest
  <2>2. Views'
    BY <1>1 DEF Stop, Inv, Views, Rest
  <2>3. Rest'
    BY <1>1, BoundAssumption DEF Stop, Happens, Inv, Rest
  <2> QED  BY <2>1, <2>2, <2>3 DEF Inv
<1>2. CASE FinalSync(n)
  <2>1. view[n] \in State
    BY <1>2 DEF FinalSync, Inv, Views
  <2> DEFINE p == Payload(n, TRUE)
  <2>2. p \in Beat /\ p.from = n /\ p.final = TRUE
    BY <2>1, PayloadTyped
  <2>3. /\ wire' = wire \cup {p} /\ sync' = sync
        /\ life[n] = "ending" /\ life' = [life EXCEPT ![n] = "final"]
    BY <1>2 DEF FinalSync
  <2>4. \A m \in wire : m.from \in Nodes /\ m.final \in BOOLEAN
    BY DEF Inv, Beats, Beat
  <2>5. \A m \in wire : ~(m.from = n /\ m.final)
    BY <2>3 DEF Inv, Beats
  <2> HIDE DEF p
  <2>6. Beats'
    <3>1. wire' \subseteq Beat
      BY <2>2, <2>3 DEF Inv, Beats
    <3>2. \A m \in wire' : IF m.final THEN life'[m.from] \in {"final", "drain", "gone"}
                                      ELSE sync'[m.from] # "rest"
      BY <2>2, <2>3, <2>4 DEF Inv, Beats, Rest
    <3>3. \A m1, m2 \in wire' : m1.from = m2.from /\ m1.final = m2.final => m1 = m2
      BY <2>2, <2>3, <2>5 DEF Inv, Beats
    <3> QED  BY <3>1, <3>2, <3>3 DEF Beats
  <2>7. Views'
    BY <1>2, <2>1 DEF FinalSync, Inv, Views, Rest
  <2>8. Rest'
    BY <1>2 DEF FinalSync, Inv, Rest
  <2> QED  BY <2>6, <2>7, <2>8 DEF Inv
<1>3. CASE FinalSyncTimeout(n) \/ (n \in Kings /\ Drained(n)) \/ (n \in Lings /\ CloseAll(n))
  <2>1. PICK next \in {"drain", "gone"} :
          /\ life[n] \in {"final", "drain"} /\ life' = [life EXCEPT ![n] = next]
          /\ UNCHANGED <<wire, sync, view, table, fresh, unsaid, left>>
    BY <1>3 DEF FinalSyncTimeout, Drained, CloseAll
  <2>2. \A m \in wire : m.from \in Nodes
    BY DEF Inv, Beats, Beat
  <2>3. Beats'
    BY <2>1, <2>2 DEF Inv, Beats, Rest
  <2>4. Views'
    BY <2>1 DEF Inv, Views, Rest
  <2>5. conn' \in [Lings -> [Kings -> Nat]]
    BY <1>3 DEF FinalSyncTimeout, Drained, CloseAll, NoConn, Inv, Rest
  <2>6. Rest'
    BY <2>1, <2>5 DEF Inv, Rest
  <2> QED  BY <2>3, <2>4, <2>6 DEF Inv
<1> QED  BY <1>1, <1>2, <1>3 DEF Ends

\* With its old process the council loses what was on the way to it.
LEMMA RestartTyped ==
    ASSUME Inv, CouncilRestart, Triggered'
    PROVE  Inv'
<1>1. Beats'
  BY DEF CouncilRestart, Beats
<1>2. Views'
  BY DEF CouncilRestart, Inv, Views, Rest
<1>3. Rest'
  BY EmptyTyped, BoundAssumption DEF CouncilRestart, Happens, Inv, Rest
<1> QED  BY <1>1, <1>2, <1>3 DEF Inv

LEMMA NextInv == Inv /\ [Next]_vars => Inv'
<1> SUFFICES ASSUME Inv, [Next]_vars PROVE Inv'
  OBVIOUS
<1>1. Triggered'
  BY NextTriggered DEF Inv
<1>2. ASSUME NEW n \in Nodes,
             \/ Sync(n) \/ OnStateChanged(n)
             \/ Stop(n) \/ Ends(n) \/ FinalSyncTimeout(n)
      PROVE  Inv'
  BY <1>1, <1>2, SyncTyped, DeliveryTyped, ShutdownTyped
<1>3. ASSUME NEW m \in wire, Lose(m) \/ Handle(m) PROVE Inv'
  BY <1>3, WireTyped
<1>4. CASE CouncilRestart
  BY <1>1, <1>4, RestartTyped
<1>5. ASSUME NEW l \in Lings, NEW k \in Kings, Break(l, k) PROVE Inv'
  <2>1. conn' \in [Lings -> [Kings -> Nat]]
    BY <1>5 DEF Break, NoConn, Inv, Rest
  <2>2. left' \in 0..MaxEvents
    BY <1>5, BoundAssumption DEF Break, Happens, Inv, Rest
  <2>3. Rest'
    BY <1>5, <2>1, <2>2 DEF Break, Inv, Rest, council, syncer
  <2>4. Beats' /\ Views'
    BY <1>5 DEF Break, Inv, Beats, Views, syncer
  <2> QED  BY <1>1, <2>3, <2>4 DEF Inv
<1>6. ASSUME NEW k \in Kings, DrainTimeout(k) PROVE Inv'
  <2>1. k \in Nodes /\ life[k] = "drain" /\ life' = [life EXCEPT ![k] = "gone"]
    BY <1>6 DEF DrainTimeout, Becomes, Nodes
  <2>2. \A m \in wire : m.from \in Nodes
    BY DEF Inv, Beats, Beat
  <2>3. Beats'
    BY <1>6, <2>1, <2>2 DEF DrainTimeout, Inv, Beats, Rest, syncer
  <2>4. Views'
    BY <1>6, <2>1 DEF DrainTimeout, Inv, Views, Rest
  <2>5. conn' \in [Lings -> [Kings -> Nat]]
    <3>1. \A l \in Lings : [conn[l] EXCEPT ![k] = NoConn] \in [Kings -> Nat]
      BY DEF NoConn, Inv, Rest
    <3> QED  BY <1>6, <3>1 DEF DrainTimeout
  <2>6. Rest'
    BY <1>6, <2>1, <2>5 DEF DrainTimeout, Inv, Rest, council, syncer
  <2> QED  BY <1>1, <2>3, <2>4, <2>6 DEF Inv
<1>7. CASE UNCHANGED vars
  BY <1>1, <1>7 DEF vars, council, syncer, Inv, Beats, Views, Rest
<1> QED  BY <1>2, <1>3, <1>4, <1>5, <1>6, <1>7 DEF Next

LEMMA Invariance == Spec => []Inv
  BY InitInv, NextInv, PTL DEF Spec

-----------------------------------------------------------------------------

\* A king or ling whose syncer rests has reported every connection it made, or
\* has a token that makes it report again: king and ling triggerSync.
THEOREM NoTriggerLost == Spec => []NoLostTrigger
<1>1. Init => Triggered
  BY InitTriggered
<1>2. Triggered /\ [Next]_vars => Triggered'
  BY NextTriggered
<1>3. Triggered => NoLostTrigger
  BY DEF Triggered, NoLostTrigger
<1> QED  BY <1>1, <1>2, <1>3, PTL DEF Spec

\* Every state in the mesh is well formed whatever is reported, lost or
\* restarted, and sendPayload has one request of a syncer under way at a time,
\* next to the last one of a shutdown.
THEOREM TypeSafe == Spec => []TypeOK
<1>1. Inv => TypeOK
  BY DEF Inv, Triggered, Beats, Views, Rest, TypeOK
<1> QED  BY <1>1, Invariance, PTL

-----------------------------------------------------------------------------
(* Where services are placed.                                               *)

\* A service is at a king that serves, or there is none.
Settled(s) == \A l \in Lings : s.service[l].id # 0 =>
    IF s.service[l].at = None THEN \A k \in Kings : s.status[k] # "up"
                              ELSE s.status[s.service[l].at] = "up"

Homes == Settled(table)

\* Provision settles what is placed on listed kings only.
LEMMA ProvisionSettles ==
    ASSUME NEW s \in State, NEW t \in Provision(s),
           \A l \in Lings : s.service[l].id # 0 /\ s.service[l].at # None
                             => s.status[s.service[l].at] # "none"
    PROVE  Settled(t)
<1> DEFINE e == Evicted(s)
           open == {k \in Kings : s.status[k] = "up"}
           homeless == {l \in Lings : e.service[l].id # 0 /\ e.service[l].at = None}
<1>1. e \in State /\ e.status = s.status
  BY EvictedTyped
<1>2. ASSUME NEW l \in Lings, e.service[l].id # 0, e.service[l].at # None
      PROVE  s.status[e.service[l].at] = "up"
  <2>1. s.service[l] \in Service /\ e.service[l] \in Service
    BY <1>1 DEF State
  <2>2. e.service[l] = IF \E k \in Kings : Placed(s, l, k) /\ s.status[k] = "down"
                       THEN [s.service[l] EXCEPT !.at = None, !.kingReady = FALSE]
                       ELSE s.service[l]
    BY DEF Evicted, State
  <2>3. e.service[l] = s.service[l]
        /\ ~\E k \in Kings : Placed(s, l, k) /\ s.status[k] = "down"
    BY <1>2, <2>1, <2>2 DEF Service
  <2>4. s.service[l].at \in Kings /\ s.status[s.service[l].at] # "down"
    BY <1>2, <2>1, <2>3 DEF Service, Placed
  <2>5. s.status[s.service[l].at] \in Status /\ s.status[s.service[l].at] # "none"
    BY <1>2, <2>3, <2>4 DEF State, Nodes
  <2> QED  BY <2>3, <2>4, <2>5 DEF Status
<1>3. CASE open = {}
  <2>1. t = e
    BY <1>3 DEF Provision
  <2>2. \A k \in Kings : t.status[k] # "up"
    BY <1>1, <1>3, <2>1
  <2> QED  BY <1>1, <1>2, <2>1, <2>2 DEF Settled
<1>4. CASE open # {}
  <2>1. PICK home \in [homeless -> open] :
             t = [e EXCEPT !.revision = @ + Cardinality(homeless),
                           !.service = [l \in Lings |->
                    IF l \in homeless THEN [e.service[l] EXCEPT !.at = home[l]]
                                      ELSE e.service[l]]]
    BY <1>4 DEF Provision
  <2>2. t.status = s.status
    BY <1>1, <2>1 DEF State
  <2>3. ASSUME NEW l \in Lings PROVE e.service[l] \in Service
    BY <1>1 DEF State
  <2>4. ASSUME NEW l \in homeless
        PROVE  t.service[l].at \in Kings /\ s.status[t.service[l].at] = "up"
    <3>1. t.service[l] = [e.service[l] EXCEPT !.at = home[l]]
      BY <1>1, <2>1 DEF State
    <3>2. t.service[l].at = home[l]
      BY <2>3, <3>1 DEF Service
    <3>3. home[l] \in open
      BY <2>1
    <3> QED  BY <3>2, <3>3
  <2>5. ASSUME NEW l \in Lings, l \notin homeless PROVE t.service[l] = e.service[l]
    BY <1>1, <2>1, <2>5 DEF State
  <2> HIDE DEF e, open
  <2>6. ASSUME NEW l \in Lings, t.service[l].id # 0
        PROVE  t.service[l].at # None /\ s.status[t.service[l].at] = "up"
    <3>1. CASE l \in homeless
      BY <2>4, <3>1, NodeAssumption
    <3>2. CASE l \notin homeless
      BY <1>2, <2>5, <2>6, <3>2
    <3> QED  BY <3>1, <3>2
  <2> QED  BY <2>2, <2>6 DEF Settled
<1> QED  BY <1>3, <1>4

\* Whatever a report marks, lists or registers, Provision runs after it.
LEMMA HandledSettles ==
    ASSUME table \in State, fresh \in Nat \ {0}, Homes,
           NEW m \in Beat, NEW t \in Handled(m)
    PROVE  Settled(t)
<1> DEFINE OnListed(s) == \A l \in Lings : s.service[l].id # 0 /\ s.service[l].at # None
                             => s.status[s.service[l].at] # "none"
<1>1. ASSUME NEW ids PROVE Marked(m, ids) \in State /\ OnListed(Marked(m, ids))
  <2>1. OnListed(table)
    BY DEF Homes, Settled
  <2> QED  BY <2>1, MarkedTyped
<1>2. ASSUME NEW s \in State, OnListed(s), m.from \in Kings
      PROVE  PutKing(s, m) \in State /\ OnListed(PutKing(s, m))
  <2>1. /\ PutKing(s, m) \in State
        /\ PutKing(s, m).service = s.service
        /\ \A n \in Nodes : \/ PutKing(s, m).status[n] = s.status[n]
                           \/ PutKing(s, m).status[n] \in {"up", "down"}
    BY <1>2, KingPut
  <2>4. \A l \in Lings : s.service[l].at # None => s.service[l].at \in Nodes
    BY DEF State, Service, Nodes
  <2> QED  BY <1>2, <2>1, <2>4
<1>3. ASSUME NEW s \in State, OnListed(s), m.from \in Lings
      PROVE  PutLing(s, m) \in State /\ OnListed(PutLing(s, m))
  <2>1. [NoService EXCEPT !.id = fresh] \in Service
        /\ [NoService EXCEPT !.id = fresh].at = None
    BY DEF NoService, Service
  <2>2. PutLing(s, m) \in State
    BY <1>3, LingPut
  <2>6. \A l \in Lings : \/ PutLing(s, m).service[l] = s.service[l]
                         \/ PutLing(s, m).service[l] = [NoService EXCEPT !.id = fresh]
    BY <1>3, LingPut
  <2>3. \A l \in Lings : \/ PutLing(s, m).service[l] = s.service[l]
                         \/ PutLing(s, m).service[l].at = None
    BY ONLY <2>1, <2>6
  <2>4. \A k \in Kings : PutLing(s, m).status[k] = s.status[k]
    BY <1>3, LingPut
  <2>5. \A l \in Lings : s.service[l].at # None => s.service[l].at \in Kings
    BY DEF State, Service
  <2> QED  BY <1>3, <2>2, <2>3, <2>4, <2>5
<1>4. ASSUME NEW s \in State, OnListed(s), t \in Provision(s) PROVE Settled(t)
  BY <1>4, ProvisionSettles
<1>5. m.from \in Kings \/ m.from \in Lings
  BY DEF Beat, Nodes
<1> HIDE DEF OnListed
<1>6. CASE Known(m) # m.ready
  <2>1. PICK ids : t \in Provision(Marked(m, ids))
    BY <1>6 DEF Handled
  <2> QED  BY <1>1, <1>4, <2>1
<1>7. CASE Known(m) = m.ready
  <2> DEFINE s == Marked(m, m.ready)
  <2>1. t \in Provision(IF m.from \in Kings THEN PutKing(s, m) ELSE PutLing(s, m))
    BY <1>7 DEF Handled
  <2>2. s \in State /\ OnListed(s)
    BY <1>1
  <2> HIDE DEF s
  <2>3. CASE m.from \in Kings
    BY <1>2, <1>4, <2>1, <2>2, <2>3
  <2>4. CASE m.from \notin Kings
    BY <1>3, <1>4, <1>5, <2>1, <2>2, <2>4
  <2> QED  BY <2>3, <2>4
<1> QED  BY <1>6, <1>7

\* Whenever GET /state answers, deprovisionFromShuttingDownKings and
\* ProvisionService have done all they can: no service is at a king that shuts
\* down or is not listed, and none waits while a king serves; also after lost
\* heartbeats, refused reports and a restart of the council.
THEOREM ServicesHaveHomes == Spec => []Homes
<1>1. Init => Homes
  BY DEF Init, Homes, Settled, EmptyState, NoService
<1>2. Inv /\ Homes /\ [Next]_vars => Homes'
  <2> SUFFICES ASSUME Inv, Homes, [Next]_vars PROVE Homes'
    OBVIOUS
  <2>1. ASSUME NEW m \in wire, Handle(m) PROVE Homes'
    <3>1. m \in Beat /\ table \in State /\ fresh \in Nat \ {0} /\ table' \in Handled(m)
      BY <2>1 DEF Handle, Inv, Beats, Rest
    <3>2. Settled(table')
      BY <3>1, HandledSettles
    <3> QED  BY <3>2 DEF Homes, Settled
  <2>2. CASE CouncilRestart
    BY <2>2 DEF CouncilRestart, Homes, Settled, EmptyState, NoService
  <2>3. CASE UNCHANGED table
    BY <2>3 DEF Homes, Settled
  <2> QED
    BY <2>1, <2>2, <2>3 DEF Next, vars, council, Sync, OnStateChanged, KingOnStateChanged,
       LingOnStateChanged, Fetches, Stop, Ends, FinalSync, Drained, CloseAll,
       FinalSyncTimeout, Lose, Break, DrainTimeout
<1> QED  BY <1>1, <1>2, Invariance, PTL DEF Spec

-----------------------------------------------------------------------------
(* Service ids.                                                             *)

Below(s, bound) == \A l \in Lings : s.service[l].id < bound
Agree(s, t) == \A l, o \in Lings :
    s.service[l].id = t.service[o].id /\ t.service[o].id # 0 => l = o

\* Whatever holds an id holds one that was given out.
Issued ==
    /\ Below(table, fresh)
    /\ \A n \in Nodes : view[n] # NoState => Below(view[n], fresh)
    /\ \A l \in Lings, k \in Kings : conn[l][k] < fresh
    /\ \A m \in wire : \A i \in m.ready : i < fresh

\* An id that somebody still holds names the ling it was given out for, or
\* nobody any more.
SameOwner ==
    /\ Agree(table, table)
    /\ \A n \in Nodes : view[n] # NoState => Agree(view[n], table)
    /\ \A l, o \in Lings, k \in Kings :
          conn[l][k] = table.service[o].id /\ table.service[o].id # 0 => l = o

\* Placing a service leaves its id alone.
LEMMA ProvisionIds ==
    ASSUME NEW s \in State, NEW t \in Provision(s)
    PROVE  \A l \in Lings : t.service[l].id = s.service[l].id
<1> DEFINE e == Evicted(s)
           open == {k \in Kings : s.status[k] = "up"}
           homeless == {l \in Lings : e.service[l].id # 0 /\ e.service[l].at = None}
<1>1. e \in State
  BY EvictedTyped
<1>2. \A l \in Lings : e.service[l] \in Service /\ s.service[l] \in Service
  BY <1>1 DEF State
<1>3. ASSUME NEW l \in Lings PROVE e.service[l].id = s.service[l].id
  <2>1. \/ e.service[l] = s.service[l]
        \/ e.service[l] = [s.service[l] EXCEPT !.at = None, !.kingReady = FALSE]
    BY DEF Evicted, State
  <2> QED  BY ONLY <1>2, <2>1 DEF Service
<1>4. CASE t = e
  BY <1>3, <1>4
<1>5. ASSUME NEW home \in [homeless -> open],
             t = [e EXCEPT !.revision = @ + Cardinality(homeless),
                           !.service = [l \in Lings |->
                    IF l \in homeless THEN [e.service[l] EXCEPT !.at = home[l]]
                                      ELSE e.service[l]]],
             NEW l \in Lings
      PROVE  t.service[l].id = s.service[l].id
  <2>1. t.service[l] = e.service[l] \/ t.service[l] = [e.service[l] EXCEPT !.at = home[l]]
    BY <1>1, <1>5 DEF State
  <2>2. t.service[l].id = e.service[l].id
    BY ONLY <1>2, <2>1 DEF Service
  <2> QED  BY ONLY <1>3, <2>2
<1> QED  BY <1>4, <1>5 DEF Provision

\* A heartbeat gives out an id to nobody but its sender, and a new one.
LEMMA HandledIds ==
    ASSUME table \in State, fresh \in Nat \ {0}, NEW m \in Beat, NEW t \in Handled(m)
    PROVE  \A l \in Lings : \/ t.service[l].id = table.service[l].id
                            \/ l = m.from /\ t.service[l].id = fresh
<1> DEFINE same(s) == \A l \in Lings : \/ s.service[l].id = table.service[l].id
                                       \/ l = m.from /\ s.service[l].id = fresh
<1>1. ASSUME NEW ids PROVE Marked(m, ids) \in State /\ same(Marked(m, ids))
  BY MarkedTyped
<1>2. ASSUME NEW s \in State, same(s), m.from \in Kings
      PROVE  PutKing(s, m) \in State /\ same(PutKing(s, m))
  <2>1. PutKing(s, m) \in State /\ PutKing(s, m).service = s.service
    BY <1>2, KingPut
  <2> QED  BY <1>2, <2>1
<1>3. ASSUME NEW s \in State, same(s), m.from \in Lings
      PROVE  PutLing(s, m) \in State /\ same(PutLing(s, m))
  <2>1. [NoService EXCEPT !.id = fresh] \in Service
        /\ [NoService EXCEPT !.id = fresh].id = fresh
    BY DEF NoService, Service
  <2>2. PutLing(s, m) \in State
    BY <1>3, LingPut
  <2>4. \A l \in Lings : \/ PutLing(s, m).service[l] = s.service[l]
                         \/ l = m.from
                            /\ PutLing(s, m).service[l] = [NoService EXCEPT !.id = fresh]
    BY <1>3, LingPut
  <2>5. same(PutLing(s, m))
    BY ONLY <1>3, <2>1, <2>4
  <2> QED  BY <2>2, <2>5
<1>4. ASSUME NEW s \in State, same(s), t \in Provision(s) PROVE same(t)
  BY <1>4, ProvisionIds
<1>5. m.from \in Kings \/ m.from \in Lings
  BY DEF Beat, Nodes
<1> HIDE DEF same
<1>6. CASE Known(m) # m.ready
  <2>1. PICK ids : t \in Provision(Marked(m, ids))
    BY <1>6 DEF Handled
  <2>2. same(t)
    BY <1>1, <1>4, <2>1
  <2> QED  BY <2>2 DEF same
<1>7. CASE Known(m) = m.ready
  <2> DEFINE s == Marked(m, m.ready)
  <2>1. t \in Provision(IF m.from \in Kings THEN PutKing(s, m) ELSE PutLing(s, m))
    BY <1>7 DEF Handled
  <2>2. s \in State /\ same(s)
    BY <1>1
  <2> HIDE DEF s
  <2>3. same(t)
    BY <1>2, <1>3, <1>4, <1>5, <2>1, <2>2
  <2> QED  BY <2>3 DEF same
<1> QED  BY <1>6, <1>7

\* A new id is nobody's: not in the table, in a state delivered, in a
\* connection or in a report under way.
LEMMA HandleIds ==
    ASSUME Inv, Issued, SameOwner, NEW m \in wire, Handle(m)
    PROVE  Issued' /\ SameOwner'
<1>1. m \in Beat /\ table \in State /\ fresh \in Nat \ {0} /\ table' \in Handled(m)
  BY DEF Handle, Inv, Beats, Rest
<1>2. \A l \in Lings : \/ table'.service[l].id = table.service[l].id
                       \/ l = m.from /\ table'.service[l].id = fresh
  BY <1>1, HandledIds
<1>3. UNCHANGED <<view, conn>> /\ wire' \subseteq wire
  BY DEF Handle
<1>4. /\ fresh' \in {fresh, fresh + 1}
      /\ (\E l \in Lings : table'.service[l].id = fresh) => fresh' = fresh + 1
  BY DEF Handle, FindService
<1>5. /\ \A l \in Lings : table.service[l].id \in Nat /\ table.service[l].id < fresh
      /\ \A n \in Nodes, l \in Lings : view[n] # NoState =>
            view[n].service[l].id \in Nat /\ view[n].service[l].id < fresh
      /\ \A l \in Lings, k \in Kings : conn[l][k] \in Nat /\ conn[l][k] < fresh
      /\ \A b \in wire : \A i \in b.ready : i \in Nat /\ i < fresh
  <2>1. \A s \in State, l \in Lings : s.service[l].id \in Nat
    BY DEF State, Service
  <2>2. \A n \in Nodes : view[n] # NoState => view[n] \in State
    BY DEF Inv, Views
  <2>3. \A b \in wire : b.ready \subseteq Nat
    BY DEF Inv, Beats, Beat
  <2>4. \A l \in Lings, k \in Kings : conn[l][k] \in Nat
    BY DEF Inv, Rest
  <2> QED  BY <1>1, <2>1, <2>2, <2>3, <2>4 DEF Issued, Below
<1>6. \A i \in Nat : i < fresh => i < fresh' /\ i # fresh
  BY ONLY <1>1, <1>4
<1>7. Below(table', fresh')
  <2>1. ASSUME NEW l \in Lings PROVE table'.service[l].id < fresh'
    <3>1. CASE table'.service[l].id = table.service[l].id
      BY ONLY <1>5, <1>6, <3>1, l \in Lings
    <3>2. CASE table'.service[l].id = fresh
      BY ONLY <1>1, <1>4, <3>2, l \in Lings
    <3> QED  BY <1>2, <3>1, <3>2
  <2> QED  BY <2>1 DEF Below
<1>8. Issued'
  <2>1. \A n \in Nodes : view[n] # NoState => Below(view[n], fresh')
    BY ONLY <1>5, <1>6 DEF Below
  <2>2. \A l \in Lings, k \in Kings : conn[l][k] < fresh'
    BY ONLY <1>5, <1>6
  <2>3. \A b \in wire : \A i \in b.ready : i < fresh'
    BY ONLY <1>5, <1>6
  <2> QED  BY <1>3, <1>7, <2>1, <2>2, <2>3 DEF Issued, Below
<1>9. Agree(table', table')
  <2>1. Agree(table, table)
    BY DEF SameOwner
  <2> QED  BY ONLY <1>2, <1>5, <1>6, <2>1 DEF Agree
<1>10. \A n \in Nodes : view[n] # NoState => Agree(view[n], table')
  <2>1. \A n \in Nodes : view[n] # NoState => Agree(view[n], table)
    BY DEF SameOwner
  <2> QED  BY ONLY <1>2, <1>5, <1>6, <2>1 DEF Agree
<1>11. \A l, o \in Lings, k \in Kings :
          conn[l][k] = table'.service[o].id /\ table'.service[o].id # 0 => l = o
  <2>1. \A l, o \in Lings, k \in Kings :
          conn[l][k] = table.service[o].id /\ table.service[o].id # 0 => l = o
    BY DEF SameOwner
  <2> QED  BY ONLY <1>2, <1>5, <1>6, <2>1
<1>12. SameOwner'
  BY <1>3, <1>9, <1>10, <1>11 DEF SameOwner, Agree
<1> QED  BY <1>8, <1>12

\* What is delivered is what the table says or less, and a connection is made
\* for the id its ling reads there.
LEMMA DeliveryIds ==
    ASSUME Inv, Issued, SameOwner, NEW n \in Nodes, OnStateChanged(n)
    PROVE  Issued' /\ SameOwner'
<1>1. /\ view' = [view EXCEPT ![n] = Seen(table, n)]
      /\ UNCHANGED <<table, fresh, wire>>
  BY DEF OnStateChanged, KingOnStateChanged, LingOnStateChanged, Fetches
<1>2. \A l \in Lings : \/ Seen(table, n).service[l].id = table.service[l].id
                       \/ Seen(table, n).service[l].id = 0
  BY DEF Seen, NoService
<1>3. \A l \in Lings, k \in Kings : \/ conn'[l][k] = conn[l][k]
                                    \/ conn'[l][k] = table.service[l].id
                                    \/ conn'[l][k] = 0
  <2>1. CASE n \in Kings /\ KingOnStateChanged(n)
    BY <2>1 DEF KingOnStateChanged
  <2>2. CASE n \in Lings /\ LingOnStateChanged(n)
    <3> DEFINE groups == TunnelGroups(table, n)
               i == table.service[n].id
               dialled == {k \in groups : conn[n][k] = NoConn /\ Admits(k, i)}
    <3>1. conn' = [conn EXCEPT ![n] =
                     [k \in Kings |-> IF k \in dialled THEN i ELSE Kept(n, groups)[k]]]
      BY <2>2 DEF LingOnStateChanged
    <3>2. \A k \in Kings : Kept(n, groups)[k] \in {conn[n][k], 0}
      BY DEF Kept, NoConn
    <3>3. conn \in [Lings -> [Kings -> Nat]]
      BY DEF Inv, Rest
    <3>4. i = table.service[n].id
      OBVIOUS
    <3> HIDE DEF groups, i, dialled
    <3> QED  BY ONLY <2>2, <3>1, <3>2, <3>3, <3>4
  <2> QED  BY <2>1, <2>2 DEF OnStateChanged
<1>4. /\ fresh \in Nat /\ 0 < fresh
      /\ view \in [Nodes -> State \cup {NoState}]
  BY DEF Inv, Rest, Views
<1>5. Below(Seen(table, n), fresh) /\ Agree(Seen(table, n), table)
  BY <1>2, <1>4 DEF Issued, Below, SameOwner, Agree
<1>6. \A j \in Nodes : view'[j] # NoState =>
          Below(view'[j], fresh) /\ Agree(view'[j], table)
  BY <1>1, <1>4, <1>5 DEF Issued, SameOwner
<1>7. Issued'
  <2>1. \A l \in Lings, k \in Kings : conn'[l][k] < fresh
    BY <1>3, <1>4 DEF Issued, Below
  <2> QED  BY <1>1, <1>6, <2>1 DEF Issued, Below
<1>8. SameOwner'
  <2>1. \A l, o \in Lings, k \in Kings :
          conn'[l][k] = table.service[o].id /\ table.service[o].id # 0 => l = o
    BY <1>3 DEF SameOwner, Agree
  <2> QED  BY <1>1, <1>6, <2>1 DEF SameOwner, Agree
<1> QED  BY <1>7, <1>8

\* A report names ids its node holds.
LEMMA PayloadIds ==
    ASSUME Inv, Issued, NEW n \in Nodes, NEW last \in BOOLEAN, view[n] # NoState
    PROVE  \A i \in Payload(n, last).ready : i < fresh
<1>1. Payload(n, last).ready = readyServiceIDs(n)
  BY DEF Payload
<1>2. CASE n \in Kings
  <2>1. readyServiceIDs(n) \subseteq {conn[l][n] : l \in Lings}
    BY <1>2 DEF readyServiceIDs, KingReadyServiceIDs
  <2> QED  BY <1>1, <1>2, <2>1 DEF Issued
<1>3. CASE n \notin Kings
  <2>1. n \in Lings /\ readyServiceIDs(n) \subseteq {view[n].service[n].id}
    BY <1>3 DEF Nodes, readyServiceIDs, LingReadyServiceIDs
  <2> QED  BY <1>1, <2>1 DEF Issued, Below
<1> QED  BY <1>2, <1>3

\* The steps that neither give out ids nor pass them on.
LEMMA QuietIds ==
    ASSUME Issued, SameOwner, fresh \in Nat \ {0}, UNCHANGED <<table, fresh, view>>,
           \A l \in Lings, k \in Kings : conn'[l][k] \in {conn[l][k], 0},
           \A m \in wire' : m \in wire \/ \A i \in m.ready : i < fresh
    PROVE  Issued' /\ SameOwner'
<1>1. Issued'
  <2>1. \A l \in Lings, k \in Kings : conn'[l][k] < fresh
    BY DEF Issued
  <2>2. \A m \in wire' : \A i \in m.ready : i < fresh
    BY DEF Issued
  <2> QED  BY <2>1, <2>2 DEF Issued, Below
<1>2. SameOwner'
  <2>1. \A l, o \in Lings, k \in Kings :
          conn'[l][k] = table.service[o].id /\ table.service[o].id # 0 => l = o
    BY DEF SameOwner
  <2> QED  BY <2>1 DEF SameOwner, Agree
<1> QED  BY <1>1, <1>2

\* ServiceID is a uuid.  However late a report comes, whatever state a node acts
\* on and whatever its connection was let in for, also after the council was
\* restarted: an id that is in the table is that of the same ling's service, so
\* nothing is marked ready, dialled or admitted in the name of another.
THEOREM IdsKeepTheirOwner == Spec => [](Issued /\ SameOwner)
<1>1. Init => Issued /\ SameOwner
  <2> SUFFICES ASSUME Init PROVE Issued /\ SameOwner
    OBVIOUS
  <2>1. \A l \in Lings : table.service[l].id = 0
    BY DEF Init, EmptyState, NoService
  <2> QED  BY <2>1 DEF Init, Issued, SameOwner, Below, Agree, NoConn
<1>2. Inv /\ Issued /\ SameOwner /\ [Next]_vars => (Issued /\ SameOwner)'
  <2> SUFFICES ASSUME Inv, Issued, SameOwner, [Next]_vars PROVE Issued' /\ SameOwner'
    OBVIOUS
  <2>0. fresh \in Nat \ {0} /\ conn \in [Lings -> [Kings -> Nat]]
    BY DEF Inv, Rest
  <2>1. ASSUME NEW m \in wire, Handle(m) PROVE Issued' /\ SameOwner'
    BY <2>1, HandleIds
  <2>2. ASSUME NEW n \in Nodes, OnStateChanged(n) PROVE Issued' /\ SameOwner'
    BY <2>2, DeliveryIds
  <2>3. ASSUME NEW n \in Nodes, Sync(n) \/ FinalSync(n) PROVE Issued' /\ SameOwner'
    <3>1. PICK last \in BOOLEAN : wire' = wire \cup {Payload(n, last)}
      BY <2>3 DEF Sync, FinalSync
    <3>2. view[n] # NoState
      BY <2>3, StateAssumption DEF Sync, FinalSync, Inv, Views
    <3>3. UNCHANGED <<table, fresh, view, conn>>
      BY <2>3 DEF Sync, FinalSync, council
    <3>4. \A i \in Payload(n, last).ready : i < fresh
      BY <3>2, PayloadIds
    <3> QED  BY <2>0, <3>1, <3>3, <3>4, QuietIds
  <2>4. ASSUME NEW m \in wire, Lose(m) PROVE Issued' /\ SameOwner'
    <3>1. UNCHANGED <<table, fresh, view, conn>> /\ wire' \subseteq wire
      BY <2>4 DEF Lose, council
    <3> QED  BY <2>0, <3>1, QuietIds
  <2>5. ASSUME NEW n \in Nodes, \/ Stop(n) \/ FinalSyncTimeout(n)
                                \/ n \in Kings /\ Drained(n)
        PROVE  Issued' /\ SameOwner'
    <3>1. UNCHANGED <<table, fresh, view, conn, wire>>
      BY <2>5 DEF Stop, FinalSyncTimeout, Drained, council
    <3> QED  BY <2>0, <3>1, QuietIds
  <2>6. ASSUME NEW l \in Lings, CloseAll(l) PROVE Issued' /\ SameOwner'
    <3>1. /\ UNCHANGED <<table, fresh, view, wire>>
          /\ conn' = [conn EXCEPT ![l] = [k \in Kings |-> 0]]
      BY <2>6 DEF CloseAll, council, NoConn
    <3>2. \A o \in Lings, k \in Kings : conn'[o][k] \in {conn[o][k], 0}
      BY ONLY <2>0, <3>1
    <3> QED  BY <2>0, <3>1, <3>2, QuietIds
  <2>7. ASSUME NEW k \in Kings, DrainTimeout(k) PROVE Issued' /\ SameOwner'
    <3>1. /\ UNCHANGED <<table, fresh, view, wire>>
          /\ conn' = [l \in Lings |-> [conn[l] EXCEPT ![k] = 0]]
      BY <2>7 DEF DrainTimeout, council, NoConn
    <3>2. \A o \in Lings, q \in Kings : conn'[o][q] \in {conn[o][q], 0}
      BY ONLY <2>0, <3>1
    <3> QED  BY <2>0, <3>1, <3>2, QuietIds
  <2>8. ASSUME NEW l \in Lings, NEW k \in Kings, Break(l, k) PROVE Issued' /\ SameOwner'
    <3>1. /\ UNCHANGED <<table, fresh, view, wire>>
          /\ conn' = [conn EXCEPT ![l][k] = 0]
      BY <2>8 DEF Break, council, NoConn
    <3>2. \A o \in Lings, q \in Kings : conn'[o][q] \in {conn[o][q], 0}
      BY ONLY <2>0, <3>1
    <3> QED  BY <2>0, <3>1, <3>2, QuietIds
  <2>9. CASE CouncilRestart
    <3>1. UNCHANGED <<fresh, view, conn>> /\ wire' = {} /\ table' = EmptyState
      BY <2>9 DEF CouncilRestart
    <3>2. \A l \in Lings : table'.service[l].id = 0
      BY <3>1 DEF EmptyState, NoService
    <3>3. Below(table', fresh')
      BY <2>0, <3>1, <3>2 DEF Below
    <3>4. Issued'
      BY <3>1, <3>3 DEF Issued, Below
    <3>5. SameOwner'
      BY <3>2 DEF SameOwner, Agree
    <3> QED  BY <3>4, <3>5
  <2>10. CASE UNCHANGED vars
    <3>1. UNCHANGED <<table, fresh, view, conn, wire>>
      BY <2>10 DEF vars, council
    <3> QED  BY <2>0, <3>1, QuietIds
  <2> QED
    BY <2>1, <2>2, <2>3, <2>4, <2>5, <2>6, <2>7, <2>8, <2>9, <2>10 DEF Next, Ends
<1> QED  BY <1>1, <1>2, Invariance, PTL DEF Spec
=============================================================================
