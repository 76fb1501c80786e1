-------------------------------- MODULE Mesh --------------------------------
(***************************************************************************)
(* Kings and lings around the council: their syncers, which send a         *)
(* heartbeat every second and when a connection was made, the states they  *)
(* are delivered, the connections they make in answer, and the graceful    *)
(* shutdown with its last heartbeat.  A request is handled in one step and *)
(* so is a delivery; Council, Notify and Tunnel look inside those.         *)
(***************************************************************************)
EXTENDS Placement

CONSTANTS
    NoState,                                   \* before the first delivery
    Events,          \* what may happen: "stop", "restart", "lose", "break"
    MaxEvents        \* bound: how many of these, together

ASSUME StateAssumption == NoState \notin State
ASSUME BoundAssumption == MaxEvents \in Nat

VARIABLES
    table,     \* the council's state
    fresh,     \* the next service id
    view,      \* per node, the state it was delivered last
    sync,      \* per node, its syncer
    notify,    \* per node, the syncer's trigger channel holds a token
    unsaid,    \* the nodes that got a connection since their last payload was built
    wire,      \* heartbeats under way
    life,      \* per node, its process
    conn,      \* per ling and king, the service id their connection was let in for
    left       \* stops, restarts and failures that may still happen

council == <<table, fresh>>
syncer == <<sync, notify, unsaid>>
vars == <<council, view, syncer, wire, life, conn, left>>

NoConn == 0

Beat == [from : Nodes, final : BOOLEAN, down : BOOLEAN, ready : SUBSET Nat]

Init ==
    /\ table = EmptyState /\ fresh = 1
    /\ view = [n \in Nodes |-> NoState]
    /\ sync = [n \in Nodes |-> "rest"]
    /\ notify = [n \in Nodes |-> FALSE]
    /\ unsaid = {}
    /\ wire = {}
    /\ life = [n \in Nodes |-> "up"]
    /\ conn = [l \in Lings |-> [k \in Kings |-> NoConn]]
    /\ left = MaxEvents

\* Something that need not happen, and does so at most MaxEvents times.
Happens(event) == event \in Events /\ left > 0 /\ left' = left - 1

-----------------------------------------------------------------------------
(* Syncers.                                                                 *)

readyServiceIDs(n) ==
    IF n \in Kings
    THEN KingReadyServiceIDs(view[n], n, {conn[l][n] : l \in Lings} \ {NoConn})
    ELSE LingReadyServiceIDs(view[n], n)

Payload(n, last) ==
    [from |-> n, final |-> last, down |-> life[n] # "up", ready |-> readyServiceIDs(n)]

SyncBusy(n) ==                                                         \* mutant
    /\ sync[n] # "off" /\ view[n] # NoState
    /\ notify' \in {notify, [notify EXCEPT ![n] = FALSE]}
    /\ sync' = [sync EXCEPT ![n] = "busy"]
    /\ unsaid' = unsaid \ {n}
    /\ wire' = wire \cup {Payload(n, FALSE)}
    /\ UNCHANGED <<council, view, life, conn, left>>
\* One turn of run: by the ticker (and at once when it starts, which is when
\* WaitForState has seen a state), or by a token.
Sync(n) ==
    /\ sync[n] = "rest" /\ view[n] # NoState
    /\ notify' \in {notify, [notify EXCEPT ![n] = FALSE]}
    /\ sync' = [sync EXCEPT ![n] = "busy"]
    /\ unsaid' = unsaid \ {n}
    /\ wire' = wire \cup {Payload(n, FALSE)}
    /\ UNCHANGED <<council, view, life, conn, left>>

\* sendPayload returns: the syncer goes on, or the shutdown does.
Returns(m) ==
    LET n == m.from IN
    IF m.final
    THEN /\ life' = [life EXCEPT ![n] = IF @ = "final" THEN "drain" ELSE @]
         /\ UNCHANGED sync
    ELSE /\ sync' = [sync EXCEPT ![n] = IF @ = "busy" THEN "rest" ELSE @]
         /\ UNCHANGED life

\* The request or its connection fails.
Lose(m) ==
    /\ m \in wire /\ Happens("lose")
    /\ wire' = wire \ {m}
    /\ Returns(m)
    /\ UNCHANGED <<council, view, notify, unsaid, conn>>

-----------------------------------------------------------------------------
(* The council.                                                             *)

\* The services a report names are marked; an id that no service has ends the
\* request with an error, and nothing after it is looked at.
Known(m) == {i \in m.ready : FindService(table, i)}

Flagged(r, m) == IF m.from \in Kings THEN [r EXCEPT !.kingReady = TRUE]
                                    ELSE [r EXCEPT !.lingReady = TRUE]

Marked(m, ids) ==
    LET new == {l \in Lings : /\ table.service[l].id \in ids
                              /\ Flagged(table.service[l], m) # table.service[l]}
    IN  [table EXCEPT !.revision = @ + Cardinality(new),
                      !.service = [l \in Lings |-> IF l \in new THEN Flagged(@[l], m) ELSE @[l]]]

\* A king that is new is listed as serving, whatever it says.
PutKing(s, m) ==
    LET now == IF s.status[m.from] # "none" /\ m.down THEN "down" ELSE "up" IN
    IF now = s.status[m.from] THEN s
    ELSE [s EXCEPT !.revision = @ + 1, !.status[m.from] = now]

\* A ling that is new is listed without a word; what it says next, and its new
\* service, bump the revision.
PutLing(s, m) ==
    LET now == IF m.down THEN "down" ELSE "up"
        flips == s.status[m.from] \notin {"none", now}
        new == s.service[m.from].id = 0
    IN  [s EXCEPT !.revision = @ + (IF flips THEN 1 ELSE 0) + (IF new THEN 1 ELSE 0),
                  !.status[m.from] = now,
                  !.service[m.from] = IF new THEN [NoService EXCEPT !.id = fresh] ELSE @]

Handled(m) ==
    IF Known(m) # m.ready
    THEN UNION {Provision(Marked(m, ids)) : ids \in SUBSET Known(m)}
    ELSE LET s == Marked(m, m.ready) IN
         Provision(IF m.from \in Kings THEN PutKing(s, m) ELSE PutLing(s, m))

Handle(m) ==
    /\ m \in wire
    /\ wire' = wire \ {m}
    /\ table' \in Handled(m)
    /\ fresh' = IF FindService(table', fresh) THEN fresh + 1 ELSE fresh
    /\ Returns(m)
    /\ UNCHANGED <<view, notify, unsaid, conn, left>>

\* The council starts over with an empty table and revision 0; what was on its
\* way to the old process fails.
CouncilRestart ==
    /\ Happens("restart")
    /\ table' = EmptyState
    /\ wire' = {}
    /\ sync' = [n \in Nodes |-> IF sync[n] = "busy" THEN "rest" ELSE sync[n]]
    /\ life' = [n \in Nodes |-> IF life[n] = "final" THEN "drain" ELSE life[n]]
    /\ UNCHANGED <<fresh, view, notify, unsaid, conn>>

-----------------------------------------------------------------------------
(* States and connections.                                                  *)

FetchesNewer(n) ==                                                     \* mutant
    /\ life[n] = "up"
    /\ view[n] # NoState => view[n].revision < table.revision
    /\ view' = [view EXCEPT ![n] = Seen(table, n)]
    /\ UNCHANGED <<table, fresh, sync, wire, life, left>>
\* A state is stored and delivered if its revision is not the one held: after a
\* restart of the council another state may have that revision.
Fetches(n) ==
    /\ life[n] = "up"
    /\ view[n] # NoState => view[n].revision # table.revision
    /\ view' = [view EXCEPT ![n] = Seen(table, n)]
    /\ UNCHANGED <<table, fresh, sync, wire, life, left>>

\* The king's services and listeners follow from its view.
KingOnStateChanged(k) ==
    /\ Fetches(k)
    /\ UNCHANGED <<notify, unsaid, conn>>

Admits(k, i) ==
    life[k] = "up" /\ view[k] # NoState /\ i \in filterServicesForTunnel(view[k], k)

TriggerIdle(nodes) ==                                                  \* mutant
    /\ notify' = [n \in Nodes |-> notify[n] \/ (n \in nodes /\ sync[n] = "rest")]
    /\ unsaid' = unsaid \cup nodes
\* A connection was made: both its sides put a token in their channel, unless
\* there is one.
triggerSync(nodes) ==
    /\ notify' = [n \in Nodes |-> notify[n] \/ n \in nodes]
    /\ unsaid' = unsaid \cup nodes

KeepAll(l, groups) == conn[l]                                          \* mutant
\* Connections to kings that are no longer needed are closed; others are kept
\* as they are, whatever service they were made for.
Kept(l, groups) == [k \in Kings |-> IF k \in groups THEN conn[l][k] ELSE NoConn]

\* A connection that is missing is dialled once, and no error is tried again.
LingOnStateChanged(l) ==
    LET groups == TunnelGroups(table, l)
        i == table.service[l].id
        dialled == {k \in groups : conn[l][k] = NoConn /\ Admits(k, i)}
    IN  /\ Fetches(l)
        /\ conn' = [conn EXCEPT ![l] =
                      [k \in Kings |-> IF k \in dialled THEN i ELSE Kept(l, groups)[k]]]
        /\ triggerSync(IF dialled = {} THEN {} ELSE dialled \cup {l})

\* A connection is lost and both its ends have noticed.
Break(l, k) ==
    /\ conn[l][k] # NoConn /\ Happens("break")
    /\ conn' = [conn EXCEPT ![l][k] = NoConn]
    /\ UNCHANGED <<council, view, syncer, wire, life>>

-----------------------------------------------------------------------------
(* Shutdown.                                                                *)

Becomes(n, next) == life' = [life EXCEPT ![n] = next]

\* The signal: the flag is set, watcher and syncer are cancelled.  A heartbeat
\* that is under way stays so.
Stop(n) ==
    /\ life[n] = "up" /\ Happens("stop") /\ view[n] # NoState
    /\ Becomes(n, "ending")
    /\ sync' = [sync EXCEPT ![n] = "off"]
    /\ UNCHANGED <<council, view, notify, unsaid, wire, conn>>

FinalSync(n) ==
    /\ life[n] = "ending" /\ Becomes(n, "final")
    /\ wire' = wire \cup {Payload(n, TRUE)}
    /\ UNCHANGED <<council, view, syncer, conn, left>>

FinalSyncTimeout(n) ==
    /\ life[n] = "final" /\ Becomes(n, "drain")
    /\ UNCHANGED <<council, view, syncer, wire, conn, left>>

\* waitForDrain has seen the last connection go, and close finds none.
Drained(k) ==
    /\ life[k] = "drain" /\ \A l \in Lings : conn[l][k] = NoConn
    /\ Becomes(k, "gone")
    /\ UNCHANGED <<council, view, syncer, wire, conn, left>>

DrainTimeout(k) ==
    /\ life[k] = "drain" /\ Becomes(k, "gone")
    /\ conn' = [l \in Lings |-> [conn[l] EXCEPT ![k] = NoConn]]
    /\ UNCHANGED <<council, view, syncer, wire, left>>

CloseAll(l) ==
    /\ life[l] = "drain" /\ Becomes(l, "gone")
    /\ conn' = [conn EXCEPT ![l] = [k \in Kings |-> NoConn]]
    /\ UNCHANGED <<council, view, syncer, wire, left>>

-----------------------------------------------------------------------------
Ends(n) == \/ FinalSync(n)
           \/ n \in Kings /\ Drained(n)
           \/ n \in Lings /\ CloseAll(n)

OnStateChanged(n) == \/ n \in Kings /\ KingOnStateChanged(n)
                     \/ n \in Lings /\ LingOnStateChanged(n)

Next ==
    \/ \E n \in Nodes : \/ Sync(n) \/ OnStateChanged(n)
                        \/ Stop(n) \/ Ends(n) \/ FinalSyncTimeout(n)
    \/ \E m \in wire : Lose(m) \/ Handle(m)
    \/ CouncilRestart
    \/ \E l \in Lings, k \in Kings : Break(l, k)
    \/ \E k \in Kings : DrainTimeout(k)

Spec == Init /\ [][Next]_vars

\* Each goroutine goes on in the end: a syncer ticks and its request is handled,
\* a watcher fetches while the node runs and the shutdown follows.  Nothing rests
\* on the two timeouts of a shutdown.
Fairness == \A n \in Nodes :
    /\ WF_vars(Sync(n) \/ \E m \in wire : m.from = n /\ Handle(m))
    /\ WF_vars(OnStateChanged(n) \/ Ends(n))

FairSpec == Spec /\ Fairness

-----------------------------------------------------------------------------
(* Properties.                                                              *)

\* The types; and a syncer has one request under way, next to a final one.
TypeOK ==
    /\ table \in State /\ fresh \in Nat \ {0}
    /\ view \in [Nodes -> State \cup {NoState}]
    /\ sync \in [Nodes -> {"rest", "busy", "off"}]
    /\ notify \in [Nodes -> BOOLEAN] /\ unsaid \subseteq Nodes
    /\ wire \subseteq Beat
    /\ \A m1, m2 \in wire : m1.from = m2.from /\ m1.final = m2.final => m1 = m2
    /\ life \in [Nodes -> {"up", "ending", "final", "drain", "gone"}]
    /\ conn \in [Lings -> [Kings -> Nat]]
    /\ left \in 0..MaxEvents

\* One slot is enough: a syncer that waits for its next turn has reported
\* every connection its node has made, or has a token waiting.
NoLostTrigger ==
    \A n \in Nodes : sync[n] = "rest" /\ n \in unsaid => notify[n]

\* The ling has the connection to the king its service is placed at, and
\* nobody is shutting down.
Attached(l, k) ==
    /\ life[l] = "up" /\ life[k] = "up" /\ conn[l][k] # NoConn
    /\ k \in TunnelGroups(table, l)

\* A node is delivered nothing although its state is not the council's: a new
\* council has come to the revision at which the old one was left.
Mistaken(n) ==
    /\ view[n] # NoState /\ view[n].revision = table.revision
    /\ view[n] # Seen(table, n)

Offered(l) ==
    \A p \in Lings : life[p] = "up" /\ ~Mistaken(p) =>
        view[p] # NoState /\ l \in EligibleForProxy(view[p])

\* A service whose connection the king let in under its id, and which stays
\* there, becomes a target of every proxy that does not take another state for
\* the one it holds, through lost heartbeats and restarts of the council.
ConnectedBecomesTarget ==
    <>[](\A l \in Lings, k \in Kings :
           Attached(l, k) /\ conn[l][k] = table.service[l].id => Offered(l))

\* A king that drains and is not listed as serving exits without waiting for
\* the drain's deadline: the lings leave it, but for one that takes another state
\* for the one it holds.
DrainEnds ==
    <>[](\A k \in Kings : life[k] = "drain" =>
            \/ table.status[k] = "up"
            \/ \E l \in Lings : Mistaken(l) /\ conn[l][k] # NoConn)

\* A node that runs is listed in the end, and stays listed: its reports can keep
\* being refused only when it takes another state for the one it holds.
Listed ==
    <>[](\A n \in Nodes : life[n] = "up" /\ ~Mistaken(n) => table.status[n] = "up")

\* The integration test waits for traffic, restarts the council and waits for
\* traffic to flow again: each service is connected and a target in the end.
TrafficReturns ==
    <>[](\A l \in Lings :
           /\ \E k \in Kings : Attached(l, k) /\ conn[l][k] = table.service[l].id
           /\ Offered(l))
=============================================================================
