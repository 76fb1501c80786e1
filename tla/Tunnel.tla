------------------------------- MODULE Tunnel -------------------------------
(***************************************************************************)
(* A king's tunnel server and a ling's tunnel client together: both apply  *)
(* the council's assignment as they learn of it, in any order, connect,    *)
(* lose their connections and shut down.                                   *)
(***************************************************************************)
EXTENDS TunnelServer, TunnelClient

vars == <<council, wire, left, server, client>>

Init == WireInit /\ ServerInit /\ ClientInit

\* A connection of which nobody has a reference left.
Unused == {c \in Conn :
    /\ up[c] = {} /\ c \notin fresh /\ handler[c] = "none"
    /\ c \notin accepting /\ c # connections
    /\ \A g \in Goroutine : lingWork[g].conn # c}

KingStep == KingCrash \/ KingStop \/ Drains \/ DrainTimeout \/ Close \/ KingExit
LingStep == LingCrash \/ LingStop \/ CloseAll \/ LingExit
WireStep == \/ ChangeElsewhere
            \/ \E p \in Port, s \in Service \cup {Free} : Change(p, s)
            \/ \E c \in Conn, end \in End : Break(c, end) \/ Notice(c, end)

Next ==
    \/ WireStep
    \/ \E g \in Goroutine : KingApplies(g)
    \/ \E c \in Conn : Handles(c)
    \/ KingStep
    \/ \E g \in Goroutine : LingApplies(g, Unused)
    \/ \E c \in Conn : AcceptEnds(c)
    \/ LingStep

Spec == Init /\ [][Next]_vars

\* Goroutines are scheduled, a lost peer is noticed, deadlines pass; changes,
\* broken connections, shutdowns and crashes need not happen.
Fairness ==
    /\ \A g \in Goroutine : WF_vars(KingApplies(g))
    /\ \A g \in Goroutine : WF_vars(LingApplies(g, Unused))
    /\ \A c \in Conn : WF_vars(Handles(c))
    /\ \A c \in Conn : WF_vars(AcceptEnds(c))
    /\ \A c \in Conn, end \in End : WF_vars(Notice(c, end))
    /\ WF_vars(Drains \/ DrainTimeout \/ Close \/ KingExit)
    /\ WF_vars(CloseAll \/ LingExit)

FairSpec == Spec /\ Fairness

-----------------------------------------------------------------------------
(* Properties.                                                              *)

TypeOK == WireTypeOK /\ ServerTypeOK /\ ClientTypeOK

\* Every registered connection has a handler that will remove it: the king
\* never reports a service ready, nor waits in its drain, for one that is
\* gone for good.
NoGhostConnections ==
    \A s \in Service : LET c == quicConns[s] IN
        c # NoConn => handler[c] = "serving" /\ s \in asked[c]

\* An open connection loses a service only to another connection: the handler
\* of an old one does not unregister the one that replaced it.
NeverDropsLive ==
    [][\A s \in Service : quicConns[s] # NoConn /\ quicConns'[s] = NoConn
            => "king" \notin up'[quicConns[s]]]_vars

\* waitForDrain does not sleep through the last disconnection.
NoLostDrain ==
    phase = "blocked" /\ Drained => drainNotify \/ \E c \in Conn : handler[c] = "leaving"

\* The connection a ling holds has a goroutine that accepts its streams and
\* forgets it when it ends, so a dead one does not pass for a connection.
ConnectionWatched ==
    life = "up" /\ connections # NoConn => connections \in accepting

\* A goroutine of the ling's watcher is not stuck waiting for the king's
\* answer, whatever becomes of the king.
HandshakeEnds ==
    \A g \in Goroutine : lingWork[g].at = "auth" ~> lingWork[g].at # "auth"

\* With one delivery at a time, the king ends up knowing exactly the services
\* it was assigned and listening on exactly their ports.
Settles ==
    <>[](phase = "up" => /\ services = ServicesOf(placed)
                         /\ \A p \in Port : tcpListeners[p] = Free <=> placed[p] = Free)
=============================================================================
