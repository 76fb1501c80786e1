----------------------------- MODULE TunnelWire -----------------------------
(***************************************************************************)
(* What a king's tunnel server and a ling's tunnel client share: the       *)
(* council's assignment of the ling's services to remote ports of this     *)
(* king, as their watchers see it, and the QUIC connections between them.  *)
(*                                                                         *)
(* One bind port of one king and one ling: servers of other bind ports and *)
(* connections to other kings share nothing with these.  Provisioning      *)
(* gives a service one port and a port one service (Council).              *)
(***************************************************************************)
EXTENDS Integers, FiniteSets

CONSTANTS
    Service,        \* the ling's services; each has its own token
    Port,           \* the remote ports of the king's tunnel
    Free,           \* no service
    Conn,           \* QUIC connections; reused when nobody refers to one
    NoConn,
    Goroutine,      \* which of a watcher's goroutines deliver states
    MaxChanges, MaxBreaks, MaxRefusals, MaxExits        \* bounds

ASSUME WireAssumption == Free \notin Service /\ NoConn \notin Conn
ASSUME WireBounds ==
    MaxChanges \in Nat /\ MaxBreaks \in Nat /\ MaxRefusals \in Nat /\ MaxExits \in Nat

VARIABLES   \* of both sides
    placed,     \* the assignment, as GET /state shows it
    revision,   \* its revision
    listening,  \* the king's QUIC listener accepts handshakes
    fresh,      \* connections nobody at the king has accepted yet
    up,         \* the ends that have not seen a connection close
    asked,      \* the services in its control message
    answered,   \* the king has answered OK
    left        \* the failures and exits that may still happen

VARIABLES   \* of the king's process
    services,       \* ids with a token: TunnelServer.services
    tcpListeners,   \* per port: the service its accept loop serves, or Free
    quicConns,      \* per service: its registered connection, or NoConn
    drainNotify,    \* the channel's one slot is filled
    handler,        \* handleConnection per connection
    kingHeld,       \* the revision the watcher's last delivery carried
    kingWork,       \* OnStateChanged, per goroutine
    phase           \* of the process: "up", then its shutdown, then "exited"

VARIABLES   \* of the ling's process
    connections,    \* the connection to the king, or NoConn
    accepting,      \* connections with an acceptDataStreams goroutine
    lingHeld,       \* the revision the watcher's last delivery carried
    lingWork,       \* updateTunnelConnections, per goroutine
    life            \* of the process: "up", then its shutdown, then "gone"

council == <<placed, revision>>
wire == <<listening, fresh, up, asked, answered>>
server == <<services, tcpListeners, quicConns, drainNotify, handler,
            kingHeld, kingWork, phase>>
client == <<connections, accepting, lingHeld, lingWork, life>>

End == {"king", "ling"}
Assignment == {a \in [Port -> Service \cup {Free}] :
                 \A p, q \in Port : a[p] = a[q] /\ a[p] # Free => p = q}
Nothing == [p \in Port |-> Free]
ServicesOf(a) == {a[p] : p \in Port} \ {Free}

WireInit ==
    /\ placed = Nothing /\ revision = 0
    /\ listening = TRUE /\ fresh = {}
    /\ up = [c \in Conn |-> {}]
    /\ asked = [c \in Conn |-> {}]
    /\ answered = [c \in Conn |-> FALSE]
    /\ left = [breaks |-> MaxBreaks, refusals |-> MaxRefusals, exits |-> MaxExits]

WireTypeOK ==
    /\ placed \in Assignment /\ revision \in 0..MaxChanges
    /\ listening \in BOOLEAN /\ fresh \subseteq Conn
    /\ up \in [Conn -> SUBSET End]
    /\ asked \in [Conn -> SUBSET Service]
    /\ answered \in [Conn -> BOOLEAN]
    /\ left \in [breaks : Nat, refusals : Nat, exits : Nat]

\* CloseWithError, or an idle timeout, at one end of a connection.
Closed(c, end) == [up EXCEPT ![c] = @ \ {end}]

-----------------------------------------------------------------------------
\* The council provisions a service or takes one away.
Change(p, s) ==
    /\ revision < MaxChanges /\ (placed[p] = Free) # (s = Free)
    /\ s # Free => s \notin ServicesOf(placed)
    /\ placed' = [placed EXCEPT ![p] = s]
    /\ revision' = revision + 1
    /\ UNCHANGED <<wire, left, server, client>>

\* Something else in the state changes: other services, kings or lings.
ChangeElsewhere ==
    /\ revision < MaxChanges
    /\ revision' = revision + 1
    /\ UNCHANGED <<placed, wire, left, server, client>>

\* One end loses the other: an idle timeout on a bad network.
Break(c, end) ==
    /\ end \in up[c] /\ left.breaks > 0
    /\ up' = Closed(c, end)
    /\ left' = [left EXCEPT !.breaks = @ - 1]
    /\ UNCHANGED <<council, listening, fresh, asked, answered, server, client>>

\* An end whose peer is gone notices, at the latest by its idle timeout.
Notice(c, end) ==
    /\ up[c] = {end}
    /\ up' = Closed(c, end)
    /\ UNCHANGED <<council, listening, fresh, asked, answered, left, server, client>>
=============================================================================
