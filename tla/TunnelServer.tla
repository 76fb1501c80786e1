---------------------------- MODULE TunnelServer ----------------------------
(***************************************************************************)
(* The king's side of a tunnel: applying a state to the server             *)
(* (OnStateChanged, from either goroutine of the watcher), the handler of  *)
(* each QUIC connection, and the shutdown with its drain.                  *)
(***************************************************************************)
EXTENDS TunnelWire

Idle == [at |-> "idle", want |-> Nothing, todo |-> {}]

ServerInit ==
    /\ services = {} /\ tcpListeners = Nothing
    /\ quicConns = [s \in Service |-> NoConn]
    /\ drainNotify = FALSE
    /\ handler = [c \in Conn |-> "none"]
    /\ kingHeld = 0
    /\ kingWork = [g \in Goroutine |-> Idle]
    /\ phase = "up"

ServerTypeOK ==
    /\ services \subseteq Service
    /\ tcpListeners \in [Port -> Service \cup {Free}]
    /\ quicConns \in [Service -> Conn \cup {NoConn}]
    /\ drainNotify \in BOOLEAN
    /\ handler \in [Conn -> {"none", "negotiating", "welcomed", "serving", "leaving"}]
    /\ kingHeld \in 0..MaxChanges
    /\ kingWork \in [Goroutine -> [at : {"idle", "services", "ensure", "remove"},
                                   want : Assignment, todo : SUBSET Port]]
    /\ phase \in {"up", "draining", "blocked", "drained", "closed", "exited"}

-----------------------------------------------------------------------------
(* OnStateChanged.                                                          *)

\* doFetchState stored a new revision and calls onChange; no loop starts
\* another fetch once the watcher is cancelled.
KingHears(g) ==
    /\ phase = "up" /\ kingWork[g].at = "idle" /\ kingHeld # revision
    /\ kingHeld' = revision
    /\ kingWork' = [kingWork EXCEPT ![g] = [Idle EXCEPT !.at = "services", !.want = placed]]
    /\ UNCHANGED <<services, tcpListeners, quicConns, drainNotify, handler, phase,
                   council, wire, left, client>>

UpdateServices(g) ==
    LET want == kingWork[g].want IN
    /\ kingWork[g].at = "services"
    /\ services' = ServicesOf(want)
    /\ kingWork' = [kingWork EXCEPT ![g].at = "ensure",
                                    ![g].todo = {p \in Port : want[p] # Free}]
    /\ UNCHANGED <<tcpListeners, quicConns, drainNotify, handler, kingHeld, phase,
                   council, wire, left, client>>

\* A port that has a listener keeps it, whichever service that one is for.
EnsureTCPListener(g, p) ==
    /\ kingWork[g].at = "ensure" /\ p \in kingWork[g].todo
    /\ tcpListeners' = [tcpListeners EXCEPT ![p] =
                          IF @ = Free THEN kingWork[g].want[p] ELSE @]
    /\ kingWork' = [kingWork EXCEPT ![g].todo = @ \ {p}]
    /\ UNCHANGED <<services, quicConns, drainNotify, handler, kingHeld, phase,
                   council, wire, left, client>>

\* The port is in use by somebody else; this delivery does not try again.
ListenFails(g, p) ==
    /\ kingWork[g].at = "ensure" /\ p \in kingWork[g].todo
    /\ tcpListeners[p] = Free /\ left.refusals > 0
    /\ kingWork' = [kingWork EXCEPT ![g].todo = @ \ {p}]
    /\ left' = [left EXCEPT !.refusals = @ - 1]
    /\ UNCHANGED <<services, tcpListeners, quicConns, drainNotify, handler, kingHeld,
                   phase, council, wire, client>>

FindNeeded(g) ==                                                       \* mutant
    LET want == kingWork[g].want IN
    /\ kingWork[g].at = "ensure" /\ kingWork[g].todo = {}
    /\ kingWork' = [kingWork EXCEPT ![g].at = "remove",
             ![g].todo = {p \in Port : tcpListeners[p] # Free /\ want[p] # Free}]
    /\ UNCHANGED <<services, tcpListeners, quicConns, drainNotify, handler, kingHeld,
                   phase, council, wire, left, client>>
\* removeStaleListeners: the list is made first, under the read lock.
FindStale(g) ==
    LET want == kingWork[g].want IN
    /\ kingWork[g].at = "ensure" /\ kingWork[g].todo = {}
    /\ kingWork' = [kingWork EXCEPT ![g].at = "remove",
             ![g].todo = {p \in Port : tcpListeners[p] # Free /\ want[p] = Free}]
    /\ UNCHANGED <<services, tcpListeners, quicConns, drainNotify, handler, kingHeld,
                   phase, council, wire, left, client>>

RemoveTCPListener(g, p) ==
    /\ kingWork[g].at = "remove" /\ p \in kingWork[g].todo
    /\ tcpListeners' = [tcpListeners EXCEPT ![p] = Free]
    /\ kingWork' = [kingWork EXCEPT ![g].todo = @ \ {p}]
    /\ UNCHANGED <<services, quicConns, drainNotify, handler, kingHeld, phase,
                   council, wire, left, client>>

KingApplied(g) ==
    /\ kingWork[g].at = "remove" /\ kingWork[g].todo = {}
    /\ kingWork' = [kingWork EXCEPT ![g] = Idle]
    /\ UNCHANGED <<services, tcpListeners, quicConns, drainNotify, handler, kingHeld,
                   phase, council, wire, left, client>>

-----------------------------------------------------------------------------
(* handleConnection, one goroutine per connection.                          *)

Accept(c) ==
    /\ phase = "up" /\ c \in fresh
    /\ fresh' = fresh \ {c}
    /\ handler' = [handler EXCEPT ![c] = "negotiating"]
    /\ UNCHANGED <<services, tcpListeners, quicConns, drainNotify, kingHeld, kingWork,
                   phase, council, listening, up, asked, answered, left, client>>

\* authenticateMessages: all services of the message are known, or none is
\* accepted.  The answer is out before the connection is registered.
Welcome(c) ==
    /\ handler[c] = "negotiating" /\ "king" \in up[c] /\ asked[c] \subseteq services
    /\ answered' = [answered EXCEPT ![c] = TRUE]
    /\ handler' = [handler EXCEPT ![c] = "welcomed"]
    /\ UNCHANGED <<services, tcpListeners, quicConns, drainNotify, kingHeld, kingWork,
                   phase, council, listening, fresh, up, asked, left, client>>

RejectSilently(c) ==                                                   \* mutant
    /\ handler[c] = "negotiating" /\ "king" \in up[c] /\ ~(asked[c] \subseteq services)
    /\ handler' = [handler EXCEPT ![c] = "none"]
    /\ UNCHANGED <<services, tcpListeners, quicConns, drainNotify, kingHeld, kingWork,
                   phase, council, wire, left, client>>
Reject(c) ==
    /\ handler[c] = "negotiating" /\ "king" \in up[c] /\ ~(asked[c] \subseteq services)
    /\ up' = Closed(c, "king")
    /\ handler' = [handler EXCEPT ![c] = "none"]
    /\ UNCHANGED <<services, tcpListeners, quicConns, drainNotify, kingHeld, kingWork,
                   phase, council, listening, fresh, asked, answered, left, client>>

\* The connection is gone; or the context is cancelled, and then it is left
\* open without an answer.
Abandon(c) ==
    /\ handler[c] = "negotiating" /\ ("king" \notin up[c] \/ phase # "up")
    /\ handler' = [handler EXCEPT ![c] = "none"]
    /\ UNCHANGED <<services, tcpListeners, quicConns, drainNotify, kingHeld, kingWork,
                   phase, council, wire, left, client>>

\* The newest registration of a service wins.
Register(c) ==
    /\ handler[c] = "welcomed"
    /\ quicConns' = [s \in Service |-> IF s \in asked[c] THEN c ELSE quicConns[s]]
    /\ handler' = [handler EXCEPT ![c] = "serving"]
    /\ UNCHANGED <<services, tcpListeners, drainNotify, kingHeld, kingWork, phase,
                   council, wire, left, client>>

UnregisterAny(c) ==                                                    \* mutant
    LET rest == [s \in Service |-> IF s \in asked[c] THEN NoConn ELSE quicConns[s]] IN
    /\ handler[c] = "serving" /\ "king" \notin up[c]
    /\ quicConns' = rest
    /\ handler' = [handler EXCEPT ![c] =
                     IF \A s \in Service : rest[s] = NoConn THEN "leaving" ELSE "none"]
    /\ UNCHANGED <<services, tcpListeners, drainNotify, kingHeld, kingWork, phase,
                   council, wire, left, client>>
UnregisterFirst(c) ==                                                  \* mutant
    LET one == CHOOSE s \in asked[c] : TRUE
        rest == [s \in Service |-> IF s = one /\ quicConns[s] = c THEN NoConn ELSE quicConns[s]] IN
    /\ handler[c] = "serving" /\ "king" \notin up[c]
    /\ quicConns' = rest
    /\ handler' = [handler EXCEPT ![c] =
                     IF \A s \in Service : rest[s] = NoConn THEN "leaving" ELSE "none"]
    /\ UNCHANGED <<services, tcpListeners, drainNotify, kingHeld, kingWork, phase,
                   council, wire, left, client>>
UnregisterQuietly(c) ==                                                \* mutant
    /\ handler[c] = "serving" /\ "king" \notin up[c]
    /\ quicConns' = [s \in Service |->
                       IF s \in asked[c] /\ quicConns[s] = c THEN NoConn ELSE quicConns[s]]
    /\ handler' = [handler EXCEPT ![c] = "none"]
    /\ UNCHANGED <<services, tcpListeners, drainNotify, kingHeld, kingWork, phase,
                   council, wire, left, client>>
\* The connection ended: only its own entries are removed.
Unregister(c) ==
    LET rest == [s \in Service |->
                   IF s \in asked[c] /\ quicConns[s] = c THEN NoConn ELSE quicConns[s]] IN
    /\ handler[c] = "serving" /\ "king" \notin up[c]
    /\ quicConns' = rest
    /\ handler' = [handler EXCEPT ![c] =
                     IF \A s \in Service : rest[s] = NoConn THEN "leaving" ELSE "none"]
    /\ UNCHANGED <<services, tcpListeners, drainNotify, kingHeld, kingWork, phase,
                   council, wire, left, client>>

\* The last one out fills drainNotify, after the mutex is released.
Signal(c) ==
    /\ handler[c] = "leaving"
    /\ drainNotify' = TRUE
    /\ handler' = [handler EXCEPT ![c] = "none"]
    /\ UNCHANGED <<services, tcpListeners, quicConns, kingHeld, kingWork, phase,
                   council, wire, left, client>>

-----------------------------------------------------------------------------
(* The king's process: shutdown and crash.                                  *)

Drained == \A s \in Service : quicConns[s] = NoConn

\* The root context is cancelled and the final sync done: no handshakes any
\* more, but connections that exist stay.
KingStop ==
    /\ phase = "up" /\ left.exits > 0
    /\ phase' = "draining" /\ listening' = FALSE
    /\ left' = [left EXCEPT !.exits = @ - 1]
    /\ UNCHANGED <<services, tcpListeners, quicConns, drainNotify, handler, kingHeld,
                   kingWork, council, fresh, up, asked, answered, client>>

\* waitForDrain: look, then wait for a signal or the deadline, and look again.
DrainLook ==
    /\ phase = "draining"
    /\ phase' = IF Drained THEN "drained" ELSE "blocked"
    /\ UNCHANGED <<services, tcpListeners, quicConns, drainNotify, handler, kingHeld,
                   kingWork, council, wire, left, client>>

DrainWake ==
    /\ phase = "blocked" /\ drainNotify
    /\ phase' = "draining" /\ drainNotify' = FALSE
    /\ UNCHANGED <<services, tcpListeners, quicConns, handler, kingHeld, kingWork,
                   council, wire, left, client>>

DrainTimeout ==
    /\ phase = "blocked"
    /\ phase' = "drained"
    /\ UNCHANGED <<services, tcpListeners, quicConns, drainNotify, handler, kingHeld,
                   kingWork, council, wire, left, client>>

Close ==
    /\ phase = "drained"
    /\ phase' = "closed"
    /\ tcpListeners' = Nothing
    /\ up' = [c \in Conn |-> IF \E s \in Service : quicConns[s] = c
                             THEN up[c] \ {"king"} ELSE up[c]]
    /\ quicConns' = [s \in Service |-> NoConn]
    /\ UNCHANGED <<services, drainNotify, handler, kingHeld, kingWork, council,
                   listening, fresh, asked, answered, left, client>>

KingGone ==
    /\ phase' = "exited" /\ listening' = FALSE /\ fresh' = {}
    /\ services' = {} /\ tcpListeners' = Nothing
    /\ quicConns' = [s \in Service |-> NoConn]
    /\ drainNotify' = FALSE
    /\ handler' = [c \in Conn |-> "none"]
    /\ kingWork' = [g \in Goroutine |-> Idle]
    /\ up' = [c \in Conn |-> up[c] \ {"king"}]
    /\ UNCHANGED <<kingHeld, council, asked, answered, client>>

KingExit == phase = "closed" /\ KingGone /\ UNCHANGED left

KingCrash == /\ phase # "exited" /\ left.exits > 0 /\ KingGone
             /\ left' = [left EXCEPT !.exits = @ - 1]

-----------------------------------------------------------------------------

KingApplies(g) ==
    \/ KingHears(g) \/ UpdateServices(g) \/ FindStale(g) \/ KingApplied(g)
    \/ \E p \in Port : EnsureTCPListener(g, p) \/ ListenFails(g, p) \/ RemoveTCPListener(g, p)
Handles(c) ==
    Accept(c) \/ Welcome(c) \/ Reject(c) \/ Abandon(c) \/ Register(c) \/ Unregister(c) \/ Signal(c)
Drains == DrainLook \/ DrainWake
=============================================================================
