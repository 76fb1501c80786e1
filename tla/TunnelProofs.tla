---------------------------- MODULE TunnelProofs ----------------------------
(***************************************************************************)
(* A tunnel for every number of services, ports, connections and watcher   *)
(* goroutines: the king's registrations all have a handler, its drain does *)
(* not sleep through the last one, and the ling watches what it holds.     *)
(***************************************************************************)
EXTENDS Tunnel, TLAPS

\* A goroutine that waits for the king's answer has dialled.
Dialled == \A g \in Goroutine : lingWork[g].at = "auth" => lingWork[g].conn \in Conn

Typed == WireTypeOK /\ ServerTypeOK /\ ClientTypeOK /\ Dialled

\* A connection gets its one handler when it is accepted, not before.
OneHandler == \A c \in fresh : handler[c] = "none"

Registry == OneHandler /\ NoGhostConnections /\ NoLostDrain

Inv == Typed /\ Registry /\ ConnectionWatched

LEMMA InitInv == Init => Inv
<1> SUFFICES ASSUME Init PROVE Inv
  OBVIOUS
<1> USE WireAssumption, WireBounds DEF Init
<1>1. Nothing \in Assignment
  BY DEF Nothing, Assignment
<1>2. WireTypeOK
  BY <1>1 DEF WireInit, WireTypeOK
<1>3. ServerTypeOK
  <2>1. kingWork \in [Goroutine -> [at : {"idle", "services", "ensure", "remove"},
                                    want : Assignment, todo : SUBSET Port]]
    BY <1>1 DEF ServerInit, Idle
  <2>2. tcpListeners \in [Port -> Service \cup {Free}]
    BY DEF ServerInit, Nothing
  <2>3. quicConns \in [Service -> Conn \cup {NoConn}] /\ kingHeld \in 0..MaxChanges
    BY DEF ServerInit
  <2>4. handler \in [Conn -> {"none", "negotiating", "welcomed", "serving", "leaving"}]
    BY DEF ServerInit
  <2> QED  BY <2>1, <2>2, <2>3, <2>4 DEF ServerInit, ServerTypeOK
<1>4. ClientTypeOK /\ Dialled
  BY DEF ClientInit, ClientTypeOK, Rest, Dialled
<1>5. OneHandler /\ NoLostDrain /\ ConnectionWatched
  BY DEF WireInit, ServerInit, ClientInit, OneHandler, NoLostDrain, ConnectionWatched
<1>6. NoGhostConnections
  BY DEF ServerInit, NoGhostConnections
<1> QED  BY <1>2, <1>3, <1>4, <1>5, <1>6 DEF Inv, Typed, Registry

-----------------------------------------------------------------------------
(* Types.                                                                   *)

\* The council keeps a service on one port at a time, and its services are
\* the ling's.
LEMMA WireStepTyped ==
    ASSUME Typed, WireStep
    PROVE  Typed'
<1> USE DEF Typed, server, client
<1>1. ASSUME NEW p \in Port, NEW s \in Service \cup {Free}, Change(p, s) PROVE Typed'
  <2>1. placed' \in Assignment
    BY <1>1 DEF Change, WireTypeOK, Assignment, ServicesOf
  <2>2. revision' \in 0..MaxChanges
    BY <1>1, WireBounds DEF Change, WireTypeOK
  <2>3. WireTypeOK'
    BY <1>1, <2>1, <2>2 DEF Change, WireTypeOK, wire
  <2>4. ServerTypeOK' /\ ClientTypeOK' /\ Dialled'
    BY <1>1 DEF Change, ServerTypeOK, ClientTypeOK, Dialled
  <2> QED  BY <2>3, <2>4
<1>2. CASE ChangeElsewhere
  <2>1. WireTypeOK'
    BY <1>2, WireBounds DEF ChangeElsewhere, WireTypeOK, wire
  <2>2. ServerTypeOK' /\ ClientTypeOK' /\ Dialled'
    BY <1>2 DEF ChangeElsewhere, ServerTypeOK, ClientTypeOK, Dialled
  <2> QED  BY <2>1, <2>2
<1>3. ASSUME NEW c \in Conn, NEW end \in End, Break(c, end) \/ Notice(c, end) PROVE Typed'
  <2>1. WireTypeOK'
    BY <1>3 DEF Break, Notice, WireTypeOK, Closed, council
  <2>2. ServerTypeOK' /\ ClientTypeOK' /\ Dialled'
    BY <1>3 DEF Break, Notice, ServerTypeOK, ClientTypeOK, Dialled
  <2> QED  BY <2>1, <2>2
<1> QED  BY <1>1, <1>2, <1>3 DEF WireStep

LEMMA KingAppliesTyped ==
    ASSUME Typed, NEW g \in Goroutine, KingApplies(g)
    PROVE  Typed'
<1> DEFINE Work == [at : {"idle", "services", "ensure", "remove"},
                    want : Assignment, todo : SUBSET Port]
<1> USE DEF Typed
<1>1. ClientTypeOK' /\ Dialled'
  BY DEF KingApplies, KingHears, UpdateServices, FindStale, KingApplied, EnsureTCPListener,
         ListenFails, RemoveTCPListener, ClientTypeOK, Dialled, client
<1>2. WireTypeOK'
  <2>1. UNCHANGED <<council, wire>>
    BY DEF KingApplies, KingHears, UpdateServices, FindStale, KingApplied,
           EnsureTCPListener, ListenFails, RemoveTCPListener
  <2>2. left' = left \/ (left.refusals > 0 /\ left' = [left EXCEPT !.refusals = @ - 1])
    <3>1. ASSUME KingHears(g) \/ UpdateServices(g) \/ FindStale(g) \/ KingApplied(g)
          PROVE  left' = left
      BY ONLY <3>1 DEF KingHears, UpdateServices, FindStale, KingApplied
    <3>2. ASSUME NEW p \in Port, EnsureTCPListener(g, p) \/ RemoveTCPListener(g, p)
          PROVE  left' = left
      BY ONLY <3>2 DEF EnsureTCPListener, RemoveTCPListener
    <3>3. ASSUME NEW p \in Port, ListenFails(g, p)
          PROVE  left.refusals > 0 /\ left' = [left EXCEPT !.refusals = @ - 1]
      BY ONLY <3>3 DEF ListenFails
    <3> QED  BY <3>1, <3>2, <3>3 DEF KingApplies
  <2>3. left \in [breaks : Nat, refusals : Nat, exits : Nat]
    BY DEF WireTypeOK
  <2>4. left.refusals > 0 => left.refusals - 1 \in Nat
    BY ONLY <2>3
  <2>5. left' \in [breaks : Nat, refusals : Nat, exits : Nat]
    BY ONLY <2>2, <2>3, <2>4
  <2> QED  BY <2>1, <2>5 DEF WireTypeOK, council, wire
<1>3. kingWork' \in [Goroutine -> Work]
  <2>1. kingWork \in [Goroutine -> Work] /\ kingWork[g] \in Work
    BY DEF ServerTypeOK
  <2>2. Nothing \in Assignment
    BY DEF Nothing, Assignment
  <2>3. CASE KingHears(g)
    BY <2>1, <2>3 DEF KingHears, Idle, WireTypeOK
  <2>4. CASE UpdateServices(g)
    BY <2>1, <2>4 DEF UpdateServices
  <2>5. CASE FindStale(g)
    BY <2>1, <2>5 DEF FindStale
  <2>6. CASE KingApplied(g)
    BY <2>1, <2>2, <2>6 DEF KingApplied, Idle
  <2>7. ASSUME NEW p \in Port,
               EnsureTCPListener(g, p) \/ ListenFails(g, p) \/ RemoveTCPListener(g, p)
        PROVE  kingWork' \in [Goroutine -> Work]
    BY <2>1, <2>7 DEF EnsureTCPListener, ListenFails, RemoveTCPListener
  <2> QED  BY <2>3, <2>4, <2>5, <2>6, <2>7 DEF KingApplies
<1>4. services' \subseteq Service
  <2>1. \A a \in Assignment : ServicesOf(a) \subseteq Service
    BY DEF Assignment, ServicesOf
  <2>2. kingWork[g].want \in Assignment
    BY DEF ServerTypeOK
  <2> QED
    BY <2>1, <2>2 DEF KingApplies, KingHears, UpdateServices, FindStale, KingApplied,
           EnsureTCPListener, ListenFails, RemoveTCPListener, ServerTypeOK
<1>5. tcpListeners' \in [Port -> Service \cup {Free}]
  <2>1. kingWork[g].want \in [Port -> Service \cup {Free}]
    BY DEF ServerTypeOK, Assignment
  <2> QED
    BY <2>1 DEF KingApplies, KingHears, UpdateServices, FindStale, KingApplied,
           EnsureTCPListener, ListenFails, RemoveTCPListener, ServerTypeOK
<1>6. kingHeld' \in 0..MaxChanges /\ UNCHANGED <<quicConns, drainNotify, handler, phase>>
  BY DEF KingApplies, KingHears, UpdateServices, FindStale, KingApplied,
         EnsureTCPListener, ListenFails, RemoveTCPListener, ServerTypeOK, WireTypeOK
<1>7. ServerTypeOK'
  BY <1>3, <1>4, <1>5, <1>6 DEF ServerTypeOK
<1> QED  BY <1>1, <1>2, <1>7

LEMMA HandlesTyped ==
    ASSUME Typed, NEW c \in Conn, Handles(c)
    PROVE  Typed'
<1> USE DEF Typed
<1>1. ClientTypeOK' /\ Dialled'
  <2>1. UNCHANGED client
    BY ONLY Handles(c)
       DEF Handles, Accept, Welcome, Reject, Abandon, Register, Unregister, Signal
  <2> QED  BY <2>1 DEF ClientTypeOK, Dialled, client
<1>2. WireTypeOK'
  <2>1. CASE Accept(c)
    BY <2>1 DEF Accept, WireTypeOK, council
  <2>2. CASE Welcome(c)
    BY <2>2 DEF Welcome, WireTypeOK, council
  <2>3. CASE Reject(c)
    BY <2>3 DEF Reject, WireTypeOK, Closed, council
  <2>4. CASE Abandon(c) \/ Register(c) \/ Unregister(c) \/ Signal(c)
    BY <2>4 DEF Abandon, Register, Unregister, Signal, WireTypeOK, council, wire
  <2> QED  BY <2>1, <2>2, <2>3, <2>4 DEF Handles
<1>3. handler' \in [Conn -> {"none", "negotiating", "welcomed", "serving", "leaving"}]
  BY DEF Handles, Accept, Welcome, Reject, Abandon, Register, Unregister, Signal,
         ServerTypeOK
<1>4. quicConns' \in [Service -> Conn \cup {NoConn}]
  BY DEF Handles, Accept, Welcome, Reject, Abandon, Register, Unregister, Signal,
         ServerTypeOK
<1>5. ServerTypeOK'
  BY <1>3, <1>4 DEF Handles, Accept, Welcome, Reject, Abandon, Register, Unregister,
         Signal, ServerTypeOK
<1> QED  BY <1>1, <1>2, <1>5

LEMMA KingStepTyped ==
    ASSUME Typed, KingStep
    PROVE  Typed'
<1> USE DEF Typed
<1>1. ClientTypeOK' /\ Dialled'
  BY DEF KingStep, KingCrash, KingStop, Drains, DrainLook, DrainWake, DrainTimeout, Close,
         KingExit, KingGone, ClientTypeOK, Dialled, client
<1>2. Nothing \in Assignment /\ Nothing \in [Port -> Service \cup {Free}]
  BY DEF Nothing, Assignment
<1>3. CASE KingGone /\ left' \in [breaks : Nat, refusals : Nat, exits : Nat]
  <2>1. WireTypeOK'
    BY <1>3 DEF KingGone, WireTypeOK, council
  <2>2. kingWork' \in [Goroutine -> [at : {"idle", "services", "ensure", "remove"},
                                     want : Assignment, todo : SUBSET Port]]
    BY <1>2, <1>3 DEF KingGone, Idle
  <2>3. ServerTypeOK'
    BY <1>2, <1>3, <2>2 DEF KingGone, ServerTypeOK
  <2> QED  BY <1>1, <2>1, <2>3
<1>4. CASE KingExit \/ KingCrash
  BY <1>3, <1>4 DEF KingExit, KingCrash, WireTypeOK
<1>5. CASE KingStop
  <2>1. left' \in [breaks : Nat, refusals : Nat, exits : Nat]
    BY <1>5 DEF KingStop, WireTypeOK
  <2>2. WireTypeOK'
    BY <1>5, <2>1 DEF KingStop, WireTypeOK, council
  <2>3. ServerTypeOK'
    BY <1>5 DEF KingStop, ServerTypeOK
  <2> QED  BY <1>1, <2>2, <2>3
<1>6. CASE DrainLook \/ DrainWake \/ DrainTimeout
  <2>1. WireTypeOK'
    BY <1>6 DEF DrainLook, DrainWake, DrainTimeout, WireTypeOK, council, wire
  <2>2. ServerTypeOK'
    BY <1>6 DEF DrainLook, DrainWake, DrainTimeout, ServerTypeOK
  <2> QED  BY <1>1, <2>1, <2>2
<1>7. CASE Close
  <2>1. up' \in [Conn -> SUBSET End]
    BY <1>7 DEF Close, WireTypeOK
  <2>2. WireTypeOK'
    BY <1>7, <2>1 DEF Close, WireTypeOK, council
  <2>3. ServerTypeOK'
    BY <1>2, <1>7 DEF Close, ServerTypeOK
  <2> QED  BY <1>1, <2>2, <2>3
<1> QED  BY <1>4, <1>5, <1>6, <1>7 DEF KingStep, Drains

LEMMA LingAppliesTyped ==
    ASSUME Typed, NEW g \in Goroutine, LingApplies(g, Unused)
    PROVE  Typed'
<1> DEFINE Work == [at : {"idle", "ensure", "dial", "auth", "trim"},
                    want : SUBSET Service, conn : Conn \cup {NoConn}]
<1> USE DEF Typed
<1>1. Unused \subseteq Conn
  BY DEF Unused
<1>2. lingWork \in [Goroutine -> Work] /\ lingWork[g] \in Work
  BY DEF ClientTypeOK
<1>3. ServerTypeOK'
  BY DEF LingApplies, LingHears, HasActiveConnection, DialFails, AuthOk, AuthFails, Trim,
         DialKing, ServerTypeOK, server
<1>4. CASE LingHears(g)
  <2>1. ServicesOf(placed) \subseteq Service
    BY DEF WireTypeOK, Assignment, ServicesOf
  <2>2. lingWork' \in [Goroutine -> Work]
    BY <1>2, <1>4, <2>1 DEF LingHears, Rest
  <2>3. ClientTypeOK'
    BY <1>4, <2>2 DEF LingHears, ClientTypeOK, WireTypeOK
  <2>4. Dialled'
    BY <1>2, <1>4 DEF LingHears, Dialled, Rest
  <2>5. WireTypeOK'
    BY <1>4 DEF LingHears, WireTypeOK, council, wire
  <2> QED  BY <1>3, <2>3, <2>4, <2>5
<1>5. CASE HasActiveConnection(g) \/ DialFails(g)
  <2>1. WireTypeOK'
    BY <1>5 DEF HasActiveConnection, DialFails, WireTypeOK, council, wire
  <2>2. lingWork' \in [Goroutine -> Work] /\ Dialled'
    BY <1>2, <1>5 DEF HasActiveConnection, DialFails, Dialled
  <2>3. ClientTypeOK'
    BY <1>5, <2>2 DEF HasActiveConnection, DialFails, ClientTypeOK
  <2> QED  BY <1>3, <2>1, <2>2, <2>3
<1>6. CASE AuthOk(g)
  <2>1. WireTypeOK'
    BY <1>6 DEF AuthOk, WireTypeOK, council, wire
  <2>2. lingWork' \in [Goroutine -> Work] /\ Dialled'
    BY <1>2, <1>6 DEF AuthOk, Dialled
  <2>3. lingWork[g].conn \in Conn
    BY <1>6 DEF AuthOk, Dialled
  <2>4. ClientTypeOK'
    BY <1>6, <2>2, <2>3 DEF AuthOk, ClientTypeOK
  <2> QED  BY <1>3, <2>1, <2>2, <2>4
<1>7. CASE AuthFails(g)
  <2>1. WireTypeOK'
    BY <1>7 DEF AuthFails, WireTypeOK, council, Closed
  <2>2. lingWork' \in [Goroutine -> Work] /\ Dialled'
    BY <1>2, <1>7 DEF AuthFails, Dialled
  <2>3. ClientTypeOK'
    BY <1>7, <2>2 DEF AuthFails, ClientTypeOK
  <2> QED  BY <1>3, <2>1, <2>2, <2>3
<1>8. CASE Trim(g)
  <2>1. WireTypeOK'
    BY <1>8 DEF Trim, WireTypeOK, council, Closed
  <2>2. lingWork' \in [Goroutine -> Work] /\ Dialled'
    BY <1>2, <1>8 DEF Trim, Rest, Dialled
  <2>3. ClientTypeOK'
    BY <1>8, <2>2 DEF Trim, ClientTypeOK
  <2> QED  BY <1>3, <2>1, <2>2, <2>3
<1>9. ASSUME NEW c \in Unused, DialKing(g, c) PROVE Typed'
  <2>1. c \in Conn /\ End \subseteq End
    BY <1>1
  <2>2. WireTypeOK'
    BY <1>2, <1>9, <2>1 DEF DialKing, WireTypeOK, council
  <2>3. lingWork' \in [Goroutine -> Work] /\ Dialled'
    BY <1>2, <1>9, <2>1 DEF DialKing, Dialled
  <2>4. ClientTypeOK'
    BY <1>9, <2>3 DEF DialKing, ClientTypeOK
  <2> QED  BY <1>3, <2>2, <2>3, <2>4
<1> QED  BY <1>4, <1>5, <1>6, <1>7, <1>8, <1>9 DEF LingApplies

LEMMA LingStepTyped ==
    ASSUME Typed, LingStep \/ \E c \in Conn : AcceptEnds(c)
    PROVE  Typed'
<1> USE DEF Typed
<1>1. ServerTypeOK'
  BY DEF LingStep, LingCrash, LingStop, CloseAll, LingExit, LingGone, AcceptEnds,
         ServerTypeOK, server
<1>2. WireTypeOK'
  BY DEF LingStep, LingCrash, LingStop, CloseAll, LingExit, LingGone, AcceptEnds,
         WireTypeOK, Closed, council, wire
<1>3. ClientTypeOK' /\ Dialled'
  BY DEF LingStep, LingCrash, LingStop, CloseAll, LingExit, LingGone, AcceptEnds,
         ClientTypeOK, Dialled, Rest
<1> QED  BY <1>1, <1>2, <1>3

-----------------------------------------------------------------------------
(* The king's registry.                                                     *)

\* What the registry depends on.
registry == <<fresh, asked, handler, quicConns, drainNotify, phase>>

LEMMA RegistryFrame ==
    ASSUME Registry, UNCHANGED registry
    PROVE  Registry'
  BY DEF Registry, OneHandler, NoGhostConnections, NoLostDrain, Drained, registry

\* The handler of a connection is the only one that enters it, and removes it
\* before it ends; the last to leave still has to fill drainNotify.
LEMMA HandlesRegistry ==
    ASSUME Typed, Registry, NEW c \in Conn, Handles(c)
    PROVE  Registry'
<1> USE WireAssumption DEF Registry, Typed, ServerTypeOK
<1>1. UNCHANGED <<asked, phase>>
  BY DEF Handles, Accept, Welcome, Reject, Abandon, Register, Unregister, Signal, wire
<1>2. handler \in [Conn -> {"none", "negotiating", "welcomed", "serving", "leaving"}]
  OBVIOUS
<1>3. CASE Accept(c)
  BY <1>2, <1>3 DEF Accept, OneHandler, NoGhostConnections, NoLostDrain, Drained
<1>4. CASE Welcome(c) \/ Reject(c) \/ Abandon(c)
  <2>1. /\ handler[c] = "negotiating" /\ UNCHANGED <<fresh, quicConns, drainNotify>>
        /\ \E h \in {"none", "welcomed"} : handler' = [handler EXCEPT ![c] = h]
    BY <1>4 DEF Welcome, Reject, Abandon, wire
  <2>2. OneHandler' /\ NoGhostConnections'
    BY <1>1, <1>2, <2>1 DEF OneHandler, NoGhostConnections
  <2>3. NoLostDrain'
    BY <1>1, <1>2, <2>1 DEF NoLostDrain, Drained
  <2> QED  BY <2>2, <2>3
<1>5. CASE Register(c)
  <2>1. OneHandler'
    BY <1>2, <1>5 DEF Register, OneHandler, wire
  <2>2. NoGhostConnections'
    BY <1>1, <1>2, <1>5 DEF Register, NoGhostConnections
  <2>3. Drained' => Drained
    BY <1>5 DEF Register, Drained
  <2>4. NoLostDrain'
    BY <1>1, <1>2, <1>5, <2>3 DEF Register, NoLostDrain
  <2> QED  BY <2>1, <2>2, <2>4
<1>6. CASE Unregister(c)
  <2>1. OneHandler'
    BY <1>2, <1>6 DEF Unregister, OneHandler, wire
  <2>2. NoGhostConnections'
    BY <1>1, <1>2, <1>6 DEF Unregister, NoGhostConnections
  <2>3. Drained' => handler'[c] = "leaving"
    BY <1>2, <1>6 DEF Unregister, Drained
  <2>4. NoLostDrain'
    BY <2>3 DEF NoLostDrain
  <2> QED  BY <2>1, <2>2, <2>4
<1>7. CASE Signal(c)
  BY <1>1, <1>2, <1>7 DEF Signal, OneHandler, NoGhostConnections, NoLostDrain, wire
<1> QED  BY <1>3, <1>4, <1>5, <1>6, <1>7 DEF Handles

\* A shutdown empties the registry with everything that refers to it, and the
\* drain looks again after every signal it takes.
LEMMA KingStepRegistry ==
    ASSUME Typed, Registry, KingStep
    PROVE  Registry'
<1> USE DEF Registry
<1>1. CASE KingExit \/ KingCrash
  <2>1. KingGone
    BY <1>1 DEF KingExit, KingCrash
  <2> QED  BY <2>1 DEF KingGone, OneHandler, NoGhostConnections, NoLostDrain
<1>2. CASE KingStop
  BY <1>2 DEF KingStop, OneHandler, NoGhostConnections, NoLostDrain
<1>3. CASE DrainLook \/ DrainWake \/ DrainTimeout
  <2>1. UNCHANGED <<fresh, asked, handler, quicConns>>
    BY <1>3 DEF DrainLook, DrainWake, DrainTimeout, wire
  <2>2. OneHandler' /\ NoGhostConnections'
    BY <2>1 DEF OneHandler, NoGhostConnections
  <2>3. NoLostDrain'
    BY <1>3 DEF DrainLook, DrainWake, DrainTimeout, NoLostDrain, Drained
  <2> QED  BY <2>2, <2>3
<1>4. CASE Close
  BY <1>4 DEF Close, OneHandler, NoGhostConnections, NoLostDrain
<1> QED  BY <1>1, <1>2, <1>3, <1>4 DEF KingStep, Drains

\* A dial takes a connection nobody refers to, so it changes the services of
\* none that is registered.
LEMMA DialRegistry ==
    ASSUME Typed, Registry, NEW g \in Goroutine, NEW c \in Unused, DialKing(g, c)
    PROVE  Registry'
<1> USE DEF Registry
<1>1. c \in Conn /\ handler[c] = "none" /\ UNCHANGED <<handler, quicConns, drainNotify, phase>>
  BY DEF Unused, DialKing, server
<1>2. \A b \in Conn : b # c => asked'[b] = asked[b]
  BY DEF DialKing, Typed, WireTypeOK
<1>3. OneHandler'
  BY <1>1 DEF DialKing, OneHandler
<1>4. NoGhostConnections'
  <2> SUFFICES ASSUME NEW s \in Service, quicConns[s] # NoConn
               PROVE  handler[quicConns[s]] = "serving" /\ s \in asked'[quicConns[s]]
    BY <1>1 DEF NoGhostConnections
  <2>1. handler[quicConns[s]] = "serving" /\ s \in asked[quicConns[s]]
    BY DEF NoGhostConnections
  <2>2. quicConns[s] \in Conn
    BY DEF Typed, ServerTypeOK
  <2> QED  BY <1>1, <1>2, <2>1, <2>2
<1>5. NoLostDrain'
  BY <1>1 DEF NoLostDrain, Drained
<1> QED  BY <1>3, <1>4, <1>5

\* The rest of the ling's steps, and the king's deliveries, leave it alone.
LEMMA OthersRegistry ==
    ASSUME Typed, Registry,
           \/ WireStep \/ LingStep
           \/ \E g \in Goroutine : KingApplies(g)
           \/ \E g \in Goroutine : LingApplies(g, Unused) /\ ~\E c \in Unused : DialKing(g, c)
           \/ \E c \in Conn : AcceptEnds(c)
    PROVE  Registry'
<1> USE DEF server, wire, registry
<1>1. CASE WireStep
  BY <1>1, RegistryFrame DEF WireStep, Change, ChangeElsewhere, Break, Notice
<1>2. CASE LingStep
  BY <1>2, RegistryFrame
     DEF LingStep, LingCrash, LingStop, CloseAll, LingExit, LingGone
<1>3. ASSUME NEW g \in Goroutine, KingApplies(g) PROVE Registry'
  BY <1>3, RegistryFrame
     DEF KingApplies, KingHears, UpdateServices, FindStale, KingApplied,
         EnsureTCPListener, ListenFails, RemoveTCPListener
<1>4. ASSUME NEW g \in Goroutine,
             LingApplies(g, Unused), ~\E c \in Unused : DialKing(g, c)
      PROVE  Registry'
  BY <1>4, RegistryFrame
     DEF LingApplies, LingHears, HasActiveConnection, DialFails, AuthOk, AuthFails, Trim
<1>5. ASSUME NEW c \in Conn, AcceptEnds(c) PROVE Registry'
  BY <1>5, RegistryFrame DEF AcceptEnds
<1> QED  BY <1>1, <1>2, <1>3, <1>4, <1>5

-----------------------------------------------------------------------------
(* The ling's connection.                                                   *)

\* It is stored together with its goroutine, and the goroutine forgets it when
\* it ends.  After the shutdown has begun nothing is stored any more that
\* needs watching.
LEMMA WatchedKeeps ==
    ASSUME Typed, ConnectionWatched, Next
    PROVE  ConnectionWatched'
<1> USE DEF ConnectionWatched, client
<1>1. CASE WireStep
  <2>1. UNCHANGED client
    BY ONLY <1>1 DEF WireStep, Change, ChangeElsewhere, Break, Notice
  <2> QED  BY <2>1
<1>2. ASSUME NEW g \in Goroutine, KingApplies(g) PROVE ConnectionWatched'
  <2>1. UNCHANGED client
    BY ONLY <1>2 DEF KingApplies, KingHears, UpdateServices, FindStale, KingApplied,
                     EnsureTCPListener, ListenFails, RemoveTCPListener
  <2> QED  BY <2>1
<1>3. ASSUME NEW c \in Conn, Handles(c) PROVE ConnectionWatched'
  <2>1. UNCHANGED client
    BY ONLY <1>3 DEF Handles, Accept, Welcome, Reject, Abandon, Register, Unregister, Signal
  <2> QED  BY <2>1
<1>4. CASE KingStep
  BY <1>4 DEF KingStep, KingCrash, KingStop, Drains, DrainLook, DrainWake, DrainTimeout,
              Close, KingExit, KingGone
<1>5. ASSUME NEW g \in Goroutine, LingApplies(g, Unused) PROVE ConnectionWatched'
  BY <1>5 DEF LingApplies, LingHears, HasActiveConnection, DialFails, AuthOk, AuthFails,
              Trim, DialKing
<1>6. ASSUME NEW c \in Conn, AcceptEnds(c) PROVE ConnectionWatched'
  BY <1>6 DEF AcceptEnds
<1>7. CASE LingStep
  BY <1>7 DEF LingStep, LingCrash, LingStop, CloseAll, LingExit, LingGone
<1> QED  BY <1>1, <1>2, <1>3, <1>4, <1>5, <1>6, <1>7 DEF Next

LEMMA NextInv == Inv /\ [Next]_vars => Inv'
<1> SUFFICES ASSUME Inv, [Next]_vars PROVE Inv'
  OBVIOUS
<1>1. CASE Next
  <2>1. Typed'
    BY <1>1, WireStepTyped, KingAppliesTyped, HandlesTyped, KingStepTyped,
       LingAppliesTyped, LingStepTyped DEF Next, Inv
  <2>2. Registry'
    <3>1. ASSUME NEW g \in Goroutine, LingApplies(g, Unused) PROVE Registry'
      BY <3>1, DialRegistry, OthersRegistry DEF Inv
    <3> QED
      BY <1>1, <3>1, HandlesRegistry, KingStepRegistry, OthersRegistry DEF Next, Inv
  <2>3. ConnectionWatched'
    BY <1>1, WatchedKeeps DEF Inv
  <2> QED  BY <2>1, <2>2, <2>3 DEF Inv
<1>2. CASE UNCHANGED vars
  <2> USE <1>2 DEF vars, council, wire, server, client
  <2>1. Typed'
    BY DEF Inv, Typed, WireTypeOK, ServerTypeOK, ClientTypeOK, Dialled
  <2>2. Registry'
    BY RegistryFrame DEF Inv, registry
  <2>3. ConnectionWatched'
    BY DEF Inv, ConnectionWatched
  <2> QED  BY <2>1, <2>2, <2>3 DEF Inv
<1> QED  BY <1>1, <1>2

LEMMA Invariance == Spec => []Inv
  BY InitInv, NextInv, PTL DEF Spec

-----------------------------------------------------------------------------

\* Both ends of the tunnel, and what is on the wire, have their types.
THEOREM TypeSafe == Spec => []TypeOK
<1>1. Inv => TypeOK
  BY DEF Inv, Typed, TypeOK
<1> QED  BY <1>1, Invariance, PTL

\* Whatever is in TunnelServer.quicConns has a handleConnection that serves it
\* for that service: no entry outlives its connection for good.
THEOREM NoGhosts == Spec => []NoGhostConnections
<1>1. Inv => NoGhostConnections
  BY DEF Inv, Registry
<1> QED  BY <1>1, Invariance, PTL

\* waitForDrain is not blocked on an empty registry without a signal in
\* drainNotify or a handler that is about to fill it.
THEOREM DrainWakes == Spec => []NoLostDrain
<1>1. Inv => NoLostDrain
  BY DEF Inv, Registry
<1> QED  BY <1>1, Invariance, PTL

\* The connection the ling's tunnel client holds has its acceptDataStreams.
THEOREM LingWatches == Spec => []ConnectionWatched
<1>1. Inv => ConnectionWatched
  BY DEF Inv
<1> QED  BY <1>1, Invariance, PTL

\* handleConnection's clean-up removes only its own connection, and close()
\* and an exit take the whole process: a live connection is never dropped.
THEOREM LiveStaysRegistered == Spec => NeverDropsLive
<1> DEFINE Kept(s) == quicConns[s] # NoConn /\ quicConns'[s] = NoConn
                         => "king" \notin up'[quicConns[s]]
<1>1. Inv /\ [Next]_vars => [\A s \in Service : Kept(s)]_vars
  <2> SUFFICES ASSUME Typed, Next, NEW s \in Service,
                      quicConns[s] # NoConn, quicConns'[s] = NoConn
               PROVE  "king" \notin up'[quicConns[s]]
    BY DEF Inv
  <2>1. quicConns[s] \in Conn /\ up \in [Conn -> SUBSET End] /\ quicConns' # quicConns
    BY DEF Typed, ServerTypeOK, WireTypeOK
  <2>2. CASE WireStep
    BY <2>1, <2>2 DEF WireStep, Change, ChangeElsewhere, Break, Notice, server
  <2>3. ASSUME NEW g \in Goroutine, KingApplies(g) PROVE FALSE
    BY <2>1, <2>3 DEF KingApplies, KingHears, UpdateServices, FindStale, KingApplied,
                      EnsureTCPListener, ListenFails, RemoveTCPListener
  <2>4. ASSUME NEW c \in Conn, Handles(c) PROVE "king" \notin up'[quicConns[s]]
    <3>1. CASE Register(c)
      BY <2>1, <3>1, WireAssumption DEF Register, Typed, ServerTypeOK
    <3>2. CASE Unregister(c)
      BY <2>1, <3>2 DEF Unregister, wire
    <3> QED
      BY <2>1, <2>4, <3>1, <3>2 DEF Handles, Accept, Welcome, Reject, Abandon, Signal
  <2>5. CASE KingStep
    BY <2>1, <2>5 DEF KingStep, KingCrash, KingStop, Drains, DrainLook, DrainWake,
                      DrainTimeout, Close, KingExit, KingGone
  <2>6. ASSUME NEW g \in Goroutine, LingApplies(g, Unused) PROVE FALSE
    BY <2>1, <2>6 DEF LingApplies, LingHears, HasActiveConnection, DialFails, AuthOk,
                      AuthFails, Trim, DialKing, server
  <2>7. ASSUME NEW c \in Conn, AcceptEnds(c) PROVE FALSE
    BY <2>1, <2>7 DEF AcceptEnds, server
  <2>8. CASE LingStep
    BY <2>1, <2>8 DEF LingStep, LingCrash, LingStop, CloseAll, LingExit, LingGone, server
  <2> QED  BY <2>2, <2>3, <2>4, <2>5, <2>6, <2>7, <2>8 DEF Next
<1> QED  BY <1>1, Invariance, PTL DEF Spec, NeverDropsLive
=============================================================================
