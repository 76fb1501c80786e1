---------------------------- MODULE TunnelClient ----------------------------
(***************************************************************************)
(* The ling's side of a tunnel: applying a state to its connection to a    *)
(* king (updateTunnelConnections, from either goroutine of the watcher),   *)
(* the goroutine that accepts data streams on a connection, and closeAll.  *)
(***************************************************************************)
EXTENDS TunnelWire

Rest == [at |-> "idle", want |-> {}, conn |-> NoConn]

ClientInit ==
    /\ connections = NoConn /\ accepting = {}
    /\ lingHeld = 0
    /\ lingWork = [g \in Goroutine |-> Rest]
    /\ life = "up"

ClientTypeOK ==
    /\ connections \in Conn \cup {NoConn} /\ accepting \subseteq Conn
    /\ lingHeld \in 0..MaxChanges
    /\ lingWork \in [Goroutine -> [at : {"idle", "ensure", "dial", "auth", "trim"},
                                   want : SUBSET Service, conn : Conn \cup {NoConn}]]
    /\ life \in {"up", "stopping", "closed", "gone"}

-----------------------------------------------------------------------------
(* updateTunnelConnections.                                                 *)

\* buildTunnelGroups groups the ling's services of this king, if it has any.
LingHears(g) ==
    /\ life = "up" /\ lingWork[g].at = "idle" /\ lingHeld # revision
    /\ lingHeld' = revision
    /\ lingWork' = [lingWork EXCEPT ![g] =
                      [Rest EXCEPT !.at = IF ServicesOf(placed) = {} THEN "trim" ELSE "ensure",
                                   !.want = ServicesOf(placed)]]
    /\ UNCHANGED <<connections, accepting, life, council, wire, left, server>>

\* hasActiveConnection: whatever it was authenticated for, an open connection
\* is good enough; a closed one is forgotten.
HasActiveConnection(g) ==
    LET active == connections # NoConn /\ "ling" \in up[connections] IN
    /\ lingWork[g].at = "ensure"
    /\ connections' = IF active THEN connections ELSE NoConn
    /\ lingWork' = [lingWork EXCEPT ![g].at = IF active THEN "trim" ELSE "dial"]
    /\ UNCHANGED <<accepting, lingHeld, life, council, wire, left, server>>

\* The handshake, and the control message sent on its first stream.
DialKing(g, c) ==
    /\ lingWork[g].at = "dial" /\ listening /\ life = "up"
    /\ fresh' = fresh \cup {c}
    /\ up' = [up EXCEPT ![c] = End]
    /\ asked' = [asked EXCEPT ![c] = lingWork[g].want]
    /\ answered' = [answered EXCEPT ![c] = FALSE]
    /\ lingWork' = [lingWork EXCEPT ![g].at = "auth", ![g].conn = c]
    /\ UNCHANGED <<connections, accepting, lingHeld, life, council, listening, left, server>>

\* Logged; nobody dials again before the next state.
DialFails(g) ==
    /\ lingWork[g].at = "dial"
    /\ \/ (~listening \/ life # "up") /\ UNCHANGED left
       \/ left.refusals > 0 /\ left' = [left EXCEPT !.refusals = @ - 1]
    /\ lingWork' = [lingWork EXCEPT ![g].at = "trim"]
    /\ UNCHANGED <<connections, accepting, lingHeld, life, council, wire, server>>

AuthOkForgets(g) ==                                                    \* mutant
    LET c == lingWork[g].conn IN
    /\ lingWork[g].at = "auth" /\ "ling" \in up[c] /\ answered[c]
    /\ connections' = c
    /\ lingWork' = [lingWork EXCEPT ![g].at = "trim", ![g].conn = NoConn]
    /\ UNCHANGED <<accepting, lingHeld, life, council, wire, left, server>>
AuthOkEarly(g) ==                                                      \* mutant
    LET c == lingWork[g].conn IN
    /\ lingWork[g].at \in {"dial", "auth"}
    /\ connections' = c
    /\ accepting' = accepting \cup {c}
    /\ lingWork' = [lingWork EXCEPT ![g].at = "trim", ![g].conn = NoConn]
    /\ UNCHANGED <<lingHeld, life, council, wire, left, server>>
\* authenticateServices read OK: the connection is stored, in place of any
\* other, and served.
AuthOk(g) ==
    LET c == lingWork[g].conn IN
    /\ lingWork[g].at = "auth" /\ "ling" \in up[c] /\ answered[c]
    /\ connections' = c
    /\ accepting' = accepting \cup {c}
    /\ lingWork' = [lingWork EXCEPT ![g].at = "trim", ![g].conn = NoConn]
    /\ UNCHANGED <<lingHeld, life, council, wire, left, server>>

\* The connection ended without an answer, or the context is cancelled before
\* the control stream is open; reading the answer has no deadline of its own.
AuthFails(g) ==
    LET c == lingWork[g].conn IN
    /\ lingWork[g].at = "auth"
    /\ "ling" \notin up[c] \/ (life # "up" /\ ~answered[c])
    /\ up' = Closed(c, "ling")
    /\ lingWork' = [lingWork EXCEPT ![g].at = "trim", ![g].conn = NoConn]
    /\ UNCHANGED <<connections, accepting, lingHeld, life, council, listening, fresh,
                   asked, answered, left, server>>

\* A king without services of this ling is disconnected.
Trim(g) ==
    LET needless == lingWork[g].want = {} /\ connections # NoConn IN
    /\ lingWork[g].at = "trim"
    /\ up' = IF needless THEN Closed(connections, "ling") ELSE up
    /\ connections' = IF needless THEN NoConn ELSE connections
    /\ lingWork' = [lingWork EXCEPT ![g] = Rest]
    /\ UNCHANGED <<accepting, lingHeld, life, council, listening, fresh, asked, answered, left, server>>

\* acceptDataStreams ends with its connection.  It forgets the connection to
\* the king, whichever that is by now.
AcceptEnds(c) ==
    /\ c \in accepting /\ "ling" \notin up[c]
    /\ accepting' = accepting \ {c}
    /\ connections' = IF life = "up" THEN NoConn ELSE connections
    /\ UNCHANGED <<lingHeld, lingWork, life, council, wire, left, server>>

-----------------------------------------------------------------------------
(* The ling's process: shutdown and crash.                                  *)

LingStop ==
    /\ life = "up" /\ left.exits > 0
    /\ life' = "stopping"
    /\ left' = [left EXCEPT !.exits = @ - 1]
    /\ UNCHANGED <<connections, accepting, lingHeld, lingWork, council, wire, server>>

CloseAll ==
    /\ life = "stopping"
    /\ life' = "closed"
    /\ up' = IF connections # NoConn THEN Closed(connections, "ling") ELSE up
    /\ connections' = NoConn
    /\ UNCHANGED <<accepting, lingHeld, lingWork, council, listening, fresh, asked,
                   answered, left, server>>

LingGone ==
    /\ life' = "gone"
    /\ connections' = NoConn /\ accepting' = {}
    /\ lingWork' = [g \in Goroutine |-> Rest]
    /\ up' = [c \in Conn |-> up[c] \ {"ling"}]
    /\ UNCHANGED <<lingHeld, council, listening, fresh, asked, answered, server>>

LingExit == life = "closed" /\ LingGone /\ UNCHANGED left

LingCrash == /\ life # "gone" /\ left.exits > 0 /\ LingGone
             /\ left' = [left EXCEPT !.exits = @ - 1]

-----------------------------------------------------------------------------

LingApplies(g, unused) ==
    \/ LingHears(g) \/ HasActiveConnection(g) \/ DialFails(g)
    \/ AuthOk(g) \/ AuthFails(g) \/ Trim(g)
    \/ \E c \in unused : DialKing(g, c)
=============================================================================
