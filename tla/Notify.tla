------------------------------- MODULE Notify -------------------------------
(***************************************************************************)
(* How a change of the council's state reaches kings and lings: the        *)
(* WebSocket hub with its per-connection handlers and broadcasts, and each *)
(* node's Watcher, in which a polling goroutine and a WebSocket goroutine  *)
(* fetch the state and deliver it independently of each other.             *)
(*                                                                         *)
(* The state itself is its revision, and the number of the council process *)
(* that issued it: revisions start again at 0 with every process.          *)
(***************************************************************************)
EXTENDS Integers, FiniteSets

CONSTANTS
    Watcher,        \* kings and lings, one Watcher each
    Poller,         \* those whose polling is modelled: all, or none to
                    \* show that the WebSocket alone is enough
    Caster,         \* PUT handlers and the cleaner, who broadcast
    Conn,           \* WebSocket connections; reused when both ends are gone
    NoConn,
    Nobody,         \* hub.mu is free
    MaxRevision, MaxBreaks, MaxFails, MaxExits      \* bounds

ASSUME PartsAssumption ==
    Poller \subseteq Watcher /\ NoConn \notin Conn /\ Nobody \notin Caster
ASSUME BoundAssumption ==
    MaxRevision \in Nat /\ MaxBreaks \in Nat /\ MaxFails \in Nat /\ MaxExits \in Nat

VARIABLES
    process,    \* the council process: "up", "stopping", "closing" or "down"
    epoch,      \* which process it is
    revision,   \* State.Revision
    mu,         \* hub.mu: the broadcasting caster, or Nobody
    clients,    \* hub.clients
    cast,       \* each caster: "idle", change "made", "sending"
    todo,       \* clients its Broadcast has still to write to
    expired,    \* its broadcast context is cancelled or timed out
    serve,      \* handleWebSocket per connection
    link,       \* a connection is "open", or "closed"
    inbox,      \* "state-changed" messages in flight on a connection
    conn,       \* the connection a watcher reads, or NoConn
    fetch,      \* per watcher and goroutine: where doFetchState is
    got,        \* the state its last answered fetch returned
    held,       \* w.state
    acted,      \* the last state delivered to onChange
    left        \* the failures that may still happen

hubvars == <<mu, clients, cast, todo, expired>>
council == <<process, epoch, revision>>
wires == <<serve, link, inbox, conn>>
reader == <<fetch, got, held, acted>>
vars == <<council, hubvars, wires, reader, left>>

Goroutine == {"poll", "ws"}
State == [epoch : Nat, revision : Nat]
NoState == [epoch |-> 0, revision |-> -1]
\* Every process starts with the same, empty, state.
Current == [epoch |-> IF revision = 0 THEN 0 ELSE epoch, revision |-> revision]

Init ==
    /\ process = "up" /\ epoch = 0 /\ revision = 0
    /\ mu = Nobody /\ clients = {}
    /\ cast = [k \in Caster |-> "idle"]
    /\ todo = [k \in Caster |-> {}]
    /\ expired = [k \in Caster |-> FALSE]
    /\ serve = [c \in Conn |-> "gone"]
    /\ link = [c \in Conn |-> "closed"]
    /\ inbox = [c \in Conn |-> 0]
    /\ conn = [w \in Watcher |-> NoConn]
    /\ fetch = [w \in Watcher |-> [g \in Goroutine |-> "idle"]]
    /\ got = [w \in Watcher |-> [g \in Goroutine |-> NoState]]
    /\ held = [w \in Watcher |-> NoState]
    /\ acted = [w \in Watcher |-> NoState]
    /\ left = [breaks |-> MaxBreaks, fails |-> MaxFails, exits |-> MaxExits]

-----------------------------------------------------------------------------
(* The council: changes and their broadcasts.                               *)

\* A handler or the cleaner changes the state and releases stateMutex.
Change(k) ==
    /\ process # "down" /\ cast[k] = "idle" /\ revision < MaxRevision
    /\ revision' = revision + 1
    /\ cast' = [cast EXCEPT ![k] = "made"]
    /\ UNCHANGED <<process, epoch, mu, clients, todo, expired, wires, reader, left>>

\* The context of a broadcast is the request's, limited to broadcastTimeout
\* for all clients together: a caller that hangs up or one slow client ends it.
Expire(k) ==
    /\ cast[k] # "idle" /\ ~expired[k] /\ left.breaks > 0
    /\ expired' = [expired EXCEPT ![k] = TRUE]
    /\ left' = [left EXCEPT !.breaks = @ - 1]
    /\ UNCHANGED <<council, mu, clients, cast, todo, wires, reader>>

\* Broadcast holds hub.mu until it has written to every client.
Begin(k) ==
    /\ cast[k] = "made" /\ mu = Nobody
    /\ mu' = k
    /\ cast' = [cast EXCEPT ![k] = "sending"]
    /\ todo' = [todo EXCEPT ![k] = clients]
    /\ UNCHANGED <<council, clients, expired, wires, reader, left>>

Cancelled(k) == expired[k] \/ process # "up"

\* A write to a connection the peer has lost may still succeed.
WriteOk(k, c) ==
    /\ mu = k /\ c \in todo[k] /\ ~Cancelled(k)
    /\ inbox' = IF link[c] = "open" THEN [inbox EXCEPT ![c] = @ + 1] ELSE inbox
    /\ todo' = [todo EXCEPT ![k] = @ \ {c}]
    /\ UNCHANGED <<council, mu, clients, cast, expired, serve, link, conn, reader, left>>

\* A failed write drops the client and closes its connection.
WriteFailedForget(k, c) ==                                             \* mutant
    /\ mu = k /\ c \in todo[k]
    /\ link[c] = "closed" \/ Cancelled(k)
    /\ clients' = clients \ {c}
    /\ todo' = [todo EXCEPT ![k] = @ \ {c}]
    /\ UNCHANGED <<council, mu, cast, expired, serve, link, inbox, conn, reader, left>>
WriteFailed(k, c) ==
    /\ mu = k /\ c \in todo[k]
    /\ link[c] = "closed" \/ Cancelled(k)
    /\ link' = [link EXCEPT ![c] = "closed"]
    /\ clients' = clients \ {c}
    /\ todo' = [todo EXCEPT ![k] = @ \ {c}]
    /\ UNCHANGED <<council, mu, cast, expired, serve, inbox, conn, reader, left>>

End(k) ==
    /\ mu = k /\ todo[k] = {}
    /\ mu' = Nobody
    /\ cast' = [cast EXCEPT ![k] = "idle"]
    /\ expired' = [expired EXCEPT ![k] = FALSE]
    /\ UNCHANGED <<council, clients, todo, wires, reader, left>>

-----------------------------------------------------------------------------
(* The council: handleWebSocket, one goroutine per connection.              *)

Add(c) ==
    /\ serve[c] = "accepted" /\ mu = Nobody
    /\ clients' = clients \cup {c}
    /\ serve' = [serve EXCEPT ![c] = "added"]
    /\ UNCHANGED <<council, mu, cast, todo, expired, link, inbox, conn, reader, left>>

\* The first "state-changed", written whether or not anything changed; its
\* failure is only logged.
Hello(c) ==
    /\ serve[c] = "added"
    /\ inbox' = IF link[c] = "open" /\ process = "up"
                THEN [inbox EXCEPT ![c] = @ + 1] ELSE inbox
    /\ serve' = [serve EXCEPT ![c] = "reading"]
    /\ UNCHANGED <<council, hubvars, link, conn, reader, left>>

LeaveSilently(c) ==                                                    \* mutant
    /\ serve[c] = "reading" /\ (link[c] = "closed" \/ process # "up")
    /\ serve' = [serve EXCEPT ![c] = "gone"]
    /\ link' = [link EXCEPT ![c] = "closed"]
    /\ UNCHANGED <<council, hubvars, inbox, conn, reader, left>>
\* The read fails when the connection is closed, or when the process stops:
\* request contexts derive from the cancelled one.
Leave(c) ==
    /\ serve[c] = "reading" /\ (link[c] = "closed" \/ process # "up")
    /\ mu = Nobody
    /\ clients' = clients \ {c}
    /\ serve' = [serve EXCEPT ![c] = "gone"]
    /\ link' = [link EXCEPT ![c] = "closed"]
    /\ UNCHANGED <<council, mu, cast, todo, expired, inbox, conn, reader, left>>

-----------------------------------------------------------------------------
(* The council process: shutdown, exit and restart.                         *)

\* The root context is cancelled; so is every context derived from it.
Stop ==
    /\ process = "up" /\ left.exits > 0
    /\ process' = "stopping"
    /\ left' = [left EXCEPT !.exits = @ - 1]
    /\ UNCHANGED <<epoch, revision, hubvars, wires, reader>>

CloseAll ==
    /\ process = "stopping" /\ mu = Nobody
    /\ process' = "closing"
    /\ link' = [c \in Conn |-> IF c \in clients THEN "closed" ELSE link[c]]
    /\ clients' = {}
    /\ UNCHANGED <<epoch, revision, mu, cast, todo, expired, serve, inbox, conn,
                   reader, left>>

Gone ==
    /\ process' = "down"
    /\ mu' = Nobody /\ clients' = {}
    /\ cast' = [k \in Caster |-> "idle"]
    /\ todo' = [k \in Caster |-> {}]
    /\ expired' = [k \in Caster |-> FALSE]
    /\ serve' = [c \in Conn |-> "gone"]
    /\ link' = [c \in Conn |-> "closed"]
    /\ UNCHANGED <<epoch, revision, inbox, conn, reader>>

\* server.Shutdown gets a cancelled context and returns at once: the process
\* exits without waiting for anybody.
Exit == process = "closing" /\ Gone /\ UNCHANGED left

Crash == /\ process # "down" /\ left.exits > 0 /\ Gone
         /\ left' = [left EXCEPT !.exits = @ - 1]

\* A new process starts with an empty state at revision 0.
Start ==
    /\ process = "down"
    /\ process' = "up"
    /\ epoch' = epoch + 1
    /\ revision' = 0
    /\ UNCHANGED <<hubvars, wires, reader, left>>

-----------------------------------------------------------------------------
(* The watcher: listenWebSocket and readWebSocketMessages.                  *)

Unused == {c \in Conn : serve[c] = "gone" /\ \A w \in Watcher : conn[w] # c}

Dial(w) ==
    /\ conn[w] = NoConn /\ process # "down"
    /\ \E c \in Unused :
         /\ conn' = [conn EXCEPT ![w] = c]
         /\ serve' = [serve EXCEPT ![c] = "accepted"]
         /\ link' = [link EXCEPT ![c] = "open"]
         /\ inbox' = [inbox EXCEPT ![c] = 0]
    /\ UNCHANGED <<council, hubvars, reader, left>>

\* The goroutine reads no further message before its fetch has ended.
Reading(w) == conn[w] # NoConn /\ fetch[w]["ws"] = "idle"

ReceiveAny(w) ==                                                       \* mutant
    /\ Reading(w)
    /\ inbox' = [inbox EXCEPT ![conn[w]] = @ - 1]
    /\ fetch' = [fetch EXCEPT ![w]["ws"] = "asked"]
    /\ UNCHANGED <<council, hubvars, serve, link, conn, got, held, acted, left>>
Receive(w) ==
    /\ Reading(w) /\ inbox[conn[w]] > 0
    /\ inbox' = [inbox EXCEPT ![conn[w]] = @ - 1]
    /\ fetch' = [fetch EXCEPT ![w]["ws"] = "asked"]
    /\ UNCHANGED <<council, hubvars, serve, link, conn, got, held, acted, left>>

\* Messages of a broken connection may be lost.
Disconnected(w) ==
    /\ Reading(w) /\ link[conn[w]] = "closed"
    /\ conn' = [conn EXCEPT ![w] = NoConn]
    /\ UNCHANGED <<council, hubvars, serve, link, inbox, reader, left>>

Break(c) ==
    /\ link[c] = "open" /\ left.breaks > 0
    /\ link' = [link EXCEPT ![c] = "closed"]
    /\ left' = [left EXCEPT !.breaks = @ - 1]
    /\ UNCHANGED <<council, hubvars, serve, inbox, conn, reader>>

-----------------------------------------------------------------------------
(* The watcher: doFetchState, by either goroutine.                          *)

Poll(w) ==
    /\ w \in Poller /\ fetch[w]["poll"] = "idle"
    /\ fetch' = [fetch EXCEPT ![w]["poll"] = "asked"]
    /\ UNCHANGED <<council, hubvars, wires, got, held, acted, left>>

\* HandleGetState encodes the state as it is when the read lock is taken.
Answer(w, g) ==
    /\ fetch[w][g] = "asked" /\ process # "down"
    /\ got' = [got EXCEPT ![w][g] = Current]
    /\ fetch' = [fetch EXCEPT ![w][g] = "answered"]
    /\ UNCHANGED <<council, hubvars, wires, held, acted, left>>

FailedResets(w, g) ==                                                  \* mutant
    /\ fetch[w][g] = "asked"
    /\ \/ process = "down" /\ UNCHANGED left
       \/ left.fails > 0 /\ left' = [left EXCEPT !.fails = @ - 1]
    /\ fetch' = [fetch EXCEPT ![w][g] = "idle"]
    /\ held' = [held EXCEPT ![w] = NoState]
    /\ UNCHANGED <<council, hubvars, wires, got, acted>>
\* An error or a bad answer is logged; nobody tries again before the next
\* tick or message.
Failed(w, g) ==
    /\ fetch[w][g] = "asked"
    /\ \/ process = "down" /\ UNCHANGED left
       \/ left.fails > 0 /\ left' = [left EXCEPT !.fails = @ - 1]
    /\ fetch' = [fetch EXCEPT ![w][g] = "idle"]
    /\ UNCHANGED <<council, hubvars, wires, got, held, acted>>

StoreFirst(w, g) ==                                                    \* mutant
    /\ fetch[w][g] = "answered"
    /\ IF held[w] = NoState
       THEN /\ held' = [held EXCEPT ![w] = got[w][g]]
            /\ fetch' = [fetch EXCEPT ![w][g] = "stored"]
       ELSE /\ fetch' = [fetch EXCEPT ![w][g] = "idle"]
            /\ UNCHANGED held
    /\ UNCHANGED <<council, hubvars, wires, got, acted, left>>
\* The critical section of w.mu: only revisions are compared, for inequality.
Store(w, g) ==
    /\ fetch[w][g] = "answered"
    /\ IF held[w] = NoState \/ held[w].revision # got[w][g].revision
       THEN /\ held' = [held EXCEPT ![w] = got[w][g]]
            /\ fetch' = [fetch EXCEPT ![w][g] = "stored"]
       ELSE /\ fetch' = [fetch EXCEPT ![w][g] = "idle"]
            /\ UNCHANGED held
    /\ UNCHANGED <<council, hubvars, wires, got, acted, left>>

\* onChange is called after w.mu is released.
Call(w, g) ==
    /\ fetch[w][g] = "stored"
    /\ acted' = [acted EXCEPT ![w] = got[w][g]]
    /\ fetch' = [fetch EXCEPT ![w][g] = "idle"]
    /\ UNCHANGED <<council, hubvars, wires, got, held, left>>

-----------------------------------------------------------------------------

Sends(k) == Begin(k) \/ End(k) \/ \E c \in Conn : WriteOk(k, c) \/ WriteFailed(k, c)
ServesHelloFirst(c) ==                                                 \* mutant
    \/ /\ serve[c] = "accepted"
       /\ inbox' = IF link[c] = "open" THEN [inbox EXCEPT ![c] = @ + 1] ELSE inbox
       /\ serve' = [serve EXCEPT ![c] = "added"]
       /\ UNCHANGED <<council, hubvars, link, conn, reader, left>>
    \/ /\ serve[c] = "added" /\ mu = Nobody
       /\ clients' = clients \cup {c}
       /\ serve' = [serve EXCEPT ![c] = "reading"]
       /\ UNCHANGED <<council, mu, cast, todo, expired, link, inbox, conn, reader, left>>
    \/ Leave(c)
Serves(c) == Add(c) \/ Hello(c) \/ Leave(c)
Listens(w) == Dial(w) \/ Receive(w) \/ Disconnected(w)
Fetches(w, g) == Answer(w, g) \/ Failed(w, g) \/ Store(w, g) \/ Call(w, g)

Next ==
    \/ \E k \in Caster : Change(k) \/ Expire(k) \/ Sends(k)
    \/ \E c \in Conn : Serves(c) \/ Break(c)
    \/ Stop \/ CloseAll \/ Exit \/ Crash \/ Start
    \/ \E w \in Watcher : Listens(w) \/ Poll(w)
    \/ \E w \in Watcher, g \in Goroutine : Fetches(w, g)

Spec == Init /\ [][Next]_vars

\* Goroutines are scheduled, sync.Mutex starves nobody, a council that is
\* down is started again, and the network fails finitely often (see left).
Fairness ==
    /\ \A k \in Caster : SF_vars(Sends(k))
    /\ \A c \in Conn : SF_vars(Serves(c))
    /\ WF_vars(CloseAll) /\ WF_vars(Exit) /\ WF_vars(Start)
    /\ \A w \in Watcher, g \in Goroutine : WF_vars(Fetches(w, g))

Polls == \A w \in Poller : WF_vars(Poll(w))
Pushes == \A w \in Watcher : SF_vars(Listens(w))

\* Both goroutines are scheduled; and the WebSocket one may starve.
FairSpec == Spec /\ Fairness /\ Polls /\ Pushes
PollSpec == Spec /\ Fairness /\ Polls

-----------------------------------------------------------------------------
(* Properties.                                                              *)

TypeOK ==
    /\ process \in {"up", "stopping", "closing", "down"}
    /\ epoch \in Nat /\ revision \in Nat
    /\ mu \in Caster \cup {Nobody} /\ clients \subseteq Conn
    /\ cast \in [Caster -> {"idle", "made", "sending"}]
    /\ todo \in [Caster -> SUBSET Conn]
    /\ expired \in [Caster -> BOOLEAN]
    /\ serve \in [Conn -> {"gone", "accepted", "added", "reading"}]
    /\ link \in [Conn -> {"open", "closed"}]
    /\ inbox \in [Conn -> Nat]
    /\ conn \in [Watcher -> Conn \cup {NoConn}]
    /\ fetch \in [Watcher -> [Goroutine -> {"idle", "asked", "answered", "stored"}]]
    /\ got \in [Watcher -> [Goroutine -> State \cup {NoState}]]
    /\ held \in [Watcher -> State \cup {NoState}]
    /\ acted \in [Watcher -> State \cup {NoState}]

\* A client is in the hub only while its handler is there to remove it, and a
\* broadcast writes only to such clients.
NoGhostClients ==
    /\ \A c \in clients : serve[c] \in {"added", "reading"}
    /\ \A k \in Caster : todo[k] \subseteq clients /\ (todo[k] # {} => mu = k)

\* No wake-up is lost: when a connected watcher has read all messages and no
\* broadcast to it is under way, its WebSocket goroutine has fetched the
\* current state, as long as no fetch fails.
Notified(w) ==
    LET c == conn[w] IN
    /\ Reading(w) /\ inbox[c] = 0 /\ link[c] = "open" /\ serve[c] = "reading"
    /\ \A k \in Caster : cast[k] # "made" /\ c \notin todo[k]
NoLostWakeup ==
    process = "up" => \A w \in Watcher : Notified(w) => got[w]["ws"] = Current

\* Without polling: the WebSocket goroutine ends up having fetched the current
\* state, through dropped clients, broken connections and council restarts.
WakesUp == \A w \in Watcher : <>[](got[w]["ws"] = Current)

\* Without the WebSocket: a watcher ends up holding the current state, also
\* when a slow answer of the other goroutine overwrote it with an older one.
CatchesUp == \A w \in Watcher : <>[](held[w] = Current)

\* The watcher implements Feed.
Promise == INSTANCE Feed WITH known <- [w \in Watcher |-> held[w].revision]
FeedKept == Promise!FeedSpec
=============================================================================
