---------------------------- MODULE NotifyProofs ----------------------------
(***************************************************************************)
(* The notification path for every number of watchers, casters and         *)
(* connections: the hub knows only clients it serves, no wake-up is lost,  *)
(* and what a watcher holds is a state its council had (Feed).             *)
(***************************************************************************)
EXTENDS Notify, TLAPS

Typed == TypeOK /\ left \in [breaks : Nat, fails : 0..MaxFails, exits : Nat]

\* A connection that is open and served is a client; a process that is gone
\* leaves none open; and no two watchers read the same one.
Links ==
    /\ process = "down" => \A c \in Conn : link[c] = "closed"
    /\ process = "up" => \A c \in Conn :
          serve[c] \in {"added", "reading"} /\ link[c] = "open" => c \in clients
    /\ \A w, v \in Watcher : conn[w] = conn[v] /\ conn[w] # NoConn => w = v

\* hub.mu is held by the caster that sends, and by no other.
Sending == \A k \in Caster : mu = k <=> cast[k] = "sending"

\* A watcher whose connection works has a request or a message under way, or is
\* about to get one, or it has fetched the current state.
Told(w) ==
    LET c == conn[w] IN
    c # NoConn /\ link[c] = "open" /\ serve[c] = "reading" =>
        \/ fetch[w]["ws"] = "asked"
        \/ inbox[c] > 0
        \/ \E k \in Caster : cast[k] = "made" \/ c \in todo[k]
        \/ got[w]["ws"] = Current

\* Until a fetch fails.
Woken == process = "up" /\ left.fails = MaxFails => \A w \in Watcher : Told(w)

\* An answer is a state of the council: of this process if there was no other.
Answers ==
    \A w \in Watcher, g \in Goroutine : fetch[w][g] \in {"answered", "stored"} =>
        /\ got[w][g] \in State
        /\ epoch = 0 => got[w][g].revision <= revision

Inv == Typed /\ NoGhostClients /\ Sending /\ Links /\ Woken /\ Answers

LEMMA InitInv == Init => Inv
<1> SUFFICES ASSUME Init PROVE Inv
  OBVIOUS
<1> USE PartsAssumption, BoundAssumption DEF Init
<1>1. NoState \in State \cup {NoState}
  OBVIOUS
<1>2. Typed
  BY <1>1 DEF Typed, TypeOK
<1>3. NoGhostClients
  BY DEF NoGhostClients
<1>4. Sending /\ Links
  BY DEF Sending, Links
<1>5. Woken
  BY DEF Woken, Told
<1>6. Answers
  BY DEF Answers
<1> QED  BY <1>2, <1>3, <1>4, <1>5, <1>6 DEF Inv

-----------------------------------------------------------------------------
(* Changes and broadcasts.                                                  *)

Failures == [breaks : Nat, fails : 0..MaxFails, exits : Nat]

\* A broken connection or an expired context uses up one of the failures.
LEMMA BreakCounted ==
    ASSUME left \in Failures, left.breaks > 0, left' = [left EXCEPT !.breaks = @ - 1]
    PROVE  left' \in Failures
<1>1. left = [breaks |-> left.breaks, fails |-> left.fails, exits |-> left.exits]
      /\ left.breaks \in Nat /\ left.fails \in 0..MaxFails /\ left.exits \in Nat
  BY DEF Failures
<1>2. left.breaks - 1 \in Nat
  BY <1>1
<1>3. left' = [breaks |-> left.breaks - 1, fails |-> left.fails, exits |-> left.exits]
  BY <1>1
<1> QED  BY ONLY <1>1, <1>2, <1>3 DEF Failures

LEMMA CasterTyped ==
    ASSUME Typed, NEW k \in Caster, Change(k) \/ Expire(k) \/ Sends(k)
    PROVE  Typed'
<1> USE PartsAssumption, BoundAssumption DEF Typed, TypeOK, council, wires, reader
<1>1. CASE Change(k)
  BY <1>1 DEF Change
<1>2. CASE Expire(k)
  <2>1. left.breaks > 0 /\ left' = [left EXCEPT !.breaks = @ - 1]
    BY ONLY <1>2 DEF Expire
  <2>3. left' \in [breaks : Nat, fails : 0..MaxFails, exits : Nat]
    BY ONLY Typed, <2>1, BreakCounted DEF Typed, Failures
  <2>2. expired' \in [Caster -> BOOLEAN]
    BY <1>2 DEF Expire
  <2> QED  BY <1>2, <2>2, <2>3 DEF Expire
<1>3. CASE Begin(k)
  <2>1. mu' \in Caster \cup {Nobody}
    BY <1>3 DEF Begin
  <2>2. cast' \in [Caster -> {"idle", "made", "sending"}]
    BY <1>3 DEF Begin
  <2>3. todo' \in [Caster -> SUBSET Conn]
    BY <1>3 DEF Begin
  <2> QED  BY <1>3, <2>1, <2>2, <2>3 DEF Begin
<1>6. CASE End(k)
  <2>1. cast' \in [Caster -> {"idle", "made", "sending"}]
    BY <1>6 DEF End
  <2>2. expired' \in [Caster -> BOOLEAN]
    BY <1>6 DEF End
  <2> QED  BY <1>6, <2>1, <2>2 DEF End
<1>4. ASSUME NEW c \in Conn, WriteOk(k, c) PROVE Typed'
  <2>1. inbox' \in [Conn -> Nat] /\ todo' \in [Caster -> SUBSET Conn]
    BY <1>4 DEF WriteOk
  <2> QED  BY <1>4, <2>1 DEF WriteOk
<1>5. ASSUME NEW c \in Conn, WriteFailed(k, c) PROVE Typed'
  <2>1. /\ link' \in [Conn -> {"open", "closed"}]
        /\ todo' \in [Caster -> SUBSET Conn]
        /\ clients' \subseteq Conn
    BY <1>5 DEF WriteFailed
  <2> QED  BY <1>5, <2>1 DEF WriteFailed
<1> QED  BY <1>1, <1>2, <1>3, <1>4, <1>5, <1>6 DEF Sends

\* Only the caster that holds hub.mu has clients to write to, and a client it
\* cannot write to leaves the hub with its connection closed.
LEMMA CasterHub ==
    ASSUME Inv, NEW k \in Caster, Change(k) \/ Expire(k) \/ Sends(k)
    PROVE  NoGhostClients' /\ Sending' /\ Links'
<1> USE PartsAssumption DEF Inv, Typed, TypeOK, council, wires, reader
<1>1. CASE Change(k) \/ Expire(k)
  BY <1>1 DEF Change, Expire, NoGhostClients, Sending, Links
<1>2. CASE Begin(k) \/ End(k)
  <2>1. Sending'
    BY <1>2 DEF Begin, End, Sending
  <2>2. NoGhostClients'
    BY <1>2 DEF Begin, End, NoGhostClients
  <2>3. Links'
    BY <1>2 DEF Begin, End, Links
  <2> QED  BY <2>1, <2>2, <2>3
<1>3. ASSUME NEW c \in Conn, WriteOk(k, c) PROVE NoGhostClients' /\ Sending' /\ Links'
  <2>1. NoGhostClients' /\ Sending'
    BY <1>3 DEF WriteOk, NoGhostClients, Sending
  <2>2. Links'
    BY <1>3 DEF WriteOk, Links
  <2> QED  BY <2>1, <2>2
<1>4. ASSUME NEW c \in Conn, WriteFailed(k, c) PROVE NoGhostClients' /\ Sending' /\ Links'
  <2>1. NoGhostClients' /\ Sending'
    BY <1>4 DEF WriteFailed, NoGhostClients, Sending
  <2>2. Links'
    BY <1>4 DEF WriteFailed, Links
  <2> QED  BY <2>1, <2>2
<1> QED  BY <1>1, <1>2, <1>3, <1>4 DEF Sends

\* A change is announced to every client that is open: it is made, then the
\* client is on the list, then the message is in its inbox.
LEMMA CasterWakes ==
    ASSUME Inv, NEW k \in Caster, Change(k) \/ Expire(k) \/ Sends(k)
    PROVE  Woken'
<1> SUFFICES ASSUME process' = "up", left'.fails = MaxFails, NEW w \in Watcher,
                    conn'[w] # NoConn, link'[conn'[w]] = "open",
                    serve'[conn'[w]] = "reading"
             PROVE  Told(w)'
  BY DEF Woken, Told
<1> DEFINE c == conn[w]
<1>1. /\ c \in Conn /\ c # NoConn /\ serve[c] = "reading" /\ conn'[w] = c
      /\ process = "up"
  BY DEF Inv, Typed, TypeOK, Change, Expire, Sends, Begin, End, WriteOk, WriteFailed,
         council, wires
<1>2. link[c] = "open"
  BY <1>1 DEF Inv, Typed, TypeOK, Change, Expire, Sends, Begin, End, WriteOk, WriteFailed,
              wires
<1>3. left.fails = MaxFails
  BY DEF Inv, Typed, Change, Expire, Sends, Begin, End, WriteOk, WriteFailed
<1>4. Told(w)
  BY <1>1, <1>2, <1>3 DEF Inv, Woken
<1>5. CASE Change(k)
  <2>1. cast'[k] = "made"
    BY <1>5 DEF Change, Inv, Typed, TypeOK
  <2> QED  BY <2>1 DEF Told
<1>6. CASE Expire(k)
  BY <1>4, <1>6 DEF Expire, Told, Current, council, wires, reader
<1>7. CASE Begin(k)
  <2>1. c \in clients
    BY <1>1, <1>2 DEF Inv, Links
  <2>2. c \in todo'[k]
    BY <1>7, <2>1 DEF Begin, Inv, Typed, TypeOK
  <2> QED  BY <1>1, <2>2 DEF Told
<1>8. CASE End(k)
  <2>1. cast[k] # "made" /\ todo[k] = {} /\ todo' = todo
    BY <1>8 DEF End, Inv, Sending
  <2>2. \A j \in Caster : j # k => cast'[j] = cast[j]
    BY <1>8 DEF End, Inv, Typed, TypeOK
  <2>3. (\E j \in Caster : cast[j] = "made" \/ c \in todo[j])
           => \E j \in Caster : cast'[j] = "made" \/ c \in todo'[j]
    BY <2>1, <2>2
  <2> QED  BY <1>1, <1>4, <1>8, <2>3 DEF End, Told, Current, council, wires, reader
<1>9. ASSUME NEW b \in Conn, WriteOk(k, b) PROVE Told(w)'
  BY <1>1, <1>2, <1>4, <1>9
     DEF WriteOk, Told, Current, council, wires, reader, Inv, Typed, TypeOK
<1>10. ASSUME NEW b \in Conn, WriteFailed(k, b) PROVE Told(w)'
  BY <1>1, <1>2, <1>4, <1>10
     DEF WriteFailed, Told, Current, council, wires, reader, Inv, Typed, TypeOK
<1> QED  BY <1>5, <1>6, <1>7, <1>8, <1>9, <1>10 DEF Sends

-----------------------------------------------------------------------------
(* Handlers of connections, and connections that break.                     *)

LEMMA ServeTyped ==
    ASSUME Typed, NEW c \in Conn, Serves(c) \/ Break(c)
    PROVE  Typed'
<1> USE DEF Typed, TypeOK, council, hubvars, reader
<1>1. CASE Add(c)
  BY <1>1 DEF Add
<1>2. CASE Hello(c)
  <2>1. inbox' \in [Conn -> Nat]
    BY <1>2 DEF Hello
  <2>2. serve' \in [Conn -> {"gone", "accepted", "added", "reading"}]
    BY <1>2 DEF Hello
  <2> QED  BY <1>2, <2>1, <2>2 DEF Hello
<1>3. CASE Leave(c)
  BY <1>3 DEF Leave
<1>4. CASE Break(c)
  <2>1. left.breaks > 0 /\ left' = [left EXCEPT !.breaks = @ - 1]
    BY ONLY <1>4 DEF Break
  <2>2. left' \in [breaks : Nat, fails : 0..MaxFails, exits : Nat]
    BY ONLY Typed, <2>1, BreakCounted DEF Typed, Failures
  <2> QED  BY <1>4, <2>2 DEF Break
<1> QED  BY <1>1, <1>2, <1>3, <1>4 DEF Serves

\* A handler leaves only while nobody broadcasts, so no list still has its client.
LEMMA ServeHub ==
    ASSUME Inv, NEW c \in Conn, Serves(c) \/ Break(c)
    PROVE  NoGhostClients' /\ Sending' /\ Links'
<1> USE PartsAssumption DEF Inv, Typed, TypeOK
<1>1. Sending'
  BY DEF Serves, Add, Hello, Leave, Break, Sending, hubvars
<1>2. NoGhostClients'
  BY DEF Serves, Add, Hello, Leave, Break, NoGhostClients, hubvars
<1>3. CASE Add(c)
  BY <1>1, <1>2, <1>3 DEF Add, Links, council
<1>4. CASE Hello(c)
  BY <1>1, <1>2, <1>4 DEF Hello, Links, council, hubvars
<1>5. CASE Leave(c)
  BY <1>1, <1>2, <1>5 DEF Leave, Links, council
<1>6. CASE Break(c)
  BY <1>1, <1>2, <1>6 DEF Break, Links, council, hubvars
<1> QED  BY <1>3, <1>4, <1>5, <1>6 DEF Serves

\* The first message a handler writes covers all changes before it.
LEMMA ServeWakes ==
    ASSUME Inv, NEW c \in Conn, Serves(c) \/ Break(c)
    PROVE  Woken'
<1> SUFFICES ASSUME process' = "up", left'.fails = MaxFails, NEW w \in Watcher,
                    conn'[w] # NoConn, link'[conn'[w]] = "open",
                    serve'[conn'[w]] = "reading"
             PROVE  Told(w)'
  BY DEF Woken, Told
<1> DEFINE b == conn[w]
<1>1. /\ b \in Conn /\ b # NoConn /\ conn'[w] = b
      /\ process = "up" /\ left.fails = MaxFails
      /\ UNCHANGED <<cast, todo, fetch, got, revision, epoch>>
  BY DEF Inv, Typed, TypeOK, Serves, Add, Hello, Leave, Break, council, hubvars, reader
<1>2. link[b] = "open"
  BY <1>1 DEF Inv, Typed, TypeOK, Serves, Add, Hello, Leave, Break
<1>3. CASE Hello(c) /\ b = c
  <2>1. inbox'[b] > 0
    BY <1>1, <1>2, <1>3 DEF Hello, Inv, Typed, TypeOK
  <2> QED  BY <1>1, <2>1 DEF Told
<1>4. CASE ~(Hello(c) /\ b = c)
  <2>1. serve[b] = "reading" /\ inbox'[b] = inbox[b]
    BY <1>1, <1>4 DEF Serves, Add, Hello, Leave, Break, Inv, Typed, TypeOK
  <2>2. Told(w)
    BY <1>1 DEF Inv, Woken
  <2> QED  BY <1>1, <1>2, <2>1, <2>2 DEF Told, Current
<1> QED  BY <1>3, <1>4

-----------------------------------------------------------------------------
(* The council process.                                                     *)

ProcessStep == Stop \/ CloseAll \/ Exit \/ Crash \/ Start

LEMMA ProcessTyped ==
    ASSUME Typed, ProcessStep
    PROVE  Typed'
<1> USE DEF Typed, TypeOK, wires, hubvars, reader
<1>1. CASE Stop
  <2>1. left' \in [breaks : Nat, fails : 0..MaxFails, exits : Nat]
    BY <1>1 DEF Stop
  <2> QED  BY <1>1, <2>1 DEF Stop
<1>2. CASE CloseAll
  BY <1>2 DEF CloseAll
<1>3. CASE Exit \/ Crash
  <2>1. left' \in [breaks : Nat, fails : 0..MaxFails, exits : Nat]
    BY <1>3 DEF Exit, Crash
  <2>2. Gone
    BY <1>3 DEF Exit, Crash
  <2> QED  BY <2>1, <2>2 DEF Gone
<1>4. CASE Start
  BY <1>4 DEF Start
<1> QED  BY <1>1, <1>2, <1>3, <1>4 DEF ProcessStep

\* A process that is up again finds every connection of the last one closed.
LEMMA ProcessKeeps ==
    ASSUME Inv, ProcessStep
    PROVE  NoGhostClients' /\ Sending' /\ Links' /\ Woken' /\ Answers'
<1> USE PartsAssumption DEF Inv, wires, hubvars, reader
<1>1. CASE Stop
  BY <1>1 DEF Stop, NoGhostClients, Sending, Links, Woken, Answers
<1>2. CASE CloseAll
  <2>1. NoGhostClients' /\ Sending'
    BY <1>2 DEF CloseAll, NoGhostClients, Sending
  <2>2. Links' /\ Woken' /\ Answers'
    BY <1>2 DEF CloseAll, Links, Woken, Answers
  <2> QED  BY <2>1, <2>2
<1>3. CASE Exit \/ Crash
  <2>1. Gone
    BY <1>3 DEF Exit, Crash
  <2>2. NoGhostClients' /\ Sending'
    BY <2>1 DEF Gone, NoGhostClients, Sending
  <2>3. Links' /\ Woken' /\ Answers'
    BY <2>1 DEF Gone, Links, Woken, Answers
  <2> QED  BY <2>2, <2>3
<1>4. CASE Start
  <2>1. NoGhostClients' /\ Sending'
    BY <1>4 DEF Start, NoGhostClients, Sending
  <2>2. \A c \in Conn : link'[c] = "closed"
    BY <1>4 DEF Start, Links
  <2>3. Links'
    BY <1>4, <2>2 DEF Start, Links
  <2>4. Woken'
    BY <1>4, <2>2 DEF Start, Woken, Told, Typed, TypeOK
  <2>5. epoch' # 0
    BY <1>4 DEF Start, Typed, TypeOK
  <2>6. Answers'
    BY <1>4, <2>5 DEF Start, Answers
  <2> QED  BY <2>1, <2>3, <2>4, <2>6
<1> QED  BY <1>1, <1>2, <1>3, <1>4 DEF ProcessStep

-----------------------------------------------------------------------------
(* Watchers.                                                                *)

LEMMA ListensTyped ==
    ASSUME Typed, NEW w \in Watcher, Listens(w)
    PROVE  Typed'
<1> USE DEF Typed, TypeOK, council, hubvars, reader
<1>1. CASE Dial(w)
  BY <1>1 DEF Dial, Unused
<1>2. CASE Receive(w)
  <2>1. conn[w] \in Conn /\ inbox' \in [Conn -> Nat]
    BY <1>2 DEF Receive, Reading
  <2>2. fetch' \in [Watcher -> [Goroutine -> {"idle", "asked", "answered", "stored"}]]
    BY <1>2 DEF Receive, Goroutine
  <2> QED  BY <1>2, <2>1, <2>2 DEF Receive
<1>3. CASE Disconnected(w)
  BY <1>3 DEF Disconnected
<1> QED  BY <1>1, <1>2, <1>3 DEF Listens

\* A connection is dialled only when both its ends are gone.
LEMMA ListensHub ==
    ASSUME Inv, NEW w \in Watcher, Listens(w)
    PROVE  NoGhostClients' /\ Sending' /\ Links' /\ Answers'
<1> USE DEF Inv, Typed, TypeOK, council, hubvars
<1>1. CASE Dial(w)
  <2>1. PICK c \in Unused :
          /\ conn' = [conn EXCEPT ![w] = c]
          /\ serve' = [serve EXCEPT ![c] = "accepted"]
          /\ link' = [link EXCEPT ![c] = "open"]
    BY <1>1 DEF Dial
  <2>2. c \in Conn /\ serve[c] = "gone" /\ \A v \in Watcher : conn[v] # c
    BY DEF Unused
  <2>3. NoGhostClients' /\ Sending'
    BY <1>1, <2>1, <2>2 DEF Dial, NoGhostClients, Sending
  <2>4. Links'
    BY <1>1, <2>1, <2>2 DEF Dial, Links
  <2>5. Answers'
    BY <1>1 DEF Dial, Answers, reader
  <2> QED  BY <2>3, <2>4, <2>5
<1>2. CASE Receive(w)
  <2>1. NoGhostClients' /\ Sending' /\ Links'
    BY <1>2 DEF Receive, NoGhostClients, Sending, Links
  <2>2. Answers'
    BY <1>2 DEF Receive, Answers, Goroutine
  <2> QED  BY <2>1, <2>2
<1>3. CASE Disconnected(w)
  <2>1. NoGhostClients' /\ Sending' /\ Answers'
    BY <1>3 DEF Disconnected, NoGhostClients, Sending, Answers, reader
  <2>2. Links'
    BY <1>3 DEF Disconnected, Links
  <2> QED  BY <2>1, <2>2
<1> QED  BY <1>1, <1>2, <1>3 DEF Listens

\* A message is taken from the inbox only to ask for the state.
LEMMA ListensWakes ==
    ASSUME Inv, NEW w \in Watcher, Listens(w)
    PROVE  Woken'
<1> SUFFICES ASSUME process' = "up", left'.fails = MaxFails, NEW v \in Watcher,
                    conn'[v] # NoConn, link'[conn'[v]] = "open",
                    serve'[conn'[v]] = "reading"
             PROVE  Told(v)'
  BY DEF Woken, Told
<1> USE DEF Inv, Typed, TypeOK, council, hubvars
<1>1. process = "up" /\ left.fails = MaxFails /\ UNCHANGED <<cast, todo, got, revision, epoch>>
  BY DEF Listens, Dial, Receive, Disconnected, reader
<1>2. Told(v)
  BY <1>1 DEF Woken
<1>3. CASE Dial(w)
  <2>1. PICK c \in Unused :
          /\ conn' = [conn EXCEPT ![w] = c]
          /\ serve' = [serve EXCEPT ![c] = "accepted"]
          /\ link' = [link EXCEPT ![c] = "open"]
          /\ inbox' = [inbox EXCEPT ![c] = 0]
    BY <1>3 DEF Dial
  <2>2. c \in Conn /\ \A u \in Watcher : conn[u] # c
    BY DEF Unused
  <2>3. v # w /\ conn'[v] = conn[v] /\ conn[v] \in Conn
    BY <2>1, <2>2
  <2>4. /\ link'[conn[v]] = link[conn[v]] /\ serve'[conn[v]] = serve[conn[v]]
        /\ inbox'[conn[v]] = inbox[conn[v]]
    BY <2>1, <2>2, <2>3
  <2> QED  BY <1>1, <1>2, <1>3, <2>3, <2>4 DEF Dial, Told, Current, reader
<1>4. CASE Receive(w)
  <2>1. CASE v = w
    <3>1. fetch'[w]["ws"] = "asked"
      BY <1>4 DEF Receive, Goroutine
    <3> QED  BY <2>1, <3>1 DEF Told
  <2>2. CASE v # w
    <3>1. conn[w] # conn[v] /\ conn'[v] = conn[v]
      BY <1>4, <2>2 DEF Receive, Reading, Links
    <3>2. inbox'[conn[v]] = inbox[conn[v]] /\ fetch'[v] = fetch[v]
      BY <1>4, <2>2, <3>1 DEF Receive
    <3> QED  BY <1>1, <1>2, <1>4, <3>1, <3>2 DEF Receive, Told, Current
  <2> QED  BY <2>1, <2>2
<1>5. CASE Disconnected(w)
  <2>1. v # w /\ conn'[v] = conn[v]
    BY <1>5 DEF Disconnected
  <2> QED  BY <1>1, <1>2, <1>5, <2>1 DEF Disconnected, Told, Current, reader
<1> QED  BY <1>3, <1>4, <1>5 DEF Listens

-----------------------------------------------------------------------------
(* doFetchState.                                                            *)

FetchStep == \E w \in Watcher : Poll(w) \/ \E g \in Goroutine : Fetches(w, g)

\* What is kept per watcher and goroutine is changed for one goroutine only.
LEMMA OneGoroutine ==
    ASSUME NEW S, NEW f \in [Watcher -> [Goroutine -> S]],
           NEW w \in Watcher, NEW g \in Goroutine, NEW x \in S
    PROVE  /\ [f EXCEPT ![w][g] = x] \in [Watcher -> [Goroutine -> S]]
           /\ \A v \in Watcher, h \in Goroutine : [f EXCEPT ![w][g] = x][v][h] =
                  IF v = w /\ h = g THEN x ELSE f[v][h]
  OBVIOUS

LEMMA OneFailLess ==
    ASSUME left \in [breaks : Nat, fails : 0..MaxFails, exits : Nat], left.fails > 0
    PROVE  [left EXCEPT !.fails = @ - 1] \in [breaks : Nat, fails : 0..MaxFails, exits : Nat]
  BY BoundAssumption

LEMMA CurrentTyped == Typed => Current \in State
  BY DEF Typed, TypeOK, Current, State

LEMMA FetchTyped ==
    ASSUME Typed, FetchStep
    PROVE  Typed'
<1> DEFINE Steps == {"idle", "asked", "answered", "stored"}
<1> USE DEF Typed, TypeOK, council, hubvars, wires
<1>1. ASSUME NEW w \in Watcher, Poll(w) PROVE Typed'
  <2>1. fetch' \in [Watcher -> [Goroutine -> Steps]]
    BY <1>1 DEF Poll
  <2> QED  BY <1>1, <2>1 DEF Poll
<1>2. ASSUME NEW w \in Watcher, NEW g \in Goroutine, Fetches(w, g) PROVE Typed'
  <2>1. fetch' \in [Watcher -> [Goroutine -> Steps]]
    <3>1. \E x \in Steps : fetch' = [fetch EXCEPT ![w][g] = x]
      BY <1>2 DEF Fetches, Answer, Failed, Store, Call
    <3> QED  BY <3>1, OneGoroutine
  <2>2. got' \in [Watcher -> [Goroutine -> State \cup {NoState}]]
    <3>1. got' = [got EXCEPT ![w][g] = Current] \/ got' = got
      BY <1>2 DEF Fetches, Answer, Failed, Store, Call
    <3> DEFINE States == State \cup {NoState}
    <3>2. Current \in States /\ got \in [Watcher -> [Goroutine -> States]]
      BY CurrentTyped
    <3> HIDE DEF States
    <3>3. [got EXCEPT ![w][g] = Current] \in [Watcher -> [Goroutine -> States]]
      BY <3>2
    <3>4. got' \in [Watcher -> [Goroutine -> States]]
      BY <3>1, <3>2, <3>3
    <3> QED  BY <3>4 DEF States
  <2>3. got[w][g] \in State \cup {NoState}
    OBVIOUS
  <2>4. held' \in [Watcher -> State \cup {NoState}]
    BY <1>2, <2>3 DEF Fetches, Answer, Failed, Store, Call
  <2>5. acted' \in [Watcher -> State \cup {NoState}]
    BY <1>2, <2>3 DEF Fetches, Answer, Failed, Store, Call
  <2>6. left' \in [breaks : Nat, fails : 0..MaxFails, exits : Nat]
    <3>1. \/ left' = left
          \/ left.fails > 0 /\ left' = [left EXCEPT !.fails = @ - 1]
      BY <1>2 DEF Fetches, Answer, Failed, Store, Call
    <3> QED  BY <3>1, OneFailLess
  <2> QED
    BY <1>2, <2>1, <2>2, <2>4, <2>5, <2>6 DEF Fetches, Answer, Failed, Store, Call
<1> QED  BY <1>1, <1>2 DEF FetchStep

\* An answer is encoded under the read lock: it is the state of that moment.
LEMMA FetchAnswers ==
    ASSUME Inv, FetchStep
    PROVE  Answers'
<1> USE DEF Inv, Typed, TypeOK, council, hubvars, wires
<1>1. ASSUME NEW w \in Watcher, Poll(w) PROVE Answers'
  BY <1>1 DEF Poll, Answers
<1>2. ASSUME NEW w \in Watcher, NEW g \in Goroutine, Answer(w, g) PROVE Answers'
  <2>1. Current \in State /\ Current.revision = revision
    BY CurrentTyped DEF Current
  <2> QED  BY <1>2, <2>1 DEF Answer, Answers
<1>3. ASSUME NEW w \in Watcher, NEW g \in Goroutine,
             Failed(w, g) \/ Store(w, g) \/ Call(w, g)
      PROVE  Answers'
  <2>1. UNCHANGED <<got, epoch, revision>>
    BY <1>3 DEF Failed, Store, Call
  <2>2. \/ fetch' = [fetch EXCEPT ![w][g] = "idle"]
        \/ fetch[w][g] = "answered" /\ fetch' = [fetch EXCEPT ![w][g] = "stored"]
    BY <1>3 DEF Failed, Store, Call
  <2>3. \A v \in Watcher, h \in Goroutine : fetch'[v][h] \in {"answered", "stored"}
           => fetch[v][h] \in {"answered", "stored"}
    <3> DEFINE Steps == {"idle", "asked", "answered", "stored"}
    <3>1. fetch \in [Watcher -> [Goroutine -> Steps]]
      OBVIOUS
    <3>2. PICK x \in {"idle", "stored"} :
            /\ x = "stored" => fetch[w][g] = "answered"
            /\ fetch' = [fetch EXCEPT ![w][g] = x]
      BY <2>2
    <3>3. \A v \in Watcher, h \in Goroutine :
              fetch'[v][h] = IF v = w /\ h = g THEN x ELSE fetch[v][h]
      BY <3>1, <3>2, OneGoroutine
    <3> QED  BY <3>2, <3>3
  <2> QED  BY <2>1, <2>3 DEF Answers
<1> QED  BY <1>1, <1>2, <1>3 DEF FetchStep, Fetches

LEMMA FetchWakes ==
    ASSUME Inv, FetchStep
    PROVE  Woken'
<1> SUFFICES ASSUME process' = "up", left'.fails = MaxFails, NEW v \in Watcher
             PROVE  Told(v)'
  BY DEF Woken
<1> USE DEF Inv, Typed, TypeOK
<1>1. UNCHANGED <<council, hubvars, wires>>
  BY DEF FetchStep, Poll, Fetches, Answer, Failed, Store, Call
<1>2. process = "up" /\ left.fails = MaxFails
  BY <1>1, BoundAssumption
     DEF FetchStep, Poll, Fetches, Answer, Failed, Store, Call, council
<1>3. Told(v)
  BY <1>2 DEF Woken
<1>4. ASSUME NEW w \in Watcher, Poll(w) PROVE Told(v)'
  <2>1. fetch'[v]["ws"] = fetch[v]["ws"]
    BY <1>4 DEF Poll, Goroutine
  <2> QED  BY <1>1, <1>3, <1>4, <2>1 DEF Poll, Told, Current, council, hubvars, wires
<1>5. ASSUME NEW w \in Watcher, NEW g \in Goroutine, Fetches(w, g) PROVE Told(v)'
  <2>1. CASE w = v /\ g = "ws" /\ Answer(w, g)
    <3>1. got'[v]["ws"] = Current
      BY <2>1 DEF Answer
    <3> QED  BY <1>1, <3>1 DEF Told, Current, council
  <2>2. CASE w = v /\ g = "ws" /\ ~Answer(w, g)
    <3>1. ~Failed(w, g)
      BY <1>2, BoundAssumption, <1>1 DEF Failed
    <3>2. fetch[v]["ws"] # "asked" /\ got' = got
      BY <1>5, <2>2, <3>1 DEF Fetches, Store, Call
    <3> QED  BY <1>1, <1>3, <3>2 DEF Told, Current, council, hubvars, wires
  <2>3. CASE ~(w = v /\ g = "ws")
    <3>1. fetch'[v]["ws"] = fetch[v]["ws"] /\ got'[v]["ws"] = got[v]["ws"]
      <4>1. /\ \E x : fetch' = [fetch EXCEPT ![w][g] = x]
            /\ got' = got \/ got' = [got EXCEPT ![w][g] = Current]
        BY ONLY <1>5 DEF Fetches, Answer, Failed, Store, Call
      <4>2. "ws" \in Goroutine
        BY DEF Goroutine
      <4>3. /\ fetch \in [Watcher -> [Goroutine -> {"idle", "asked", "answered", "stored"}]]
            /\ got \in [Watcher -> [Goroutine -> State \cup {NoState}]]
        OBVIOUS
      <4> QED  BY ONLY <2>3, <4>1, <4>2, <4>3, v \in Watcher, w \in Watcher, g \in Goroutine
    <3> QED  BY <1>1, <1>3, <3>1 DEF Told, Current, council, hubvars, wires
  <2> QED  BY <2>1, <2>2, <2>3
<1> QED  BY <1>4, <1>5 DEF FetchStep

-----------------------------------------------------------------------------

LEMMA NextInv == Inv /\ [Next]_vars => Inv'
<1> SUFFICES ASSUME Inv, [Next]_vars PROVE Inv'
  OBVIOUS
<1> USE DEF Inv
<1>1. ASSUME NEW k \in Caster, Change(k) \/ Expire(k) \/ Sends(k) PROVE Inv'
  <2>1. UNCHANGED reader /\ epoch' = epoch /\ revision' \in Nat /\ revision <= revision'
    BY <1>1 DEF Change, Expire, Sends, Begin, End, WriteOk, WriteFailed, council,
                Typed, TypeOK
  <2>2. Answers'
    BY <2>1 DEF Answers, reader, State, Typed, TypeOK
  <2> QED  BY <1>1, <2>2, CasterTyped, CasterHub, CasterWakes
<1>2. ASSUME NEW c \in Conn, Serves(c) \/ Break(c) PROVE Inv'
  <2>1. Answers'
    BY <1>2 DEF Serves, Add, Hello, Leave, Break, Answers, council, reader
  <2> QED  BY <1>2, <2>1, ServeTyped, ServeHub, ServeWakes
<1>3. CASE ProcessStep
  BY <1>3, ProcessTyped, ProcessKeeps
<1>4. ASSUME NEW w \in Watcher, Listens(w) PROVE Inv'
  BY <1>4, ListensTyped, ListensHub, ListensWakes
<1>5. CASE FetchStep
  <2>1. UNCHANGED <<council, hubvars, wires>>
    BY <1>5 DEF FetchStep, Poll, Fetches, Answer, Failed, Store, Call
  <2>2. NoGhostClients' /\ Sending' /\ Links'
    BY <2>1 DEF NoGhostClients, Sending, Links, council, hubvars, wires
  <2> QED  BY <1>5, <2>2, FetchTyped, FetchAnswers, FetchWakes
<1>6. CASE UNCHANGED vars
  <2> USE <1>6 DEF vars, council, hubvars, wires, reader
  <2>1. Typed'
    BY DEF Typed, TypeOK
  <2>2. NoGhostClients' /\ Sending' /\ Links'
    BY DEF NoGhostClients, Sending, Links
  <2>3. Woken' /\ Answers'
    BY DEF Woken, Told, Current, Answers
  <2> QED  BY <2>1, <2>2, <2>3
<1> QED
  BY <1>1, <1>2, <1>3, <1>4, <1>5, <1>6 DEF Next, ProcessStep, FetchStep

LEMMA Invariance == Spec => []Inv
  BY InitInv, NextInv, PTL DEF Spec

-----------------------------------------------------------------------------

\* The hub, its connections and the watchers have their types.
THEOREM TypeSafe == Spec => []TypeOK
<1>1. Inv => TypeOK
  BY DEF Inv, Typed
<1> QED  BY <1>1, Invariance, PTL

\* A client of the hub has a handleWebSocket that removes it, and Broadcast
\* writes to clients only, by one caster at a time.
THEOREM NoGhosts == Spec => []NoGhostClients
<1>1. Inv => NoGhostClients
  BY DEF Inv
<1> QED  BY <1>1, Invariance, PTL

\* Until a fetch fails, a connected watcher that has read all its messages has
\* fetched the current state: no step between the change, the broadcast, a
\* handler's first message and doFetchState loses the wake-up.
THEOREM WakeupsKept == Spec => [](left.fails = MaxFails => NoLostWakeup)
<1>1. Inv => (left.fails = MaxFails => NoLostWakeup)
  <2> SUFFICES ASSUME Inv, left.fails = MaxFails, process = "up",
                      NEW w \in Watcher, Notified(w)
               PROVE  got[w]["ws"] = Current
    BY DEF NoLostWakeup
  <2>1. Told(w)
    BY DEF Inv, Woken
  <2> QED  BY <2>1 DEF Told, Notified, Reading
<1> QED  BY <1>1, Invariance, PTL

-----------------------------------------------------------------------------
(* Refinement of Feed.                                                      *)

\* A step of the council or of a watcher is a step of the promise or none: the
\* only one that changes what is known is Store, and it stores an answer.
LEMMA FeedStep ==
    ASSUME Inv, Inv', epoch = 0, epoch' = 0, [Next]_vars
    PROVE  [Promise!FeedNext]_(Promise!feed)
<1> USE DEF Promise!FeedNext, Promise!Change, Promise!Learn, Promise!feed
<1>1. ASSUME NEW k \in Caster, Change(k) PROVE Promise!Change
  BY <1>1 DEF Change, reader
<1>2. ASSUME NEW w \in Watcher, NEW g \in Goroutine, Store(w, g), held' # held
      PROVE  Promise!Learn(w)
  <2>1. got[w][g] \in State /\ got[w][g].revision \in 0..revision
    BY <1>2 DEF Inv, Typed, TypeOK, Answers, Store, State
  <2>2. held' = [held EXCEPT ![w] = got[w][g]] /\ revision' = revision
    BY <1>2 DEF Store, council
  <2>3. [v \in Watcher |-> held'[v].revision]
          = [[v \in Watcher |-> held[v].revision] EXCEPT ![w] = got[w][g].revision]
    BY <2>2 DEF Inv, Typed, TypeOK
  <2> QED  BY <2>1, <2>2, <2>3
<1>3. CASE UNCHANGED <<revision, held>>
  BY <1>3
<1>4. ASSUME NEW k \in Caster, Expire(k) \/ Sends(k) PROVE UNCHANGED <<revision, held>>
  BY <1>4 DEF Expire, Sends, Begin, End, WriteOk, WriteFailed, council, reader
<1>5. ASSUME NEW c \in Conn, Serves(c) \/ Break(c) PROVE UNCHANGED <<revision, held>>
  BY <1>5 DEF Serves, Add, Hello, Leave, Break, council, reader
<1>6. ASSUME Stop \/ CloseAll \/ Exit \/ Crash PROVE UNCHANGED <<revision, held>>
  BY <1>6 DEF Stop, CloseAll, Exit, Crash, Gone, reader
<1>7. ~Start
  BY DEF Start
<1>8. ASSUME NEW w \in Watcher, Listens(w) \/ Poll(w) PROVE UNCHANGED <<revision, held>>
  BY <1>8 DEF Listens, Dial, Receive, Disconnected, Poll, council, reader
<1>9. ASSUME NEW w \in Watcher, NEW g \in Goroutine,
             Answer(w, g) \/ Failed(w, g) \/ Call(w, g)
      PROVE  UNCHANGED <<revision, held>>
  BY <1>9 DEF Answer, Failed, Call, council
<1>10. ASSUME NEW w \in Watcher, NEW g \in Goroutine, Store(w, g), held' = held
       PROVE  UNCHANGED <<revision, held>>
  BY <1>10 DEF Store, council
<1>11. CASE UNCHANGED vars
  BY <1>3, <1>11 DEF vars, council, reader
<1> QED
  BY <1>1, <1>2, <1>3, <1>4, <1>5, <1>6, <1>7, <1>8, <1>9, <1>10, <1>11
     DEF Next, Fetches

\* As long as the council is not restarted, what Watcher.doFetchState stores is
\* always a revision the council had: Notify implements Feed, but for its
\* liveness.
THEOREM ImplementsFeed ==
    Spec /\ [](epoch = 0) => Promise!FeedInit /\ [][Promise!FeedNext]_(Promise!feed)
<1>1. Init => Promise!FeedInit
  BY DEF Init, Promise!FeedInit, NoState
<1>2. Inv /\ Inv' /\ epoch = 0 /\ (epoch = 0)' /\ [Next]_vars
         => [Promise!FeedNext]_(Promise!feed)
  BY FeedStep
<1> QED  BY <1>1, <1>2, Invariance, PTL DEF Spec
=============================================================================
