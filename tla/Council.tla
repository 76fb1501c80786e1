------------------------------ MODULE Council ------------------------------
(***************************************************************************)
(* The council: one state table behind one mutex, the PUT /king and        *)
(* PUT /ling handlers that heartbeat into it, the provisioner they call,   *)
(* and the cleaner that expires what stopped beating.                      *)
(*                                                                         *)
(* Two Go facts decide how the table behaves and are kept as they are.     *)
(* A provisioned service does not copy its king's address: it stores       *)
(* pointers into the backing array of the Kings slice, so Kings is         *)
(* modelled as numbered arrays of slots.  And a handler releases the mutex *)
(* around every broadcast, so it resumes in a table others have changed.   *)
(***************************************************************************)
EXTENDS Integers, FiniteSets, Sequences, Functions

CONSTANTS
    Handler,        \* goroutines of the HTTP server
    Nobody,         \* the mutex is free
    KingNode,       \* king processes
    LingNode,       \* ling processes (their LingID)
    NoNode,         \* no request
    Tunnel,         \* what a king advertises for one bind port
    NoTunnel,       \* a slot that was never written
    KingTunnels,    \* the tunnels of a king, in the order it sends them
    Name,           \* service names
    LingTunnels,    \* the tunnel names of a ling, in the order it sends them
    Addr,           \* a tunnel's host and bind port
    Key,            \* a tunnel's host and port range: what FindKing compares
    Ports,          \* the port range of a tunnel
    Location,       \* where a tunnel is
    Preferred,      \* a ling's preferred location
    Certs,          \* the certificates a king may send, one per process start
    Downs,          \* the values of ShuttingDown a node may send
    Capacity,       \* how append grows the Kings array: slots of the n-th one
    StaleAfter,     \* staleThresholdMillis, in ticks
    MaxArrays, MaxRequests, MaxReady, MaxClock      \* bounds

Node == KingNode \cup LingNode
Array == 0..MaxArrays
Slot == 1..Capacity[MaxArrays]

ASSUME NodeAssumption ==
    /\ Nobody \notin Handler
    /\ KingNode \cap LingNode = {}
    /\ NoNode \notin Node
    /\ NoTunnel \notin Tunnel
ASSUME AdvertAssumption ==
    /\ KingTunnels \in [KingNode -> Seq(Tunnel)]
    /\ LingTunnels \in [LingNode -> Seq(Name)]
    /\ Ports \in [Tunnel -> SUBSET Nat]
    /\ Downs \subseteq BOOLEAN
ASSUME BoundAssumption ==
    /\ StaleAfter \in Nat /\ MaxArrays \in Nat
    /\ MaxRequests \in Nat /\ MaxReady \in Nat /\ MaxClock \in Nat
    /\ Capacity \in [Array -> Nat]
    /\ Capacity[0] = 0
    /\ \A a, b \in Array : a < b => Capacity[a] < Capacity[b]

VARIABLES
    mutex,      \* stateMutex: its holder, or Nobody
    revision,   \* State.Revision
    services,   \* State.Services: id -> service; ids grow in slice order
    issued,     \* the last service id given out
    heap,       \* every backing array Kings ever had
    arr,        \* the array State.Kings points into
    nkings,     \* len(State.Kings)
    lings,      \* State.Lings: LingID -> entry
    clock,      \* time, in ticks
    pc,         \* where each handler is
    call,       \* each handler's locals
    cleaner,    \* "waiting" for its ticker, or about to "broadcast"
    told,       \* a broadcast has started since the table last changed
    sent        \* requests so far, at most MaxRequests

vars == <<mutex, revision, services, issued, heap, arr, nkings, lings, clock,
          pc, call, cleaner, told, sent>>

-----------------------------------------------------------------------------
(* State.                                                                   *)

\* A cell of a Kings array; its slot is 0 when the pointer is nil.
Nil == [array |-> 0, slot |-> 0]
Pointer == {Nil} \cup [array : Array, slot : Slot]

King == [tun : Tunnel \cup {NoTunnel}, down : BOOLEAN, cert : Certs \cup {NoTunnel},
         beat : Nat]
ZeroKing == [tun |-> NoTunnel, down |-> FALSE, cert |-> NoTunnel, beat |-> 0]

\* Host and BindPort always point into the same cell.
Service == [name : Name, ling : LingNode, kingReady : BOOLEAN,
            lingReady : BOOLEAN, at : Pointer, port : Nat]

Ling == [down : BOOLEAN, beat : Nat]

Request == [node : Node, down : Downs, cert : Certs, ready : SUBSET Nat]
NoRequest == [node |-> NoNode, down |-> FALSE, cert |-> NoTunnel, ready |-> {}]

\* The points at which a handler holds the mutex, and those it resumes at.
Locked == {"ready", "tunnels", "service", "beat", "provision"}
Resume == Locked \ {"provision"}

\* req: the decoded body; todo: ready ids still to process; tun: the tunnel
\* the loop is at; now: taken once per request; ptr: existingKing; resume:
\* where the handler continues once it has the mutex back.
Idle == [req |-> NoRequest, todo |-> {}, tun |-> 1, now |-> 0, ptr |-> Nil,
         resume |-> "ready"]

Locals == [req : Request \cup {NoRequest}, todo : SUBSET Nat, tun : Nat \ {0},
           now : Nat, ptr : Pointer, resume : Resume]

Init ==
    /\ mutex = Nobody
    /\ revision = 0
    /\ services = << >>
    /\ issued = 0
    /\ heap = [a \in Array |-> [s \in Slot |-> ZeroKing]]
    /\ arr = 0
    /\ nkings = 0
    /\ lings = << >>
    /\ clock = 0
    /\ pc = [h \in Handler |-> "idle"]
    /\ call = [h \in Handler |-> Idle]
    /\ cleaner = "waiting"
    /\ told = TRUE
    /\ sent = 0

\* f with v at k, whether or not k was there.
Put(f, k, v) == [x \in DOMAIN f \cup {k} |-> IF x = k THEN v ELSE f[x]]

First(S) == {i \in S : \A j \in S : i <= j}

Live == DOMAIN services
Provisioned(s) == s.at # Nil

\* The king a service's pointers lead to, and its address, in array store hp.
Cell(hp, p) == hp[p.array][p.slot]
AddrOf(hp, s) == Addr[Cell(hp, s.at).tun]

Entry(i) == heap[arr][i]

\* hasKingForService, hasLing
HasKing(hp, n, s) == \E i \in 1..n : Addr[hp[arr][i].tun] = AddrOf(hp, s)
HasLingIfPlaced(ls, s) == Provisioned(s) => s.ling \in DOMAIN ls      \* mutant
HasLing(ls, s) == s.ling \in DOMAIN ls
-----------------------------------------------------------------------------
(* The provisioner.                                                         *)

DeprovisionedWithPort(ss, hp, a, n) ==                                 \* mutant
    LET Leaving(s) == /\ Provisioned(s)
                      /\ \E i \in 1..n : /\ hp[a][i].down
                                         /\ Addr[hp[a][i].tun] = AddrOf(hp, s)
    IN [id \in DOMAIN ss |->
            IF Leaving(ss[id])
            THEN [ss[id] EXCEPT !.at = Nil, !.kingReady = FALSE]
            ELSE ss[id]]
\* deprovisionFromShuttingDownKings on the services ss, the Kings slice being
\* the first n slots of array a of hp.
Deprovisioned(ss, hp, a, n) ==
    LET Leaving(s) == /\ Provisioned(s)
                      /\ \E i \in 1..n : /\ hp[a][i].down
                                         /\ Addr[hp[a][i].tun] = AddrOf(hp, s)
    IN [id \in DOMAIN ss |->
            IF Leaving(ss[id])
            THEN [ss[id] EXCEPT !.at = Nil, !.port = 0, !.kingReady = FALSE]
            ELSE ss[id]]

Unprovisioned == {id \in Live : ~Provisioned(services[id])}

UsedByReady(i) ==                                                      \* mutant
    {services[id].port : id \in {d \in Live : /\ services[d].kingReady
        /\ Provisioned(services[d])
        /\ AddrOf(heap, services[d]) = Addr[Entry(i).tun]}}
\* collectUsedPorts: by address, as the services' pointers read now.
UsedPorts(i) ==
    {services[id].port : id \in {d \in Live :
        /\ Provisioned(services[d])
        /\ AddrOf(heap, services[d]) = Addr[Entry(i).tun]}}

FreePorts(i) == Ports[Entry(i).tun] \ UsedPorts(i)

AvailableEvenDown == {i \in 1..nkings : FreePorts(i) # {}}             \* mutant
\* AvailableKingPorts
Available == {i \in 1..nkings : ~Entry(i).down /\ FreePorts(i) # {}}

\* The kings ProvisionService chooses the first of, for ling l's service.
Candidates(l) ==
    LET near == {i \in Available : Location[Entry(i).tun] = Preferred[l]}
    IN IF near # {} THEN near ELSE Available

-----------------------------------------------------------------------------
(* Steps every handler takes.                                               *)

\* A client builds a request from a state it read while the mutex was free
\* and sends it; what other handlers do before Lock makes it stale.
KingClaims(k) ==
    {id \in Live : /\ Provisioned(services[id])
                   /\ \E i \in DOMAIN KingTunnels[k] :
                        Addr[KingTunnels[k][i]] = AddrOf(heap, services[id])
                   /\ HasLing(lings, services[id])
                   /\ ~lings[services[id].ling].down}
LingClaims(l) == {id \in Live : services[id].ling = l /\ services[id].kingReady}

Claims(n) == IF n \in KingNode THEN KingClaims(n) ELSE LingClaims(n)

Send(h) ==
    /\ pc[h] = "idle" /\ mutex = Nobody /\ sent < MaxRequests
    /\ \E n \in Node, d \in Downs, c \in Certs :
         \E S \in SUBSET Claims(n) :
            /\ Cardinality(S) <= MaxReady
            /\ call' = [call EXCEPT ![h].req =
                            [node |-> n, down |-> d, cert |-> c, ready |-> S]]
    /\ pc' = [pc EXCEPT ![h] = "arrived"]
    /\ sent' = sent + 1
    /\ UNCHANGED <<mutex, revision, services, issued, heap, arr, nkings, lings,
                   clock, cleaner, told>>

table == <<revision, services, issued, heap, arr, nkings, lings>>
others == <<clock, cleaner, sent>>

Lock(h) ==
    /\ pc[h] = "arrived" /\ mutex = Nobody
    /\ mutex' = h
    /\ pc' = [pc EXCEPT ![h] = "ready"]
    /\ call' = [call EXCEPT ![h].todo = call[h].req.ready]
    /\ UNCHANGED <<table, told, others>>

AnswerAndHold(h) ==                                                    \* mutant
    /\ pc' = [pc EXCEPT ![h] = "idle"]
    /\ call' = [call EXCEPT ![h] = Idle]
    /\ UNCHANGED <<mutex, table, told, others>>
\* The handler answers and releases the mutex.
Answer(h) ==
    /\ mutex' = Nobody
    /\ pc' = [pc EXCEPT ![h] = "idle"]
    /\ call' = [call EXCEPT ![h] = Idle]
    /\ UNCHANGED <<table, told, others>>

\* The handler changed the table: it bumps the revision, runs the provisioner
\* (whose deprovisioning is part of this step) and will then broadcast.
Bump(h) ==
    /\ revision' = revision + 1
    /\ told' = FALSE
    /\ pc' = [pc EXCEPT ![h] = "provision"]

\* ProvisionService for the next unprovisioned service.
ProvisionOne(h) ==
    /\ pc[h] = "provision"
    /\ \E id \in First(Unprovisioned) : \E i \in First(Candidates(services[id].ling)) :
         \E p \in First(FreePorts(i)) :
            services' = [services EXCEPT ![id].at = [array |-> arr, slot |-> i],
                                         ![id].port = p]
    /\ revision' = revision + 1
    /\ UNCHANGED <<mutex, issued, heap, arr, nkings, lings, pc, call, told, others>>

ProvisionDoneSilent(h) ==                                              \* mutant
    /\ pc[h] = "provision"
    /\ Unprovisioned = {} \/ Available = {}
    /\ pc' = [pc EXCEPT ![h] = "relock"]
    /\ mutex' = Nobody
    /\ UNCHANGED <<table, call, told, others>>
ProvisionDone(h) ==
    /\ pc[h] = "provision"
    /\ Unprovisioned = {} \/ Available = {}
    /\ pc' = [pc EXCEPT ![h] = "broadcast"]
    /\ mutex' = Nobody
    /\ UNCHANGED <<table, call, told, others>>

Broadcast(h) ==
    /\ pc[h] = "broadcast"
    /\ told' = TRUE
    /\ pc' = [pc EXCEPT ![h] = "relock"]
    /\ UNCHANGED <<mutex, table, call, others>>

Relock(h) ==
    /\ pc[h] = "relock" /\ mutex = Nobody
    /\ mutex' = h
    /\ pc' = [pc EXCEPT ![h] = call[h].resume]
    /\ UNCHANGED <<table, call, told, others>>

-----------------------------------------------------------------------------
(* processKingReadyServices and processLingReadyServices.                   *)

IsKing(h) == call[h].req.node \in KingNode
Flag(h, s) == IF IsKing(h) THEN s.kingReady ELSE s.lingReady

\* An unknown id answers 400; the rest of the request is not looked at.
ReadyMissing(h) ==
    /\ pc[h] = "ready"
    /\ \E id \in First(call[h].todo) : id \notin Live
    /\ Answer(h)

ReadyAgain(h) ==
    /\ pc[h] = "ready"
    /\ \E id \in First(call[h].todo) :
         /\ id \in Live /\ Flag(h, services[id])
         /\ call' = [call EXCEPT ![h].todo = @ \ {id}]
    /\ UNCHANGED <<mutex, table, pc, told, others>>

ReadyMark(h) ==
    /\ pc[h] = "ready"
    /\ \E id \in First(call[h].todo) :
         /\ id \in Live /\ ~Flag(h, services[id])
         /\ services' =
                LET marked == IF IsKing(h)
                              THEN [services EXCEPT ![id].kingReady = TRUE]
                              ELSE [services EXCEPT ![id].lingReady = TRUE]
                IN Deprovisioned(marked, heap, arr, nkings)
         /\ call' = [call EXCEPT ![h].todo = @ \ {id}, ![h].resume = "ready"]
    /\ Bump(h)
    /\ UNCHANGED <<mutex, issued, heap, arr, nkings, lings, others>>

\* All ids processed: the tunnel loop begins, with now read once.
ReadyDone(h) ==
    /\ pc[h] = "ready" /\ call[h].todo = {}
    /\ pc' = [pc EXCEPT ![h] = "tunnels"]
    /\ call' = [call EXCEPT ![h].now = clock, ![h].tun = 1]
    /\ UNCHANGED <<mutex, table, told, others>>

-----------------------------------------------------------------------------
(* PUT /king: processKingTunnels and updateExistingKing.                    *)

KingLoop(h) == pc[h] = "tunnels" /\ IsKing(h)
               /\ call[h].tun <= Len(KingTunnels[call[h].req.node])

Advert(h) == KingTunnels[call[h].req.node][call[h].tun]

MatchesServing(h) == {i \in 1..nkings : /\ Key[Entry(i).tun] = Key[Advert(h)]
                                        /\ ~Entry(i).down}             \* mutant
\* FindKing
Matches(h) == {i \in 1..nkings : Key[Entry(i).tun] = Key[Advert(h)]}

Room == nkings < Capacity[arr]

\* append copies to a larger array when the slice is full, and otherwise
\* overwrites the slot after the last king.
KingNew(h) ==
    /\ KingLoop(h) /\ Matches(h) = {}
    /\ Room \/ arr < MaxArrays
    /\ arr' = IF Room THEN arr ELSE arr + 1
    /\ nkings' = nkings + 1
    /\ heap' = [heap EXCEPT ![arr'] = [s \in Slot |->
                    IF s <= nkings THEN Entry(s)
                    ELSE IF s = nkings'
                    THEN [tun |-> Advert(h), down |-> FALSE,
                          cert |-> call[h].req.cert, beat |-> call[h].now]
                    ELSE heap[arr'][s]]]
    /\ services' = Deprovisioned(services, heap', arr', nkings')
    /\ call' = [call EXCEPT ![h].tun = @ + 1, ![h].resume = "tunnels"]
    /\ Bump(h)
    /\ UNCHANGED <<mutex, issued, lings, others>>

Unchanged(h, i) == /\ Entry(i).down = call[h].req.down
                   /\ Entry(i).cert = call[h].req.cert

KingRefresh(h) ==
    /\ KingLoop(h)
    /\ \E i \in First(Matches(h)) :
         /\ Unchanged(h, i)
         /\ heap' = [heap EXCEPT ![arr][i].beat = call[h].now]
    /\ call' = [call EXCEPT ![h].tun = @ + 1]
    /\ UNCHANGED <<mutex, revision, services, issued, arr, nkings, lings, pc,
                   told, others>>

\* A changed flag or certificate is announced before the beat is written.
KingUpdate(h) ==
    /\ KingLoop(h)
    /\ \E i \in First(Matches(h)) :
         /\ ~Unchanged(h, i)
         /\ heap' = [heap EXCEPT ![arr][i].down = call[h].req.down,
                                 ![arr][i].cert = call[h].req.cert]
         /\ services' = Deprovisioned(services, heap', arr, nkings)
         /\ call' = [call EXCEPT ![h].ptr = [array |-> arr, slot |-> i],
                                 ![h].resume = "beat"]
    /\ Bump(h)
    /\ UNCHANGED <<mutex, issued, arr, nkings, lings, others>>

KingBeatAndFlag(h) ==                                                  \* mutant
    /\ pc[h] = "beat"
    /\ LET p == call[h].ptr IN
         heap' = [heap EXCEPT ![p.array][p.slot].beat = call[h].now,
                              ![p.array][p.slot].down = call[h].req.down]
    /\ call' = [call EXCEPT ![h].tun = @ + 1, ![h].ptr = Nil]
    /\ pc' = [pc EXCEPT ![h] = "tunnels"]
    /\ UNCHANGED <<mutex, revision, services, issued, arr, nkings, lings, told,
                   others>>
\* existingKing.Beat = now, through the pointer taken before the broadcast.
KingBeat(h) ==
    /\ pc[h] = "beat"
    /\ LET p == call[h].ptr IN
         heap' = [heap EXCEPT ![p.array][p.slot].beat = call[h].now]
    /\ call' = [call EXCEPT ![h].tun = @ + 1, ![h].ptr = Nil]
    /\ pc' = [pc EXCEPT ![h] = "tunnels"]
    /\ UNCHANGED <<mutex, revision, services, issued, arr, nkings, lings, told,
                   others>>

-----------------------------------------------------------------------------
(* PUT /ling: ensureLingExists, then processOneLingTunnel.                  *)

Sender(h) == call[h].req.node
LingLoop(h) == pc[h] = "tunnels" /\ ~IsKing(h)
               /\ call[h].tun <= Len(LingTunnels[Sender(h)])

BeatNow(h) == [down |-> call[h].req.down, beat |-> call[h].now]

\* A first heartbeat registers the ling and leaves the revision alone.
LingNew(h) ==
    /\ LingLoop(h) /\ Sender(h) \notin DOMAIN lings
    /\ lings' = Put(lings, Sender(h), BeatNow(h))
    /\ pc' = [pc EXCEPT ![h] = "service"]
    /\ UNCHANGED <<mutex, revision, services, issued, heap, arr, nkings, call,
                   told, others>>

LingRefresh(h) ==
    /\ LingLoop(h) /\ Sender(h) \in DOMAIN lings
    /\ lings[Sender(h)].down = call[h].req.down
    /\ lings' = [lings EXCEPT ![Sender(h)] = BeatNow(h)]
    /\ pc' = [pc EXCEPT ![h] = "service"]
    /\ UNCHANGED <<mutex, revision, services, issued, heap, arr, nkings, call,
                   told, others>>

LingFlip(h) ==
    /\ LingLoop(h) /\ Sender(h) \in DOMAIN lings
    /\ lings[Sender(h)].down # call[h].req.down
    /\ lings' = [lings EXCEPT ![Sender(h)] = BeatNow(h)]
    /\ services' = Deprovisioned(services, heap, arr, nkings)
    /\ call' = [call EXCEPT ![h].resume = "service"]
    /\ Bump(h)
    /\ UNCHANGED <<mutex, issued, heap, arr, nkings, others>>

\* FindServiceByNameAndLing for the tunnel the loop is at.
Wanted(h) == LingTunnels[Sender(h)][call[h].tun]
RegisteredPlaced(l, n) == \E id \in Live : /\ services[id].ling = l
    /\ services[id].name = n /\ Provisioned(services[id])             \* mutant
Registered(l, n) == \E id \in Live : services[id].ling = l /\ services[id].name = n

\* The request is answered at the first tunnel that has a service.
ServiceExists(h) ==
    /\ pc[h] = "service" /\ Registered(Sender(h), Wanted(h))
    /\ Answer(h)

ServiceNew(h) ==
    /\ pc[h] = "service" /\ ~Registered(Sender(h), Wanted(h))
    /\ issued' = issued + 1
    /\ services' = Deprovisioned(
            Put(services, issued', [name |-> Wanted(h), ling |-> Sender(h),
                                    kingReady |-> FALSE, lingReady |-> FALSE,
                                    at |-> Nil, port |-> 0]),
            heap, arr, nkings)
    /\ call' = [call EXCEPT ![h].tun = @ + 1, ![h].resume = "tunnels"]
    /\ Bump(h)
    /\ UNCHANGED <<mutex, heap, arr, nkings, lings, others>>

\* Either loop has run out of tunnels.
TunnelsDone(h) ==
    /\ pc[h] = "tunnels" /\ ~KingLoop(h) /\ ~LingLoop(h)
    /\ Answer(h)

-----------------------------------------------------------------------------
(* RunCleaner: one pass under the mutex.                                    *)

FreshOffByOne(beat) == beat + StaleAfter >= clock                      \* mutant
Fresh(beat) == beat + StaleAfter > clock

\* The slots in S in ascending order: the k-th has k of S up to itself.
Listings(S) == {f \in [1..Cardinality(S) -> S] :
                    \A k \in DOMAIN f : Cardinality({i \in S : i <= f[k]}) = k}

\* cleanStaleKings compacts Kings in place, moving kings to lower slots under
\* the pointers of services; orphans are looked for after that.
RunCleaner ==
    /\ cleaner = "waiting" /\ mutex = Nobody
    /\ \E f \in Listings({i \in 1..nkings : Fresh(Entry(i).beat)}) :
         /\ nkings' = Cardinality(DOMAIN f)
         /\ heap' = [heap EXCEPT ![arr] = [s \in Slot |->
                        IF s \in DOMAIN f THEN Entry(f[s]) ELSE Entry(s)]]
    /\ lings' = Restrict(lings, {l \in DOMAIN lings : Fresh(lings[l].beat)})
    /\ services' = Restrict(services, {id \in Live :
            /\ HasLing(lings', services[id])
            /\ Provisioned(services[id]) => HasKing(heap', nkings', services[id])})
    /\ <<nkings', DOMAIN lings', DOMAIN services'>> # <<nkings, DOMAIN lings, Live>>
    /\ revision' = revision + 1
    /\ told' = FALSE
    /\ cleaner' = "broadcast"
    /\ UNCHANGED <<mutex, issued, arr, clock, pc, call, sent>>

CleanerBroadcast ==
    /\ cleaner = "broadcast"
    /\ told' = TRUE
    /\ cleaner' = "waiting"
    /\ UNCHANGED <<mutex, table, clock, pc, call, sent>>

Tick ==
    /\ clock < MaxClock
    /\ clock' = clock + 1
    /\ UNCHANGED <<mutex, table, pc, call, cleaner, told, sent>>

\* Nothing is in progress and nobody calls.
Quiet ==
    /\ \A h \in Handler : pc[h] = "idle"
    /\ cleaner = "waiting"
    /\ UNCHANGED vars

Acquire(h) == Lock(h) \/ Relock(h)

\* What a handler does without waiting for the mutex.
Run(h) ==
    \/ ReadyMissing(h) \/ ReadyAgain(h) \/ ReadyMark(h) \/ ReadyDone(h)
    \/ KingNew(h) \/ KingRefresh(h) \/ KingUpdate(h) \/ KingBeat(h)
    \/ LingNew(h) \/ LingRefresh(h) \/ LingFlip(h)
    \/ ServiceExists(h) \/ ServiceNew(h) \/ TunnelsDone(h)
    \/ ProvisionOne(h) \/ ProvisionDone(h) \/ Broadcast(h)

Next ==
    \/ \E h \in Handler : Send(h) \/ Acquire(h) \/ Run(h)
    \/ RunCleaner \/ CleanerBroadcast \/ Tick \/ Quiet

Spec == Init /\ [][Next]_vars

\* A waiter on a sync.RWMutex is served before newcomers once it has starved,
\* so the mutex is strongly fair.  Clients and time promise nothing.
Fairness ==
    /\ \A h \in Handler : WF_vars(Run(h)) /\ SF_vars(Acquire(h))
    /\ SF_vars(RunCleaner) /\ WF_vars(CleanerBroadcast)

FairSpec == Spec /\ Fairness

\* No king is ever expired: its slots never move.
SteadySpec == Init /\ [][Next /\ nkings' >= nkings]_vars

-----------------------------------------------------------------------------
(* Properties.                                                              *)

TableOK == /\ heap \in [Array -> [Slot -> King]]
           /\ arr \in Array
           /\ nkings \in 0..Capacity[arr]
ServicesOK == /\ issued \in Nat
              /\ services \in [Live -> Service]
              /\ Live \subseteq 1..issued
LingsOK == lings \in [DOMAIN lings -> Ling] /\ DOMAIN lings \subseteq LingNode
HandlersOK ==
    /\ pc \in [Handler -> Locked \cup {"idle", "arrived", "broadcast", "relock"}]
    /\ call \in [Handler -> Locals]
    /\ \A h \in Handler : pc[h] # "idle" => call[h].req \in Request
OthersOK ==
    /\ mutex \in Handler \cup {Nobody}
    /\ revision \in Nat /\ clock \in Nat /\ sent \in Nat
    /\ cleaner \in {"waiting", "broadcast"}
    /\ told \in BOOLEAN

\* Host, BindPort and RemotePort of a service are set and cleared together.
PortsOK == \A id \in Live : ~Provisioned(services[id]) => services[id].port = 0

\* The variables have their types, the Kings slice fits its array, and a service
\* without a king has no remote port: what the provisioner takes back when a
\* king shuts down it takes back whole.
TypeOK == TableOK /\ ServicesOK /\ PortsOK /\ LingsOK /\ HandlersOK /\ OthersOK

\* The handler that holds stateMutex is the one inside a critical section: the
\* helpers that answer early (400, or "ok" for a known service) release it,
\* and the ones that broadcast release it and take it back.
LockDiscipline == \A h \in Handler : mutex = h <=> pc[h] \in Locked

\* Two heartbeats of one king never make two entries, although each handler
\* releases the mutex many times: FindKing and append are not separated.
UniqueKings == \A i, j \in 1..nkings : Key[Entry(i).tun] = Key[Entry(j).tun] => i = j

\* A ling's tunnel has at most one service, although ensureLingExists may
\* release the mutex just before the service is looked for.
UniqueServices ==
    \A a, b \in Live : /\ services[a].name = services[b].name
                       /\ services[a].ling = services[b].ling
                       => a = b

\* No change is left unannounced: when the mutex is free and no broadcast has
\* started since the last one, somebody is about to start one.  A ling's entry
\* (LingNew) is no change in this sense: it bumps nothing, and is announced with
\* the service its handler registers next, or not at all if that one exists.
ChangesAnnounced ==
    mutex = Nobody /\ ~told =>
        (\E h \in Handler : pc[h] = "broadcast") \/ cleaner = "broadcast"

\* As long as no king expires, two services never share a public port: the
\* provisioner only hands out ports no service of that address uses.
PortExclusive ==
    \A a, b \in Live :
        /\ Provisioned(services[a]) /\ Provisioned(services[b])
        /\ AddrOf(heap, services[a]) = AddrOf(heap, services[b])
        /\ services[a].port = services[b].port
        => a = b

\* As long as no king expires, and none comes back at its address with another
\* port range, nobody can read a state in which a service is still placed on a
\* king that is shutting down.
OffShuttingDown ==
    mutex = Nobody => \A id \in Live : \A i \in 1..nkings :
        Provisioned(services[id]) /\ Entry(i).down
            => AddrOf(heap, services[id]) # Addr[Entry(i).tun]

\* Every request is answered: a handler always gets the mutex back.
RequestsAnswered == \A h \in Handler : pc[h] # "idle" ~> pc[h] = "idle"

StaleKing(t) == \E i \in 1..nkings :
    Entry(i).tun = t /\ Entry(i).beat <= clock - StaleAfter
Orphan(id) == /\ id \in Live
              /\ \/ services[id].ling \notin DOMAIN lings
                 \/ /\ Provisioned(services[id])
                    /\ ~HasKing(heap, nkings, services[id])

\* A king that stopped beating does not stay listed, whatever handlers do to
\* the table in the windows the cleaner's passes fall into.
StaleKingsGo == \A t \in Tunnel : StaleKing(t) ~> ~StaleKing(t)

\* A service whose ling or king address is gone is removed, or finds it back:
\* a handler registers such a service when its ling expires, and its older
\* service with it, while ensureLingExists broadcasts without the mutex.
OrphansGo == \A id \in 1..(MaxRequests * Cardinality(Name)) : Orphan(id) ~> ~Orphan(id)

-----------------------------------------------------------------------------
(* What comments and tests say of this code, and these runs refute.         *)

Listed(hp, n, t) == \E i \in 1..n : hp[arr][i].tun = t

\* The cleaner removes a service together with its stale king
\* (TestRunCleaner_RemovesOrphanedService).
OrphansLeaveWithKing ==
    [][\A id \in Live : LET t == Cell(heap, services[id].at).tun IN
        /\ RunCleaner /\ Provisioned(services[id])
        /\ Listed(heap, nkings, t) /\ ~Listed(heap', nkings', t)
        => id \notin DOMAIN services']_vars
=============================================================================
