----------------------------- MODULE ProxyProofs -----------------------------
(***************************************************************************)
(* The TCP proxy for every number of clients, targets, retries and updates:*)
(* no client waits next to targets, a client dials an address of its list, *)
(* and only close() cuts one that is bridged.                              *)
(***************************************************************************)
EXTENDS Proxy, TLAPS

Places == {"idle", "look", "wait", "pick", "pause", "dialled", "bridge", "done"}

\* The variables the gate of waitForTarget consists of: what a client has read
\* of it was so at some time, and its channel is not from the future.
GateTyped ==
    /\ targets \in Lists /\ channel \in Nat /\ closed \subseteq 0..channel
    /\ seen \in [Client -> [targets : Lists, channel : Nat]]
    /\ \A c \in Client : seen[c].channel \in 0..channel

\* A client that may still dial has failed fewer times than dialUpstream allows.
DialTyped ==
    /\ at \in [Client -> Places]
    /\ counter \in Nat
    /\ tries \in [Client -> 0..DialMaxRetries]
    /\ \A c \in Client :
          at[c] \in {"idle", "look", "wait", "pick"} => tries[c] < DialMaxRetries

BridgeTyped ==
    /\ tracked \subseteq Client
    /\ life \in {"open", "cancelled", "deaf", "released", "closed"}
    /\ peers \in [Client -> SUBSET {"client", "upstream"}]
    /\ upstream \in [Client -> BOOLEAN]
    /\ flow \in [Client -> SUBSET Direction]

BoundTyped == dead \subseteq Target /\ left \in [updates : Nat, fails : Nat]

\* Only the last channel may be open, and only while there is no target.
Gate ==
    /\ \A k \in 0..channel : k < channel => k \in closed
    /\ targets # <<>> => channel \in closed

\* A client that picks has read a list with a target on it.
Picks == \A c \in Client : at[c] = "pick" => seen[c].targets # <<>>

Inv == GateTyped /\ DialTyped /\ BridgeTyped /\ BoundTyped /\ Gate /\ Picks

\* Round robin stays on the list.
LEMMA IndexInRange ==
    ASSUME NEW n \in Nat, NEW length \in Nat \ {0}
    PROVE  1 + (n % length) \in 1..length
  OBVIOUS

LEMMA InitInv == Init => Inv
  BY ListsAssumption, NumbersAssumption
     DEF Init, Inv, GateTyped, DialTyped, BridgeTyped, BoundTyped, Gate, Picks,
         Unseen, Places, Direction

\* An update keeps the order of the channels: the one it leaves is closed.
LEMMA UpdateTargetsKeeps ==
    ASSUME Inv, NEW list \in Lists, UpdateTargets(list)
    PROVE  Inv'
<1> USE DEF Inv, bridge
<1>1. GateTyped'
  BY DEF UpdateTargets, GateTyped
<1>2. DialTyped' /\ BridgeTyped' /\ Picks'
  BY DEF UpdateTargets, DialTyped, BridgeTyped, Picks
<1>3. BoundTyped'
  BY DEF UpdateTargets, BoundTyped
<1>4. Gate'
  BY DEF UpdateTargets, GateTyped, Gate
<1> QED  BY <1>1, <1>2, <1>3, <1>4

\* The way of a client to its upstream leaves the gate alone.
LEMMA DialKeeps ==
    ASSUME Inv, NEW c \in Client,
           Accept(c) \/ Look(c) \/ Wake(c) \/ Deadline(c) \/ DialOk(c)
              \/ DialFails(c) \/ Retry(c)
    PROVE  Inv'
<1> USE NumbersAssumption DEF Inv, gate, bridge, Goes
<1>1. CASE Accept(c)
  BY <1>1 DEF Accept, GateTyped, DialTyped, BridgeTyped, BoundTyped, Gate, Picks,
              Places
<1>2. CASE Look(c)
  <2>1. /\ at[c] = "look" /\ at' = [at EXCEPT ![c] = IF targets = <<>> THEN "wait" ELSE "pick"]
        /\ seen' = [seen EXCEPT ![c] = [targets |-> targets, channel |-> channel]]
        /\ UNCHANGED <<targets, channel, closed, counter, tracked, life, tries, peers,
                       upstream, flow, dead, left>>
    BY <1>2 DEF Look
  <2>2. GateTyped' /\ Gate'
    BY <2>1 DEF GateTyped, Gate
  <2>3. DialTyped' /\ BridgeTyped' /\ BoundTyped'
    BY <2>1 DEF DialTyped, BridgeTyped, BoundTyped, Places
  <2>4. Picks'
    BY <2>1 DEF GateTyped, DialTyped, Picks
  <2> QED  BY ONLY <2>2, <2>3, <2>4 DEF Inv
<1>3. CASE Wake(c) \/ Deadline(c)
  <2>1. /\ at[c] = "wait"
        /\ at' = [at EXCEPT ![c] = "look"] \/ at' = [at EXCEPT ![c] = "done"]
        /\ UNCHANGED <<targets, channel, closed, counter, tracked, life, seen, tries, peers,
                       upstream, flow, dead, left>>
    BY <1>3 DEF Wake, Deadline
  <2>2. GateTyped' /\ Gate' /\ BridgeTyped' /\ BoundTyped'
    BY <2>1 DEF GateTyped, Gate, BridgeTyped, BoundTyped
  <2>3. DialTyped'
    BY <2>1 DEF DialTyped, Places
  <2>4. Picks'
    BY <2>1 DEF DialTyped, Picks
  <2> QED  BY ONLY <2>2, <2>3, <2>4 DEF Inv
<1>4. CASE DialOk(c)
  <2>1. /\ at[c] = "pick" /\ at' = [at EXCEPT ![c] = "dialled"]
        /\ counter' = counter + 1 /\ upstream' = [upstream EXCEPT ![c] = TRUE]
        /\ peers' = [peers EXCEPT ![c] = @ \cup {"upstream"}]
        /\ UNCHANGED <<targets, channel, closed, tracked, life, seen, tries, flow, dead, left>>
    BY <1>4 DEF DialOk
  <2>2. GateTyped' /\ Gate' /\ BoundTyped'
    BY <2>1 DEF GateTyped, Gate, BoundTyped
  <2>3. DialTyped'
    BY <2>1 DEF DialTyped, Places
  <2>4. BridgeTyped'
    BY <2>1 DEF BridgeTyped
  <2>5. Picks'
    BY <2>1 DEF DialTyped, Picks
  <2> QED  BY ONLY <2>2, <2>3, <2>4, <2>5 DEF Inv
<1>5. CASE DialFails(c)
  <2>1. /\ at[c] = "pick" /\ at' = [at EXCEPT ![c] = "pause"]
        /\ counter' = counter + 1 /\ tries' = [tries EXCEPT ![c] = @ + 1]
        /\ UNCHANGED <<targets, channel, closed, tracked, life, seen, peers, upstream,
                       flow, dead, left>>
    BY <1>5 DEF DialFails
  <2>2. GateTyped' /\ Gate' /\ BridgeTyped' /\ BoundTyped'
    BY <2>1 DEF GateTyped, Gate, BridgeTyped, BoundTyped
  <2>3. tries[c] < DialMaxRetries /\ tries' \in [Client -> 0..DialMaxRetries]
    BY <2>1 DEF DialTyped
  <2>4. DialTyped'
    BY <2>1, <2>3 DEF DialTyped, Places
  <2>5. Picks'
    BY <2>1 DEF DialTyped, Picks
  <2> QED  BY ONLY <2>2, <2>4, <2>5 DEF Inv
<1>6. CASE Retry(c)
  <2>1. /\ at[c] = "pause"
        /\ \/ tries[c] < DialMaxRetries /\ at' = [at EXCEPT ![c] = "look"]
           \/ at' = [at EXCEPT ![c] = "done"]
        /\ UNCHANGED <<targets, channel, closed, counter, tracked, life, seen, tries, peers,
                       upstream, flow, dead, left>>
    BY <1>6 DEF Retry
  <2>2. GateTyped' /\ Gate' /\ BridgeTyped' /\ BoundTyped'
    BY <2>1 DEF GateTyped, Gate, BridgeTyped, BoundTyped
  <2>3. DialTyped'
    BY <2>1 DEF DialTyped, Places
  <2>4. Picks'
    BY <2>1 DEF DialTyped, Picks
  <2> QED  BY ONLY <2>2, <2>3, <2>4 DEF Inv
<1> QED  BY <1>1, <1>2, <1>3, <1>4, <1>5, <1>6

\* So does the bridge, and it keeps proxy.upstreams in step with handleConn.
LEMMA BridgeKeeps ==
    ASSUME Inv, NEW c \in Client,
           \/ Track(c) \/ Finish(c)
           \/ \E d \in Direction : SourceEnds(c, d) \/ WriteFails(c, d)
           \/ \E p \in {"client", "upstream"} : PeerCloses(c, p)
    PROVE  Inv'
<1> USE DEF Inv, gate, Goes
<1>1. CASE Track(c)
  BY <1>1 DEF Track, GateTyped, DialTyped, BridgeTyped, BoundTyped, Gate, Picks,
              Places
<1>2. CASE Finish(c)
  BY <1>2 DEF Finish, GateTyped, DialTyped, BridgeTyped, BoundTyped, Gate, Picks,
              Places
<1>3. ASSUME NEW d \in Direction, SourceEnds(c, d) \/ WriteFails(c, d) PROVE Inv'
  <2>1. /\ flow' = [flow EXCEPT ![c] = @ \ {d}]
        /\ UNCHANGED <<targets, channel, closed, counter, tracked, life, at, seen, tries,
                       peers, upstream, dead, left>>
    BY <1>3 DEF SourceEnds, WriteFails
  <2> QED
    BY <2>1 DEF GateTyped, DialTyped, BridgeTyped, BoundTyped, Gate, Picks
<1>4. ASSUME NEW p \in {"client", "upstream"}, PeerCloses(c, p) PROVE Inv'
  BY <1>4 DEF PeerCloses, GateTyped, DialTyped, BridgeTyped, BoundTyped, Gate, Picks
<1> QED  BY <1>1, <1>2, <1>3, <1>4

\* Shutting down only adds closed channels; after CloseUpstreams nothing is tracked.
LEMMA ShutsKeeps ==
    ASSUME Inv, Cancel \/ Shuts
    PROVE  Inv'
<1> USE DEF Inv, gate, bridge
<1>1. CASE Cancel \/ CloseListener
  BY <1>1 DEF Cancel, CloseListener, GateTyped, DialTyped, BridgeTyped, BoundTyped,
              Gate, Picks
<1>2. CASE CloseGate
  BY <1>2 DEF CloseGate, GateTyped, DialTyped, BridgeTyped, BoundTyped, Gate, Picks
<1>3. CASE CloseUpstreams
  BY <1>3 DEF CloseUpstreams, GateTyped, DialTyped, BridgeTyped, BoundTyped, Gate,
              Picks
<1> QED  BY <1>1, <1>2, <1>3 DEF Shuts

LEMMA NextInv == Inv /\ [Next]_vars => Inv'
<1> SUFFICES ASSUME Inv, [Next]_vars PROVE Inv'
  OBVIOUS
<1>1. ASSUME NEW list \in Lists, UpdateTargets(list) PROVE Inv'
  BY <1>1, UpdateTargetsKeeps
<1>2. ASSUME NEW t \in Target, Toggle(t) PROVE Inv'
  BY <1>2 DEF Toggle, Inv, GateTyped, DialTyped, BridgeTyped, BoundTyped, Gate, Picks,
              gate, bridge
<1>3. ASSUME NEW c \in Client, Accept(c) \/ Connects(c) \/ Deadline(c) \/ Bridges(c)
      PROVE  Inv'
  BY <1>3, DialKeeps, BridgeKeeps DEF Connects, Bridges
<1>4. ASSUME NEW c \in Client, NEW d \in Direction, WriteFails(c, d) PROVE Inv'
  BY <1>4, BridgeKeeps
<1>5. ASSUME NEW c \in Client, NEW p \in {"client", "upstream"}, PeerCloses(c, p)
      PROVE  Inv'
  BY <1>5, BridgeKeeps
<1>6. CASE Cancel \/ Shuts
  BY <1>6, ShutsKeeps
<1>7. CASE UNCHANGED vars
  BY <1>7 DEF vars, Inv, GateTyped, DialTyped, BridgeTyped, BoundTyped, Gate, Picks,
              gate, bridge
<1> QED
  BY <1>1, <1>2, <1>3, <1>4, <1>5, <1>6, <1>7 DEF Next

LEMMA Invariance == Spec => []Inv
  BY InitInv, NextInv, PTL DEF Spec

-----------------------------------------------------------------------------

\* The state of the proxy and of its clients has its types; in particular no
\* client fails a dial more often than dialMaxRetries.
THEOREM TypeSafe == Spec => []TypeOK
<1>1. Inv => TypeOK
  BY DEF Inv, GateTyped, DialTyped, BridgeTyped, BoundTyped, TypeOK, Places
<1> QED  BY <1>1, Invariance, PTL

\* No client waits in waitForTarget while there are targets: the channel it
\* selects on is closed, however often updateTargets ran since it looked.
THEOREM NobodyWaitsWithTargets == Spec => []NoWaitWithTargets
<1>1. Inv => NoWaitWithTargets
  BY DEF Inv, GateTyped, Gate, NoWaitWithTargets
<1> QED  BY <1>1, Invariance, PTL

\* selectTarget never indexes an empty list: a client that dials has an address,
\* whatever updateTargets did since waitForTarget returned.
THEOREM DialsATarget ==
    Spec => [](\A c \in Client : at[c] = "pick" => Choice(c) \in Target)
<1>1. Inv => \A c \in Client : at[c] = "pick" => Choice(c) \in Target
  <2> SUFFICES ASSUME Inv, NEW c \in Client, at[c] = "pick"
               PROVE  Choice(c) \in Target
    OBVIOUS
  <2> DEFINE list == seen[c].targets
  <2>1. list \in Seq(Target) /\ list # <<>> /\ counter \in Nat
    BY ListsAssumption DEF Inv, GateTyped, DialTyped, Picks
  <2>2. Len(list) \in Nat \ {0}
    BY <2>1
  <2>3. 1 + (counter % Len(list)) \in 1..Len(list)
    BY <2>1, <2>2, IndexInRange
  <2>4. list[1 + (counter % Len(list))] \in Target
    BY <2>1, <2>3
  <2> QED  BY <2>4 DEF Choice
<1> QED  BY <1>1, Invariance, PTL

\* An upstream is closed when both directions of handleConn have ended, or by
\* close(): no update of the targets cuts a client off.
THEOREM KeepsConnections == Spec => ConnectionsKept
<1> DEFINE Cut(c) == upstream[c] /\ ~upstream'[c] =>
               flow[c] = {} \/ (life = "released" /\ life' = "closed")
<1>1. Inv /\ [Next]_vars => [\A c \in Client : Cut(c)]_vars
  <2> SUFFICES ASSUME Inv, Next, NEW c \in Client, upstream[c], ~upstream'[c]
               PROVE  flow[c] = {} \/ (life = "released" /\ life' = "closed")
    OBVIOUS
  <2> USE DEF Inv, BridgeTyped, bridge
  <2>1. ASSUME NEW list \in Lists, UpdateTargets(list) PROVE FALSE
    BY <2>1 DEF UpdateTargets
  <2>2. ASSUME NEW t \in Target, Toggle(t) PROVE FALSE
    BY <2>2 DEF Toggle
  <2>3. ASSUME NEW b \in Client, Accept(b) \/ Connects(b) \/ Deadline(b) PROVE FALSE
    BY <2>3 DEF Accept, Connects, Deadline, Look, Wake, DialOk, DialFails, Retry, Track
  <2>4. ASSUME NEW b \in Client, Finish(b) PROVE flow[c] = {}
    BY <2>4 DEF Finish
  <2>5. ASSUME NEW b \in Client, NEW d \in Direction, SourceEnds(b, d) \/ WriteFails(b, d)
        PROVE  FALSE
    BY <2>5 DEF SourceEnds, WriteFails
  <2>6. ASSUME NEW b \in Client, NEW p, PeerCloses(b, p) PROVE FALSE
    BY <2>6 DEF PeerCloses
  <2>7. ASSUME Cancel \/ CloseListener \/ CloseGate PROVE FALSE
    BY <2>7 DEF Cancel, CloseListener, CloseGate
  <2>8. ASSUME CloseUpstreams PROVE life = "released" /\ life' = "closed"
    BY <2>8 DEF CloseUpstreams
  <2> QED
    BY <2>1, <2>2, <2>3, <2>4, <2>5, <2>6, <2>7, <2>8 DEF Next, Bridges, Shuts
<1> QED  BY <1>1, Invariance, PTL DEF Spec, ConnectionsKept
=============================================================================
