--------------------------- MODULE CouncilProofs ---------------------------
(***************************************************************************)
(* Theorems about the council, for any number of handlers, kings, lings    *)
(* and tunnels, any growth of the Kings array and any bounds.              *)
(***************************************************************************)
EXTENDS Council, TLAPS, FiniteSetTheorems

\* Deprovisioning keeps the set of services and their identity.
LEMMA DeprovisionedType ==
    ASSUME NEW D, NEW ss \in [D -> Service], NEW hp, NEW a, NEW n
    PROVE  /\ Deprovisioned(ss, hp, a, n) \in [D -> Service]
           /\ \A id \in D : LET new == Deprovisioned(ss, hp, a, n)[id] IN
                /\ new.name = ss[id].name /\ new.ling = ss[id].ling
                /\ (new.at = ss[id].at /\ new.port = ss[id].port) \/ new.at = Nil
<1> DEFINE dep == Deprovisioned(ss, hp, a, n)
<1>1. DOMAIN ss = D
  OBVIOUS
<1>2. \A id \in D : \/ dep[id] = ss[id]
                    \/ dep[id] = [ss[id] EXCEPT !.at = Nil, !.port = 0, !.kingReady = FALSE]
  BY <1>1 DEF Deprovisioned
<1>3. \A id \in D : ss[id] \in Service
  OBVIOUS
<1>4. ASSUME NEW id \in D PROVE dep[id] \in Service
  <2>1. CASE dep[id] = ss[id]
    BY <1>3, <2>1
  <2>2. CASE dep[id] = [ss[id] EXCEPT !.at = Nil, !.port = 0, !.kingReady = FALSE]
    <3>1. Nil \in Pointer /\ 0 \in Nat /\ FALSE \in BOOLEAN
      BY DEF Pointer
    <3> QED
      BY <1>3, <2>2, <3>1 DEF Service
  <2> QED
    BY <1>2, <2>1, <2>2
<1>5. dep \in [D -> Service]
  BY <1>1, <1>4 DEF Deprovisioned
<1>6. \A id \in D : /\ dep[id].name = ss[id].name /\ dep[id].ling = ss[id].ling
                    /\ (dep[id].at = ss[id].at /\ dep[id].port = ss[id].port) \/ dep[id].at = Nil
  <2> SUFFICES ASSUME NEW id \in D
               PROVE  /\ dep[id].name = ss[id].name /\ dep[id].ling = ss[id].ling
                      /\ (dep[id].at = ss[id].at /\ dep[id].port = ss[id].port) \/ dep[id].at = Nil
    OBVIOUS
  <2>1. CASE dep[id] = ss[id]
    BY ONLY <2>1
  <2>2. CASE dep[id] = [ss[id] EXCEPT !.at = Nil, !.port = 0, !.kingReady = FALSE]
    BY ONLY <1>3, <2>2, id \in D DEF Service
  <2> QED
    BY <1>2, <2>1, <2>2
<1> QED
  BY <1>5, <1>6

\* It takes the port back together with the king.
LEMMA DeprovisionedPorts ==
    ASSUME NEW D, NEW ss \in [D -> Service], NEW hp, NEW a, NEW n,
           \A id \in D : ss[id].at = Nil => ss[id].port = 0
    PROVE  \A id \in D : Deprovisioned(ss, hp, a, n)[id].at = Nil
                => Deprovisioned(ss, hp, a, n)[id].port = 0
<1> DEFINE dep == Deprovisioned(ss, hp, a, n)
<1>1. \A id \in D : \/ dep[id] = ss[id]
                    \/ dep[id] = [ss[id] EXCEPT !.at = Nil, !.port = 0, !.kingReady = FALSE]
  BY DEF Deprovisioned
<1>2. \A id \in D : ss[id] \in Service
  OBVIOUS
<1> QED
  BY <1>1, <1>2 DEF Service

\* Every king of the slice was written by a registration.
Written == \A i \in 1..nkings : Entry(i).tun \in Tunnel

\* A handler between ensureLingExists and the look-up of the service is at
\* one of its ling's tunnels, also while it broadcasts in between.
InService(h) == \/ pc[h] = "service"
                \/ /\ pc[h] \in {"provision", "broadcast", "relock"}
                   /\ call[h].resume = "service"
AtTunnel == \A h \in Handler : InService(h) =>
    Sender(h) \in LingNode /\ call[h].tun <= Len(LingTunnels[Sender(h)])

TypeInv == TypeOK /\ Written /\ AtTunnel

\* The slice lies inside every array's slots.
LEMMA SliceInSlots == ASSUME TableOK PROVE 1..nkings \subseteq Slot
<1>1. /\ Capacity[arr] \in Nat /\ Capacity[MaxArrays] \in Nat
      /\ Capacity[arr] <= Capacity[MaxArrays]
  BY BoundAssumption DEF TableOK, Array
<1> QED
  BY <1>1 DEF TableOK, Slot

\* A listing of a set of slots is a renumbering of it without repetition.
LEMMA ListingOK ==
    ASSUME NEW n \in Nat, NEW S \in SUBSET (1..n), NEW f \in Listings(S)
    PROVE  /\ Cardinality(S) \in 0..n
           /\ DOMAIN f = 1..Cardinality(S)
           /\ Cardinality(DOMAIN f) = Cardinality(S)
           /\ f \in [1..Cardinality(S) -> 1..n]
           /\ \A k, l \in DOMAIN f : f[k] = f[l] => k = l
           /\ Cardinality(S) = n => \A k \in 1..n : f[k] = k
<1>1. IsFiniteSet(1..n) /\ Cardinality(1..n) = n
  BY FS_Interval
<1>2. IsFiniteSet(S) /\ Cardinality(S) \in Nat /\ Cardinality(S) <= n
  BY <1>1, FS_Subset, FS_CardinalityType
<1>3. Cardinality(1..Cardinality(S)) = Cardinality(S)
  BY <1>2, FS_Interval
<1>4. DOMAIN f = 1..Cardinality(S) /\ f \in [1..Cardinality(S) -> 1..n]
  BY DEF Listings
<1>5. \A k, l \in DOMAIN f : f[k] = f[l] => k = l
  BY DEF Listings
<1>6. ASSUME Cardinality(S) = n, NEW k \in 1..n PROVE f[k] = k
  <2>1. S = 1..n
    BY <1>1, <1>6, FS_Subset
  <2>2. f[k] \in 1..n /\ Cardinality({i \in 1..n : i <= f[k]}) = k
    BY <1>4, <1>6, <2>1 DEF Listings
  <2>3. {i \in 1..n : i <= f[k]} = 1..f[k]
    BY <2>2
  <2>4. Cardinality(1..f[k]) = f[k]
    BY <2>2, FS_Interval
  <2> QED
    BY <2>2, <2>3, <2>4
<1> QED
  BY <1>2, <1>3, <1>4, <1>5, <1>6

\* A handler's next point and locals keep their types.
LEMMA HandlersStep ==
    ASSUME HandlersOK, NEW h \in Handler, NEW next, NEW locals \in Locals,
           next \in Locked \cup {"idle", "arrived", "broadcast", "relock"},
           next # "idle" => locals.req \in Request,
           pc' = [pc EXCEPT ![h] = next],
           call' = [call EXCEPT ![h] = locals]
    PROVE  HandlersOK'
BY DEF HandlersOK

\* Registering a king appends a written entry and stays inside the array.
LEMMA KingNewTable ==
    ASSUME TableOK, Written, HandlersOK, NEW h \in Handler, KingNew(h)
    PROVE  TableOK' /\ Written'
<1> DEFINE new == [tun |-> Advert(h), down |-> FALSE,
                   cert |-> call[h].req.cert, beat |-> call[h].now]
           cells(s) == IF s <= nkings THEN Entry(s)
                       ELSE IF s = nkings' THEN new ELSE heap[arr'][s]
<1>1. Advert(h) \in Tunnel
  <2>1. call[h].req.node \in KingNode /\ call[h].tun \in Nat \ {0}
        /\ call[h].tun <= Len(KingTunnels[call[h].req.node])
    BY DEF KingNew, KingLoop, IsKing, HandlersOK, Locals
  <2> QED
    BY <2>1, AdvertAssumption DEF Advert
<1>2. call[h].req \in Request /\ call[h].now \in Nat
  BY DEF KingNew, KingLoop, HandlersOK, Locals
<1>3. new \in King
  BY <1>1, <1>2 DEF King, Request
<1>4. nkings' = nkings + 1 /\ nkings \in Nat
  BY BoundAssumption DEF KingNew, TableOK
<1>5. arr' \in Array /\ nkings' <= Capacity[arr']
  <2> USE BoundAssumption
  <2>1. CASE Room
    <3>1. arr' = arr /\ arr \in Array /\ nkings < Capacity[arr] /\ Capacity[arr] \in Nat
      BY <2>1 DEF KingNew, Room, TableOK
    <3> QED
      BY <1>4, <3>1
  <2>2. CASE ~Room
    <3>1. arr' = arr + 1 /\ arr' \in Array
      BY <2>2 DEF KingNew, TableOK, Array
    <3>2. Capacity[arr] < Capacity[arr'] /\ Capacity[arr] \in Nat /\ Capacity[arr'] \in Nat
      BY <3>1, BoundAssumption DEF TableOK, Array
    <3> QED
      BY <1>4, <2>2, <3>1, <3>2 DEF Room, TableOK
  <2> QED
    BY <2>1, <2>2
<1>6. 1..nkings' \subseteq Slot
  <2>1. Capacity[arr'] \in Nat /\ Capacity[MaxArrays] \in Nat
        /\ Capacity[arr'] <= Capacity[MaxArrays]
    BY <1>5, BoundAssumption DEF Array
  <2> QED
    BY <1>4, <1>5, <2>1 DEF Slot
<1>7. \A s \in Slot : cells(s) \in King
  BY <1>3, <1>5 DEF TableOK, Entry
<1>8. heap' = [heap EXCEPT ![arr'] = [s \in Slot |-> cells(s)]]
  BY DEF KingNew
<1>9. heap' \in [Array -> [Slot -> King]]
  BY <1>7, <1>8 DEF TableOK
<1>10. \A s \in Slot : heap'[arr'][s] = cells(s)
  BY <1>5, <1>8 DEF TableOK
<1>11. \A s \in 1..nkings' : cells(s).tun \in Tunnel
  BY <1>1, <1>4 DEF Written
<1>12. Written'
  BY <1>6, <1>10, <1>11 DEF Written, Entry
<1>13. nkings' \in 0..Capacity[arr']
  BY <1>4, <1>5, BoundAssumption
<1> QED
  BY <1>5, <1>9, <1>12, <1>13 DEF TableOK

\* No step takes a handler's program counter or locals out of their types.
LEMMA HandlersType ==
    ASSUME TableOK, ServicesOK, HandlersOK, OthersOK, NEW h \in Handler,
           Send(h) \/ Acquire(h) \/ Run(h)
    PROVE  HandlersOK'
<1> DEFINE points == Locked \cup {"idle", "arrived", "broadcast", "relock"}
<1>0. /\ call \in [Handler -> Locals] /\ call[h] \in Locals /\ pc \in [Handler -> points]
      /\ pc[h] # "idle" => call[h].req \in Request
      /\ clock \in Nat /\ call[h].tun + 1 \in Nat \ {0}
  <2>1. call[h] \in Locals
    BY DEF HandlersOK
  <2>2. call[h].tun \in Nat \ {0}
    BY <2>1 DEF Locals
  <2> QED
    BY <2>1, <2>2 DEF HandlersOK, OthersOK
<1>1. CASE Send(h)
  <2>1. PICK r \in Request : call' = [call EXCEPT ![h].req = r]
    <3>1. \A u \in Node, d \in Downs, c \in Certs : \A S \in SUBSET Claims(u) :
            [node |-> u, down |-> d, cert |-> c, ready |-> S] \in Request
      <4>1. \A u \in Node : Claims(u) \subseteq Nat
        <5>1. Live \subseteq Nat
          BY DEF ServicesOK
        <5>2. \A u \in Node : Claims(u) \subseteq Live
          BY DEF Claims, KingClaims, LingClaims
        <5> QED
          BY <5>1, <5>2
      <4> QED
        BY <4>1 DEF Request
    <3> QED
      BY <1>1, <3>1 DEF Send
  <2> DEFINE l == [call[h] EXCEPT !.req = r]
  <2>2. l \in Locals /\ l.req \in Request
    BY <1>0 DEF Locals
  <2>3. call' = [call EXCEPT ![h] = l] /\ pc' = [pc EXCEPT ![h] = "arrived"]
    BY <1>1, <2>1 DEF Send
  <2> QED
    BY <1>0, <2>2, <2>3, HandlersStep
<1>2. CASE ReadyMark(h)
  <2>0. PICK id : call' = [call EXCEPT ![h].todo = @ \ {id}, ![h].resume = "ready"]
    BY <1>2 DEF ReadyMark
  <2> DEFINE l == [call[h] EXCEPT !.todo = @ \ {id}, !.resume = "ready"]
  <2>1. l \in Locals /\ l.req = call[h].req
    BY <1>0 DEF Locals, Resume, Locked
  <2>2. call' = [call EXCEPT ![h] = l] /\ pc[h] # "idle"
        /\ pc' = [pc EXCEPT ![h] = "provision"]
    BY <1>0, <1>2, <2>0 DEF ReadyMark, Bump
  <2> QED
    BY <1>0, <2>1, <2>2, HandlersStep DEF Locked
<1>3. CASE ReadyDone(h)
  <2>0. 1 \in Nat \ {0}
    OBVIOUS
  <2> DEFINE l == [call[h] EXCEPT !.now = clock, !.tun = 1]
  <2>1. l \in Locals /\ l.req = call[h].req
    BY <1>0, <2>0 DEF Locals, Resume, Locked
  <2>2. call' = [call EXCEPT ![h] = l] /\ pc[h] # "idle"
        /\ pc' = [pc EXCEPT ![h] = "tunnels"]
    BY <1>0, <1>3, <2>0 DEF ReadyDone, OthersOK
  <2> QED
    BY <1>0, <2>1, <2>2, HandlersStep DEF Locked
<1>4. CASE KingNew(h)
  <2> DEFINE l == [call[h] EXCEPT !.tun = @ + 1, !.resume = "tunnels"]
  <2>1. l \in Locals /\ l.req = call[h].req
    BY <1>0 DEF Locals, Resume, Locked
  <2>2. call' = [call EXCEPT ![h] = l] /\ pc[h] # "idle"
        /\ pc' = [pc EXCEPT ![h] = "provision"]
    BY <1>0, <1>4 DEF KingNew, Bump, KingLoop
  <2> QED
    BY <1>0, <2>1, <2>2, HandlersStep DEF Locked
<1>5. CASE KingRefresh(h)
  <2> DEFINE l == [call[h] EXCEPT !.tun = @ + 1]
  <2>1. l \in Locals /\ l.req = call[h].req
    BY <1>0 DEF Locals, Resume, Locked
  <2>2. call' = [call EXCEPT ![h] = l] /\ pc[h] # "idle"
        /\ pc' = [pc EXCEPT ![h] = "tunnels"]
    BY <1>0, <1>5 DEF KingRefresh, KingLoop
  <2> QED
    BY <1>0, <2>1, <2>2, HandlersStep DEF Locked
<1>6. CASE KingUpdate(h)
  <2>0. PICK i \in 1..nkings :
          call' = [call EXCEPT ![h].ptr = [array |-> arr, slot |-> i], ![h].resume = "beat"]
    BY <1>6 DEF KingUpdate, First, Matches
  <2>p. [array |-> arr, slot |-> i] \in Pointer
    BY <2>0, SliceInSlots DEF TableOK, Pointer
  <2> DEFINE l == [call[h] EXCEPT !.ptr = [array |-> arr, slot |-> i], !.resume = "beat"]
  <2>1. l \in Locals /\ l.req = call[h].req
    BY <1>0, <2>p DEF Locals, Resume, Locked
  <2>2. call' = [call EXCEPT ![h] = l] /\ pc[h] # "idle"
        /\ pc' = [pc EXCEPT ![h] = "provision"]
    BY <1>0, <1>6, <2>0 DEF KingUpdate, Bump, KingLoop
  <2> QED
    BY <1>0, <2>1, <2>2, HandlersStep DEF Locked
<1>7. CASE KingBeat(h)
  <2> DEFINE l == [call[h] EXCEPT !.tun = @ + 1, !.ptr = Nil]
  <2>1. l \in Locals /\ l.req = call[h].req
    BY <1>0 DEF Locals, Resume, Locked, Pointer
  <2>2. call' = [call EXCEPT ![h] = l] /\ pc[h] # "idle"
        /\ pc' = [pc EXCEPT ![h] = "tunnels"]
    BY <1>0, <1>7 DEF KingBeat
  <2> QED
    BY <1>0, <2>1, <2>2, HandlersStep DEF Locked
<1>8. CASE ServiceNew(h)
  <2> DEFINE l == [call[h] EXCEPT !.tun = @ + 1, !.resume = "tunnels"]
  <2>1. l \in Locals /\ l.req = call[h].req
    BY <1>0 DEF Locals, Resume, Locked
  <2>2. call' = [call EXCEPT ![h] = l] /\ pc[h] # "idle"
        /\ pc' = [pc EXCEPT ![h] = "provision"]
    BY <1>0, <1>8 DEF ServiceNew, Bump
  <2> QED
    BY <1>0, <2>1, <2>2, HandlersStep DEF Locked
<1>9. CASE Lock(h)
  BY <1>9 DEF Lock, HandlersOK, Locals, Resume, Locked, Request
<1>10. CASE Relock(h)
  BY <1>10 DEF Relock, HandlersOK, Locals, Resume, Locked
<1>11. CASE ReadyMissing(h)
  BY <1>11 DEF ReadyMissing, HandlersOK, Locals, Resume, Locked, Answer, Idle, Pointer
<1>12. CASE ReadyAgain(h)
  BY <1>12 DEF ReadyAgain, HandlersOK, Locals, Resume, Locked
<1>13. CASE LingNew(h)
  BY <1>13 DEF LingNew, HandlersOK, Locals, Resume, Locked, LingLoop
<1>14. CASE LingRefresh(h)
  BY <1>14 DEF LingRefresh, HandlersOK, Locals, Resume, Locked, LingLoop
<1>15. CASE LingFlip(h)
  <2> DEFINE l == [call[h] EXCEPT !.resume = "service"]
  <2>1. l \in Locals /\ l.req = call[h].req
    BY <1>0 DEF Locals, Resume, Locked
  <2>2. call' = [call EXCEPT ![h] = l] /\ pc[h] # "idle"
        /\ pc' = [pc EXCEPT ![h] = "provision"]
    BY <1>0, <1>15 DEF LingFlip, Bump, LingLoop
  <2> QED
    BY <1>0, <2>1, <2>2, HandlersStep DEF Locked
<1>16. CASE ServiceExists(h)
  BY <1>16 DEF ServiceExists, HandlersOK, Locals, Resume, Locked, Answer, Idle, Pointer
<1>17. CASE TunnelsDone(h)
  BY <1>17 DEF TunnelsDone, HandlersOK, Locals, Resume, Locked, Answer, Idle, Pointer
<1>18. CASE ProvisionOne(h)
  BY <1>18 DEF ProvisionOne, HandlersOK, Locals, Resume, Locked
<1>19. CASE ProvisionDone(h)
  BY <1>19 DEF ProvisionDone, HandlersOK, Locals, Resume, Locked
<1>20. CASE Broadcast(h)
  BY <1>20 DEF Broadcast, HandlersOK, Locals, Resume, Locked
<1> QED
  BY <1>1, <1>2, <1>3, <1>4, <1>5, <1>6, <1>7, <1>8, <1>9, <1>10, <1>11, <1>12,
     <1>13, <1>14, <1>15, <1>16, <1>17, <1>18, <1>19, <1>20 DEF Acquire, Run

\* Rewriting one cell in place, with its tunnel kept.
LEMMA CellWrite ==
    ASSUME heap \in [Array -> [Slot -> King]], NEW a \in Array, NEW i \in Slot,
           NEW k \in King, k.tun = heap[a][i].tun,
           heap' = [heap EXCEPT ![a] = [heap[a] EXCEPT ![i] = k]]
    PROVE  /\ heap' \in [Array -> [Slot -> King]]
           /\ \A b \in Array, s \in Slot : heap'[b][s].tun = heap[b][s].tun
<1>1. heap[a] \in [Slot -> King]
  OBVIOUS
<1>2. [heap[a] EXCEPT ![i] = k] \in [Slot -> King]
  BY <1>1
<1> QED
  BY <1>1, <1>2

\* Beats, flags and certificates change in place; the tunnel of a cell does
\* not, whichever array a saved pointer leads to.
LEMMA InPlace ==
    ASSUME TableOK, HandlersOK, NEW h \in Handler,
           KingRefresh(h) \/ KingUpdate(h) \/ KingBeat(h)
    PROVE  /\ heap' \in [Array -> [Slot -> King]]
           /\ \A a \in Array, s \in Slot : heap'[a][s].tun = heap[a][s].tun
           /\ UNCHANGED <<arr, nkings>>
<1>0. heap \in [Array -> [Slot -> King]] /\ arr \in Array /\ 1..nkings \subseteq Slot
  BY SliceInSlots DEF TableOK
<1>1. call[h].now \in Nat /\ call[h].ptr \in Pointer
  BY DEF HandlersOK, Locals
<1>2. CASE KingRefresh(h)
  <2>1. PICK i \in 1..nkings : heap' = [heap EXCEPT ![arr][i].beat = call[h].now]
    BY <1>2 DEF KingRefresh, First, Matches
  <2> DEFINE k == [heap[arr][i] EXCEPT !.beat = call[h].now]
  <2>2. heap[arr][i] \in King
    BY <1>0
  <2>3. k \in King /\ k.tun = heap[arr][i].tun
    BY <1>1, <2>2 DEF King
  <2>4. heap' = [heap EXCEPT ![arr] = [heap[arr] EXCEPT ![i] = k]]
    BY <2>1
  <2>5. UNCHANGED <<arr, nkings>>
    BY <1>2 DEF KingRefresh
  <2> QED
    BY <1>0, <2>3, <2>4, <2>5, CellWrite
<1>3. CASE KingUpdate(h)
  <2>1. PICK i \in 1..nkings :
          heap' = [heap EXCEPT ![arr][i].down = call[h].req.down,
                               ![arr][i].cert = call[h].req.cert]
    BY <1>3 DEF KingUpdate, First, Matches
  <2>2. call[h].req.down \in BOOLEAN /\ call[h].req.cert \in Certs
    BY <1>3, AdvertAssumption DEF KingUpdate, KingLoop, HandlersOK, Request
  <2> DEFINE k == [heap[arr][i] EXCEPT !.down = call[h].req.down, !.cert = call[h].req.cert]
  <2>3. heap[arr][i] \in King
    BY <1>0
  <2>4. k \in King /\ k.tun = heap[arr][i].tun
    BY <2>2, <2>3 DEF King
  <2>5. heap' = [heap EXCEPT ![arr] = [heap[arr] EXCEPT ![i] = k]]
    BY <1>0, <2>1
  <2>6. UNCHANGED <<arr, nkings>>
    BY <1>3 DEF KingUpdate
  <2> QED
    BY <1>0, <2>4, <2>5, <2>6, CellWrite
<1>4. CASE KingBeat(h)
  <2> DEFINE a == call[h].ptr.array
             i == call[h].ptr.slot
  <2>1. heap' = [heap EXCEPT ![a][i].beat = call[h].now] /\ UNCHANGED <<arr, nkings>>
    BY <1>4 DEF KingBeat
  <2>2. CASE call[h].ptr = Nil
    <3>1. i \notin Slot
      BY <2>2 DEF Nil, Slot
    <3>2. heap' = heap
      BY <1>0, <2>1, <3>1
    <3> QED
      BY <1>0, <2>1, <3>2
  <2>3. CASE call[h].ptr \in [array : Array, slot : Slot]
    <3>1. a \in Array /\ i \in Slot
      BY <2>3
    <3> DEFINE k == [heap[a][i] EXCEPT !.beat = call[h].now]
    <3>2. heap[a][i] \in King
      BY <1>0, <3>1
    <3>3. k \in King /\ k.tun = heap[a][i].tun
      BY <1>1, <3>2 DEF King
    <3>4. heap' = [heap EXCEPT ![a] = [heap[a] EXCEPT ![i] = k]]
      BY <2>1
    <3> HIDE DEF a, i, k
    <3>5. /\ heap' \in [Array -> [Slot -> King]]
          /\ \A b \in Array, s \in Slot : heap'[b][s].tun = heap[b][s].tun
      BY <1>0, <3>1, <3>3, <3>4, CellWrite
    <3> QED
      BY <2>1, <3>5
  <2> QED
    BY <1>1, <2>2, <2>3 DEF Pointer
<1> QED
  BY <1>2, <1>3, <1>4

\* The cleaner's compaction keeps kings that were listed, each once.
LEMMA Compaction ==
    ASSUME TableOK, RunCleaner
    PROVE  \E f \in [1..nkings' -> 1..nkings] :
             /\ \A k, l \in 1..nkings' : f[k] = f[l] => k = l
             /\ nkings' = nkings => \A k \in 1..nkings : f[k] = k
             /\ nkings' \in 0..nkings
             /\ heap' = [heap EXCEPT ![arr] = [s \in Slot |->
                            IF s \in 1..nkings' THEN Entry(f[s]) ELSE Entry(s)]]
<1> DEFINE S == {i \in 1..nkings : Fresh(Entry(i).beat)}
<1>1. PICK f \in Listings(S) :
        /\ nkings' = Cardinality(DOMAIN f)
        /\ heap' = [heap EXCEPT ![arr] = [s \in Slot |->
                       IF s \in DOMAIN f THEN Entry(f[s]) ELSE Entry(s)]]
  BY DEF RunCleaner
<1>2. nkings \in Nat /\ S \in SUBSET (1..nkings)
  BY BoundAssumption DEF TableOK
<1>3. /\ Cardinality(S) \in 0..nkings
      /\ DOMAIN f = 1..Cardinality(S)
      /\ Cardinality(DOMAIN f) = Cardinality(S)
      /\ f \in [1..Cardinality(S) -> 1..nkings]
      /\ \A k, l \in DOMAIN f : f[k] = f[l] => k = l
      /\ Cardinality(S) = nkings => \A k \in 1..nkings : f[k] = k
  BY <1>2, ListingOK
<1>4. nkings' = Cardinality(S)
  BY <1>1, <1>3
<1>5. DOMAIN f = 1..nkings' /\ f \in [1..nkings' -> 1..nkings]
  BY <1>3, <1>4
<1> QED
  BY <1>1, <1>3, <1>4, <1>5

\* The steps that write the table: what all others leave alone.
Table == <<services, issued, heap, arr, nkings, lings>>
Writes(h) == \/ ReadyMark(h) \/ KingNew(h) \/ KingRefresh(h) \/ KingUpdate(h)
             \/ KingBeat(h) \/ LingNew(h) \/ LingRefresh(h) \/ LingFlip(h)
             \/ ServiceNew(h) \/ ProvisionOne(h)

\* Only ten steps of a handler and the cleaner write the council's state.
LEMMA TableUnchanged ==
    ASSUME [Next]_vars
    PROVE  \/ UNCHANGED Table
           \/ \E h \in Handler : Writes(h)
           \/ RunCleaner
<1>1. ASSUME UNCHANGED table PROVE UNCHANGED Table
  BY ONLY <1>1 DEF table, Table
<1>2. ASSUME NEW h \in Handler, Send(h) PROVE UNCHANGED Table
  BY ONLY <1>2 DEF Send, Table
<1>3. ASSUME NEW h \in Handler, Acquire(h) PROVE UNCHANGED table
  BY ONLY <1>3 DEF Acquire, Lock, Relock, table
<1>4. ASSUME NEW h \in Handler, ReadyMissing(h) \/ ServiceExists(h) \/ TunnelsDone(h)
      PROVE  UNCHANGED table
  BY ONLY <1>4 DEF ReadyMissing, ServiceExists, TunnelsDone, Answer, table
<1>5. ASSUME NEW h \in Handler, ReadyAgain(h) \/ ReadyDone(h) PROVE UNCHANGED table
  BY ONLY <1>5 DEF ReadyAgain, ReadyDone, table
<1>6. ASSUME NEW h \in Handler, ProvisionDone(h) \/ Broadcast(h) PROVE UNCHANGED table
  BY ONLY <1>6 DEF ProvisionDone, Broadcast, table
<1>7. ASSUME NEW h \in Handler, Run(h) PROVE UNCHANGED Table \/ Writes(h)
  BY ONLY <1>1, <1>4, <1>5, <1>6, <1>7 DEF Run, Writes
<1>8. CASE CleanerBroadcast \/ Tick
  BY ONLY <1>1, <1>8 DEF CleanerBroadcast, Tick, table
<1>9. CASE Quiet \/ UNCHANGED vars
  BY ONLY <1>9 DEF Quiet, vars, Table
<1> QED
  BY <1>1, <1>2, <1>3, <1>7, <1>8, <1>9 DEF Next

\* The steps that touch the Kings slice, and what the others leave alone.
Kings == <<heap, arr, nkings>>
KingWrites(h) == KingRefresh(h) \/ KingUpdate(h) \/ KingBeat(h)

LEMMA KingsUnchanged ==
    ASSUME [Next]_vars
    PROVE  \/ UNCHANGED Kings
           \/ \E h \in Handler : KingNew(h) \/ KingWrites(h)
           \/ RunCleaner
<1>1. ASSUME UNCHANGED Table PROVE UNCHANGED Kings
  BY ONLY <1>1 DEF Table, Kings
<1>2. ASSUME NEW h \in Handler, ReadyMark(h) \/ ServiceNew(h) \/ ProvisionOne(h)
      PROVE  UNCHANGED Kings
  BY ONLY <1>2 DEF ReadyMark, ServiceNew, ProvisionOne, Kings
<1>3. ASSUME NEW h \in Handler, LingNew(h) \/ LingRefresh(h) \/ LingFlip(h)
      PROVE  UNCHANGED Kings
  BY ONLY <1>3 DEF LingNew, LingRefresh, LingFlip, Kings
<1> QED
  BY <1>1, <1>2, <1>3, TableUnchanged DEF Writes, KingWrites

LEMMA TableType ==
    ASSUME TableOK, Written, HandlersOK, [Next]_vars
    PROVE  TableOK' /\ Written'
<1>1. CASE UNCHANGED Kings
  BY <1>1 DEF Kings, TableOK, Written, Entry
<1>2. ASSUME NEW h \in Handler, KingNew(h) PROVE TableOK' /\ Written'
  BY <1>2, KingNewTable
<1>3. ASSUME NEW h \in Handler, KingWrites(h) PROVE TableOK' /\ Written'
  <2>1. /\ heap' \in [Array -> [Slot -> King]]
        /\ \A a \in Array, s \in Slot : heap'[a][s].tun = heap[a][s].tun
        /\ arr' = arr /\ nkings' = nkings
    BY <1>3, InPlace DEF KingWrites
  <2> QED
    BY <2>1, SliceInSlots DEF TableOK, Written, Entry
<1>4. CASE RunCleaner
  <2>1. PICK f \in [1..nkings' -> 1..nkings] :
          /\ nkings' \in 0..nkings
          /\ heap' = [heap EXCEPT ![arr] = [s \in Slot |->
                         IF s \in 1..nkings' THEN Entry(f[s]) ELSE Entry(s)]]
    BY <1>4, Compaction
  <2>2. /\ arr' = arr /\ arr \in Array /\ Capacity[arr] \in Nat /\ nkings \in 0..Capacity[arr]
        /\ 1..nkings \subseteq Slot /\ heap \in [Array -> [Slot -> King]]
    BY <1>4, SliceInSlots, BoundAssumption DEF RunCleaner, TableOK
  <2>3. \A s \in Slot : IF s \in 1..nkings' THEN Entry(f[s]) \in King ELSE Entry(s) \in King
    BY <2>1, <2>2 DEF Entry
  <2>4. heap' \in [Array -> [Slot -> King]]
    BY <2>1, <2>2, <2>3
  <2>5. 1..nkings' \subseteq Slot
    BY <2>1, <2>2
  <2>6. \A s \in 1..nkings' : heap'[arr][s] = Entry(f[s])
    BY <2>1, <2>2, <2>5
  <2> QED
    BY <2>1, <2>2, <2>4, <2>6 DEF TableOK, Written, Entry
<1> QED
  BY <1>1, <1>2, <1>3, <1>4, KingsUnchanged

\* The steps that write services, and the types of what they write.
ServiceWrites(h) == \/ ReadyMark(h) \/ KingNew(h) \/ KingUpdate(h) \/ LingFlip(h)
                    \/ ServiceNew(h) \/ ProvisionOne(h)

LEMMA ServicesUnchanged ==
    ASSUME [Next]_vars
    PROVE  \/ UNCHANGED <<services, issued>>
           \/ \E h \in Handler : ServiceWrites(h)
           \/ RunCleaner
<1>1. ASSUME UNCHANGED Table PROVE UNCHANGED <<services, issued>>
  BY ONLY <1>1 DEF Table
<1>2. ASSUME NEW h \in Handler, KingRefresh(h) \/ KingBeat(h)
      PROVE  UNCHANGED <<services, issued>>
  BY ONLY <1>2 DEF KingRefresh, KingBeat
<1>3. ASSUME NEW h \in Handler, LingNew(h) \/ LingRefresh(h)
      PROVE  UNCHANGED <<services, issued>>
  BY ONLY <1>3 DEF LingNew, LingRefresh
<1> QED
  BY <1>1, <1>2, <1>3, TableUnchanged DEF Writes, ServiceWrites

\* A placed service was given a slot of the slice and a port of its range.
LEMMA Placement ==
    ASSUME TableOK, Written, ServicesOK, NEW h \in Handler, ProvisionOne(h)
    PROVE  \E id \in Live, i \in 1..nkings, p \in Nat :
             /\ ~Provisioned(services[id])
             /\ ~Entry(i).down
             /\ p \in FreePorts(i)
             /\ services' = [services EXCEPT ![id] =
                    [services[id] EXCEPT !.at = [array |-> arr, slot |-> i], !.port = p]]
<1>1. PICK id \in First(Unprovisioned) : \E i \in First(Candidates(services[id].ling)) :
         \E p \in First(FreePorts(i)) :
            services' = [services EXCEPT ![id].at = [array |-> arr, slot |-> i],
                                         ![id].port = p]
  BY DEF ProvisionOne
<1>2. PICK i \in First(Candidates(services[id].ling)) :
         \E p \in First(FreePorts(i)) :
            services' = [services EXCEPT ![id].at = [array |-> arr, slot |-> i],
                                         ![id].port = p]
  BY <1>1
<1>3. PICK p \in First(FreePorts(i)) :
            services' = [services EXCEPT ![id].at = [array |-> arr, slot |-> i],
                                         ![id].port = p]
  BY <1>2
<1>4. id \in Live /\ ~Provisioned(services[id])
  BY <1>1 DEF First, Unprovisioned
<1>5. i \in Available
  BY <1>2 DEF First, Candidates
<1>6. i \in 1..nkings /\ ~Entry(i).down
  BY <1>5 DEF Available
<1>7. p \in FreePorts(i) /\ p \in Nat
  BY <1>3, <1>6, AdvertAssumption DEF First, FreePorts, Written
<1>8. services' = [services EXCEPT ![id] =
                    [services[id] EXCEPT !.at = [array |-> arr, slot |-> i], !.port = p]]
  BY <1>3, <1>4 DEF ServicesOK
<1> QED
  BY <1>4, <1>6, <1>7, <1>8

\* Only the look-up itself leaves that tunnel behind.
LEMMA AtTunnelStep ==
    ASSUME HandlersOK, AtTunnel, NEW h \in Handler,
           Send(h) \/ Acquire(h) \/ Run(h)
    PROVE  AtTunnel'
<1> DEFINE ok(g) == InService(g) =>
             Sender(g) \in LingNode /\ call[g].tun <= Len(LingTunnels[Sender(g)])
<1>0. /\ call \in [Handler -> Locals] /\ call[h] \in Locals
      /\ pc \in [Handler -> Locked \cup {"idle", "arrived", "broadcast", "relock"}]
      /\ ok(h) /\ (pc[h] # "idle" => call[h].req \in Request)
  BY DEF HandlersOK, AtTunnel
<1>1. SUFFICES ok(h)'
  <2>1. \A g \in Handler \ {h} : pc'[g] = pc[g] /\ call'[g] = call[g]
    BY <1>0 DEF Send, Acquire, Lock, Relock, Run, Answer, Bump, ReadyMissing, ReadyAgain,
       ReadyMark, ReadyDone, KingNew, KingRefresh, KingUpdate, KingBeat, LingNew,
       LingRefresh, LingFlip, ServiceExists, ServiceNew, TunnelsDone, ProvisionOne,
       ProvisionDone, Broadcast
  <2> QED
    BY <1>0, <2>1 DEF AtTunnel, InService, Sender
<1>2. CASE Send(h) \/ Lock(h)
  BY <1>0, <1>2 DEF Send, Lock, InService, Sender, Locals
<1>3. CASE Relock(h)
  BY <1>0, <1>3 DEF Relock, InService, Sender, Locals
<1>4. CASE ReadyMissing(h) \/ ServiceExists(h) \/ TunnelsDone(h)
  <2>1. pc' = [pc EXCEPT ![h] = "idle"] /\ call' = [call EXCEPT ![h] = Idle]
    BY ONLY <1>4 DEF ReadyMissing, ServiceExists, TunnelsDone, Answer
  <2>2. pc'[h] = "idle" /\ call'[h].resume = "ready"
    BY ONLY <1>0, <2>1 DEF Idle
  <2> QED  BY ONLY <2>2 DEF InService
<1>5. CASE ReadyAgain(h) \/ ReadyDone(h)
  BY <1>0, <1>5 DEF ReadyAgain, ReadyDone, InService, Sender, Locals
<1>6. CASE ReadyMark(h)
  BY <1>0, <1>6 DEF ReadyMark, Bump, InService, Sender, Locals
<1>7. CASE KingNew(h)
  BY <1>0, <1>7 DEF KingNew, Bump, InService, Sender, Locals
<1>8. CASE KingUpdate(h)
  <2>1. PICK i \in First(Matches(h)) :
          call' = [call EXCEPT ![h].ptr = [array |-> arr, slot |-> i], ![h].resume = "beat"]
    BY ONLY <1>8 DEF KingUpdate
  <2>2. pc' = [pc EXCEPT ![h] = "provision"]
    BY ONLY <1>8 DEF KingUpdate, Bump
  <2>3. pc'[h] = "provision" /\ call'[h].resume = "beat"
    BY ONLY <1>0, <2>1, <2>2 DEF Locals
  <2> QED  BY ONLY <2>3 DEF InService
<1>9. CASE KingRefresh(h) \/ KingBeat(h)
  BY <1>0, <1>9 DEF KingRefresh, KingBeat, KingLoop, InService, Sender, Locals
<1>10. CASE LingNew(h) \/ LingRefresh(h)
  BY <1>0, <1>10 DEF LingNew, LingRefresh, LingLoop, IsKing, Request, Node, InService, Sender, Locals
<1>11. CASE LingFlip(h)
  BY <1>0, <1>11 DEF LingFlip, Bump, LingLoop, IsKing, Request, Node, InService, Sender, Locals
<1>12. CASE ServiceNew(h)
  BY <1>0, <1>12 DEF ServiceNew, Bump, InService, Sender, Locals
<1>13. CASE ProvisionOne(h) \/ ProvisionDone(h) \/ Broadcast(h)
  BY <1>0, <1>13 DEF ProvisionOne, ProvisionDone, Broadcast, InService, Sender, Locals
<1> QED
  BY <1>2, <1>3, <1>4, <1>5, <1>6, <1>7, <1>8, <1>9, <1>10, <1>11, <1>12, <1>13 DEF Acquire, Run

LEMMA ServicesType ==
    ASSUME TypeInv, [Next]_vars
    PROVE  ServicesOK'
<1>0. /\ issued \in Nat /\ Live \subseteq 1..issued /\ services \in [Live -> Service]
      /\ \A id \in Live : services[id] \in Service
      /\ TableOK /\ HandlersOK
  BY DEF TypeInv, TypeOK, ServicesOK
<1>1. ASSUME services' \in [Live -> Service], issued' = issued PROVE ServicesOK'
  BY <1>0, <1>1 DEF ServicesOK, Live
<1>2. CASE UNCHANGED <<services, issued>>
  BY <1>0, <1>2 DEF ServicesOK, Live
<1>3. ASSUME NEW h \in Handler, ReadyMark(h) PROVE ServicesOK'
  <2>1. PICK id \in Live : services' =
          Deprovisioned(IF IsKing(h) THEN [services EXCEPT ![id].kingReady = TRUE]
                        ELSE [services EXCEPT ![id].lingReady = TRUE], heap, arr, nkings)
    BY <1>3 DEF ReadyMark
  <2>2. /\ [services EXCEPT ![id].kingReady = TRUE] \in [Live -> Service]
        /\ [services EXCEPT ![id].lingReady = TRUE] \in [Live -> Service]
    BY <1>0 DEF Service
  <2>3. issued' = issued
    BY <1>3 DEF ReadyMark
  <2> QED
    BY <1>1, <2>1, <2>2, <2>3, DeprovisionedType
<1>4. ASSUME NEW h \in Handler, KingNew(h) \/ KingUpdate(h) \/ LingFlip(h)
      PROVE  ServicesOK'
  <2>1. PICK hp, a, n : services' = Deprovisioned(services, hp, a, n)
    BY <1>4 DEF KingNew, KingUpdate, LingFlip
  <2>2. issued' = issued
    BY <1>4 DEF KingNew, KingUpdate, LingFlip
  <2> QED
    BY <1>0, <1>1, <2>1, <2>2, DeprovisionedType
<1>5. ASSUME NEW h \in Handler, ServiceNew(h) PROVE ServicesOK'
  <2> DEFINE new == [name |-> Wanted(h), ling |-> Sender(h), kingReady |-> FALSE,
                     lingReady |-> FALSE, at |-> Nil, port |-> 0]
             all == Put(services, issued', new)
  <2>1. Sender(h) \in LingNode /\ call[h].tun \in 1..Len(LingTunnels[Sender(h)])
    <3>1. Sender(h) \in LingNode /\ call[h].tun <= Len(LingTunnels[Sender(h)])
      BY <1>5 DEF ServiceNew, TypeInv, AtTunnel, InService
    <3>2. call[h].tun \in Nat \ {0}
      BY <1>0 DEF HandlersOK, Locals
    <3>3. Len(LingTunnels[Sender(h)]) \in Nat
      BY <3>1, AdvertAssumption
    <3> QED
      BY <3>1, <3>2, <3>3
  <2>2. Wanted(h) \in Name
    BY <2>1, AdvertAssumption DEF Wanted
  <2>3. new \in Service
    BY <2>1, <2>2 DEF Service, Pointer
  <2>4. issued' = issued + 1 /\ services' = Deprovisioned(all, heap, arr, nkings)
    BY <1>5 DEF ServiceNew
  <2>5. all \in [Live \cup {issued'} -> Service]
    BY <1>0, <2>3 DEF Put, Live
  <2>6. services' \in [Live \cup {issued'} -> Service]
    BY <2>4, <2>5, DeprovisionedType
  <2>7. issued' \in Nat /\ Live \cup {issued'} \subseteq 1..issued'
    BY <1>0, <2>4
  <2> QED
    BY <2>6, <2>7 DEF ServicesOK, Live
<1>6. ASSUME NEW h \in Handler, ProvisionOne(h) PROVE ServicesOK'
  <2>1. PICK id \in Live, i \in 1..nkings, p \in Nat :
             services' = [services EXCEPT ![id] =
                    [services[id] EXCEPT !.at = [array |-> arr, slot |-> i], !.port = p]]
    BY <1>0, <1>6, Placement DEF TypeInv, TypeOK
  <2>2. [array |-> arr, slot |-> i] \in Pointer
    BY <1>0, <2>1, SliceInSlots DEF TableOK, Pointer
  <2>3. [services[id] EXCEPT !.at = [array |-> arr, slot |-> i], !.port = p] \in Service
    BY <1>0, <2>2 DEF Service
  <2>4. issued' = issued
    BY <1>6 DEF ProvisionOne
  <2> QED
    BY <1>0, <1>1, <2>1, <2>3, <2>4
<1>7. CASE RunCleaner
  <2>1. PICK D : D \subseteq Live /\ services' = Restrict(services, D)
    BY <1>7 DEF RunCleaner
  <2>2. services' \in [D -> Service] /\ issued' = issued
    BY <1>0, <1>7, <2>1 DEF RunCleaner, Restrict
  <2> QED
    BY <1>0, <2>1, <2>2 DEF ServicesOK, Live
<1> QED
  BY <1>2, <1>3, <1>4, <1>5, <1>6, <1>7, ServicesUnchanged DEF ServiceWrites

\* Every step that leaves a service without a king leaves it without a port.
LEMMA PortsType ==
    ASSUME TypeInv, [Next]_vars
    PROVE  PortsOK'
<1>0. /\ services \in [Live -> Service] /\ PortsOK
      /\ TableOK /\ Written /\ ServicesOK /\ HandlersOK /\ arr \in Array
      /\ \A id \in Live : services[id].at = Nil => services[id].port = 0
  BY DEF TypeInv, TypeOK, ServicesOK, PortsOK, Provisioned, TableOK
<1>1. CASE UNCHANGED <<services, issued>>
  BY <1>0, <1>1 DEF PortsOK, Live
<1>2. ASSUME NEW D, NEW ss \in [D -> Service], NEW hp, NEW a, NEW n,
             services' = Deprovisioned(ss, hp, a, n),
             \A id \in D : ss[id].at = Nil => ss[id].port = 0
      PROVE  PortsOK'
  <2>1. services' \in [D -> Service]
    BY <1>2, DeprovisionedType
  <2>2. \A id \in D : services'[id].at = Nil => services'[id].port = 0
    BY <1>2, DeprovisionedPorts
  <2> QED
    BY <2>1, <2>2 DEF PortsOK, Provisioned, Live
<1>3. ASSUME NEW h \in Handler, ReadyMark(h) PROVE PortsOK'
  <2>1. PICK id \in Live : services' =
          Deprovisioned(IF IsKing(h) THEN [services EXCEPT ![id].kingReady = TRUE]
                        ELSE [services EXCEPT ![id].lingReady = TRUE], heap, arr, nkings)
    BY <1>3 DEF ReadyMark
  <2> DEFINE ss == IF IsKing(h) THEN [services EXCEPT ![id].kingReady = TRUE]
                   ELSE [services EXCEPT ![id].lingReady = TRUE]
  <2>2. ss \in [Live -> Service]
    BY <1>0 DEF Service
  <2>3. \A d \in Live : ss[d].at = services[d].at /\ ss[d].port = services[d].port
    BY <1>0 DEF Service
  <2>4. \A d \in Live : ss[d].at = Nil => ss[d].port = 0
    BY <1>0, <2>3
  <2> HIDE DEF ss
  <2> QED
    BY <1>2, <2>1, <2>2, <2>4 DEF ss
<1>4. ASSUME NEW h \in Handler, KingNew(h) \/ KingUpdate(h) \/ LingFlip(h) PROVE PortsOK'
  <2>1. PICK hp, a, n : services' = Deprovisioned(services, hp, a, n)
    BY <1>4 DEF KingNew, KingUpdate, LingFlip
  <2> QED
    BY <1>0, <1>2, <2>1
<1>5. ASSUME NEW h \in Handler, ServiceNew(h) PROVE PortsOK'
  <2> DEFINE new == [name |-> Wanted(h), ling |-> Sender(h), kingReady |-> FALSE,
                     lingReady |-> FALSE, at |-> Nil, port |-> 0]
             all == Put(services, issued + 1, new)
  <2>1. services' = Deprovisioned(all, heap, arr, nkings)
    BY <1>5 DEF ServiceNew
  <2>2. Sender(h) \in LingNode /\ call[h].tun <= Len(LingTunnels[Sender(h)])
        /\ call[h].tun \in Nat \ {0}
    BY <1>5 DEF ServiceNew, TypeInv, TypeOK, AtTunnel, InService, HandlersOK, Locals
  <2>3. new \in Service
    BY <2>2, AdvertAssumption DEF Wanted, Service, Pointer
  <2>4. /\ all \in [Live \cup {issued + 1} -> Service]
        /\ \A id \in Live \cup {issued + 1} : all[id] = new \/ (id \in Live /\ all[id] = services[id])
    BY <1>0, <2>3 DEF Put, Live
  <2>5. new.port = 0
    OBVIOUS
  <2> HIDE DEF new, all
  <2>6. \A id \in Live \cup {issued + 1} : all[id].at = Nil => all[id].port = 0
    BY <1>0, <2>4, <2>5
  <2> QED
    BY <1>2, <2>1, <2>4, <2>6
<1>6. ASSUME NEW h \in Handler, ProvisionOne(h) PROVE PortsOK'
  <2>1. PICK id \in Live, i \in 1..nkings, p \in Nat :
             services' = [services EXCEPT ![id] =
                    [services[id] EXCEPT !.at = [array |-> arr, slot |-> i], !.port = p]]
    BY <1>0, <1>6, Placement
  <2>2. /\ services'[id].at = [array |-> arr, slot |-> i] /\ Live' = Live
        /\ \A d \in Live \ {id} : services'[d] = services[d]
    BY <1>0, <2>1 DEF Live, Service
  <2>3. services'[id].at # Nil
    <3>1. i # 0
      BY <2>1
    <3> QED
      BY ONLY <2>2, <3>1 DEF Nil
  <2> QED
    BY <1>0, <2>2, <2>3 DEF PortsOK, Provisioned
<1>7. CASE RunCleaner
  BY <1>0, <1>7 DEF RunCleaner, Restrict, PortsOK, Live, Provisioned
<1> QED
  BY <1>1, <1>3, <1>4, <1>5, <1>6, <1>7, ServicesUnchanged DEF ServiceWrites

LEMMA LingsType ==
    ASSUME HandlersOK, OthersOK, LingsOK, [Next]_vars
    PROVE  LingsOK'
<1>0. lings \in [DOMAIN lings -> Ling] /\ DOMAIN lings \subseteq LingNode
  BY DEF LingsOK
<1>1. CASE UNCHANGED lings
  BY <1>1 DEF LingsOK
<1>2. ASSUME NEW h \in Handler, LingLoop(h) PROVE Sender(h) \in LingNode /\ BeatNow(h) \in Ling
  <2>1. call[h].req \in Request /\ call[h].now \in Nat
    BY <1>2 DEF LingLoop, HandlersOK, Locals
  <2> QED
    BY <1>2, <2>1, AdvertAssumption DEF LingLoop, IsKing, Sender, BeatNow, Ling, Request, Node
<1>3. ASSUME NEW h \in Handler, LingNew(h) PROVE LingsOK'
  <2>1. lings' = Put(lings, Sender(h), BeatNow(h)) /\ LingLoop(h)
    BY <1>3 DEF LingNew
  <2>2. lings' \in [DOMAIN lings \cup {Sender(h)} -> Ling]
    BY <1>0, <1>2, <2>1 DEF Put, Live
  <2> QED
    BY <1>0, <1>2, <2>1, <2>2 DEF LingsOK
<1>4. ASSUME NEW h \in Handler, LingRefresh(h) \/ LingFlip(h) PROVE LingsOK'
  <2>1. lings' = [lings EXCEPT ![Sender(h)] = BeatNow(h)] /\ LingLoop(h)
    BY <1>4 DEF LingRefresh, LingFlip
  <2> QED
    BY <1>0, <1>2, <2>1 DEF LingsOK
<1>5. CASE RunCleaner
  BY <1>0, <1>5 DEF RunCleaner, Restrict, LingsOK
<1>6. ASSUME NEW h \in Handler, ReadyMark(h) \/ ServiceNew(h) \/ ProvisionOne(h)
      PROVE  UNCHANGED lings
  BY ONLY <1>6 DEF ReadyMark, ServiceNew, ProvisionOne
<1>7. ASSUME NEW h \in Handler, KingNew(h) \/ KingRefresh(h) \/ KingUpdate(h) \/ KingBeat(h)
      PROVE  UNCHANGED lings
  BY ONLY <1>7 DEF KingNew, KingRefresh, KingUpdate, KingBeat
<1>8. ASSUME UNCHANGED Table PROVE UNCHANGED lings
  BY ONLY <1>8 DEF Table
<1> QED
  BY <1>1, <1>3, <1>4, <1>5, <1>6, <1>7, <1>8, TableUnchanged DEF Writes

LEMMA OthersType ==
    ASSUME OthersOK, [Next]_vars
    PROVE  OthersOK'
<1> DEFINE moves == /\ mutex' \in Handler \cup {mutex, Nobody}
                    /\ revision' = revision \/ revision' = revision + 1
                    /\ clock' = clock \/ clock' = clock + 1
                    /\ sent' = sent \/ sent' = sent + 1
                    /\ cleaner' = cleaner \/ cleaner' = "waiting" \/ cleaner' = "broadcast"
           tells == told' = told \/ told' = TRUE \/ told' = FALSE
<1>1. ASSUME NEW h \in Handler, Run(h) PROVE moves /\ tells
  BY <1>1 DEF Run, Answer, Bump, ReadyMissing, ReadyAgain, ReadyMark,
     ReadyDone, KingNew, KingUpdate, KingRefresh, KingBeat, LingNew, LingRefresh, LingFlip,
     ServiceExists, ServiceNew, TunnelsDone, ProvisionOne, ProvisionDone, Broadcast, table, others
<1>2. ASSUME NEW h \in Handler, Send(h) \/ Acquire(h) PROVE moves /\ tells
  BY <1>2 DEF Send, Acquire, Lock, Relock, table, others
<1>3. ASSUME RunCleaner \/ CleanerBroadcast \/ Tick \/ Quiet \/ UNCHANGED vars
      PROVE  moves /\ tells
  BY <1>3 DEF RunCleaner, CleanerBroadcast, Tick, Quiet, vars, table
<1>4. moves /\ tells
  BY <1>1, <1>2, <1>3 DEF Next
<1>5. told' \in BOOLEAN
  BY <1>4, Zenon DEF OthersOK
<1>6. /\ mutex' \in Handler \cup {Nobody} /\ revision' \in Nat /\ clock' \in Nat
      /\ sent' \in Nat /\ cleaner' \in {"waiting", "broadcast"}
  BY <1>4 DEF OthersOK
<1> QED
  BY <1>5, <1>6 DEF OthersOK

LEMMA TypeInit == Init => TypeInv
<1> SUFFICES ASSUME Init PROVE TypeInv
  OBVIOUS
<1>1. 0 \in Array /\ Capacity[0] = 0 /\ ZeroKing \in King
  BY BoundAssumption DEF Array, ZeroKing, King
<1>2. TableOK /\ Written
  BY <1>1 DEF Init, TableOK, Written
<1>3. ServicesOK /\ PortsOK /\ LingsOK
  BY DEF Init, ServicesOK, PortsOK, LingsOK, Live
<1>4. Idle \in Locals
  BY DEF Idle, Locals, Pointer, Resume, Locked
<1>5. HandlersOK /\ AtTunnel
  BY <1>4 DEF Init, HandlersOK, AtTunnel, InService
<1>6. OthersOK
  BY DEF Init, OthersOK
<1> QED
  BY <1>2, <1>3, <1>5, <1>6 DEF TypeInv, TypeOK

LEMMA TypeStep == TypeInv /\ [Next]_vars => TypeInv'
<1> SUFFICES ASSUME TypeInv, [Next]_vars PROVE TypeInv'
  OBVIOUS
<1>1. TableOK /\ ServicesOK /\ LingsOK /\ HandlersOK /\ OthersOK /\ Written /\ AtTunnel
  BY DEF TypeInv, TypeOK
<1>2. TableOK' /\ Written' /\ ServicesOK' /\ PortsOK' /\ LingsOK' /\ OthersOK'
  BY <1>1, TableType, ServicesType, PortsType, LingsType, OthersType
<1>3. ASSUME NEW h \in Handler, Send(h) \/ Acquire(h) \/ Run(h)
      PROVE  HandlersOK' /\ AtTunnel'
  BY <1>1, <1>3, HandlersType, AtTunnelStep
<1>4. ASSUME UNCHANGED <<pc, call>> PROVE HandlersOK' /\ AtTunnel'
  BY <1>1, <1>4 DEF HandlersOK, AtTunnel, InService, Sender
<1>5. \/ \E h \in Handler : Send(h) \/ Acquire(h) \/ Run(h)
      \/ UNCHANGED <<pc, call>>
  BY DEF Next, RunCleaner, CleanerBroadcast, Tick, Quiet, vars
<1>6. HandlersOK' /\ AtTunnel'
  BY <1>3, <1>4, <1>5
<1> QED
  BY <1>2, <1>6 DEF TypeInv, TypeOK

\* The council keeps its types: in particular the Kings slice never outgrows
\* its array, a placed service points into an array that exists, and one that is
\* not placed has no port.
THEOREM TypeSafe == Spec => []TypeOK
<1>1. Init => TypeInv
  BY TypeInit
<1>2. TypeInv /\ [Next]_vars => TypeInv'
  BY TypeStep
<1>3. TypeInv => TypeOK
  BY DEF TypeInv
<1> QED
  BY <1>1, <1>2, <1>3, PTL DEF Spec

-----------------------------------------------------------------------------
(* The mutex.                                                               *)

\* A running handler stays inside its critical section with the mutex, leaves
\* it and gives the mutex back, or is outside and broadcasts.
LEMMA RunMoves ==
    ASSUME HandlersOK, NEW h \in Handler, Run(h)
    PROVE  \E q \in Locked \cup {"idle", "broadcast", "relock"} :
             /\ pc' = [pc EXCEPT ![h] = q]
             /\ \/ pc[h] \in Locked /\ q \in Locked /\ mutex' = mutex
                \/ pc[h] \in Locked /\ q \notin Locked /\ mutex' = Nobody
                \/ pc[h] = "broadcast" /\ q = "relock" /\ mutex' = mutex
<1>1. pc = [pc EXCEPT ![h] = pc[h]]
  BY DEF HandlersOK
<1>2. CASE ReadyMissing(h) \/ ServiceExists(h) \/ TunnelsDone(h)
  BY <1>2 DEF ReadyMissing, ServiceExists, TunnelsDone, Answer, Locked
<1>3. CASE ReadyAgain(h) \/ ReadyDone(h)
  BY <1>1, <1>3 DEF ReadyAgain, ReadyDone, Locked
<1>4. CASE ReadyMark(h) \/ ServiceNew(h)
  BY <1>4 DEF ReadyMark, ServiceNew, Bump, Locked
<1>5. CASE KingNew(h) \/ KingUpdate(h)
  BY <1>5 DEF KingNew, KingUpdate, KingLoop, Bump, Locked
<1>6. CASE KingRefresh(h) \/ KingBeat(h)
  BY <1>1, <1>6 DEF KingRefresh, KingBeat, KingLoop, Locked
<1>7. CASE LingNew(h) \/ LingRefresh(h) \/ LingFlip(h)
  BY <1>7 DEF LingNew, LingRefresh, LingFlip, LingLoop, Bump, Locked
<1>8. CASE ProvisionOne(h) \/ ProvisionDone(h) \/ Broadcast(h)
  BY <1>1, <1>8 DEF ProvisionOne, ProvisionDone, Broadcast, Locked
<1> QED
  BY <1>2, <1>3, <1>4, <1>5, <1>6, <1>7, <1>8 DEF Run

LEMMA LockStep == TypeInv /\ LockDiscipline /\ [Next]_vars => LockDiscipline'
<1> SUFFICES ASSUME TypeInv, LockDiscipline, [Next]_vars PROVE LockDiscipline'
  OBVIOUS
<1>1. /\ HandlersOK /\ Nobody \notin Handler
      /\ pc \in [Handler -> Locked \cup {"idle", "arrived", "broadcast", "relock"}]
  BY NodeAssumption DEF TypeInv, TypeOK, HandlersOK
<1>2. ASSUME NEW h \in Handler, Run(h) PROVE LockDiscipline'
  <2>1. PICK q : /\ pc' = [pc EXCEPT ![h] = q]
                 /\ \/ pc[h] \in Locked /\ q \in Locked /\ mutex' = mutex
                    \/ pc[h] \in Locked /\ q \notin Locked /\ mutex' = Nobody
                    \/ pc[h] = "broadcast" /\ q = "relock" /\ mutex' = mutex
    BY <1>1, <1>2, RunMoves
  <2> QED
    BY <1>1, <2>1 DEF LockDiscipline, Locked
<1>3. ASSUME NEW h \in Handler, Send(h) PROVE LockDiscipline'
  BY <1>1, <1>3 DEF Send, LockDiscipline, Locked
<1>4. ASSUME NEW h \in Handler, Acquire(h) PROVE LockDiscipline'
  <2>1. PICK q \in Locked : pc' = [pc EXCEPT ![h] = q] /\ mutex' = h /\ mutex = Nobody
    BY <1>1, <1>4 DEF Acquire, Lock, Relock, HandlersOK, Locals, Resume, Locked
  <2> QED
    BY <1>1, <2>1 DEF LockDiscipline
<1>5. CASE UNCHANGED <<mutex, pc>>
  BY <1>5 DEF LockDiscipline
<1> QED
  BY <1>2, <1>3, <1>4, <1>5
  DEF Next, RunCleaner, CleanerBroadcast, Tick, Quiet, vars, table

\* A handler holds the mutex exactly while it is in a critical section, on
\* every path, early answers included.
THEOREM MutualExclusion == Spec => []LockDiscipline
<1>1. Init => TypeInv /\ LockDiscipline
  BY TypeInit, NodeAssumption DEF Init, LockDiscipline, Locked
<1>2. TypeInv /\ LockDiscipline /\ [Next]_vars => TypeInv' /\ LockDiscipline'
  BY TypeStep, LockStep
<1> QED
  BY <1>1, <1>2, PTL DEF Spec

-----------------------------------------------------------------------------
(* Announcing changes.                                                      *)

\* A change that is not announced yet belongs to a handler that still holds
\* the mutex to provision, or to somebody who is about to broadcast.
Announced ==
    ~told => \/ \E h \in Handler : pc[h] \in {"provision", "broadcast"}
             \/ cleaner = "broadcast"

LEMMA AnnouncedStep == TypeInv /\ Announced /\ [Next]_vars => Announced'
<1> SUFFICES ASSUME TypeInv, Announced, [Next]_vars PROVE Announced'
  OBVIOUS
<1>1. pc \in [Handler -> Locked \cup {"idle", "arrived", "broadcast", "relock"}]
  BY DEF TypeInv, TypeOK, HandlersOK
<1>2. ASSUME NEW h \in Handler, Send(h) \/ Acquire(h) \/ Run(h) PROVE Announced'
  <2>1. CASE Broadcast(h)
    BY <2>1 DEF Broadcast, Announced
  <2>2. CASE ProvisionOne(h) \/ ProvisionDone(h)
    BY <1>1, <2>2 DEF ProvisionOne, ProvisionDone, Announced, others
  <2>3. CASE Bump(h)
    BY <1>1, <2>3 DEF Bump, Announced
  <2>4. ASSUME told' = told, cleaner' = cleaner, pc[h] \notin {"provision", "broadcast"},
               \A g \in Handler \ {h} : pc'[g] = pc[g]
        PROVE  Announced'
    BY <1>1, <2>4 DEF Announced
  <2>5. CASE Send(h) \/ Lock(h) \/ Relock(h)
    BY <1>1, <2>4, <2>5 DEF Send, Lock, Relock, others
  <2>6. CASE ReadyMissing(h) \/ ServiceExists(h) \/ TunnelsDone(h)
    BY <1>1, <2>4, <2>6 DEF ReadyMissing, ServiceExists, TunnelsDone, Answer, others
  <2>7. CASE ReadyAgain(h) \/ ReadyDone(h)
    BY <1>1, <2>4, <2>7 DEF ReadyAgain, ReadyDone, others
  <2>8. CASE KingRefresh(h) \/ KingBeat(h)
    BY <1>1, <2>4, <2>8 DEF KingRefresh, KingBeat, KingLoop, others
  <2>9. CASE LingNew(h) \/ LingRefresh(h)
    BY <1>1, <2>4, <2>9 DEF LingNew, LingRefresh, LingLoop, others
  <2> QED
    BY <1>2, <2>1, <2>2, <2>3, <2>5, <2>6, <2>7, <2>8, <2>9
    DEF Acquire, Run, ReadyMark, KingNew, KingUpdate, LingFlip, ServiceNew
<1>3. CASE RunCleaner \/ CleanerBroadcast
  BY <1>3 DEF RunCleaner, CleanerBroadcast, Announced
<1>4. CASE Tick \/ Quiet \/ UNCHANGED vars
  BY <1>4 DEF Tick, Quiet, vars, Announced
<1> QED
  BY <1>2, <1>3, <1>4 DEF Next

\* Whenever the state can be read, every change of it has been announced or
\* will be by somebody who is already past its critical section.
THEOREM EveryChangeAnnounced == Spec => []ChangesAnnounced
<1>1. Init => TypeInv /\ LockDiscipline /\ Announced
  BY TypeInit, NodeAssumption DEF Init, LockDiscipline, Locked, Announced
<1>2. TypeInv /\ LockDiscipline /\ Announced /\ [Next]_vars
        => TypeInv' /\ LockDiscipline' /\ Announced'
  BY TypeStep, LockStep, AnnouncedStep
<1>3. LockDiscipline /\ Announced => ChangesAnnounced
  BY NodeAssumption DEF LockDiscipline, Announced, ChangesAnnounced, Locked
<1> QED
  BY <1>1, <1>2, <1>3, PTL DEF Spec

-----------------------------------------------------------------------------
(* Nothing is registered twice.                                             *)

LEMMA UniqueKingsStep == TypeInv /\ UniqueKings /\ [Next]_vars => UniqueKings'
<1> SUFFICES ASSUME TypeInv, UniqueKings, [Next]_vars PROVE UniqueKings'
  OBVIOUS
<1>0. TableOK /\ Written /\ HandlersOK /\ 1..nkings \subseteq Slot
      /\ heap \in [Array -> [Slot -> King]] /\ arr \in Array /\ nkings \in Nat
  BY SliceInSlots, BoundAssumption DEF TypeInv, TypeOK, TableOK
<1>1. CASE UNCHANGED Kings
  BY <1>1 DEF Kings, UniqueKings, Entry
<1>2. ASSUME NEW h \in Handler, KingNew(h) PROVE UniqueKings'
  <2> DEFINE new == [tun |-> Advert(h), down |-> FALSE,
                     cert |-> call[h].req.cert, beat |-> call[h].now]
  <2>1. /\ nkings' = nkings + 1 /\ Matches(h) = {}
        /\ heap' = [heap EXCEPT ![arr'] = [s \in Slot |->
                       IF s <= nkings THEN Entry(s)
                       ELSE IF s = nkings' THEN new ELSE heap[arr'][s]]]
    BY <1>2 DEF KingNew
  <2>2. arr' \in Array /\ 1..nkings' \subseteq Slot
    <3>1. TableOK'
      BY <1>0, <1>2, KingNewTable
    <3>2. arr' \in Array /\ nkings' \in 0..Capacity[arr']
      BY <3>1 DEF TableOK
    <3>3. Capacity[arr'] \in Nat /\ Capacity[MaxArrays] \in Nat
          /\ Capacity[arr'] <= Capacity[MaxArrays]
      BY <3>2, BoundAssumption DEF Array
    <3> QED
      BY <3>2, <3>3 DEF Slot
  <2>3. \A s \in 1..nkings : heap'[arr'][s] = heap[arr][s]
    BY <1>0, <2>1, <2>2 DEF Entry
  <2>4. heap'[arr'][nkings + 1].tun = Advert(h) /\ nkings + 1 \in 1..nkings'
    BY <1>0, <2>1, <2>2
  <2>5. \A s \in 1..nkings : Key[heap[arr][s].tun] # Key[Advert(h)]
    BY <2>1 DEF Matches, Entry
  <2>6. \A s \in 1..nkings' : s \in 1..nkings \/ s = nkings + 1
    BY <1>0, <2>1
  <2>7. \A s, t \in 1..nkings : Key[heap[arr][s].tun] = Key[heap[arr][t].tun] => s = t
    BY DEF UniqueKings, Entry
  <2> QED
    BY <2>3, <2>4, <2>5, <2>6, <2>7 DEF UniqueKings, Entry
<1>3. ASSUME NEW h \in Handler, KingWrites(h) PROVE UniqueKings'
  <2>1. /\ \A a \in Array, s \in Slot : heap'[a][s].tun = heap[a][s].tun
        /\ arr' = arr /\ nkings' = nkings
    BY <1>0, <1>3, InPlace DEF KingWrites
  <2> QED
    BY <1>0, <2>1 DEF UniqueKings, Entry
<1>4. CASE RunCleaner
  <2>1. PICK f \in [1..nkings' -> 1..nkings] :
          /\ \A k, l \in 1..nkings' : f[k] = f[l] => k = l
          /\ nkings' \in 0..nkings
          /\ heap' = [heap EXCEPT ![arr] = [s \in Slot |->
                         IF s \in 1..nkings' THEN Entry(f[s]) ELSE Entry(s)]]
    BY <1>0, <1>4, Compaction
  <2>2. 1..nkings' \subseteq Slot /\ arr' = arr
    BY <1>0, <1>4, <2>1 DEF RunCleaner
  <2>3. \A s \in 1..nkings' : Entry(s)' = Entry(f[s]) /\ f[s] \in 1..nkings
    BY <1>0, <2>1, <2>2 DEF Entry
  <2> QED
    BY <2>1, <2>3 DEF UniqueKings
<1> QED
  BY <1>1, <1>2, <1>3, <1>4, KingsUnchanged

\* However many heartbeats of one king are in flight, the council lists it
\* once: the search and the append are in one critical section.
THEOREM KingsListedOnce == Spec => []UniqueKings
<1>1. Init => TypeInv /\ UniqueKings
  BY TypeInit DEF Init, UniqueKings
<1>2. TypeInv /\ UniqueKings /\ [Next]_vars => TypeInv' /\ UniqueKings'
  BY TypeStep, UniqueKingsStep
<1> QED
  BY <1>1, <1>2, PTL DEF Spec

\* Only a registration adds a service; every other step keeps what a service
\* is, whatever it does to where the service is.
LEMMA SameServices ==
    ASSUME TypeInv, [Next]_vars
    PROVE  \/ \E h \in Handler : ServiceNew(h)
           \/ /\ Live' \subseteq Live
              /\ \A id \in Live' : /\ services'[id].name = services[id].name
                                   /\ services'[id].ling = services[id].ling
<1>0. services \in [Live -> Service]
  BY DEF TypeInv, TypeOK, ServicesOK
<1> DEFINE same == /\ Live' \subseteq Live
                   /\ \A id \in Live' : /\ services'[id].name = services[id].name
                                        /\ services'[id].ling = services[id].ling
<1>1. CASE UNCHANGED <<services, issued>>
  BY <1>1 DEF Live
<1>2. ASSUME NEW ss \in [Live -> Service], NEW hp, NEW a, NEW n,
             services' = Deprovisioned(ss, hp, a, n),
             \A id \in Live : ss[id].name = services[id].name /\ ss[id].ling = services[id].ling
      PROVE  same
  <2>1. /\ services' \in [Live -> Service]
        /\ \A id \in Live : /\ services'[id].name = ss[id].name
                            /\ services'[id].ling = ss[id].ling
    BY <1>2, DeprovisionedType
  <2> QED
    BY <1>2, <2>1 DEF Live
<1>3. ASSUME NEW h \in Handler, ReadyMark(h) PROVE same
  <2>1. PICK id \in Live : services' =
          Deprovisioned(IF IsKing(h) THEN [services EXCEPT ![id].kingReady = TRUE]
                        ELSE [services EXCEPT ![id].lingReady = TRUE], heap, arr, nkings)
    BY <1>3 DEF ReadyMark
  <2> DEFINE ss == IF IsKing(h) THEN [services EXCEPT ![id].kingReady = TRUE]
                   ELSE [services EXCEPT ![id].lingReady = TRUE]
  <2>2. ss \in [Live -> Service]
    BY <1>0 DEF Service
  <2>3. \A d \in Live : ss[d].name = services[d].name /\ ss[d].ling = services[d].ling
    BY <1>0 DEF Service
  <2> HIDE DEF ss
  <2> QED
    BY <1>2, <2>1, <2>2, <2>3 DEF ss
<1>4. ASSUME NEW h \in Handler, KingNew(h) \/ KingUpdate(h) \/ LingFlip(h) PROVE same
  <2>1. PICK hp, a, n : services' = Deprovisioned(services, hp, a, n)
    BY <1>4 DEF KingNew, KingUpdate, LingFlip
  <2> QED
    BY <1>0, <1>2, <2>1
<1>5. ASSUME NEW h \in Handler, ProvisionOne(h) PROVE same
  <2>1. PICK id \in Live, i \in 1..nkings, p \in Nat :
             services' = [services EXCEPT ![id] =
                    [services[id] EXCEPT !.at = [array |-> arr, slot |-> i], !.port = p]]
    BY <1>5, Placement DEF TypeInv, TypeOK
  <2> QED
    BY <1>0, <2>1 DEF Live, Service
<1>6. CASE RunCleaner
  BY <1>6 DEF RunCleaner, Restrict, Live
<1> QED
  BY <1>1, <1>3, <1>4, <1>5, <1>6, ServicesUnchanged DEF ServiceWrites

LEMMA UniqueServicesStep == TypeInv /\ UniqueServices /\ [Next]_vars => UniqueServices'
<1> SUFFICES ASSUME TypeInv, UniqueServices, [Next]_vars PROVE UniqueServices'
  OBVIOUS
<1>0. services \in [Live -> Service] /\ issued \in Nat /\ Live \subseteq 1..issued
  BY DEF TypeInv, TypeOK, ServicesOK
<1>1. ASSUME NEW h \in Handler, ServiceNew(h) PROVE UniqueServices'
  <2> DEFINE new == [name |-> Wanted(h), ling |-> Sender(h), kingReady |-> FALSE,
                     lingReady |-> FALSE, at |-> Nil, port |-> 0]
             all == Put(services, issued + 1, new)
  <2>1. services' = Deprovisioned(all, heap, arr, nkings) /\ ~Registered(Sender(h), Wanted(h))
    BY <1>1 DEF ServiceNew
  <2>2. new \in Service
    <3>2. Sender(h) \in LingNode /\ call[h].tun <= Len(LingTunnels[Sender(h)])
      BY <1>1 DEF ServiceNew, TypeInv, AtTunnel, InService
    <3>3. call[h].tun \in Nat \ {0}
      BY DEF TypeInv, TypeOK, HandlersOK, Locals
    <3>4. Wanted(h) \in Name
      BY <3>2, <3>3, AdvertAssumption DEF Wanted
    <3> QED
      BY <3>2, <3>4 DEF Service, Pointer
  <2>3. issued + 1 \notin Live
    BY <1>0
  <2>4. /\ all \in [Live \cup {issued + 1} -> Service]
        /\ all[issued + 1] = new /\ \A id \in Live : all[id] = services[id]
    BY <1>0, <2>2, <2>3 DEF Put, Live
  <2>5. \A a, b \in Live \cup {issued + 1} :
          all[a].name = all[b].name /\ all[a].ling = all[b].ling => a = b
    <3>1. \A a \in Live : ~(services[a].name = new.name /\ services[a].ling = new.ling)
      BY <2>1 DEF Registered
    <3>2. \A a, b \in Live :
            services[a].name = services[b].name /\ services[a].ling = services[b].ling => a = b
      BY DEF UniqueServices
    <3> HIDE DEF all, new
    <3> QED
      BY <2>4, <3>1, <3>2
  <2> HIDE DEF all
  <2>6. /\ services' \in [Live \cup {issued + 1} -> Service]
        /\ \A id \in Live \cup {issued + 1} : /\ services'[id].name = all[id].name
                                              /\ services'[id].ling = all[id].ling
    BY <2>1, <2>4, DeprovisionedType
  <2> QED
    BY <2>5, <2>6 DEF UniqueServices, Live
<1>2. CASE /\ Live' \subseteq Live
           /\ \A id \in Live' : /\ services'[id].name = services[id].name
                                /\ services'[id].ling = services[id].ling
  BY <1>2 DEF UniqueServices
<1> QED
  BY <1>1, <1>2, SameServices

\* A ling's tunnel never gets a second service, although ensureLingExists may
\* give the mutex away just before the look-up.
THEOREM ServicesRegisteredOnce == Spec => []UniqueServices
<1>1. Init => TypeInv /\ UniqueServices
  BY TypeInit DEF Init, UniqueServices, Live
<1>2. TypeInv /\ UniqueServices /\ [Next]_vars => TypeInv' /\ UniqueServices'
  BY TypeStep, UniqueServicesStep
<1> QED
  BY <1>1, <1>2, PTL DEF Spec

-----------------------------------------------------------------------------
(* Ports are exclusive while no king expires.                               *)

\* A placed service points below the end of the slice, or into an array the
\* slice has left: append does not write where a service points.
PointersPlaced ==
    \A id \in Live : Provisioned(services[id]) =>
        LET p == services[id].at IN
        /\ p.array \in 0..arr /\ p.slot \in Slot
        /\ p.array = arr => p.slot <= nkings

\* Apart from the provisioner, a step leaves a service where it was or nowhere.
LEMMA SamePlace ==
    ASSUME TypeInv, [Next]_vars
    PROVE  \/ \E h \in Handler : ProvisionOne(h)
           \/ \A id \in Live' : Provisioned(services'[id]) =>
                /\ id \in Live
                /\ services'[id].at = services[id].at
                /\ services'[id].port = services[id].port
<1>0. services \in [Live -> Service] /\ issued \in Nat /\ Live \subseteq 1..issued
  BY DEF TypeInv, TypeOK, ServicesOK
<1> DEFINE same == \A id \in Live' : Provisioned(services'[id]) =>
                /\ id \in Live
                /\ services'[id].at = services[id].at
                /\ services'[id].port = services[id].port
<1>1. CASE UNCHANGED <<services, issued>>
  BY <1>1 DEF Live
<1>2. ASSUME NEW D, NEW ss \in [D -> Service], NEW hp, NEW a, NEW n,
             services' = Deprovisioned(ss, hp, a, n),
             \A id \in D : ss[id].at # Nil =>
                id \in Live /\ ss[id].at = services[id].at /\ ss[id].port = services[id].port
      PROVE  same
  <2>1. /\ services' \in [D -> Service]
        /\ \A id \in D : services'[id].at = Nil \/
             (services'[id].at = ss[id].at /\ services'[id].port = ss[id].port)
    BY <1>2, DeprovisionedType
  <2> QED
    BY <1>2, <2>1 DEF Live, Provisioned
<1>3. ASSUME NEW h \in Handler, ReadyMark(h) PROVE same
  <2>1. PICK id \in Live : services' =
          Deprovisioned(IF IsKing(h) THEN [services EXCEPT ![id].kingReady = TRUE]
                        ELSE [services EXCEPT ![id].lingReady = TRUE], heap, arr, nkings)
    BY <1>3 DEF ReadyMark
  <2> DEFINE ss == IF IsKing(h) THEN [services EXCEPT ![id].kingReady = TRUE]
                   ELSE [services EXCEPT ![id].lingReady = TRUE]
  <2>2. ss \in [Live -> Service]
    BY <1>0 DEF Service
  <2>3. \A d \in Live : ss[d].at = services[d].at /\ ss[d].port = services[d].port
    BY <1>0 DEF Service
  <2> HIDE DEF ss
  <2> QED
    BY <1>2, <2>1, <2>2, <2>3 DEF ss
<1>4. ASSUME NEW h \in Handler, KingNew(h) \/ KingUpdate(h) \/ LingFlip(h) PROVE same
  <2>1. PICK hp, a, n : services' = Deprovisioned(services, hp, a, n)
    BY <1>4 DEF KingNew, KingUpdate, LingFlip
  <2> QED
    BY <1>0, <1>2, <2>1
<1>5. ASSUME NEW h \in Handler, ServiceNew(h) PROVE same
  <2> DEFINE new == [name |-> Wanted(h), ling |-> Sender(h), kingReady |-> FALSE,
                     lingReady |-> FALSE, at |-> Nil, port |-> 0]
             all == Put(services, issued + 1, new)
  <2>1. services' = Deprovisioned(all, heap, arr, nkings)
    BY <1>5 DEF ServiceNew
  <2>2. Sender(h) \in LingNode /\ call[h].tun <= Len(LingTunnels[Sender(h)])
        /\ call[h].tun \in Nat \ {0}
    BY <1>5 DEF ServiceNew, TypeInv, TypeOK, AtTunnel, InService, HandlersOK, Locals
  <2>3. new \in Service
    BY <2>2, AdvertAssumption DEF Wanted, Service, Pointer
  <2>4. /\ all \in [Live \cup {issued + 1} -> Service] /\ issued + 1 \notin Live
        /\ all[issued + 1].at = Nil /\ \A id \in Live : all[id] = services[id]
    BY <1>0, <2>3 DEF Put, Live
  <2> HIDE DEF all
  <2> QED
    BY <1>2, <2>1, <2>4
<1>6. CASE RunCleaner
  BY <1>6 DEF RunCleaner, Restrict, Live
<1> QED
  BY <1>1, <1>3, <1>4, <1>5, <1>6, ServicesUnchanged DEF ServiceWrites

\* Apart from the cleaner's compaction, a step changes no tunnel a service
\* points at.
LEMMA SameAddress ==
    ASSUME TypeInv, PointersPlaced, [Next]_vars, nkings' >= nkings
    PROVE  /\ arr' >= arr
           /\ arr' = arr \/ arr' = arr + 1
           /\ \A id \in Live : Provisioned(services[id]) =>
                Cell(heap', services[id].at).tun = Cell(heap, services[id].at).tun
<1> DEFINE same == \A id \in Live : Provisioned(services[id]) =>
                     Cell(heap', services[id].at).tun = Cell(heap, services[id].at).tun
<1>0. /\ TableOK /\ Written /\ HandlersOK /\ 1..nkings \subseteq Slot /\ arr \in Array
      /\ heap \in [Array -> [Slot -> King]] /\ nkings \in Nat /\ arr \in Nat
  BY SliceInSlots, BoundAssumption DEF TypeInv, TypeOK, TableOK, Array
<1>p. \A id \in Live : Provisioned(services[id]) =>
        services[id].at.array \in Array /\ services[id].at.slot \in Slot
  BY <1>0, BoundAssumption DEF PointersPlaced, Array
<1>1. CASE UNCHANGED Kings
  BY <1>0, <1>1 DEF Kings
<1>2. ASSUME NEW h \in Handler, KingWrites(h) PROVE same /\ arr' = arr
  BY <1>0, <1>2, <1>p, InPlace DEF KingWrites, Cell
<1>3. ASSUME NEW h \in Handler, KingNew(h) PROVE same /\ (arr' = arr \/ arr' = arr + 1)
  <2> DEFINE new == [tun |-> Advert(h), down |-> FALSE,
                     cert |-> call[h].req.cert, beat |-> call[h].now]
             cells == [s \in Slot |-> IF s <= nkings THEN Entry(s)
                                      ELSE IF s = nkings' THEN new ELSE heap[arr'][s]]
  <2>1. heap' = [heap EXCEPT ![arr'] = cells] /\ (arr' = arr \/ arr' = arr + 1)
    BY <1>3 DEF KingNew
  <2>2. ASSUME NEW id \in Live, Provisioned(services[id])
        PROVE  Cell(heap', services[id].at) = Cell(heap, services[id].at)
    <3> DEFINE p == services[id].at
    <3>1. p.array \in 0..arr /\ p.slot \in Slot /\ (p.array = arr => p.slot <= nkings)
      BY <2>2 DEF PointersPlaced
    <3>2. CASE p.array # arr'
      BY <2>1, <3>2 DEF Cell
    <3>3. CASE p.array = arr'
      <4>1. arr' = arr /\ p.slot <= nkings
        BY <1>0, <2>1, <3>1, <3>3
      <4>2. heap'[arr] = cells
        BY <1>0, <2>1, <4>1
      <4>3. cells[p.slot] = heap[arr][p.slot]
        BY <3>1, <4>1 DEF Entry
      <4> QED
        BY <3>3, <4>1, <4>2, <4>3 DEF Cell
    <3> QED
      BY <3>2, <3>3
  <2> QED
    BY <2>1, <2>2
<1>4. CASE RunCleaner
  <2>1. PICK f \in [1..nkings' -> 1..nkings] :
          /\ nkings' = nkings => \A k \in 1..nkings : f[k] = k
          /\ nkings' \in 0..nkings
          /\ heap' = [heap EXCEPT ![arr] = [s \in Slot |->
                         IF s \in 1..nkings' THEN Entry(f[s]) ELSE Entry(s)]]
    BY <1>0, <1>4, Compaction
  <2>2. nkings' = nkings
    BY <1>0, <2>1
  <2>3. \A s \in Slot : (IF s \in 1..nkings' THEN Entry(f[s]) ELSE Entry(s)) = heap[arr][s]
    BY <2>1, <2>2 DEF Entry
  <2>4. \A a \in Array, s \in Slot : heap'[a][s] = heap[a][s]
    BY <1>0, <2>1, <2>3
  <2>5. arr' = arr
    BY <1>4 DEF RunCleaner
  <2>6. same
    BY ONLY <1>p, <2>4 DEF Cell
  <2> QED
    BY ONLY <1>0, <2>5, <2>6
<1> QED
  BY <1>0, <1>1, <1>2, <1>3, <1>4, KingsUnchanged

LEMMA PlacedStep ==
    ASSUME TypeInv, PointersPlaced, [Next]_vars, nkings' >= nkings
    PROVE  PointersPlaced'
<1>0. /\ TableOK /\ 1..nkings \subseteq Slot /\ arr \in Nat /\ arr' \in Nat
      /\ nkings \in Nat /\ nkings' \in Nat /\ services \in [Live -> Service]
  <2>1. TypeInv'
    BY TypeStep
  <2> QED
    BY <2>1, SliceInSlots, BoundAssumption DEF TypeInv, TypeOK, TableOK, ServicesOK, Array
<1>1. arr' = arr \/ arr' = arr + 1
  BY SameAddress
<1>2. ASSUME NEW id \in Live', id \in Live, Provisioned(services'[id]),
             services'[id].at = services[id].at
      PROVE  LET p == services'[id].at IN
             p.array \in 0..arr' /\ p.slot \in Slot /\ (p.array = arr' => p.slot <= nkings')
  <2> DEFINE p == services[id].at
  <2>1. p.array \in 0..arr /\ p.slot \in Slot /\ (p.array = arr => p.slot <= nkings)
    BY <1>2 DEF PointersPlaced, Provisioned
  <2>2. p.slot \in Nat
    BY <2>1 DEF Slot
  <2> QED
    BY <1>0, <1>1, <1>2, <2>1, <2>2
<1>3. ASSUME NEW h \in Handler, ProvisionOne(h) PROVE PointersPlaced'
  <2>1. PICK id \in Live, i \in 1..nkings, p \in Nat :
             services' = [services EXCEPT ![id] =
                    [services[id] EXCEPT !.at = [array |-> arr, slot |-> i], !.port = p]]
    BY <1>0, <1>3, Placement DEF TypeInv, TypeOK
  <2>2. arr' = arr /\ nkings' = nkings
    BY <1>3 DEF ProvisionOne
  <2>3. services'[id].at = [array |-> arr, slot |-> i] /\ Live' = Live
        /\ \A d \in Live \ {id} : services'[d] = services[d]
    BY <1>0, <2>1 DEF Live, Service
  <2>4. \A d \in Live \ {id} : Provisioned(services'[d]) =>
            LET q == services'[d].at IN
            q.array \in 0..arr' /\ q.slot \in Slot /\ (q.array = arr' => q.slot <= nkings')
    BY <2>2, <2>3 DEF PointersPlaced
  <2>5. services'[id].at.array \in 0..arr' /\ services'[id].at.slot \in Slot
        /\ services'[id].at.slot <= nkings'
    BY <1>0, <2>2, <2>3
  <2> QED
    BY <2>3, <2>4, <2>5 DEF PointersPlaced
<1>4. CASE \A id \in Live' : Provisioned(services'[id]) =>
             id \in Live /\ services'[id].at = services[id].at
  BY <1>2, <1>4 DEF PointersPlaced
<1> QED
  BY <1>3, <1>4, SamePlace

LEMMA ExclusiveStep ==
    ASSUME TypeInv, PointersPlaced, PortExclusive, [Next]_vars, nkings' >= nkings
    PROVE  PortExclusive'
<1>0. services \in [Live -> Service]
  BY DEF TypeInv, TypeOK, ServicesOK
<1>a. \A a, b \in Live :
        /\ Provisioned(services[a]) /\ Provisioned(services[b])
        /\ AddrOf(heap, services[a]) = AddrOf(heap, services[b])
        /\ services[a].port = services[b].port
        => a = b
  BY DEF PortExclusive
<1>b. \A id \in Live : Provisioned(services[id]) =>
        Addr[Cell(heap', services[id].at).tun] = AddrOf(heap, services[id])
  BY SameAddress DEF AddrOf
<1>1. ASSUME NEW h \in Handler, ProvisionOne(h) PROVE PortExclusive'
  <2>1. PICK id \in Live, i \in 1..nkings, p \in Nat :
             /\ ~Provisioned(services[id]) /\ p \in FreePorts(i)
             /\ services' = [services EXCEPT ![id] =
                    [services[id] EXCEPT !.at = [array |-> arr, slot |-> i], !.port = p]]
    BY <1>1, Placement DEF TypeInv, TypeOK
  <2>2. heap' = heap
    BY <1>1 DEF ProvisionOne
  <2>3. /\ Live' = Live /\ services'[id].port = p
        /\ services'[id].at = [array |-> arr, slot |-> i]
        /\ \A d \in Live \ {id} : services'[d] = services[d]
    BY <1>0, <2>1 DEF Live, Service
  <2>4. AddrOf(heap, services'[id]) = Addr[Entry(i).tun]
    BY <2>3 DEF AddrOf, Cell, Entry
  <2>5. \A d \in Live : Provisioned(services[d]) /\ services[d].port = p
            => AddrOf(heap, services[d]) # Addr[Entry(i).tun]
    BY <2>1 DEF FreePorts, UsedPorts
  <2>6. \A d \in Live \ {id} : Provisioned(services'[d]) /\ services'[d].port = p
            => AddrOf(heap, services'[d]) # AddrOf(heap, services'[id])
    BY <2>3, <2>4, <2>5
  <2>7. \A a, b \in Live \ {id} :
        /\ Provisioned(services'[a]) /\ Provisioned(services'[b])
        /\ AddrOf(heap, services'[a]) = AddrOf(heap, services'[b])
        /\ services'[a].port = services'[b].port
        => a = b
    BY <1>a, <2>3
  <2>8. \A a, b \in Live :
        /\ Provisioned(services'[a]) /\ Provisioned(services'[b])
        /\ AddrOf(heap, services'[a]) = AddrOf(heap, services'[b])
        /\ services'[a].port = services'[b].port
        => a = b
    BY <2>3, <2>6, <2>7
  <2> QED
    BY <2>2, <2>3, <2>8 DEF PortExclusive
<1>2. CASE \A id \in Live' : Provisioned(services'[id]) =>
             /\ id \in Live
             /\ services'[id].at = services[id].at
             /\ services'[id].port = services[id].port
  <2>1. \A id \in Live' : Provisioned(services'[id]) =>
             /\ id \in Live /\ Provisioned(services[id])
             /\ services'[id].port = services[id].port
             /\ AddrOf(heap', services'[id]) = AddrOf(heap, services[id])
    BY <1>2, <1>b DEF Provisioned, AddrOf
  <2> QED
    BY <1>a, <2>1 DEF PortExclusive
<1> QED
  BY <1>1, <1>2, SamePlace

\* As long as the cleaner removes no king, no two services share an address
\* and port.  The hypothesis is needed: when a king expires, the cleaner moves the
\* others under the services' pointers (see the run cleaner_aliasing), and a
\* port that is in use looks free to the provisioner.
THEOREM PortsExclusiveWhileSteady == SteadySpec => []PortExclusive
<1> DEFINE Steady == Next /\ nkings' >= nkings
           Inv == TypeInv /\ PointersPlaced /\ PortExclusive
<1>1. Init => Inv
  BY TypeInit DEF Init, PointersPlaced, PortExclusive, Live
<1>2. Inv /\ [Steady]_vars => Inv'
  <2> SUFFICES ASSUME Inv, [Steady]_vars PROVE Inv'
    OBVIOUS
  <2>1. [Next]_vars
    OBVIOUS
  <2>2. nkings' >= nkings
    BY BoundAssumption DEF TypeInv, TypeOK, TableOK, vars
  <2> QED
    BY <2>1, <2>2, TypeStep, PlacedStep, ExclusiveStep
<1>3. Inv => PortExclusive
  OBVIOUS
<1> QED
  BY <1>1, <1>2, <1>3, PTL DEF SteadySpec

-----------------------------------------------------------------------------
(* What a heartbeat writes without telling anybody.                         *)

\* A beat is all that a heartbeat writes without announcing it, whichever array
\* and slot a saved pointer leads to.
LEMMA BeatOnly ==
    ASSUME TableOK, HandlersOK, NEW h \in Handler, KingRefresh(h) \/ KingBeat(h)
    PROVE  /\ UNCHANGED <<arr, nkings, services, revision, lings>>
           /\ \A a \in Array, s \in Slot : /\ heap'[a][s].tun = heap[a][s].tun
                                           /\ heap'[a][s].down = heap[a][s].down
                                           /\ heap'[a][s].cert = heap[a][s].cert
<1> DEFINE kept == \A a \in Array, s \in Slot : /\ heap'[a][s].tun = heap[a][s].tun
                                                /\ heap'[a][s].down = heap[a][s].down
                                                /\ heap'[a][s].cert = heap[a][s].cert
<1>0. heap \in [Array -> [Slot -> King]] /\ arr \in Array /\ 1..nkings \subseteq Slot
  BY SliceInSlots DEF TableOK
<1>1. ASSUME NEW a \in Array, NEW i \in Slot, NEW b,
             heap' = [heap EXCEPT ![a][i].beat = b]
      PROVE  kept
  <2>1. heap[a] \in [Slot -> King] /\ heap[a][i] \in King
    BY <1>0
  <2> DEFINE k == [heap[a][i] EXCEPT !.beat = b]
  <2>2. k.tun = heap[a][i].tun /\ k.down = heap[a][i].down /\ k.cert = heap[a][i].cert
    BY <2>1 DEF King
  <2>3. heap' = [heap EXCEPT ![a] = [heap[a] EXCEPT ![i] = k]]
    BY <1>1
  <2> HIDE DEF k
  <2> QED
    BY <1>0, <2>1, <2>2, <2>3
<1>2. CASE KingRefresh(h)
  <2>1. PICK i \in 1..nkings : heap' = [heap EXCEPT ![arr][i].beat = call[h].now]
    BY <1>2 DEF KingRefresh, First, Matches
  <2>2. kept
    BY <1>0, <1>1, <2>1
  <2> QED
    BY <1>2, <2>2 DEF KingRefresh
<1>3. CASE KingBeat(h)
  <2> DEFINE p == call[h].ptr
  <2>1. heap' = [heap EXCEPT ![p.array][p.slot].beat = call[h].now]
    BY <1>3 DEF KingBeat
  <2>2. p \in Pointer
    BY DEF HandlersOK, Locals
  <2>3. ASSUME p = Nil PROVE kept
    <3>1. p.slot \notin Slot
      BY <2>3 DEF Nil, Slot
    <3>2. heap' = heap
      BY <1>0, <2>1, <3>1
    <3> QED
      BY <3>2
  <2>4. ASSUME p \in [array : Array, slot : Slot] PROVE kept
    <3>1. p.array \in Array /\ p.slot \in Slot
      BY <2>4
    <3> QED
      BY <1>1, <2>1, <3>1
  <2>5. kept
    BY <2>2, <2>3, <2>4 DEF Pointer
  <2> QED
    BY <1>3, <2>5 DEF KingBeat
<1> QED
  BY <1>2, <1>3

-----------------------------------------------------------------------------
(* No service stays on a king that shuts down, while no king expires.       *)

Off == \A id \in Live : \A i \in 1..nkings :
    Provisioned(services[id]) /\ Entry(i).down
        => AddrOf(heap, services[id]) # Addr[Entry(i).tun]

\* An address is advertised with one port range.  A king that comes back with
\* another one is listed next to its old self, which FindKing cannot find.
OneRange == \A t, u \in Tunnel : Addr[t] = Addr[u] => Key[t] = Key[u]

\* The handlers that announce a change deprovision in the same step.
LEMMA Deprovisions ==
    ASSUME TypeInv, NEW h \in Handler,
           ReadyMark(h) \/ KingNew(h) \/ KingUpdate(h) \/ LingFlip(h) \/ ServiceNew(h)
    PROVE  \E D : \E ss \in [D -> Service] :
                services' = Deprovisioned(ss, heap', arr', nkings')
<1>0. services \in [Live -> Service]
  BY DEF TypeInv, TypeOK, ServicesOK
<1>1. CASE ReadyMark(h)
  <2>1. PICK id \in Live : services' =
          Deprovisioned(IF IsKing(h) THEN [services EXCEPT ![id].kingReady = TRUE]
                        ELSE [services EXCEPT ![id].lingReady = TRUE], heap, arr, nkings)
    BY <1>1 DEF ReadyMark
  <2> DEFINE ss == IF IsKing(h) THEN [services EXCEPT ![id].kingReady = TRUE]
                   ELSE [services EXCEPT ![id].lingReady = TRUE]
  <2>2. ss \in [Live -> Service]
    BY <1>0 DEF Service
  <2>3. heap' = heap /\ arr' = arr /\ nkings' = nkings
    BY <1>1 DEF ReadyMark
  <2> QED
    BY <2>1, <2>2, <2>3
<1>2. CASE KingNew(h)
  <2>1. services' = Deprovisioned(services, heap', arr', nkings')
    BY <1>2 DEF KingNew
  <2> QED
    BY <1>0, <2>1
<1>3. CASE KingUpdate(h)
  <2>1. services' = Deprovisioned(services, heap', arr', nkings')
    BY <1>3 DEF KingUpdate
  <2> QED
    BY <1>0, <2>1
<1>4. CASE LingFlip(h)
  <2>1. services' = Deprovisioned(services, heap', arr', nkings')
    BY <1>4 DEF LingFlip
  <2> QED
    BY <1>0, <2>1
<1>5. CASE ServiceNew(h)
  <2> DEFINE new == [name |-> Wanted(h), ling |-> Sender(h), kingReady |-> FALSE,
                     lingReady |-> FALSE, at |-> Nil, port |-> 0]
             all == Put(services, issued + 1, new)
  <2>1. services' = Deprovisioned(all, heap', arr', nkings')
    BY <1>5 DEF ServiceNew
  <2>2. Sender(h) \in LingNode /\ call[h].tun <= Len(LingTunnels[Sender(h)])
        /\ call[h].tun \in Nat \ {0}
    BY <1>5 DEF ServiceNew, TypeInv, TypeOK, AtTunnel, InService, HandlersOK, Locals
  <2>3. new \in Service
    BY <2>2, AdvertAssumption DEF Wanted, Service, Pointer
  <2>4. all \in [Live \cup {issued + 1} -> Service]
    BY <1>0, <2>3 DEF Put, Live
  <2> QED
    BY <2>1, <2>4
<1> QED
  BY <1>1, <1>2, <1>3, <1>4, <1>5

\* What deprovisioning leaves placed is at no king that shuts down.
LEMMA DeprovisionedOff ==
    ASSUME NEW D, NEW ss \in [D -> Service],
           services' = Deprovisioned(ss, heap', arr', nkings')
    PROVE  Off'
<1> DEFINE Leaving(s) == /\ Provisioned(s)
                         /\ \E i \in 1..nkings' :
                              /\ heap'[arr'][i].down
                              /\ Addr[heap'[arr'][i].tun] = AddrOf(heap', s)
<1>0. DOMAIN ss = D
  OBVIOUS
<1>1. services' = [id \in D |->
            IF Leaving(ss[id])
            THEN [ss[id] EXCEPT !.at = Nil, !.port = 0, !.kingReady = FALSE] ELSE ss[id]]
  BY <1>0, Zenon DEF Deprovisioned
<1>2. Live' = D
  BY <1>1 DEF Live
<1> HIDE DEF Leaving
<1>3. ASSUME NEW id \in D, NEW i \in 1..nkings',
             Provisioned(services'[id]), heap'[arr'][i].down
      PROVE  AddrOf(heap', services'[id]) # Addr[heap'[arr'][i].tun]
  <2>1. CASE Leaving(ss[id])
    <3>1. services'[id] = [ss[id] EXCEPT !.at = Nil, !.port = 0, !.kingReady = FALSE]
      BY <1>1, <2>1
    <3>2. ss[id] \in Service
      OBVIOUS
    <3>3. services'[id].at = Nil
      BY <3>1, <3>2 DEF Service
    <3> QED
      BY <1>3, <3>3 DEF Provisioned
  <2>2. CASE ~Leaving(ss[id])
    <3>1. services'[id] = ss[id]
      BY <1>1, <2>2
    <3> QED
      BY <1>3, <2>2, <3>1 DEF Leaving
  <2> QED
    BY <2>1, <2>2
<1> QED
  BY <1>2, <1>3 DEF Off, Entry

LEMMA OffStep ==
    ASSUME OneRange, TypeInv, PointersPlaced, UniqueKings, Off,
           [Next]_vars, nkings' >= nkings
    PROVE  Off'
<1>0. /\ TableOK /\ Written /\ HandlersOK /\ ServicesOK /\ 1..nkings \subseteq Slot
      /\ arr \in Array /\ heap \in [Array -> [Slot -> King]] /\ nkings \in Nat
      /\ services \in [Live -> Service]
  BY SliceInSlots, BoundAssumption DEF TypeInv, TypeOK, TableOK, ServicesOK
<1>a. \A id \in Live : Provisioned(services[id]) =>
        Addr[Cell(heap', services[id].at).tun] = AddrOf(heap, services[id])
  BY SameAddress DEF AddrOf
<1>1. ASSUME NEW h \in Handler,
             ReadyMark(h) \/ KingNew(h) \/ KingUpdate(h) \/ LingFlip(h) \/ ServiceNew(h)
      PROVE  Off'
  BY <1>1, Deprovisions, DeprovisionedOff
<1>2. ASSUME UNCHANGED <<arr, nkings>>,
             \A i \in 1..nkings : /\ heap'[arr][i].tun = heap[arr][i].tun
                                  /\ heap'[arr][i].down = heap[arr][i].down,
             \A id \in Live' : id \in Live /\ services'[id] = services[id]
      PROVE  Off'
  <2>1. \A id \in Live' : Provisioned(services'[id]) =>
            /\ id \in Live /\ Provisioned(services[id])
            /\ AddrOf(heap', services'[id]) = AddrOf(heap, services[id])
    BY <1>a, <1>2 DEF AddrOf
  <2> QED
    BY <1>2, <2>1 DEF Off, Entry
<1>3. ASSUME NEW h \in Handler, KingRefresh(h) \/ KingBeat(h) PROVE Off'
  <2>1. /\ UNCHANGED <<arr, nkings, services>>
        /\ \A i \in 1..nkings : /\ heap'[arr][i].tun = heap[arr][i].tun
                                /\ heap'[arr][i].down = heap[arr][i].down
    BY <1>0, <1>3, BeatOnly
  <2> QED
    BY <1>2, <2>1 DEF Live
<1>4. ASSUME NEW h \in Handler, ProvisionOne(h) PROVE Off'
  <2>1. PICK id \in Live, i \in 1..nkings, p \in Nat :
             /\ ~Entry(i).down
             /\ services' = [services EXCEPT ![id] =
                    [services[id] EXCEPT !.at = [array |-> arr, slot |-> i], !.port = p]]
    BY <1>0, <1>4, Placement
  <2>2. heap' = heap /\ arr' = arr /\ nkings' = nkings
    BY <1>4 DEF ProvisionOne
  <2>3. /\ Live' = Live /\ services'[id].at = [array |-> arr, slot |-> i]
        /\ \A d \in Live \ {id} : services'[d] = services[d]
    BY <1>0, <2>1 DEF Live, Service
  <2>4. AddrOf(heap, services'[id]) = Addr[Entry(i).tun]
    BY <2>3 DEF AddrOf, Cell, Entry
  <2>5. ASSUME NEW j \in 1..nkings, Entry(j).down PROVE Addr[Entry(i).tun] # Addr[Entry(j).tun]
    <3>1. i # j
      BY <2>1, <2>5
    <3>2. Key[Entry(i).tun] # Key[Entry(j).tun]
      BY <3>1 DEF UniqueKings
    <3> QED
      BY <1>0, <3>2 DEF OneRange, Written
  <2>6. \A d \in Live \ {id} : \A j \in 1..nkings :
            Provisioned(services'[d]) /\ Entry(j).down
                => AddrOf(heap, services'[d]) # Addr[Entry(j).tun]
    BY <2>3 DEF Off
  <2>7. \A d \in Live : \A j \in 1..nkings :
            Provisioned(services'[d]) /\ Entry(j).down
                => AddrOf(heap, services'[d]) # Addr[Entry(j).tun]
    BY <2>4, <2>5, <2>6
  <2> QED
    BY <2>2, <2>3, <2>7 DEF Off, Entry
<1>5. CASE RunCleaner
  <2>1. PICK f \in [1..nkings' -> 1..nkings] :
          /\ nkings' = nkings => \A k \in 1..nkings : f[k] = k
          /\ nkings' \in 0..nkings
          /\ heap' = [heap EXCEPT ![arr] = [s \in Slot |->
                         IF s \in 1..nkings' THEN Entry(f[s]) ELSE Entry(s)]]
    BY <1>0, <1>5, Compaction
  <2>2. nkings' = nkings
    BY <1>0, <2>1
  <2>3. \A s \in 1..nkings : heap'[arr][s] = heap[arr][s]
    BY <1>0, <2>1, <2>2 DEF Entry
  <2>4. arr' = arr /\ \A id \in Live' : id \in Live /\ services'[id] = services[id]
    BY <1>5 DEF RunCleaner, Restrict, Live
  <2> QED
    BY <1>2, <2>2, <2>3, <2>4
<1>6. CASE UNCHANGED <<heap, arr, nkings, services>>
  BY <1>6 DEF Off, Live, AddrOf, Cell, Entry
<1>7. ASSUME NEW h \in Handler, LingNew(h) \/ LingRefresh(h)
      PROVE  UNCHANGED <<heap, arr, nkings, services>>
  BY ONLY <1>7 DEF LingNew, LingRefresh
<1> QED
  BY <1>1, <1>3, <1>4, <1>5, <1>6, <1>7, TableUnchanged DEF Table, Writes

\* As long as the cleaner removes no king, and addresses keep their port range,
\* nobody reads a state in which a service is placed on a king that is shutting
\* down.  The invariant is stronger: the provisioner deprovisions in the step
\* that announces the flag, so it holds inside the critical sections as well.
THEOREM NoneOnShuttingDown == ASSUME OneRange PROVE SteadySpec => []OffShuttingDown
<1> DEFINE Steady == Next /\ nkings' >= nkings
           Inv == TypeInv /\ PointersPlaced /\ UniqueKings /\ Off
<1>1. Init => Inv
  BY TypeInit DEF Init, PointersPlaced, UniqueKings, Off, Live
<1>2. Inv /\ [Steady]_vars => Inv'
  <2> SUFFICES ASSUME Inv, [Steady]_vars PROVE Inv'
    OBVIOUS
  <2>1. [Next]_vars
    OBVIOUS
  <2>2. nkings' >= nkings
    BY BoundAssumption DEF TypeInv, TypeOK, TableOK, vars
  <2> QED
    BY OneRange, <2>1, <2>2, TypeStep, PlacedStep, UniqueKingsStep, OffStep
<1>3. Inv => OffShuttingDown
  BY DEF Off, OffShuttingDown
<1> QED
  BY <1>1, <1>2, <1>3, PTL DEF SteadySpec

-----------------------------------------------------------------------------
(* What the pointers of services lead to, also when kings expire.           *)

\* Host and BindPort of a placed service are those of a king that was listed.
Addressed == \A id \in Live :
    Provisioned(services[id]) => Cell(heap, services[id].at).tun \in Tunnel

\* A cell that was written once is overwritten, never cleared: append and the
\* compaction copy kings of the slice, and what lies after them stays.
LEMMA WrittenStays ==
    ASSUME TypeInv, [Next]_vars
    PROVE  \A a \in Array, s \in Slot :
             heap[a][s].tun \in Tunnel => heap'[a][s].tun \in Tunnel
<1> DEFINE stays == \A a \in Array, s \in Slot :
                      heap[a][s].tun \in Tunnel => heap'[a][s].tun \in Tunnel
<1>0. /\ TableOK /\ Written /\ HandlersOK /\ 1..nkings \subseteq Slot
      /\ heap \in [Array -> [Slot -> King]] /\ arr \in Array /\ nkings \in Nat
      /\ \A i \in 1..nkings : heap[arr][i].tun \in Tunnel
  BY SliceInSlots, BoundAssumption DEF TypeInv, TypeOK, TableOK, Written, Entry
<1>1. CASE UNCHANGED Kings
  BY <1>1 DEF Kings
<1>2. ASSUME NEW h \in Handler, KingWrites(h) PROVE stays
  BY <1>0, <1>2, InPlace DEF KingWrites
<1>3. ASSUME NEW h \in Handler, KingNew(h) PROVE stays
  <2> DEFINE new == [tun |-> Advert(h), down |-> FALSE,
                     cert |-> call[h].req.cert, beat |-> call[h].now]
             cells == [s \in Slot |-> IF s <= nkings THEN heap[arr][s]
                                      ELSE IF s = nkings' THEN new ELSE heap[arr'][s]]
  <2>1. heap' = [heap EXCEPT ![arr'] = cells] /\ nkings' = nkings + 1
    BY <1>3 DEF KingNew, Entry
  <2>2. TableOK' /\ Written'
    BY <1>0, <1>3, KingNewTable
  <2>3. arr' \in Array /\ \A i \in 1..nkings' : heap'[arr'][i].tun \in Tunnel
    BY <2>2 DEF TableOK, Written, Entry
  <2>4. \A a \in Array, s \in Slot : a # arr' => heap'[a][s] = heap[a][s]
    BY <1>0, <2>1, <2>3
  <2>5. ASSUME NEW s \in Slot, heap[arr'][s].tun \in Tunnel
        PROVE  heap'[arr'][s].tun \in Tunnel
    <3>1. CASE s \in 1..nkings'
      BY <2>3, <3>1
    <3>2. CASE s \notin 1..nkings'
      <4>1. s \in Nat \ {0}
        BY DEF Slot
      <4>2. ~(s <= nkings) /\ s # nkings'
        BY <1>0, <2>1, <3>2, <4>1
      <4>3. heap'[arr'][s] = heap[arr'][s]
        BY <1>0, <2>1, <2>3, <4>2
      <4> QED
        BY <2>5, <4>3
    <3> QED
      BY <3>1, <3>2
  <2> QED
    BY <2>4, <2>5
<1>4. CASE RunCleaner
  <2>1. PICK f \in [1..nkings' -> 1..nkings] :
          /\ nkings' \in 0..nkings
          /\ heap' = [heap EXCEPT ![arr] = [s \in Slot |->
                         IF s \in 1..nkings' THEN Entry(f[s]) ELSE Entry(s)]]
    BY <1>0, <1>4, Compaction
  <2>2. \A s \in Slot : heap'[arr][s] = IF s \in 1..nkings' THEN Entry(f[s]) ELSE Entry(s)
    BY <1>0, <2>1
  <2>3. \A s \in Slot : s \in 1..nkings' => heap'[arr][s].tun \in Tunnel
    BY <1>0, <2>1, <2>2 DEF Entry
  <2>4. \A s \in Slot : s \notin 1..nkings' => heap'[arr][s] = heap[arr][s]
    BY <2>2 DEF Entry
  <2>5. \A a \in Array, s \in Slot : a # arr => heap'[a][s] = heap[a][s]
    BY <1>0, <2>1
  <2> QED
    BY <2>3, <2>4, <2>5
<1> QED
  BY <1>1, <1>2, <1>3, <1>4, KingsUnchanged

LEMMA AddressedStep == TypeInv /\ Addressed /\ [Next]_vars => Addressed'
<1> SUFFICES ASSUME TypeInv, Addressed, [Next]_vars PROVE Addressed'
  OBVIOUS
<1>0. /\ services \in [Live -> Service] /\ TableOK /\ Written /\ ServicesOK
      /\ 1..nkings \subseteq Slot /\ arr \in Array
  BY SliceInSlots DEF TypeInv, TypeOK, ServicesOK, TableOK
<1>1. ASSUME NEW id \in Live, Provisioned(services[id])
      PROVE  Cell(heap', services[id].at).tun \in Tunnel
  <2>1. services[id].at \in Pointer
    BY <1>0 DEF Service
  <2>2. services[id].at.array \in Array /\ services[id].at.slot \in Slot
    BY <1>1, <2>1 DEF Pointer, Provisioned
  <2> QED
    BY <1>1, <2>2, WrittenStays DEF Addressed, Cell
<1>2. CASE \A id \in Live' : Provisioned(services'[id]) =>
             id \in Live /\ services'[id].at = services[id].at
  BY <1>1, <1>2 DEF Addressed, Provisioned
<1>3. ASSUME NEW h \in Handler, ProvisionOne(h) PROVE Addressed'
  <2>1. PICK id \in Live, i \in 1..nkings, p \in Nat :
             services' = [services EXCEPT ![id] =
                    [services[id] EXCEPT !.at = [array |-> arr, slot |-> i], !.port = p]]
    BY <1>0, <1>3, Placement
  <2>2. heap' = heap
    BY <1>3 DEF ProvisionOne
  <2>3. /\ Live' = Live /\ services'[id].at = [array |-> arr, slot |-> i]
        /\ \A d \in Live \ {id} : services'[d] = services[d]
    BY <1>0, <2>1 DEF Live, Service
  <2>4. Cell(heap, services'[id].at).tun \in Tunnel
    BY <1>0, <2>3 DEF Cell, Written, Entry
  <2> QED
    BY <2>2, <2>3, <2>4 DEF Addressed
<1> QED
  BY <1>2, <1>3, SamePlace

\* A placed service always has an address: its host and bind port point at a
\* cell of some Kings array that holds a king, whatever append abandons and
\* whatever cleanStaleKings moves or drops.  It need not be the king it was placed at.
THEOREM PlacedHasAddress == Spec => []Addressed
<1>1. Init => Addressed
  BY DEF Init, Addressed, Live
<1> QED
  BY <1>1, TypeInit, TypeStep, AddressedStep, PTL DEF Spec

-----------------------------------------------------------------------------
(* What the provisioner gives out.                                          *)

\* A placed service has a port of the range of the king it points at.
InRange ==
    \A id \in Live : Provisioned(services[id]) =>
        services[id].port \in Ports[Cell(heap, services[id].at).tun]

LEMMA InRangeStep ==
    ASSUME TypeInv, PointersPlaced, InRange, [Next]_vars, nkings' >= nkings
    PROVE  InRange'
<1>0. TableOK /\ Written /\ ServicesOK /\ services \in [Live -> Service]
  BY DEF TypeInv, TypeOK, ServicesOK
<1>1. \A id \in Live : Provisioned(services[id]) =>
        services[id].port \in Ports[Cell(heap', services[id].at).tun]
  <2>1. \A id \in Live : Provisioned(services[id]) =>
          Cell(heap', services[id].at).tun = Cell(heap, services[id].at).tun
    BY SameAddress
  <2> QED
    BY ONLY <2>1, InRange DEF InRange
<1>2. ASSUME NEW h \in Handler, ProvisionOne(h) PROVE InRange'
  <2>1. PICK id \in Live, i \in 1..nkings, p \in Nat :
             /\ ~Provisioned(services[id]) /\ ~Entry(i).down /\ p \in FreePorts(i)
             /\ services' = [services EXCEPT ![id] =
                    [services[id] EXCEPT !.at = [array |-> arr, slot |-> i], !.port = p]]
    BY ONLY <1>0, <1>2, h \in Handler, Placement
  <2>2. heap' = heap
    BY <1>2 DEF ProvisionOne
  <2>3. /\ Live' = Live /\ services'[id].port = p
        /\ services'[id].at = [array |-> arr, slot |-> i]
        /\ \A d \in Live \ {id} : services'[d] = services[d]
    BY <1>0, <2>1 DEF Live, Service
  <2>4. services'[id].port \in Ports[Cell(heap', services'[id].at).tun]
    <3>1. p \in Ports[Entry(i).tun]
      BY <2>1 DEF FreePorts
    <3> QED
      BY ONLY <2>2, <2>3, <3>1 DEF Cell, Entry
  <2> QED
    BY ONLY <1>1, <2>3, <2>4 DEF InRange
<1>3. CASE \A id \in Live' : Provisioned(services'[id]) =>
             /\ id \in Live
             /\ services'[id].at = services[id].at
             /\ services'[id].port = services[id].port
  BY ONLY <1>1, <1>3 DEF InRange, Provisioned
<1> QED
  BY <1>2, <1>3, SamePlace

\* As long as the cleaner removes no king, the king a service points at offers
\* the service's bind port: append and the in-place writes of PUT /king never
\* turn a pointer towards a king with another range.
THEOREM PortsOfTheirKing == SteadySpec => []InRange
<1> DEFINE Steady == Next /\ nkings' >= nkings
           Inv == TypeInv /\ PointersPlaced /\ InRange
<1>1. Init => Inv
  BY TypeInit DEF Init, PointersPlaced, InRange, Live
<1>2. Inv /\ [Steady]_vars => Inv'
  <2> SUFFICES ASSUME Inv, [Steady]_vars PROVE Inv'
    OBVIOUS
  <2>1. [Next]_vars
    OBVIOUS
  <2>2. nkings' >= nkings
    BY BoundAssumption DEF TypeInv, TypeOK, TableOK, vars
  <2> QED
    BY <2>1, <2>2, TypeStep, PlacedStep, InRangeStep
<1>3. Inv => InRange
  OBVIOUS
<1> QED
  BY <1>1, <1>2, <1>3, PTL DEF SteadySpec

\* What it takes to be placed: a listed king that is not shutting down, and a
\* port of its range no placed service has at its address.
PlacedWell(id) ==
    \E i \in 1..nkings :
        /\ ~Entry(i).down
        /\ services'[id].at = [array |-> arr, slot |-> i]
        /\ services'[id].port \in Ports[Entry(i).tun]
        /\ \A d \in Live' \ {id} :
              Provisioned(services'[d]) /\ services'[d].port = services'[id].port
                => AddrOf(heap', services'[d]) # Addr[Entry(i).tun]

\* A service that becomes placed, or is placed elsewhere.
Moves(id) ==
    /\ Provisioned(services'[id])
    /\ id \in Live /\ Provisioned(services[id])
         => <<services'[id].at, services'[id].port>> # <<services[id].at, services[id].port>>

LEMMA PlacesWell ==
    ASSUME TypeInv, [Next]_vars, NEW id \in Live', Moves(id)
    PROVE  PlacedWell(id) /\ id \in Live /\ ~Provisioned(services[id])
<1>0. TableOK /\ Written /\ ServicesOK /\ services \in [Live -> Service]
  BY DEF TypeInv, TypeOK, ServicesOK
<1>1. CASE \A d \in Live' : Provisioned(services'[d]) =>
             /\ d \in Live
             /\ services'[d].at = services[d].at
             /\ services'[d].port = services[d].port
  BY ONLY <1>1, Moves(id), id \in Live' DEF Moves, Provisioned
<1>2. ASSUME NEW h \in Handler, ProvisionOne(h)
      PROVE  PlacedWell(id) /\ id \in Live /\ ~Provisioned(services[id])
  <2>1. PICK e \in Live, i \in 1..nkings, p \in Nat :
             /\ ~Provisioned(services[e]) /\ ~Entry(i).down /\ p \in FreePorts(i)
             /\ services' = [services EXCEPT ![e] =
                    [services[e] EXCEPT !.at = [array |-> arr, slot |-> i], !.port = p]]
    BY ONLY <1>0, <1>2, h \in Handler, Placement
  <2>2. heap' = heap
    BY <1>2 DEF ProvisionOne
  <2>3. /\ Live' = Live /\ services'[e].port = p
        /\ services'[e].at = [array |-> arr, slot |-> i]
        /\ \A d \in Live \ {e} : services'[d] = services[d]
    BY <1>0, <2>1 DEF Live, Service
  <2>4. id = e
    BY ONLY <2>3, Moves(id), id \in Live' DEF Moves
  <2>5. p \in Ports[Entry(i).tun]
    BY <2>1 DEF FreePorts
  <2>6. \A d \in Live : Provisioned(services[d]) /\ services[d].port = p
            => AddrOf(heap, services[d]) # Addr[Entry(i).tun]
    BY <2>1 DEF FreePorts, UsedPorts
  <2>7. \A d \in Live' \ {id} : Provisioned(services'[d]) /\ services'[d].port = p
            => AddrOf(heap', services'[d]) # Addr[Entry(i).tun]
    BY ONLY <2>2, <2>3, <2>4, <2>6
  <2> QED
    BY ONLY <2>1, <2>3, <2>4, <2>5, <2>7 DEF PlacedWell
<1> QED
  BY <1>1, <1>2, SamePlace

\* Also while kings expire: a service that gets a host and bind port had none,
\* and gets those of a listed king that is not shutting down, with a port of its
\* range that no other service shows at that address, and a placed service is
\* never placed elsewhere without losing its place in between.
THEOREM PlacedOnFreePort ==
    Spec => [][\A id \in Live' : Moves(id) =>
                  PlacedWell(id) /\ id \in Live /\ ~Provisioned(services[id])]_vars
<1> DEFINE Well == \A id \in Live' : Moves(id) =>
                      PlacedWell(id) /\ id \in Live /\ ~Provisioned(services[id])
<1>1. TypeInv /\ [Next]_vars => [Well]_vars
  BY PlacesWell
<1> QED
  BY <1>1, TypeInit, TypeStep, PTL DEF Spec
=============================================================================
