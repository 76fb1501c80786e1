--------------------------- MODULE ReadersProofs ---------------------------
(***************************************************************************)
(* What the readers of the council can rely on, for any number of          *)
(* handlers, nodes and tunnels and any bounds.                             *)
(***************************************************************************)
EXTENDS Readers, CouncilProofs

\* What the views are made of, when a step leaves it alone.
Kept == /\ UNCHANGED <<arr, nkings, services>>
        /\ \A a \in Array, s \in Slot : /\ heap'[a][s].tun = heap[a][s].tun
                                        /\ heap'[a][s].down = heap[a][s].down
                                        /\ heap'[a][s].cert = heap[a][s].cert

\* The lings and their flags, but for one that handler h may have added.
LingsKept(h) ==
    /\ DOMAIN lings' = DOMAIN lings \/ (LingNew(h) /\ DOMAIN lings' = DOMAIN lings \cup {Sender(h)})
    /\ \A l \in DOMAIN lings : lings'[l].down = lings[l].down

\* A step that does not bump the revision writes beats, and a ling it adds.
LEMMA BumpsOrKeeps ==
    ASSUME TypeInv, [Next]_vars
    PROVE  \/ revision' = revision + 1
           \/ revision' = revision /\ Kept /\ UNCHANGED lings
           \/ revision' = revision /\ Kept /\ \E h \in Handler : LingsKept(h)
<1>0. TableOK /\ HandlersOK /\ LingsOK
  BY DEF TypeInv, TypeOK
<1>1. ASSUME UNCHANGED Table PROVE Kept /\ UNCHANGED lings
  BY <1>1 DEF Table, Kept
<1>2. ASSUME NEW h \in Handler, KingRefresh(h) \/ KingBeat(h)
      PROVE  revision' = revision /\ Kept /\ UNCHANGED lings
  <2>1. /\ UNCHANGED <<arr, nkings, services, revision, lings>>
        /\ \A a \in Array, s \in Slot : /\ heap'[a][s].tun = heap[a][s].tun
                                        /\ heap'[a][s].down = heap[a][s].down
                                        /\ heap'[a][s].cert = heap[a][s].cert
    BY <1>0, <1>2, BeatOnly
  <2> QED
    BY <2>1 DEF Kept
<1>3. ASSUME NEW h \in Handler, LingNew(h)
      PROVE  revision' = revision /\ Kept /\ LingsKept(h)
  <2>1. /\ UNCHANGED <<revision, services, heap, arr, nkings>>
        /\ lings' = Put(lings, Sender(h), BeatNow(h))
        /\ Sender(h) \notin DOMAIN lings
    BY <1>3 DEF LingNew
  <2> QED
    BY <1>3, <2>1 DEF Put, Kept, LingsKept
<1>4. ASSUME NEW h \in Handler, LingRefresh(h)
      PROVE  revision' = revision /\ Kept /\ LingsKept(h)
  <2>1. /\ UNCHANGED <<revision, services, heap, arr, nkings>>
        /\ lings' = [lings EXCEPT ![Sender(h)] = BeatNow(h)]
        /\ lings[Sender(h)].down = call[h].req.down
    BY <1>4 DEF LingRefresh
  <2> QED
    BY <1>0, <2>1 DEF LingsOK, BeatNow, Kept, LingsKept
<1>5. ASSUME NEW h \in Handler, \/ ReadyMark(h) \/ KingNew(h) \/ KingUpdate(h) \/ LingFlip(h)
                                \/ ServiceNew(h) \/ ProvisionOne(h)
      PROVE  revision' = revision + 1
  BY <1>5 DEF ReadyMark, KingNew, KingUpdate, LingFlip, ServiceNew, ProvisionOne, Bump
<1>6. CASE RunCleaner
  BY <1>6 DEF RunCleaner
<1>7. ASSUME NEW h \in Handler, Writes(h)
      PROVE  \/ revision' = revision + 1
             \/ revision' = revision /\ Kept /\ UNCHANGED lings
             \/ revision' = revision /\ Kept /\ LingsKept(h)
  BY <1>2, <1>3, <1>4, <1>5, <1>7 DEF Writes
<1>8. ASSUME UNCHANGED Table PROVE revision' \in {revision, revision + 1}
  <2>1. ASSUME NEW h \in Handler, Send(h) \/ Acquire(h) PROVE revision' = revision
    BY ONLY <2>1 DEF Send, Acquire, Lock, Relock, table
  <2>2. ASSUME NEW h \in Handler, Run(h) PROVE revision' \in {revision, revision + 1}
    BY ONLY <2>2 DEF Run, Answer, Bump, ReadyMissing, ReadyAgain, ReadyMark, ReadyDone,
       KingNew, KingUpdate, KingRefresh, KingBeat, LingNew, LingRefresh, LingFlip,
       ServiceExists, ServiceNew, TunnelsDone, ProvisionOne, ProvisionDone, Broadcast, table
  <2>3. ASSUME RunCleaner \/ CleanerBroadcast \/ Tick \/ Quiet \/ UNCHANGED vars
        PROVE  revision' \in {revision, revision + 1}
    BY ONLY <2>3 DEF RunCleaner, CleanerBroadcast, Tick, Quiet, vars, table
  <2> QED
    BY <2>1, <2>2, <2>3 DEF Next
<1> QED
  BY <1>1, <1>6, <1>7, <1>8, TableUnchanged

LEMMA SameViews ==
    ASSUME TypeInv, Kept
    PROVE  KingsView' = KingsView /\ ServicesView' = ServicesView
<1>0. TableOK /\ 1..nkings \subseteq Slot /\ arr \in Array /\ services \in [Live -> Service]
  BY SliceInSlots DEF TypeInv, TypeOK, TableOK, ServicesOK
<1>1. /\ arr' = arr /\ nkings' = nkings /\ services' = services /\ Live' = Live
      /\ \A a \in Array, s \in Slot : /\ heap'[a][s].tun = heap[a][s].tun
                                      /\ heap'[a][s].down = heap[a][s].down
                                      /\ heap'[a][s].cert = heap[a][s].cert
  BY DEF Kept, Live
<1>2. \A i \in 1..nkings : /\ heap'[arr][i].tun = heap[arr][i].tun
                           /\ heap'[arr][i].down = heap[arr][i].down
                           /\ heap'[arr][i].cert = heap[arr][i].cert
  BY <1>0, <1>1
<1>3. KingsView' = KingsView
  BY <1>1, <1>2 DEF KingsView, Entry
<1>4. \A id \in Live : Provisioned(services[id]) =>
        AddrOf(heap', services[id]) = AddrOf(heap, services[id])
  <2>1. \A id \in Live : services[id].at \in Pointer
    BY <1>0 DEF Service
  <2>2. \A id \in Live : Provisioned(services[id]) =>
          services[id].at.array \in Array /\ services[id].at.slot \in Slot
    BY <2>1 DEF Pointer, Provisioned
  <2> QED
    BY <1>1, <2>2 DEF Cell, AddrOf
<1>5. ServicesView' = ServicesView
  BY <1>1, <1>4 DEF ServicesView
<1> QED
  BY <1>3, <1>5

-----------------------------------------------------------------------------
(* The watcher's answer and the table.                                      *)

\* Some handler is between ensureLingExists and the look-up of the service.
Registering(l) == \E h \in Handler : pc[h] = "service" /\ Sender(h) = l

\* Between reads the table may also hold a ling whose handler has not got to
\* its service yet: it will bump, or find that the service is there.
Agrees ==
    /\ held.revision \in Nat /\ held.revision <= revision
    /\ held.revision = revision =>
        /\ KingsView = held.kings
        /\ ServicesView = held.services
        /\ \A l \in DOMAIN held.lings : l \in DOMAIN lings /\ lings[l].down = held.lings[l]
        /\ \A l \in DOMAIN lings \ DOMAIN held.lings : ReturnedTo(l) \/ Registering(l)

\* A handler stays at the look-up until it has registered the service, which
\* bumps the revision, or found it.
LEMMA LookUpEnds ==
    ASSUME TypeInv, [Next]_vars, NEW l, Registering(l)
    PROVE  \/ Registering(l)'
           \/ revision' = revision + 1
           \/ \E id \in Live : services[id].ling = l
<1>0. pc \in [Handler -> Locked \cup {"idle", "arrived", "broadcast", "relock"}]
      /\ call \in [Handler -> Locals]
  BY DEF TypeInv, TypeOK, HandlersOK
<1>1. PICK h \in Handler : pc[h] = "service" /\ Sender(h) = l
  BY DEF Registering
<1>2. ASSUME pc'[h] = pc[h], call'[h] = call[h] PROVE Registering(l)'
  BY <1>1, <1>2 DEF Registering, Sender
<1>3. ASSUME NEW g \in Handler, Send(g) \/ Acquire(g) \/ Run(g), g # h
      PROVE  Registering(l)'
  <2>1. pc'[h] = pc[h] /\ call'[h] = call[h]
    BY <1>0, <1>3 DEF Send, Acquire, Lock, Relock, Run, Answer, Bump, ReadyMissing, ReadyAgain,
       ReadyMark, ReadyDone, KingNew, KingRefresh, KingUpdate, KingBeat, LingNew,
       LingRefresh, LingFlip, ServiceExists, ServiceNew, TunnelsDone, ProvisionOne,
       ProvisionDone, Broadcast
  <2> QED
    BY <1>2, <2>1
<1>4. ASSUME Send(h) \/ Acquire(h) \/ Run(h) PROVE ServiceExists(h) \/ ServiceNew(h)
  BY <1>1, <1>4 DEF Send, Acquire, Lock, Relock, Run, ReadyMissing, ReadyAgain,
     ReadyMark, ReadyDone, KingNew, KingRefresh, KingUpdate, KingBeat, LingNew,
     LingRefresh, LingFlip, TunnelsDone, ProvisionOne, ProvisionDone, Broadcast,
     KingLoop, LingLoop
<1>5. CASE ServiceExists(h)
  BY <1>1, <1>5 DEF ServiceExists, Registered
<1>6. CASE ServiceNew(h)
  BY <1>6 DEF ServiceNew, Bump
<1>7. CASE RunCleaner \/ CleanerBroadcast \/ Tick \/ Quiet \/ UNCHANGED vars
  <2>1. pc' = pc /\ call' = call
    BY ONLY <1>7 DEF RunCleaner, CleanerBroadcast, Tick, Quiet, vars
  <2> QED
    BY <1>2, <2>1
<1> QED
  BY <1>3, <1>4, <1>5, <1>6, <1>7 DEF Next

LEMMA AgreesRead == ASSUME TypeInv, Read PROVE Agrees'
<1>1. /\ held' = Answered /\ UNCHANGED vars /\ revision \in Nat
      /\ lings \in [DOMAIN lings -> Ling]
  BY DEF Read, TypeInv, TypeOK, OthersOK, LingsOK
<1>2. /\ held'.revision = revision /\ held'.kings = KingsView
      /\ held'.services = ServicesView /\ held'.lings = LingsView
  BY <1>1 DEF Answered
<1>3. KingsView' = KingsView /\ ServicesView' = ServicesView /\ lings' = lings
      /\ revision' = revision
  BY <1>1 DEF vars, KingsView, ServicesView, Entry, Live, AddrOf, Cell, Provisioned
<1>4. DOMAIN held'.lings = DOMAIN lings /\ \A l \in DOMAIN lings : held'.lings[l] = lings[l].down
  BY <1>2 DEF LingsView
<1> QED
  BY <1>1, <1>2, <1>3, <1>4 DEF Agrees

LEMMA AgreesStep ==
    ASSUME TypeInv, Agrees, [Next]_vars, UNCHANGED held
    PROVE  Agrees'
<1>0. revision \in Nat /\ held' = held
  BY DEF TypeInv, TypeOK, OthersOK
<1>1. CASE revision' = revision + 1
  BY <1>0, <1>1 DEF Agrees
<1>2. ASSUME revision' = revision, Kept,
             \A l \in DOMAIN lings : l \in DOMAIN lings' /\ lings'[l].down = lings[l].down,
             \A l \in DOMAIN lings' \ DOMAIN lings : Registering(l)'
      PROVE  Agrees'
  <2> SUFFICES ASSUME held.revision = revision
               PROVE  /\ KingsView' = held.kings
                      /\ ServicesView' = held.services
                      /\ \A l \in DOMAIN held.lings :
                            l \in DOMAIN lings' /\ lings'[l].down = held.lings[l]
                      /\ \A l \in DOMAIN lings' \ DOMAIN held.lings :
                            ReturnedTo(l) \/ Registering(l)'
    BY <1>0, <1>2 DEF Agrees, ReturnedTo
  <2>1. KingsView' = KingsView /\ ServicesView' = ServicesView
    BY <1>2, SameViews
  <2>2. \A l \in DOMAIN held.lings : l \in DOMAIN lings' /\ lings'[l].down = held.lings[l]
    BY <1>2 DEF Agrees
  <2>3. ASSUME NEW l \in DOMAIN lings \ DOMAIN held.lings
        PROVE  ReturnedTo(l) \/ Registering(l)'
    <3>1. CASE ReturnedTo(l)
      BY <3>1
    <3>2. ASSUME NEW id \in Live, services[id].ling = l PROVE ReturnedTo(l)
      <4>1. id \in DOMAIN held.services /\ held.services[id].ling = services[id].ling
        BY DEF Agrees, ServicesView
      <4> QED
        BY <2>3, <3>2, <4>1 DEF ReturnedTo
    <3>3. CASE Registering(l)
      BY <1>0, <1>2, <3>2, <3>3, LookUpEnds
    <3> QED
      BY <3>1, <3>3 DEF Agrees
  <2> QED
    BY <1>2, <2>1, <2>2, <2>3 DEF Agrees
<1>3. CASE revision' = revision /\ Kept /\ UNCHANGED lings
  BY <1>2, <1>3
<1>4. ASSUME revision' = revision, Kept, NEW h \in Handler, LingsKept(h) PROVE Agrees'
  <2>1. \A l \in DOMAIN lings : l \in DOMAIN lings' /\ lings'[l].down = lings[l].down
    BY <1>4 DEF LingsKept
  <2>2. ASSUME NEW l \in DOMAIN lings' \ DOMAIN lings PROVE Registering(l)'
    <3>1. LingNew(h) /\ l = Sender(h)
      BY <1>4, <2>2 DEF LingsKept
    <3>2. pc' = [pc EXCEPT ![h] = "service"] /\ call' = call
      BY <3>1 DEF LingNew
    <3>3. pc'[h] = "service" /\ Sender(h)' = l
      BY <3>1, <3>2 DEF TypeInv, TypeOK, HandlersOK, Sender
    <3> QED
      BY <3>3 DEF Registering
  <2> QED
    BY <1>2, <1>4, <2>1, <2>2
<1> QED
  BY <1>1, <1>3, <1>4, BumpsOrKeeps

\* A watcher that is answered with the revision it holds has lost nothing it
\* acts on: the kings, the services and the lings' flags are what it holds.  A
\* ling may have returned to a service that had outlived it, and nothing else:
\* the entry of any other new ling is never readable without a new revision.
THEOREM RevisionTells == RSpec => []RevisionTellsView
<1> DEFINE Inv == TypeInv /\ LockDiscipline /\ Agrees
<1>1. RInit => Inv
  <2> SUFFICES ASSUME RInit PROVE Inv
    OBVIOUS
  <2>1. Init /\ held = Answered
    BY DEF RInit
  <2>2. LockDiscipline
    BY <2>1, NodeAssumption DEF Init, LockDiscipline, Locked
  <2>3. /\ held.revision = revision /\ held.kings = KingsView
        /\ held.services = ServicesView /\ held.lings = LingsView
    BY <2>1 DEF Answered
  <2>4. DOMAIN held.lings = DOMAIN lings /\ \A l \in DOMAIN lings : held.lings[l] = lings[l].down
    BY <2>3 DEF LingsView
  <2>5. revision \in Nat
    BY <2>1 DEF Init
  <2> QED
    BY <2>1, <2>2, <2>3, <2>4, <2>5, TypeInit DEF Agrees
<1>2. Inv /\ [RNext]_rvars => Inv'
  <2> SUFFICES ASSUME Inv, [RNext]_rvars PROVE Inv'
    OBVIOUS
  <2>1. CASE Read
    <3>1. UNCHANGED vars
      BY <2>1 DEF Read
    <3> QED
      BY <2>1, <3>1, AgreesRead, TypeStep, LockStep
  <2>2. CASE [Next]_vars /\ UNCHANGED held
    BY <2>2, AgreesStep, TypeStep, LockStep
  <2> QED
    BY <2>1, <2>2 DEF RNext, rvars
<1>3. Inv => RevisionTellsView
  <2> SUFFICES ASSUME Inv, mutex = Nobody, revision = held.revision PROVE RevisionTellsView
    BY DEF RevisionTellsView
  <2>1. \A l : ~Registering(l)
    BY NodeAssumption DEF LockDiscipline, Registering, Locked
  <2> QED
    BY <2>1 DEF Agrees, RevisionTellsView
<1> QED
  BY <1>1, <1>2, <1>3, PTL DEF RSpec
=============================================================================
