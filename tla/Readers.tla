------------------------------ MODULE Readers ------------------------------
(***************************************************************************)
(* The council as its readers see it.  A watcher holds the answer of an    *)
(* earlier GET /state and throws a later one away when it has the same     *)
(* revision, so two answers with one revision had better say the same.     *)
(***************************************************************************)
EXTENDS Council

VARIABLE held       \* an answer of GET /state that some watcher holds

rvars == <<vars, held>>

\* What kings, lings and proxies act on; beats are left out.
KingsView == [i \in 1..nkings |->
                <<Entry(i).tun, Entry(i).down, Entry(i).cert>>]
ServicesView == [id \in Live |->
    [ling |-> services[id].ling, kingReady |-> services[id].kingReady,
     lingReady |-> services[id].lingReady, port |-> services[id].port,
     addr |-> IF Provisioned(services[id]) THEN AddrOf(heap, services[id]) ELSE Nil]]
LingsView == [l \in DOMAIN lings |-> lings[l].down]

Answered == [revision |-> revision, kings |-> KingsView,
             services |-> ServicesView, lings |-> LingsView]

RInit == Init /\ held = Answered

\* HandleGetState under the read lock, answered to a watcher that keeps it.
Read ==
    /\ mutex = Nobody
    /\ held' = Answered
    /\ UNCHANGED vars

RNext == Read \/ (Next /\ UNCHANGED held)

RSpec == RInit /\ [][RNext]_rvars

-----------------------------------------------------------------------------
(* Properties.                                                              *)

\* Lings whose heartbeat was answered since, for a service that had outlived
\* them: that heartbeat changes no revision.
ReturnedTo(l) == \E id \in DOMAIN held.services :
    held.services[id].ling = l /\ l \notin DOMAIN held.lings

\* A watcher that throws away an answer because it holds one with the same
\* revision (watcher.go) loses nothing it acts on: the kings, the services and
\* the lings are what it holds, also when handlers interleave, write through
\* stale pointers, and register lings before they bump the revision.  The one
\* exception is a ling that has come back to a service that had outlived it.
RevisionTellsView ==
    mutex = Nobody /\ revision = held.revision =>
        /\ KingsView = held.kings
        /\ ServicesView = held.services
        /\ \A l \in DOMAIN held.lings : l \in DOMAIN lings /\ lings[l].down = held.lings[l]
        /\ \A l \in DOMAIN lings \ DOMAIN held.lings : ReturnedTo(l)
=============================================================================
