----------------------------- MODULE Placement -----------------------------
(***************************************************************************)
(* The council's state as its nodes see it, and what each of them reads    *)
(* in it: a king the services it must serve, a ling the kings it must      *)
(* connect to and the targets of its proxy, both the services they report  *)
(* as ready.  One tunnel per ling and one bind port per king.              *)
(***************************************************************************)
EXTENDS Naturals, FiniteSets

CONSTANTS Kings, Lings,
          None     \* nowhere: a service without host and ports

ASSUME NodeAssumption == Kings \cap Lings = {} /\ None \notin Kings /\ IsFiniteSet(Lings)

Nodes == Kings \cup Lings

\* How a node is listed: not at all, or with its shuttingDown flag.
Status == {"none", "up", "down"}

\* The service of a ling.  A number stands for the UUID and its token; 0: none.
Service == [id : Nat, at : Kings \cup {None}, kingReady : BOOLEAN, lingReady : BOOLEAN]
NoService == [id |-> 0, at |-> None, kingReady |-> FALSE, lingReady |-> FALSE]

State == [revision : Nat, status : [Nodes -> Status], service : [Lings -> Service]]
EmptyState == [revision |-> 0, status |-> [n \in Nodes |-> "none"],
               service |-> [l \in Lings |-> NoService]]

FindService(s, i) == \E l \in Lings : s.service[l].id = i

-----------------------------------------------------------------------------
(* Kings.                                                                   *)

Placed(s, l, k) == s.service[l].id # 0 /\ s.service[l].at = k

\* The services a king lets in and listens for.
filterServicesForTunnel(s, k) ==
    {s.service[l].id : l \in {m \in Lings : Placed(s, m, k) /\ s.status[m] # "down"}}

ReadyAfterLing(s, k, conns) ==                                         \* mutant
    {s.service[l].id : l \in {m \in Lings : Placed(s, m, k) /\ s.service[m].lingReady}}
        \cap conns
\* The services a king reports; conns holds the ids it has a connection for.
KingReadyServiceIDs(s, k, conns) ==
    {s.service[l].id : l \in {m \in Lings : Placed(s, m, k) /\ s.status[m] = "up"}}
        \cap conns

-----------------------------------------------------------------------------
(* Lings.                                                                   *)

\* The kings a ling keeps a connection to: where its service is, if that
\* king is healthy.
TunnelGroups(s, l) == {k \in Kings : Placed(s, l, k) /\ s.status[k] = "up"}

LingReadyServiceIDs(s, l) ==
    IF s.service[l].kingReady THEN {s.service[l].id} ELSE {}

\* The services a proxy may send its clients to.
EligibleForProxy(s) ==
    {l \in Lings : /\ s.service[l].lingReady /\ s.service[l].kingReady
                   /\ \E k \in Kings : Placed(s, l, k) /\ s.status[k] = "up"}

\* What node n's code reads of a state: its revision; a king the services it has
\* and how their lings are listed, a ling which kings are healthy and the services.
Seen(s, n) ==
    LET mine == {l \in Lings : n \in Lings \/ Placed(s, l, n)} IN
    [revision |-> s.revision,
     status |-> [m \in Nodes |->
        IF \/ n \in Lings /\ m \in Kings /\ s.status[m] = "up"
           \/ n \in Kings /\ m \in mine THEN s.status[m] ELSE "none"],
     service |-> [l \in Lings |-> IF l \in mine THEN s.service[l] ELSE NoService]]

-----------------------------------------------------------------------------
(* The council.                                                             *)

\* Provision: services leave kings that shut down, and every service without
\* a king gets one that does not, if there is one; that bumps the revision.
Evicted(s) ==
    [s EXCEPT !.service = [l \in Lings |->
        IF \E k \in Kings : Placed(s, l, k) /\ s.status[k] = "down"
        THEN [s.service[l] EXCEPT !.at = None, !.kingReady = FALSE] ELSE s.service[l]]]

Provision(s) ==
    LET t == Evicted(s)
        open == {k \in Kings : s.status[k] = "up"}
        homeless == {l \in Lings : t.service[l].id # 0 /\ t.service[l].at = None}
    IN  IF open = {} THEN {t}
        ELSE {[t EXCEPT !.revision = @ + Cardinality(homeless),
                        !.service = [l \in Lings |->
                 IF l \in homeless THEN [t.service[l] EXCEPT !.at = home[l]]
                                   ELSE t.service[l]]] : home \in [homeless -> open]}
=============================================================================
