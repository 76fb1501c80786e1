----------------------------- MODULE MCCouncil -----------------------------
(* Small instances of the council.                                          *)
EXTENDS Council, TLC

CONSTANTS ka, kb, la, lb, ta, tb, tb2, s1, s2

\* Kings a and b with one tunnel each, king a alone with one or both, or king b
\* and what it is after a restart with another port range.
MCAddr == ta :> "A" @@ tb :> "B" @@ tb2 :> "B"
MCKey == ta :> "A1" @@ tb :> "B1" @@ tb2 :> "B2"
MCPorts == Restrict(ta :> {1} @@ tb :> {1, 2} @@ tb2 :> {2}, Tunnel)
MCLocation == ta :> "x" @@ tb :> "y" @@ tb2 :> "y"
MCCapacity == 0 :> 0 @@ 1 :> 1 @@ 2 :> 2 @@ 3 :> 4

MCKingTunnels ==
    CASE tb2 \in Tunnel -> ka :> <<tb2>> @@ kb :> <<tb>>
      [] kb \in KingNode /\ tb2 \notin Tunnel -> ka :> <<ta>> @@ kb :> <<tb>>
      [] OTHER -> ka :> IF tb \in Tunnel THEN <<ta, tb>> ELSE <<ta>>
MCLingTunnels == [l \in LingNode |-> IF s2 \in Name THEN <<s1, s2>> ELSE <<s1>>]
Handlers == Permutations(Handler)
NearY == [l \in LingNode |-> "y"]

\* A table Init leads to: king a and ling a are registered, and its service is
\* placed and reported ready by both.  One heartbeat of MaxRequests is spent.
ServingInit ==
    /\ mutex = Nobody /\ told = TRUE /\ cleaner = "waiting"
    /\ pc = [h \in Handler |-> "idle"] /\ call = [h \in Handler |-> Idle]
    /\ revision = 5 /\ issued = 1 /\ arr = 1 /\ nkings = 1 /\ clock = 0 /\ sent = 1
    /\ \E cert \in Certs :
         heap = [a \in Array |-> [s \in Slot |->
                    IF a = 1 /\ s = 1 THEN [tun |-> ta, down |-> FALSE, cert |-> cert, beat |-> 0]
                    ELSE ZeroKing]]
    /\ services = 1 :> [name |-> s1, ling |-> la, kingReady |-> TRUE, lingReady |-> TRUE,
                        at |-> [array |-> 1, slot |-> 1], port |-> 1]
    /\ lings = la :> [down |-> FALSE, beat |-> 0]

LiveSpec == (Init \/ ServingInit) /\ [][Next]_vars /\ Fairness
=============================================================================
