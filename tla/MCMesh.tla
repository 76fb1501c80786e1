------------------------------- MODULE MCMesh -------------------------------
(* Instances of Mesh for model checking.                                    *)
EXTENDS Mesh

\* Nothing is under way.
Calm ==
    /\ sync = [n \in Nodes |-> "rest"]
    /\ notify = [n \in Nodes |-> FALSE]
    /\ unsaid = {}
    /\ wire = {}

\* A state Init leads to: all are up and listed, each service is placed,
\* connected, ready and known to everyone.  One event may happen.
FlowingInit ==
    /\ Calm
    /\ \E home \in [Lings -> Kings], id \in [Lings -> 1..Cardinality(Lings)] :
        /\ \A l, m \in Lings : id[l] = id[m] => l = m
        /\ table = [revision |-> Cardinality(Kings) + 4 * Cardinality(Lings),
                    status |-> [n \in Nodes |-> "up"],
                    service |-> [l \in Lings |-> [id |-> id[l], at |-> home[l],
                                                  kingReady |-> TRUE, lingReady |-> TRUE]]]
        /\ conn = [l \in Lings |-> [k \in Kings |-> IF k = home[l] THEN id[l] ELSE NoConn]]
    /\ fresh = Cardinality(Lings) + 1
    /\ view = [n \in Nodes |-> Seen(table, n)]
    /\ life = [n \in Nodes |-> "up"]
    /\ left = 1

\* Init, but with one king that runs.
StartingInit ==
    /\ Calm
    /\ table = EmptyState /\ fresh = 1
    /\ view = [n \in Nodes |-> NoState]
    /\ conn = [l \in Lings |-> [k \in Kings |-> NoConn]]
    /\ LET alone == CHOOSE k \in Kings : TRUE IN
       life = [n \in Nodes |-> IF n \in Kings \ {alone} THEN "gone" ELSE "up"]
    /\ left = MaxEvents

MCSpec == (StartingInit \/ FlowingInit) /\ [][Next]_vars /\ Fairness

FlowingSpec == FlowingInit /\ [][Next]_vars /\ Fairness
=============================================================================
