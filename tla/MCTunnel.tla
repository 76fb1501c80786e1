------------------------------ MODULE MCTunnel ------------------------------
(* Instances of Tunnel for model checking.                                  *)
EXTENDS Tunnel, TLC

Names == Permutations(Service) \cup Permutations(Port) \cup Permutations(Conn)
           \cup Permutations(Goroutine)
=============================================================================
