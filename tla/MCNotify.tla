------------------------------ MODULE MCNotify ------------------------------
(* Instances of Notify for model checking.                                  *)
EXTENDS Notify, TLC

Parts == Permutations(Caster) \cup Permutations(Conn)
=============================================================================
