------------------------------ MODULE MCProxy ------------------------------
(* Instances of Proxy for model checking.                                   *)
EXTENDS Proxy, TLC

CONSTANTS t1, t2

\* No target, one, or both.
MCLists == {<<>>, <<t1>>, <<t1, t2>>}
=============================================================================
