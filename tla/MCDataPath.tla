----------------------------- MODULE MCDataPath -----------------------------
(* Instances of DataPath for model checking.                                *)
EXTENDS DataPath
=============================================================================
