----------------------------- MODULE MCReaders -----------------------------
(* The council's instance, with a watcher that reads it.                    *)
EXTENDS MCCouncil, Readers
=============================================================================
