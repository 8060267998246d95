----------------------------- MODULE MCRollback -----------------------------
(* Instances of Rollback for TLC. *)
EXTENDS Rollback
=============================================================================
