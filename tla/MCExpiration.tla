---------------------------- MODULE MCExpiration ----------------------------
(* Instances of Expiration for TLC. *)
EXTENDS Expiration
=============================================================================
