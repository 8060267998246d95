--------------------------- MODULE MCPhysicalCache ---------------------------
(* Instances of PhysicalCache for TLC.                                      *)
EXTENDS PhysicalCache, TLC

CONSTANTS k1, k2, l1, l2

(* Every key has a lock of its own.                                         *)
OwnLocks == k1 :> l1 @@ k2 :> l2

Symmetric == Permutations(Proc)
=============================================================================
