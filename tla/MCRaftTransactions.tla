-------------------------- MODULE MCRaftTransactions --------------------------
(***************************************************************************)
(* Values of the constants of RaftTransactions that a configuration file   *)
(* cannot write down.                                                      *)
(***************************************************************************)
EXTENDS RaftTransactions, TLC

\* One file in the root folder; a file and a folder of one file.
OneKey    == {<<1>>}
FileAndFolder == {<<1>>, <<2, 1>>}

NoQuery   == {}
Folder    == {[prefix |-> <<2>>, after |-> <<>>, limit |-> 0]}

Symmetric == Permutations(Value) \cup Permutations(Txn) \cup Permutations(Writer)
               \cup Permutations(Replica \ {Leader})
=============================================================================
