--------------------------- MODULE MCInvalidation ---------------------------
(* Instances of Invalidation for TLC: a namespace and a mount inside it,   *)
(* created, changed and deleted while the node may already serve.          *)
EXTENDS Invalidation

CONSTANTS ns, mount

Parents == [k \in Key |-> IF k = mount THEN ns ELSE Root]

\* Namespace updates share one queue, a mount has its own.
Queues == [k \in Key |-> IF k = mount THEN "mount" ELSE "namespaces"]
=============================================================================
