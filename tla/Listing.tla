------------------------------- MODULE Listing -------------------------------
(***************************************************************************)
(* Paginated listing of a storage tree: physical.Lister of                 *)
(* sdk/physical/listing.go, as the raft backend uses it.                   *)
(*                                                                         *)
(* A path is a sequence of segments, each a positive number; the order of  *)
(* paths is the lexicographic order a cursor walks the bucket in.  A query *)
(* is a record [prefix, after, limit]: a prefix is the path of a folder    *)
(* (<<>> is the root), after is <<>> or an entry name, limit 0 means all.  *)
(* An entry name is <<x>> for a file and <<x, Slash>> for a folder: the    *)
(* string "x/" split at its slash ends in an empty segment.                *)
(*                                                                         *)
(* A page is the set of its entries.  The code returns them sorted, so the *)
(* sequence, and the digest of its elements joined, is determined by the   *)
(* set.                                                                    *)
(***************************************************************************)
EXTENDS Naturals, Sequences, FiniteSets

Slash == 0

PathLess(a, b) ==
  \E i \in 1 .. Len(b) :
     /\ \A j \in 1 .. (i - 1) : j <= Len(a) /\ a[j] = b[j]
     /\ i > Len(a) \/ a[i] < b[i]

HasPrefix(key, prefix) ==
  /\ Len(key) > Len(prefix)
  /\ SubSeq(key, 1, Len(prefix)) = prefix

\* The name a key shows under when the folder prefix is listed.
EntryOf(prefix, key) ==
  LET name == key[Len(prefix) + 1]
  IN  IF Len(key) = Len(prefix) + 1 THEN <<name>> ELSE <<name, Slash>>

\* Mutant of ShouldInclude: the page starts at the point instead of after it.
IncludesAfter(q, key) ==
  q.after = <<>> \/ ~PathLess(EntryOf(q.prefix, key), q.after)

\* Whether an entry is past the point the page starts after.
ShouldInclude(q, key) ==
  q.after = <<>> \/ PathLess(q.after, EntryOf(q.prefix, key))

\* The keys the cursor walks: it seeks to prefix/after and stops at the first
\* key that does not have the prefix.
Scanned(stored, q) ==
  {k \in stored : /\ HasPrefix(k, q.prefix)
                  /\ q.after = <<>> \/ ~PathLess(k, q.prefix \o q.after)}

\* The walked keys that yield an entry: not deleted by the transaction.
Yielding(stored, q, deleted) ==
  {k \in Scanned(stored, q) \ deleted : ShouldInclude(q, k)}

\* The entries of the keys that the transaction has written.
Inserts(q, inserted) ==
  {EntryOf(q.prefix, k) :
      k \in {x \in inserted : HasPrefix(x, q.prefix) /\ ShouldInclude(q, x)}}

\* The entries collected when the cursor reaches key r: those of the yielding
\* keys before r, and the inserts that sort up to the last of them.
CollectedBefore(stored, q, inserted, deleted, r) ==
  LET shown == {EntryOf(q.prefix, k) :
                   k \in {x \in Yielding(stored, q, deleted) : PathLess(x, r)}}
  IN  shown \cup {e \in Inserts(q, inserted) :
                     \E f \in shown : e = f \/ PathLess(e, f)}

\* The keys of the underlying snapshot that the listing has looked at.
PresentKeys(stored, q, inserted, deleted) ==
  {r \in Scanned(stored, q) :
     \/ q.limit = 0
     \/ Cardinality(CollectedBefore(stored, q, inserted, deleted, r)) < q.limit}

\* The page that the caller gets.
ListPage(stored, q, inserted, deleted) ==
  LET all == {EntryOf(q.prefix, k) : k \in Yielding(stored, q, deleted)}
                \cup Inserts(q, inserted)
  IN  {e \in all :
         \/ q.limit = 0
         \/ Cardinality({f \in all : PathLess(f, e)}) < q.limit}
=============================================================================
