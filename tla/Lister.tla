-------------------------------- MODULE Lister --------------------------------
(***************************************************************************)
(* The loop of Lister.ListPage (sdk/physical/listing.go): a cursor over    *)
(* the sorted keys of a storage snapshot is merged with the writes that a  *)
(* transaction holds in memory, page by page.  Listing has the operators   *)
(* that say what a page is; this module shows that the loop computes them. *)
(*                                                                         *)
(* A behaviour is one call.  Init chooses the snapshot, the transaction's  *)
(* writes and the arguments; a step is one iteration of a loop.  Names are *)
(* segments that sort after the slash, so a path and its entry have the    *)
(* same order here and in the code.                                        *)
(***************************************************************************)
EXTENDS Listing, SequencesExt

CONSTANTS Key,      \* paths that may be in storage
          Query     \* records [prefix, after, limit]

ASSUME ListerAssumption ==
  /\ Key \subseteq Seq(Nat) \ {<<>>}
  /\ IsFiniteSet(Key)
  /\ Query \subseteq [prefix : Seq(Nat), after : Seq(Nat), limit : Nat]

VARIABLES
  stored, inserted, deleted, query,   \* the input
  pc,                                 \* "loop", "merge", "done" or "cancelled"
  cursor,                             \* the keys the cursor has yet to visit
  keys, presentKeys,                  \* the two results
  offset                              \* the next of the sorted inserts

input == <<stored, inserted, deleted, query>>
vars == <<input, pc, cursor, keys, presentKeys, offset>>

\* The paths of a finite set in their order, each once.
Sorted(paths) ==
  CHOOSE s \in [1 .. Cardinality(paths) -> paths] :
     \A i, j \in 1 .. Cardinality(paths) : i < j => PathLess(s[i], s[j])

\* inserts: the entries of the transaction's writes, sorted and compacted.
inserts == Sorted(Inserts(query, inserted))

\* The entry that keys ends with, "" when there is none: every name is after it.
lastKey(s) == IF s = <<>> THEN <<>> ELSE Last(s)

\* The path that Start seeks: a prefix that is not empty ends in a slash.
SeekPrefix ==
  IF query.prefix # <<>> /\ query.after = <<>> THEN Append(query.prefix, Slash)
  ELSE query.prefix \o query.after

Init ==
  /\ stored \in SUBSET Key
  /\ inserted \in SUBSET Key
  /\ deleted \in SUBSET (Key \ inserted)
  /\ query \in Query
  /\ pc = "loop"
  /\ cursor = Sorted({k \in stored : ~PathLess(k, SeekPrefix)})
  /\ keys = <<>> /\ presentKeys = <<>>
  /\ offset = 1

\* The inner loop: from the offset on, the inserts between the last key and
\* entry, up to the first that is not.
Candidates(entry) ==
  {i \in offset .. Len(inserts) :
     \A j \in offset .. i : /\ PathLess(inserts[j], entry)
                           /\ PathLess(lastKey(keys), inserts[j])}

\* Mutant of Skips: an insert that is also in storage is not passed over.
NeverSkips(entry, after) == 0

\* The number of inserts, after those, that are entry itself.
Skips(entry, after) ==
  IF after <= Len(inserts) /\ inserts[after] = entry THEN 1 ELSE 0

\* Mutant of IsDuplicate: every key of a folder shows it.
NoDuplicate(key, s) == FALSE

\* A folder that is in the list already.
IsDuplicate(key, s) ==
  LET entry == EntryOf(query.prefix, key)
  IN  Len(entry) = 2 /\ s # <<>> /\ lastKey(s) = entry

\* Mutant of HasEnough: the loop collects one entry less than the limit.
HasAlmostEnough == query.limit > 0 /\ Len(keys) + 1 >= query.limit

\* while: the limit, then the end of the prefix.
HasEnough == query.limit > 0 /\ Len(keys) >= query.limit
AtEnd ==
  IF cursor = <<>> THEN TRUE ELSE ~HasPrefix(Head(cursor), query.prefix)

Visit ==
  /\ pc = "loop"
  /\ ~HasEnough /\ ~AtEnd
  /\ LET key    == Head(cursor)
         entry  == EntryOf(query.prefix, key)
         before == Candidates(entry)
         next   == offset + Cardinality(before)
         merged == keys \o SubSeq(inserts, offset, next - 1)
     IN  /\ presentKeys' = Append(presentKeys, key)
         /\ IF key \in deleted \/ ~ShouldInclude(query, key)
            THEN UNCHANGED <<keys, offset>>
            ELSE /\ offset' = next + Skips(entry, next)
                 /\ keys' = IF IsDuplicate(key, merged) THEN merged
                            ELSE Append(merged, entry)
  /\ cursor' = Tail(cursor)
  /\ UNCHANGED <<input, pc>>

LeaveLoop ==
  /\ pc = "loop"
  /\ HasEnough \/ AtEnd
  /\ pc' = "merge"
  /\ UNCHANGED <<input, cursor, keys, presentKeys, offset>>

\* The inserts that are left, which are in order, then the limit.
Merge ==
  /\ pc = "merge"
  /\ LET after == {i \in offset .. Len(inserts) : PathLess(lastKey(keys), inserts[i])}
         all   == keys \o Sorted({inserts[i] : i \in after})
     IN  keys' = IF query.limit > 0 /\ query.limit < Len(all)
                 THEN SubSeq(all, 1, query.limit) ELSE all
  /\ pc' = "done"
  /\ UNCHANGED <<input, cursor, presentKeys, offset>>

\* The context ends: no partial page is returned.
Cancel ==
  /\ pc = "loop"
  /\ pc' = "cancelled"
  /\ keys' = <<>> /\ presentKeys' = <<>>
  /\ UNCHANGED <<input, cursor, offset>>

Next == Visit \/ LeaveLoop \/ Merge \/ Cancel
Spec == Init /\ [][Next]_vars

-----------------------------------------------------------------------------
(* Properties.                                                             *)

\* The page is the one that Listing defines, in order and without duplicates:
\* the merge of the cursor with the transaction's writes loses nothing, shows a
\* folder once, and honours after and limit.
PageIsCorrect ==
  pc = "done" => keys = Sorted(ListPage(stored, query, inserted, deleted))

\* presentKeys has exactly the keys of the snapshot that decided the page:
\* RaftTransaction.ListPage derives the conflict check from them.
PresentKeysAreCorrect ==
  pc = "done" => presentKeys = Sorted(PresentKeys(stored, query, inserted, deleted))

\* A caller that asks for the next page after the last entry of this one gets
\* the rest: no entry is skipped or repeated between pages.
PagesCompose ==
  LET whole == ListPage(stored, [query EXCEPT !.limit = 0], inserted, deleted)
      rest  == ListPage(stored, [query EXCEPT !.after = Last(keys), !.limit = 0],
                        inserted, deleted)
  IN  (pc = "done" /\ keys # <<>>)
         => /\ ToSet(keys) \cup rest = whole
            /\ ToSet(keys) \cap rest = {}
=============================================================================
