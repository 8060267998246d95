---------------------------- MODULE ListerProofs ----------------------------
(***************************************************************************)
(* Proofs about Lister.ListPage for every finite set of keys, every set of *)
(* writes and every query: the page is the one that Listing defines, the   *)
(* keys reported to the conflict check are those that decided it, and      *)
(* pages compose.                                                          *)
(*                                                                         *)
(* The argument.  PathLess is a total order, so a finite set has one       *)
(* ascending sequence, Sorted.  The keys below a prefix are contiguous,    *)
(* and EntryOf keeps their order, so the cursor meets the entries in       *)
(* ascending order, the keys of a folder one after another.  The loop's    *)
(* invariant (Loop) says that presentKeys and cursor are the two parts of  *)
(* what Start seeks (Walk), that keys is ascending and has exactly the     *)
(* entries of the visited keys with the inserts up to the last of them     *)
(* (Gathered), that offset separates those inserts from the later ones     *)
(* (Splits), and that no key was visited on a full page (Looked).  At      *)
(* Merge, what the loop did not reach is after the page (MergeIsPage).     *)
(*                                                                         *)
(* Where the argument needs induction, it takes the least element of a set *)
(* of naturals (LeastElement), or counts (Below).                          *)
(***************************************************************************)
EXTENDS Lister, TLAPS, WellFoundedInduction, FiniteSetTheorems, SequenceTheorems

\* Paths are sequences of names, and names are ordered like numbers.
Path == Seq(Nat)

\* The members of S before x.
Below(S, x) == {y \in S : PathLess(y, x)}

\* A sequence in strict order.
Ascending(s) == \A i, j \in 1 .. Len(s) : i < j => PathLess(s[i], s[j])

-----------------------------------------------------------------------------
(* The order of paths.                                                     *)

\* A set of naturals that is not empty has a least element.
LEMMA LeastElement ==
  ASSUME NEW T \in SUBSET Nat, T # {}
  PROVE  \E x \in T : \A y \in T : x <= y
<1>1. PICK x \in T : \A y \in T : ~(<<y, x>> \in OpToRel(<, Nat))
  BY NatLessThanWellFounded, WFMin
<1>2. \A y \in T : ~(y < x)
  BY <1>1 DEF OpToRel
<1> QED BY <1>2

\* What a path is: its length, its names.
LEMMA PathFacts ==
  ASSUME NEW a \in Path
  PROVE  Len(a) \in Nat /\ \A m \in 1 .. Len(a) : a[m] \in Nat
BY DEF Path

\* No path is before itself.
LEMMA PathIrreflexive ==
  ASSUME NEW a \in Path
  PROVE  ~PathLess(a, a)
BY DEF PathLess, Path

\* The order of paths is transitive.
LEMMA PathTransitive ==
  ASSUME NEW a \in Path, NEW b \in Path, NEW c \in Path,
         PathLess(a, b), PathLess(b, c)
  PROVE  PathLess(a, c)
<1>1. PICK i \in 1 .. Len(b) :
        /\ \A m \in 1 .. (i - 1) : m <= Len(a) /\ a[m] = b[m]
        /\ i > Len(a) \/ a[i] < b[i]
  BY DEF PathLess
<1>2. PICK j \in 1 .. Len(c) :
        /\ \A m \in 1 .. (j - 1) : m <= Len(b) /\ b[m] = c[m]
        /\ j > Len(b) \/ b[j] < c[j]
  BY DEF PathLess
<1>t. /\ Len(a) \in Nat /\ Len(b) \in Nat /\ Len(c) \in Nat
      /\ \A m \in 1 .. Len(a) : a[m] \in Nat
      /\ \A m \in 1 .. Len(b) : b[m] \in Nat
      /\ \A m \in 1 .. Len(c) : c[m] \in Nat
  BY PathFacts
<1>3. CASE i < j
  <2>1. i \in 1 .. Len(c) /\ b[i] = c[i]
    BY <1>2, <1>3, <1>t
  <2>2. \A m \in 1 .. (i - 1) : m <= Len(a) /\ a[m] = c[m]
    <3> SUFFICES ASSUME NEW m \in 1 .. (i - 1) PROVE m <= Len(a) /\ a[m] = c[m]
      OBVIOUS
    <3>1. m \in 1 .. (j - 1)
      BY <1>3
    <3> QED BY <1>1, <1>2, <3>1
  <2> QED BY <1>1, <2>1, <2>2 DEF PathLess
<1>4. CASE j < i
  <2>1. j <= Len(b) /\ j <= Len(a) /\ a[j] = b[j] /\ b[j] < c[j]
    BY <1>1, <1>2, <1>4, <1>t
  <2>2. \A m \in 1 .. (j - 1) : m <= Len(a) /\ a[m] = c[m]
    <3> SUFFICES ASSUME NEW m \in 1 .. (j - 1) PROVE m <= Len(a) /\ a[m] = c[m]
      OBVIOUS
    <3>1. m \in 1 .. (i - 1)
      BY <1>4
    <3> QED BY <1>1, <1>2, <3>1
  <2> QED BY <1>2, <2>1, <2>2 DEF PathLess
<1>5. CASE i = j
  <2>1. b[i] < c[i]
    BY <1>1, <1>2, <1>5, <1>t
  <2>2. \A m \in 1 .. (i - 1) : m <= Len(a) /\ a[m] = c[m]
    BY <1>1, <1>2, <1>5
  <2>3. i > Len(a) \/ a[i] < c[i]
    BY <1>1, <1>2, <1>5, <2>1, <1>t
  <2> QED BY <1>2, <1>5, <2>2, <2>3 DEF PathLess
<1> QED BY <1>3, <1>4, <1>5

\* Of two paths that differ, one is before the other.
LEMMA PathTotal ==
  ASSUME NEW a \in Path, NEW b \in Path, a # b
  PROVE  PathLess(a, b) \/ PathLess(b, a)
<1> DEFINE T == {i \in Nat \ {0} : i > Len(a) \/ i > Len(b) \/ a[i] # b[i]}
<1>t. /\ Len(a) \in Nat /\ Len(b) \in Nat
      /\ \A m \in 1 .. Len(a) : a[m] \in Nat
      /\ \A m \in 1 .. Len(b) : b[m] \in Nat
  BY DEF Path
<1>1. Len(a) + 1 \in T /\ Len(b) + 1 \in T
  BY <1>t
<1>2. PICK i \in T : \A y \in T : i <= y
  <2>1. T \in SUBSET Nat /\ T # {}
    BY <1>1
  <2> HIDE DEF T
  <2> QED BY <2>1, LeastElement
<1>3. \A m \in 1 .. (i - 1) : m <= Len(a) /\ m <= Len(b) /\ a[m] = b[m]
  <2> SUFFICES ASSUME NEW m \in 1 .. (i - 1)
               PROVE  m <= Len(a) /\ m <= Len(b) /\ a[m] = b[m]
    OBVIOUS
  <2>1. m \in Nat \ {0} /\ m \notin T
    BY <1>2
  <2> QED BY <2>1, <1>t
<1>4. i <= Len(a) + 1 /\ i <= Len(b) + 1
  BY <1>1, <1>2
<1>5. i \in Nat \ {0}
  OBVIOUS
<1>6. CASE i > Len(a) /\ i > Len(b)
  <2>1. Len(a) = Len(b) /\ Len(a) = i - 1
    BY <1>4, <1>5, <1>6, <1>t
  <2>2. \A m \in 1 .. Len(a) : a[m] = b[m]
    BY <1>3, <2>1
  <2> QED BY <2>1, <2>2, SeqEqual DEF Path
<1>7. CASE i > Len(a) /\ i <= Len(b)
  BY <1>3, <1>5, <1>7, <1>t DEF PathLess
<1>8. CASE i <= Len(a) /\ i > Len(b)
  BY <1>3, <1>5, <1>8, <1>t DEF PathLess
<1>9. CASE i <= Len(a) /\ i <= Len(b)
  <2>1. a[i] < b[i] \/ b[i] < a[i]
    BY <1>2, <1>5, <1>9, <1>t
  <2> QED BY <1>3, <1>5, <1>9, <2>1, <1>t DEF PathLess
<1> QED BY <1>5, <1>6, <1>7, <1>8, <1>9, <1>t

-----------------------------------------------------------------------------
(* Ascending sequences.                                                    *)

\* What a sequence of paths is: its length, its members.
LEMMA SeqFacts ==
  ASSUME NEW s \in Seq(Path)
  PROVE  /\ Len(s) \in Nat
         /\ \A i \in 1 .. Len(s) : s[i] \in Path /\ s[i] \in ToSet(s)
         /\ \A x \in ToSet(s) : x \in Path /\ \E i \in 1 .. Len(s) : s[i] = x
         /\ s = <<>> <=> Len(s) = 0
         /\ s = <<>> <=> ToSet(s) = {}
BY DEF ToSet

\* The members of an ascending sequence before its i-th are the first i - 1.
LEMMA AscendingRank ==
  ASSUME NEW s \in Seq(Path), Ascending(s), NEW i \in 1 .. Len(s)
  PROVE  /\ Below(ToSet(s), s[i]) = {s[j] : j \in 1 .. (i - 1)}
         /\ IsFiniteSet(Below(ToSet(s), s[i]))
         /\ Cardinality(Below(ToSet(s), s[i])) = i - 1
<1>t. Len(s) \in Nat /\ \A m \in 1 .. Len(s) : s[m] \in Path
  BY SeqFacts
<1>1. \A m, n \in 1 .. Len(s) : PathLess(s[m], s[n]) => m < n
  <2> SUFFICES ASSUME NEW m \in 1 .. Len(s), NEW n \in 1 .. Len(s),
                      PathLess(s[m], s[n]), ~(m < n)
               PROVE  FALSE
    OBVIOUS
  <2>1. CASE m = n
    BY <2>1, <1>t, PathIrreflexive
  <2>2. CASE n < m
    <3>1. PathLess(s[n], s[m])
      BY <2>2 DEF Ascending
    <3>2. PathLess(s[n], s[n])
      BY <3>1, <1>t, PathTransitive
    <3> QED BY <3>2, <1>t, PathIrreflexive
  <2> QED BY <2>1, <2>2
<1>2. Below(ToSet(s), s[i]) = {s[j] : j \in 1 .. (i - 1)}
  <2>1. ASSUME NEW x \in Below(ToSet(s), s[i]) PROVE x \in {s[j] : j \in 1 .. (i - 1)}
    <3>1. PICK m \in 1 .. Len(s) : s[m] = x
      BY SeqFacts DEF Below
    <3>2. m < i
      BY <3>1, <1>1 DEF Below
    <3>3. m \in 1 .. (i - 1)
      BY <3>2, <1>t
    <3> QED BY <3>1, <3>3
  <2>2. ASSUME NEW j \in 1 .. (i - 1) PROVE s[j] \in Below(ToSet(s), s[i])
    <3>1. j \in 1 .. Len(s) /\ j < i
      BY <1>t
    <3> QED BY <3>1, SeqFacts DEF Below, Ascending
  <2> QED BY <2>1, <2>2
<1> DEFINE f == [j \in 1 .. (i - 1) |-> s[j]]
           T == {s[j] : j \in 1 .. (i - 1)}
<1>3. f \in Bijection(1 .. (i - 1), T)
  <2>1. ASSUME NEW m \in 1 .. (i - 1), NEW n \in 1 .. (i - 1), s[m] = s[n] PROVE m = n
    <3>1. m \in 1 .. Len(s) /\ n \in 1 .. Len(s)
      BY <1>t
    <3>2. ~(m < n) /\ ~(n < m)
      BY <2>1, <3>1, <1>t, PathIrreflexive DEF Ascending
    <3> QED BY <3>2
  <2> QED BY <2>1 DEF Bijection, Injection, Surjection, IsInjective
<1>4. IsFiniteSet(1 .. (i - 1)) /\ Cardinality(1 .. (i - 1)) = i - 1
  BY FS_Interval
<1>5. IsFiniteSet(T) /\ Cardinality(T) = i - 1
  <2> HIDE DEF f, T
  <2> QED BY <1>3, <1>4, FS_Bijection DEF ExistsBijection
<1> QED BY <1>2, <1>5

\* An ascending sequence has every member once.
LEMMA AscendingCount ==
  ASSUME NEW s \in Seq(Path), Ascending(s)
  PROVE  IsFiniteSet(ToSet(s)) /\ Cardinality(ToSet(s)) = Len(s)
<1>t. Len(s) \in Nat /\ \A m \in 1 .. Len(s) : s[m] \in Path
  BY SeqFacts
<1> DEFINE f == [j \in 1 .. Len(s) |-> s[j]]
<1>3. f \in Bijection(1 .. Len(s), ToSet(s))
  <2>1. ASSUME NEW m \in 1 .. Len(s), NEW n \in 1 .. Len(s), s[m] = s[n] PROVE m = n
    <3>2. ~(m < n) /\ ~(n < m)
      BY <2>1, <1>t, PathIrreflexive DEF Ascending
    <3> QED BY <3>2
  <2>2. f \in [1 .. Len(s) -> ToSet(s)]
    BY SeqFacts
  <2>3. \A t \in ToSet(s) : \E j \in 1 .. Len(s) : f[j] = t
    BY SeqFacts
  <2> QED BY <2>1, <2>2, <2>3 DEF Bijection, Injection, Surjection, IsInjective
<1>4. IsFiniteSet(1 .. Len(s)) /\ Cardinality(1 .. Len(s)) = Len(s)
  <2>1. 1 \in Int /\ Len(s) \in Int
    BY <1>t
  <2>2. IsFiniteSet(1 .. Len(s))
        /\ Cardinality(1 .. Len(s)) = IF 1 > Len(s) THEN 0 ELSE Len(s) - 1 + 1
    BY ONLY <2>1, FS_Interval
  <2> QED BY <2>2, <1>t
<1> HIDE DEF f
<1> QED BY <1>3, <1>4, FS_Bijection DEF ExistsBijection

\* An ascending sequence is determined by its members.
LEMMA AscendingUnique ==
  ASSUME NEW s \in Seq(Path), NEW t \in Seq(Path),
         Ascending(s), Ascending(t), ToSet(s) = ToSet(t)
  PROVE  s = t
<1>1. Len(s) = Len(t)
  BY AscendingCount
<1>2. ASSUME NEW i \in 1 .. Len(s) PROVE s[i] = t[i]
  <2>1. PICK j \in 1 .. Len(t) : t[j] = s[i]
    BY SeqFacts
  <2>2. i - 1 = j - 1
    BY <2>1, AscendingRank
  <2> QED BY <2>1, <2>2
<1> QED BY <1>1, <1>2, SeqEqual
-----------------------------------------------------------------------------
(* Sorted.                                                                 *)

\* In a finite set of paths, what is before x is a strict part of the set, and
\* of what is before y when x is before y.
LEMMA BelowFacts ==
  ASSUME NEW S \in SUBSET Path, IsFiniteSet(S), NEW x \in S
  PROVE  /\ IsFiniteSet(Below(S, x))
         /\ Cardinality(Below(S, x)) \in Nat
         /\ Cardinality(Below(S, x)) < Cardinality(S)
         /\ \A y \in S : PathLess(x, y) =>
               Cardinality(Below(S, x)) < Cardinality(Below(S, y))
<1>1. ASSUME NEW y \in S PROVE IsFiniteSet(Below(S, y)) /\ Cardinality(Below(S, y)) \in Nat
  <2>1. Below(S, y) \in SUBSET S
    BY DEF Below
  <2>2. IsFiniteSet(Below(S, y))
    BY <2>1, FS_Subset
  <2> QED BY <2>2, FS_CardinalityType
<1>2. Cardinality(S) \in Nat
  BY FS_CardinalityType
<1>3. x \notin Below(S, x)
  BY PathIrreflexive DEF Below
<1>4. IsFiniteSet(Below(S, x) \cup {x})
      /\ Cardinality(Below(S, x) \cup {x}) = Cardinality(Below(S, x)) + 1
  BY <1>1, <1>3, FS_AddElement
<1>5. Below(S, x) \cup {x} \in SUBSET S
  BY DEF Below
<1>6. Cardinality(Below(S, x)) + 1 <= Cardinality(S)
  BY <1>4, <1>5, FS_Subset
<1>7. ASSUME NEW y \in S, PathLess(x, y)
      PROVE  Cardinality(Below(S, x)) < Cardinality(Below(S, y))
  <2>1. Below(S, x) \cup {x} \in SUBSET Below(S, y)
    BY <1>7, PathTransitive DEF Below
  <2>2. IsFiniteSet(Below(S, y))
    BY <1>1
  <2>3. Cardinality(Below(S, x) \cup {x}) <= Cardinality(Below(S, y))
    BY ONLY <2>1, <2>2, FS_Subset
  <2> QED BY <2>3, <1>4, <1>1
<1> QED BY <1>1, <1>2, <1>6, <1>7

\* The paths of a finite set can be put in order.
LEMMA SortedExists ==
  ASSUME NEW S \in SUBSET Path, IsFiniteSet(S)
  PROVE  \E s \in [1 .. Cardinality(S) -> S] :
            \A i, j \in 1 .. Cardinality(S) : i < j => PathLess(s[i], s[j])
<1> DEFINE n == Cardinality(S)
           f == [x \in S |-> Cardinality(Below(S, x)) + 1]
<1>1. n \in Nat
  BY FS_CardinalityType
<1>2. f \in [S -> 1 .. n]
  <2>1. ASSUME NEW x \in S PROVE Cardinality(Below(S, x)) + 1 \in 1 .. n
    BY <1>1, BelowFacts
  <2> QED BY <2>1
<1>3. \A x, y \in S : PathLess(x, y) => f[x] < f[y]
  <2> SUFFICES ASSUME NEW x \in S, NEW y \in S, PathLess(x, y) PROVE f[x] < f[y]
    OBVIOUS
  <2>1. Cardinality(Below(S, x)) \in Nat /\ Cardinality(Below(S, y)) \in Nat
        /\ Cardinality(Below(S, x)) < Cardinality(Below(S, y))
    BY BelowFacts
  <2> QED BY <2>1
<1>4. f \in Injection(S, 1 .. n)
  <2>1. ASSUME NEW x \in S, NEW y \in S, f[x] = f[y] PROVE x = y
    <3>1. f[x] \in 1 .. n /\ f[y] \in 1 .. n
      BY <1>2
    <3>2. ~PathLess(x, y) /\ ~PathLess(y, x)
      <4> HIDE DEF f
      <4> QED BY <1>1, <1>3, <2>1, <3>1
    <3> QED BY <3>2, PathTotal
  <2> QED BY <1>2, <2>1 DEF Injection, IsInjective
<1>5. IsFiniteSet(1 .. n) /\ Cardinality(1 .. n) = n
  <2>1. 1 \in Int /\ n \in Int
    BY <1>1
  <2> HIDE DEF n
  <2>2. IsFiniteSet(1 .. n) /\ Cardinality(1 .. n) = IF 1 > n THEN 0 ELSE n - 1 + 1
    BY ONLY <2>1, FS_Interval
  <2> QED BY <2>2, <1>1
<1>6. f \in Surjection(S, 1 .. n)
  <2> HIDE DEF f
  <2> QED BY <1>4, <1>5, FS_Injection
<1>7. \A i \in 1 .. n : \E x \in S : f[x] = i
  BY <1>6 DEF Surjection
<1> HIDE DEF f, n
<1> DEFINE s == [i \in 1 .. n |-> CHOOSE x \in S : f[x] = i]
<1>8. \A i \in 1 .. n : s[i] \in S /\ f[s[i]] = i
  BY <1>7
<1>9. s \in [1 .. n -> S]
  BY <1>8
<1>10. ASSUME NEW i \in 1 .. n, NEW j \in 1 .. n, i < j PROVE PathLess(s[i], s[j])
  <2>1. s[i] # s[j]
    BY <1>8, <1>10
  <2>2. ~PathLess(s[j], s[i])
    <3>1. f[s[j]] = j /\ f[s[i]] = i /\ s[j] \in S /\ s[i] \in S
      BY <1>8
    <3> HIDE DEF s
    <3> QED BY <1>3, <3>1, <1>10, <1>1
  <2>3. s[i] \in Path /\ s[j] \in Path
    BY <1>8
  <2> HIDE DEF s
  <2> QED BY <2>1, <2>2, <2>3, PathTotal
<1> HIDE DEF s
<1> QED BY <1>9, <1>10 DEF n

\* Sorted puts the members of a finite set of paths in order, each once.
LEMMA SortedFacts ==
  ASSUME NEW S \in SUBSET Path, IsFiniteSet(S)
  PROVE  /\ Sorted(S) \in Seq(Path)
         /\ Len(Sorted(S)) = Cardinality(S)
         /\ Ascending(Sorted(S))
         /\ ToSet(Sorted(S)) = S
<1>1. Cardinality(S) \in Nat
  BY FS_CardinalityType
<1>2. /\ Sorted(S) \in [1 .. Cardinality(S) -> S]
      /\ \A i, j \in 1 .. Cardinality(S) : i < j => PathLess(Sorted(S)[i], Sorted(S)[j])
  BY SortedExists DEF Sorted
<1>3. Sorted(S) \in Seq(Path)
  BY <1>1, <1>2, SeqDef
<1>4. Len(Sorted(S)) = Cardinality(S)
  BY <1>1, <1>2, <1>3
<1>5. Ascending(Sorted(S))
  BY <1>2, <1>4 DEF Ascending
<1>6. ToSet(Sorted(S)) \in SUBSET S
  BY <1>2 DEF ToSet
<1>7. Cardinality(ToSet(Sorted(S))) = Cardinality(S)
  BY <1>3, <1>4, <1>5, AscendingCount
<1>8. ToSet(Sorted(S)) = S
  BY <1>6, <1>7, FS_Subset
<1> QED BY <1>3, <1>4, <1>5, <1>8

\* An ascending sequence is its set, sorted.
LEMMA AscendingIsSorted ==
  ASSUME NEW s \in Seq(Path), Ascending(s)
  PROVE  s = Sorted(ToSet(s))
<1>1. ToSet(s) \in SUBSET Path /\ IsFiniteSet(ToSet(s))
  BY SeqFacts, AscendingCount
<1> QED BY <1>1, SortedFacts, AscendingUnique

-----------------------------------------------------------------------------
(* Prefixes and entries.                                                   *)

\* HasPrefix, segment by segment.
LEMMA PrefixFacts ==
  ASSUME NEW k \in Path, NEW p \in Path
  PROVE  HasPrefix(k, p) <=> /\ Len(k) > Len(p)
                             /\ \A i \in 1 .. Len(p) : k[i] = p[i]
<1>t. Len(k) \in Nat /\ Len(p) \in Nat
  BY DEF Path
<1>1. ASSUME Len(k) > Len(p)
      PROVE  SubSeq(k, 1, Len(p)) = p <=> \A i \in 1 .. Len(p) : k[i] = p[i]
  <2>1. \A i \in 1 .. Len(p) : k[i] \in Nat
    BY <1>1, <1>t DEF Path
  <2>2. /\ SubSeq(k, 1, Len(p)) \in Seq(Nat)
        /\ Len(SubSeq(k, 1, Len(p))) = Len(p)
        /\ \A i \in 1 .. Len(p) : SubSeq(k, 1, Len(p))[i] = k[i]
    BY <2>1, <1>t DEF Path
  <2>3. ASSUME \A i \in 1 .. Len(p) : k[i] = p[i] PROVE SubSeq(k, 1, Len(p)) = p
    BY <2>2, <2>3, SeqEqual DEF Path
  <2> QED BY <2>2, <2>3
<1> QED BY <1>1 DEF HasPrefix

\* The entry of a key: its segment below the prefix, and a slash for a folder.
LEMMA EntryFacts ==
  ASSUME NEW k \in Path, NEW p \in Path, HasPrefix(k, p)
  PROVE  /\ EntryOf(p, k) \in Path
         /\ EntryOf(p, k) # <<>>
         /\ EntryOf(p, k)[1] = k[Len(p) + 1]
         /\ Len(k) = Len(p) + 1 => Len(EntryOf(p, k)) = 1
         /\ Len(k) # Len(p) + 1 => Len(EntryOf(p, k)) = 2 /\ EntryOf(p, k)[2] = 0
<1>1. Len(k) > Len(p) /\ Len(k) \in Nat /\ Len(p) \in Nat
  BY PrefixFacts DEF Path
<1>2. k[Len(p) + 1] \in Nat
  BY <1>1 DEF Path
<1> QED BY <1>2 DEF EntryOf, Slash, Path

\* Only one key shows under the name of a file.
LEMMA FileEntryUnique ==
  ASSUME NEW a \in Path, NEW b \in Path, NEW p \in Path,
         HasPrefix(a, p), HasPrefix(b, p),
         EntryOf(p, a) = EntryOf(p, b), Len(EntryOf(p, a)) # 2
  PROVE  a = b
<1>1. /\ Len(p) \in Nat
      /\ Len(a) = Len(p) + 1 /\ Len(b) = Len(p) + 1
      /\ a[Len(p) + 1] = b[Len(p) + 1]
  BY EntryFacts DEF Path
<1>2. \A i \in 1 .. Len(p) : a[i] = b[i]
  BY PrefixFacts
<1>3. \A i \in 1 .. Len(a) : a[i] = b[i]
  BY <1>1, <1>2
<1> QED BY <1>1, <1>3, SeqEqual DEF Path

\* The order of keys below a prefix is the order of their entries.
LEMMA EntryMonotone ==
  ASSUME NEW a \in Path, NEW b \in Path, NEW p \in Path,
         HasPrefix(a, p), HasPrefix(b, p), PathLess(a, b)
  PROVE  EntryOf(p, a) = EntryOf(p, b) \/ PathLess(EntryOf(p, a), EntryOf(p, b))
<1> DEFINE n == Len(p) + 1
           x == EntryOf(p, a)
           y == EntryOf(p, b)
<1>t. /\ Len(p) \in Nat /\ Len(a) \in Nat /\ Len(b) \in Nat
      /\ \A m \in 1 .. Len(a) : a[m] \in Nat
      /\ \A m \in 1 .. Len(b) : b[m] \in Nat
      /\ n <= Len(a) /\ n <= Len(b) /\ n \in Nat \ {0}
      /\ \A m \in 1 .. Len(p) : a[m] = p[m] /\ b[m] = p[m]
  BY PrefixFacts DEF Path
<1>e. /\ x \in Seq(Nat) /\ y \in Seq(Nat)
      /\ x[1] = a[n] /\ y[1] = b[n]
      /\ Len(a) = n => Len(x) = 1
      /\ Len(b) = n => Len(y) = 1
      /\ Len(a) # n => Len(x) = 2 /\ x[2] = 0
      /\ Len(b) # n => Len(y) = 2 /\ y[2] = 0
  BY EntryFacts DEF Path
<1>1. PICK i \in 1 .. Len(b) :
        /\ \A m \in 1 .. (i - 1) : m <= Len(a) /\ a[m] = b[m]
        /\ i > Len(a) \/ a[i] < b[i]
  BY DEF PathLess
<1>2. i >= n
  <2> SUFFICES ASSUME i < n PROVE FALSE
    BY <1>t
  <2>1. i \in 1 .. Len(p) /\ i <= Len(a)
    BY <1>t
  <2>2. a[i] = b[i] /\ a[i] \in Nat
    BY <2>1, <1>t
  <2> QED BY <1>1, <2>1, <2>2, <1>t
<1> HIDE DEF x, y, n
<1>3. CASE i = n
  <2>1. a[n] < b[n]
    BY <1>1, <1>3, <1>t
  <2>2. x[1] < y[1] /\ 1 \in 1 .. Len(y)
    BY <2>1, <1>e, <1>t
  <2>3. PathLess(x, y)
    BY <2>2 DEF PathLess
  <2> QED BY <2>3 DEF x, y
<1>4. CASE i > n
  <2>1. a[n] = b[n] /\ Len(b) # n
    <3>1. n \in 1 .. (i - 1)
      BY <1>4, <1>t
    <3> QED BY <1>1, <1>4, <3>1, <1>t
  <2>2. CASE Len(a) = n
    <3>1. Len(x) = 1 /\ Len(y) = 2 /\ x[1] = y[1]
      BY <2>1, <2>2, <1>e
    <3>2. PathLess(x, y)
      BY <3>1 DEF PathLess
    <3> QED BY <3>2 DEF x, y
  <2>3. CASE Len(a) # n
    <3>1. Len(x) = 2 /\ Len(y) = 2 /\ x[1] = y[1] /\ x[2] = y[2]
      BY <2>1, <2>3, <1>e
    <3>2. \A m \in 1 .. Len(x) : x[m] = y[m]
      <4> SUFFICES ASSUME NEW m \in 1 .. Len(x) PROVE x[m] = y[m]
        OBVIOUS
      <4>1. m = 1 \/ m = 2
        BY <3>1
      <4> QED BY <3>1, <4>1
    <3>3. x = y
      BY <3>1, <3>2, <1>e, SeqEqual
    <3> QED BY <3>3 DEF x, y
  <2> QED BY <2>2, <2>3
<1> QED BY <1>2, <1>3, <1>4, <1>t

\* The empty path is before every other.
LEMMA EmptyLeast ==
  ASSUME NEW a \in Path, a # <<>>
  PROVE  PathLess(<<>>, a)
BY DEF PathLess, Path

\* The keys below a prefix are contiguous: a cursor that starts at or after the
\* path that Start seeks meets no other key before one of them.
LEMMA Contiguous ==
  ASSUME NEW h \in Path, NEW r \in Path, NEW p \in Path, NEW sp \in Path,
         HasPrefix(r, p), PathLess(h, r), ~PathLess(h, sp), h # <<>>,
         p = <<>> \/ HasPrefix(sp, p)
  PROVE  HasPrefix(h, p)
<1>t. /\ Len(h) \in Nat /\ Len(r) \in Nat /\ Len(p) \in Nat /\ Len(sp) \in Nat
      /\ \A m \in 1 .. Len(h) : h[m] \in Nat
      /\ \A m \in 1 .. Len(r) : r[m] \in Nat
  BY PathFacts
<1>1. CASE p = <<>>
  <2>1. Len(p) = 0 /\ Len(h) > 0
    BY <1>1, <1>t, EmptySeq DEF Path
  <2> QED BY <2>1, PrefixFacts
<1>2. CASE HasPrefix(sp, p)
  <2>1. /\ Len(r) > Len(p) /\ \A m \in 1 .. Len(p) : r[m] = p[m]
        /\ Len(sp) > Len(p) /\ \A m \in 1 .. Len(p) : sp[m] = p[m]
    BY <1>2, PrefixFacts
  <2>2. PICK i \in 1 .. Len(r) :
          /\ \A m \in 1 .. (i - 1) : m <= Len(h) /\ h[m] = r[m]
          /\ i > Len(h) \/ h[i] < r[i]
    BY DEF PathLess
  <2>3. i > Len(p)
    <3> SUFFICES ASSUME i <= Len(p) PROVE FALSE
      BY <1>t
    <3>1. \A m \in 1 .. (i - 1) : m <= Len(h) /\ h[m] = sp[m]
      <4> SUFFICES ASSUME NEW m \in 1 .. (i - 1) PROVE m <= Len(h) /\ h[m] = sp[m]
        OBVIOUS
      <4>1. m \in 1 .. Len(p)
        BY <1>t
      <4> QED BY <4>1, <2>1, <2>2
    <3>2. i \in 1 .. Len(sp) /\ (i > Len(h) \/ h[i] < sp[i])
      BY <2>1, <2>2, <1>t
    <3> QED BY <3>1, <3>2 DEF PathLess
  <2>4. \A m \in 1 .. Len(p) : m <= Len(h) /\ h[m] = p[m]
    BY <2>1, <2>2, <2>3, <1>t
  <2>5. Len(h) > Len(p)
    <3> SUFFICES ASSUME Len(h) <= Len(p) PROVE FALSE
      BY <1>t
    <3>1. Len(p) + 1 \in 1 .. Len(sp) /\ Len(p) + 1 > Len(h)
      BY <2>1, <1>t
    <3>2. \A m \in 1 .. (Len(p) + 1 - 1) : m <= Len(h) /\ h[m] = sp[m]
      BY <2>1, <2>4, <1>t
    <3> QED BY <3>1, <3>2 DEF PathLess
  <2> QED BY <2>4, <2>5, PrefixFacts
<1> QED BY <1>1, <1>2

\* No key below a prefix is before the first that Start seeks.
LEMMA PrefixSeeks ==
  ASSUME NEW k \in Path, NEW p \in Path, HasPrefix(k, p)
  PROVE  ~PathLess(k, Append(p, Slash))
<1> SUFFICES ASSUME PathLess(k, Append(p, Slash)) PROVE FALSE
  OBVIOUS
<1>t. /\ Len(k) \in Nat /\ Len(p) \in Nat /\ Len(k) > Len(p)
      /\ \A m \in 1 .. Len(k) : k[m] \in Nat
      /\ \A m \in 1 .. Len(p) : k[m] = p[m]
  BY PrefixFacts DEF Path
<1>a. /\ Len(Append(p, Slash)) = Len(p) + 1
      /\ \A m \in 1 .. Len(p) : Append(p, Slash)[m] = p[m]
      /\ Append(p, Slash)[Len(p) + 1] = 0
  BY AppendProperties DEF Path, Slash
<1>1. PICK i \in 1 .. (Len(p) + 1) : i > Len(k) \/ k[i] < Append(p, Slash)[i]
  BY <1>a DEF PathLess
<1>2. CASE i = Len(p) + 1
  BY <1>1, <1>2, <1>a, <1>t
<1>3. CASE i \in 1 .. Len(p)
  BY <1>1, <1>3, <1>a, <1>t
<1> QED BY <1>2, <1>3, <1>t

\* A key whose entry is after the starting point of the page is not before the
\* path that the cursor seeks: the seek skips no entry of the page.
LEMMA IncludedIsSought ==
  ASSUME NEW k \in Path, NEW p \in Path, NEW after \in Path,
         HasPrefix(k, p), PathLess(after, EntryOf(p, k))
  PROVE  ~PathLess(k, p \o after)
<1> SUFFICES ASSUME PathLess(k, p \o after) PROVE FALSE
  OBVIOUS
<1> DEFINE n == Len(p) + 1
<1>d. PICK e, q : e = EntryOf(p, k) /\ q = p \o after
  OBVIOUS
<1>t. /\ Len(k) \in Nat /\ Len(p) \in Nat /\ Len(k) > Len(p) /\ Len(after) \in Nat
      /\ \A m \in 1 .. Len(k) : k[m] \in Nat
      /\ \A m \in 1 .. Len(after) : after[m] \in Nat
      /\ \A m \in 1 .. Len(p) : k[m] = p[m]
      /\ n \in 1 .. Len(k)
  BY PrefixFacts DEF Path
<1>u. Len(after) \in Nat /\ Len(p) \in Nat
  BY <1>t
<1>e. /\ e[1] = k[n]
      /\ Len(e) = 1 \/ (Len(e) = 2 /\ e[2] = 0)
  BY <1>d, EntryFacts
<1>q. /\ Len(q) = Len(p) + Len(after)
      /\ \A m \in 1 .. Len(p) : q[m] = p[m]
      /\ \A m \in 1 .. Len(after) : q[Len(p) + m] = after[m]
  <2>1. /\ Len(q) = Len(p) + Len(after)
        /\ \A m \in 1 .. Len(p) + Len(after) :
             q[m] = IF m <= Len(p) THEN p[m] ELSE after[m - Len(p)]
    BY <1>d, ConcatProperties DEF Path
  <2>2. \A m \in 1 .. Len(p) : q[m] = p[m]
    BY <2>1, <1>t
  <2>3. ASSUME NEW m \in 1 .. Len(after) PROVE q[Len(p) + m] = after[m]
    <3>1. Len(p) + m \in 1 .. Len(p) + Len(after) /\ ~(Len(p) + m <= Len(p))
      BY <1>t
    <3>2. Len(p) + m - Len(p) = m
      BY <1>t
    <3> QED BY <2>1, <3>1, <3>2
  <2> QED BY <2>1, <2>2, <2>3
<1>1. PICK i \in Nat :
        /\ i >= 1 /\ i <= Len(p) + Len(after)
        /\ \A m \in 1 .. (i - 1) : m <= Len(k) /\ k[m] = q[m]
        /\ i > Len(k) \/ k[i] < q[i]
  <2>1. Len(q) \in Nat
    BY <1>q, <1>t
  <2>2. PICK i \in 1 .. Len(q) :
          /\ \A m \in 1 .. (i - 1) : m <= Len(k) /\ k[m] = q[m]
          /\ i > Len(k) \/ k[i] < q[i]
    BY <1>d DEF PathLess
  <2>3. i \in Nat /\ i >= 1 /\ i <= Len(q)
    BY <2>1
  <2>4. i <= Len(p) + Len(after)
    BY <2>3, <1>q
  <2> QED BY <2>2, <2>3, <2>4
<1>2. PICK j \in Nat :
        /\ j >= 1 /\ j <= Len(e)
        /\ \A m \in 1 .. (j - 1) : m <= Len(after) /\ after[m] = e[m]
        /\ j > Len(after) \/ after[j] < e[j]
  <2>1. Len(e) \in Nat
    BY <1>e
  <2>2. PICK j \in 1 .. Len(e) :
          /\ \A m \in 1 .. (j - 1) : m <= Len(after) /\ after[m] = e[m]
          /\ j > Len(after) \/ after[j] < e[j]
    BY <1>d DEF PathLess
  <2>3. j \in Nat /\ j >= 1 /\ j <= Len(e)
    BY <2>1
  <2> QED BY <2>2, <2>3
<1>3. i > Len(p)
  <2> SUFFICES ASSUME i <= Len(p) PROVE FALSE
    BY <1>u
  <2>1. i \in 1 .. Len(p) /\ i \in 1 .. Len(k)
    BY <1>1, <1>t
  <2>2. k[i] = p[i] /\ q[i] = p[i] /\ k[i] \in Nat
    BY <2>1, <1>t, <1>q
  <2> QED BY <1>1, <2>1, <2>2
<1>4. Len(after) >= 1
  BY <1>1, <1>3, <1>q, <1>u
<1>5. after[1] = q[n] /\ after[1] \in Nat /\ k[n] \in Nat
  BY <1>4, <1>q, <1>t
<1>6. CASE j = 1
  <2>1. after[1] < k[n]
    BY <1>2, <1>4, <1>6, <1>e, <1>u
  <2>2. CASE i = n
    BY <2>1, <2>2, <1>1, <1>5, <1>t
  <2>3. CASE i > n
    <3>1. n \in 1 .. (i - 1)
      BY <2>3, <1>u
    <3>2. k[n] = q[n]
      BY <3>1, <1>1
    <3> QED BY <3>2, <2>1, <1>5
  <2> QED BY <1>3, <2>2, <2>3, <1>u
<1>7. CASE j = 2
  <2>1. Len(e) = 2 /\ e[2] = 0
    BY <1>2, <1>7, <1>e
  <2>2. after[1] = k[n]
    BY <1>2, <1>7, <1>e
  <2>3. Len(after) <= 1
    <3> SUFFICES ASSUME Len(after) >= 2 PROVE FALSE
      BY <1>u
    <3>1. after[2] \in Nat
      BY <1>t
    <3>2. after[2] < 0
      BY <1>2, <1>7, <2>1, <1>u
    <3> QED BY <3>1, <3>2
  <2>4. i = n
    <3>1. i <= Len(p) + Len(after)
      BY <1>1
    <3>2. Len(p) + Len(after) <= Len(p) + 1
      BY <2>3, <1>u
    <3>3. i <= Len(p) + 1
      BY <3>1, <3>2, <1>u
    <3> QED BY <1>3, <3>3, <1>u
  <2> QED BY <1>1, <2>2, <2>4, <1>5, <1>t
<1>8. Len(e) \in {1, 2}
  BY <1>e
<1>9. j = 1 \/ j = 2
  <2>1. \A z \in {1, 2} : j <= z => j <= 2
    OBVIOUS
  <2>2. j <= 2
    BY <1>2, <1>8, <2>1
  <2> QED BY <1>2, <2>2
<1> QED BY <1>6, <1>7, <1>9

-----------------------------------------------------------------------------
(* Sequences that are built in order.                                      *)

\* Last and lastKey of an ascending sequence: its greatest member.
LEMMA LastFacts ==
  ASSUME NEW s \in Seq(Path), Ascending(s), s # <<>>
  PROVE  /\ Last(s) \in ToSet(s)
         /\ lastKey(s) = Last(s)
         /\ \A x \in ToSet(s) : x = Last(s) \/ PathLess(x, Last(s))
<1>1. Len(s) \in Nat /\ Len(s) # 0
  BY SeqFacts
<1>2. Last(s) = s[Len(s)] /\ lastKey(s) = Last(s)
  BY DEF Last, lastKey
<1>3. Len(s) \in 1 .. Len(s)
  BY <1>1
<1>4. Last(s) \in ToSet(s)
  BY <1>2, <1>3, SeqFacts
<1>5. ASSUME NEW x \in ToSet(s) PROVE x = Last(s) \/ PathLess(x, Last(s))
  <2>1. PICK i \in 1 .. Len(s) : s[i] = x
    BY SeqFacts
  <2>2. CASE i = Len(s)
    BY <2>1, <2>2, <1>2
  <2>3. CASE i < Len(s)
    BY <2>1, <2>3, <1>2, <1>3 DEF Ascending
  <2> QED BY <2>2, <2>3, <1>1
<1> QED BY <1>2, <1>4, <1>5

\* The members of a concatenation.
LEMMA ConcatSet ==
  ASSUME NEW s \in Seq(Path), NEW t \in Seq(Path)
  PROVE  /\ s \o t \in Seq(Path)
         /\ Len(s \o t) = Len(s) + Len(t)
         /\ \A i \in 1 .. Len(s) : (s \o t)[i] = s[i]
         /\ \A i \in 1 .. Len(t) : (s \o t)[Len(s) + i] = t[i]
         /\ ToSet(s \o t) = ToSet(s) \cup ToSet(t)
<1>t. Len(s) \in Nat /\ Len(t) \in Nat
  BY SeqFacts
<1>d. PICK u : u = s \o t
  OBVIOUS
<1>1. /\ u \in Seq(Path)
      /\ Len(u) = Len(s) + Len(t)
      /\ \A i \in 1 .. Len(s) + Len(t) : u[i] = IF i <= Len(s) THEN s[i] ELSE t[i - Len(s)]
  BY <1>d, ConcatProperties
<1>2. ASSUME NEW i \in 1 .. Len(s) PROVE i \in 1 .. Len(u) /\ u[i] = s[i]
  <2>1. i \in 1 .. Len(s) + Len(t) /\ i <= Len(s)
    BY <1>t
  <2> QED BY <2>1, <1>1
<1>3. ASSUME NEW i \in 1 .. Len(t) PROVE Len(s) + i \in 1 .. Len(u) /\ u[Len(s) + i] = t[i]
  <2>1. Len(s) + i \in 1 .. Len(s) + Len(t) /\ ~(Len(s) + i <= Len(s))
    BY <1>t
  <2>2. Len(s) + i - Len(s) = i
    BY <1>t
  <2> QED BY <2>1, <2>2, <1>1
<1>4. ASSUME NEW x \in ToSet(u) PROVE x \in ToSet(s) \cup ToSet(t)
  <2>1. PICK i \in 1 .. Len(s) + Len(t) : u[i] = x
    BY <1>1, SeqFacts
  <2>2. CASE i <= Len(s)
    <3>1. i \in 1 .. Len(s) /\ s[i] = x
      BY <2>1, <2>2, <1>1, <1>t
    <3> QED BY <3>1, SeqFacts
  <2>3. CASE ~(i <= Len(s))
    <3>1. i - Len(s) \in 1 .. Len(t) /\ t[i - Len(s)] = x
      BY <2>1, <2>3, <1>1, <1>t
    <3> QED BY <3>1, SeqFacts
  <2> QED BY <2>2, <2>3
<1>5. ASSUME NEW x \in ToSet(s) \cup ToSet(t) PROVE x \in ToSet(u)
  <2>1. CASE x \in ToSet(s)
    <3>1. PICK i \in 1 .. Len(s) : s[i] = x
      BY <2>1, SeqFacts
    <3> QED BY <3>1, <1>1, <1>2, SeqFacts
  <2>2. CASE x \in ToSet(t)
    <3>1. PICK i \in 1 .. Len(t) : t[i] = x
      BY <2>2, SeqFacts
    <3> QED BY <3>1, <1>1, <1>3, SeqFacts
  <2> QED BY <2>1, <2>2
<1>6. ToSet(u) = ToSet(s) \cup ToSet(t)
  BY <1>4, <1>5
<1> QED BY <1>d, <1>1, <1>2, <1>3, <1>6

\* Two ascending sequences, the first before the second, make one.
LEMMA ConcatAscending ==
  ASSUME NEW s \in Seq(Path), NEW t \in Seq(Path), Ascending(s), Ascending(t),
         \A x \in ToSet(s), y \in ToSet(t) : PathLess(x, y)
  PROVE  Ascending(s \o t)
<1>t. Len(s) \in Nat /\ Len(t) \in Nat
  BY SeqFacts
<1>d. PICK u : u = s \o t
  OBVIOUS
<1>1. /\ Len(u) = Len(s) + Len(t)
      /\ \A i \in 1 .. Len(s) : u[i] = s[i]
      /\ \A i \in 1 .. Len(t) : u[Len(s) + i] = t[i]
  BY <1>d, ConcatSet
<1>2. ASSUME NEW i \in Int, i \in 1 .. Len(s) + Len(t)
      PROVE  \/ i \in 1 .. Len(s) /\ u[i] = s[i]
             \/ i - Len(s) \in 1 .. Len(t) /\ u[i] = t[i - Len(s)]
  <2>1. CASE i <= Len(s)
    BY <2>1, <1>1, <1>2, <1>t
  <2>2. CASE i > Len(s)
    <3>1. i - Len(s) \in 1 .. Len(t) /\ Len(s) + (i - Len(s)) = i
      BY <2>2, <1>2, <1>t
    <3> QED BY <3>1, <1>1
  <2> QED BY <2>1, <2>2, <1>t
<1>3. ASSUME NEW i \in Int, NEW j \in Int,
             i \in 1 .. Len(s) + Len(t), j \in 1 .. Len(s) + Len(t), i < j
      PROVE  PathLess(u[i], u[j])
  <2>1. CASE i \in 1 .. Len(s) /\ u[i] = s[i]
    <3>1. CASE j \in 1 .. Len(s) /\ u[j] = s[j]
      BY <1>3, <2>1, <3>1 DEF Ascending
    <3>2. CASE j - Len(s) \in 1 .. Len(t) /\ u[j] = t[j - Len(s)]
      BY <2>1, <3>2, SeqFacts
    <3> QED BY <1>2, <1>3, <3>1, <3>2
  <2>2. CASE i - Len(s) \in 1 .. Len(t) /\ u[i] = t[i - Len(s)]
    <3>1. CASE j \in 1 .. Len(s)
      BY <1>3, <2>2, <3>1, <1>t
    <3>2. CASE j - Len(s) \in 1 .. Len(t) /\ u[j] = t[j - Len(s)]
      <4>1. i - Len(s) < j - Len(s)
        BY <1>3, <1>t
      <4> QED BY <2>2, <3>2, <4>1 DEF Ascending
    <3> QED BY <1>2, <1>3, <3>1, <3>2
  <2> QED BY <1>2, <1>3, <2>1, <2>2
<1>4. \A i, j \in 1 .. Len(u) : i < j => PathLess(u[i], u[j])
  <2> SUFFICES ASSUME NEW i \in 1 .. Len(s) + Len(t), NEW j \in 1 .. Len(s) + Len(t), i < j
               PROVE  PathLess(u[i], u[j])
    BY <1>1
  <2>1. i \in Int /\ j \in Int
    BY <1>t
  <2> QED BY <1>3, <2>1
<1> QED BY <1>d, <1>4 DEF Ascending

\* A part of an ascending sequence is ascending.
LEMMA SubSeqAscending ==
  ASSUME NEW s \in Seq(Path), Ascending(s),
         NEW m \in Nat, m >= 1, NEW n \in Nat, n <= Len(s), m <= n + 1
  PROVE  /\ SubSeq(s, m, n) \in Seq(Path)
         /\ Len(SubSeq(s, m, n)) = n + 1 - m
         /\ \A i \in 1 .. (n + 1 - m) : SubSeq(s, m, n)[i] = s[m + i - 1]
         /\ Ascending(SubSeq(s, m, n))
         /\ ToSet(SubSeq(s, m, n)) = {s[i] : i \in m .. n}
<1>t. Len(s) \in Nat
  BY SeqFacts
<1>d. PICK u : u = SubSeq(s, m, n)
  OBVIOUS
<1>1. \A i \in m .. n : s[i] \in Path
  BY <1>t, SeqFacts
<1>2. /\ u \in Seq(Path)
      /\ Len(u) = IF m <= n THEN n - m + 1 ELSE 0
      /\ \A i \in 1 .. (n - m + 1) : u[i] = s[m + i - 1]
  BY <1>d, <1>1, SubSeqProperties
<1>3. Len(u) = n + 1 - m
  BY <1>2
<1>4. ASSUME NEW i \in 1 .. (n + 1 - m) PROVE u[i] = s[m + i - 1] /\ m + i - 1 \in m .. n
  <2>1. i \in 1 .. (n - m + 1)
    OBVIOUS
  <2> QED BY <2>1, <1>2
<1>5. Ascending(u)
  <2> SUFFICES ASSUME NEW i \in 1 .. (n + 1 - m), NEW j \in 1 .. (n + 1 - m), i < j
               PROVE  PathLess(u[i], u[j])
    BY <1>3 DEF Ascending
  <2>1. m + i - 1 \in 1 .. Len(s) /\ m + j - 1 \in 1 .. Len(s) /\ m + i - 1 < m + j - 1
    BY <1>t
  <2>2. PathLess(s[m + i - 1], s[m + j - 1])
    BY <2>1 DEF Ascending
  <2> QED BY <2>2, <1>4
<1>6. ToSet(u) = {s[i] : i \in m .. n}
  <2>1. ASSUME NEW x \in ToSet(u) PROVE x \in {s[i] : i \in m .. n}
    <3>1. PICK i \in 1 .. (n + 1 - m) : u[i] = x
      BY <1>2, <1>3, SeqFacts
    <3> QED BY <3>1, <1>4
  <2>2. ASSUME NEW i \in m .. n PROVE s[i] \in ToSet(u)
    <3>1. i + 1 - m \in 1 .. (n + 1 - m) /\ m + (i + 1 - m) - 1 = i
      OBVIOUS
    <3>2. u[i + 1 - m] = s[i]
      BY <3>1, <1>4
    <3> QED BY <3>1, <3>2, <1>2, <1>3, SeqFacts
  <2> QED BY <2>1, <2>2
<1> QED BY <1>d, <1>2, <1>3, <1>4, <1>5, <1>6

\* A member after all others is appended in order.
LEMMA AppendAscending ==
  ASSUME NEW s \in Seq(Path), Ascending(s), NEW e \in Path,
         \A x \in ToSet(s) : PathLess(x, e)
  PROVE  /\ Append(s, e) \in Seq(Path)
         /\ Ascending(Append(s, e))
         /\ ToSet(Append(s, e)) = ToSet(s) \cup {e}
<1>t. Len(s) \in Nat
  BY SeqFacts
<1>d. PICK u : u = Append(s, e)
  OBVIOUS
<1>1. /\ u \in Seq(Path)
      /\ Len(u) = Len(s) + 1
      /\ \A i \in 1 .. Len(s) : u[i] = s[i]
      /\ u[Len(s) + 1] = e
  BY <1>d, AppendProperties
<1>2. Ascending(u)
  <2> SUFFICES ASSUME NEW i \in 1 .. (Len(s) + 1), NEW j \in 1 .. (Len(s) + 1), i < j
               PROVE  PathLess(u[i], u[j])
    BY <1>1 DEF Ascending
  <2>1. i \in 1 .. Len(s) /\ u[i] = s[i]
    BY <1>1, <1>t
  <2>2. CASE j \in 1 .. Len(s)
    BY <2>1, <2>2, <1>1 DEF Ascending
  <2>3. CASE j = Len(s) + 1
    BY <2>1, <2>3, <1>1, SeqFacts
  <2> QED BY <2>2, <2>3, <1>t
<1>3. ToSet(u) = ToSet(s) \cup {e}
  <2>1. ASSUME NEW x \in ToSet(u) PROVE x \in ToSet(s) \cup {e}
    <3>1. PICK i \in 1 .. (Len(s) + 1) : u[i] = x
      BY <1>1, SeqFacts
    <3>2. CASE i \in 1 .. Len(s)
      BY <3>1, <3>2, <1>1, SeqFacts
    <3>3. CASE i = Len(s) + 1
      BY <3>1, <3>3, <1>1
    <3> QED BY <3>2, <3>3, <1>t
  <2>2. ASSUME NEW x \in ToSet(s) PROVE x \in ToSet(u)
    <3>1. PICK i \in 1 .. Len(s) : s[i] = x
      BY SeqFacts
    <3>2. i \in 1 .. Len(u)
      BY <1>1, <1>t
    <3> QED BY <3>1, <3>2, <1>1, SeqFacts
  <2>3. e \in ToSet(u)
    <3>1. Len(s) + 1 \in 1 .. Len(u)
      BY <1>1, <1>t
    <3> QED BY <3>1, <1>1, SeqFacts
  <2> QED BY <2>1, <2>2, <2>3
<1> QED BY <1>d, <1>1, <1>2, <1>3

\* The head of an ascending sequence is its least member.
LEMMA HeadFacts ==
  ASSUME NEW s \in Seq(Path), Ascending(s), s # <<>>
  PROVE  /\ Head(s) \in ToSet(s)
         /\ Tail(s) \in Seq(Path)
         /\ Ascending(Tail(s))
         /\ ToSet(s) = {Head(s)} \cup ToSet(Tail(s))
         /\ \A x \in ToSet(Tail(s)) : PathLess(Head(s), x)
<1>t. Len(s) \in Nat /\ Len(s) >= 1
  BY SeqFacts
<1>1. Head(s) = s[1] /\ 1 \in 1 .. Len(s)
  BY <1>t
<1>2. Tail(s) = SubSeq(s, 2, Len(s))
  BY TailIsSubSeq
<1>3. /\ SubSeq(s, 2, Len(s)) \in Seq(Path)
      /\ Ascending(SubSeq(s, 2, Len(s)))
      /\ ToSet(SubSeq(s, 2, Len(s))) = {s[i] : i \in 2 .. Len(s)}
  BY <1>t, SubSeqAscending
<1>4. ToSet(Tail(s)) = {s[i] : i \in 2 .. Len(s)}
  BY <1>2, <1>3
<1>5. ASSUME NEW x \in ToSet(s) PROVE x = s[1] \/ x \in ToSet(Tail(s))
  <2>1. PICK i \in 1 .. Len(s) : s[i] = x
    BY SeqFacts
  <2>2. i = 1 \/ i \in 2 .. Len(s)
    BY <1>t
  <2> QED BY <2>1, <2>2, <1>4
<1>6. ASSUME NEW i \in 2 .. Len(s) PROVE s[i] \in ToSet(s) /\ PathLess(s[1], s[i])
  <2>1. i \in 1 .. Len(s) /\ 1 < i
    BY <1>t
  <2> QED BY <2>1, <1>1, SeqFacts DEF Ascending
<1>7. s[1] \in ToSet(s)
  BY <1>1, SeqFacts
<1> QED BY <1>1, <1>2, <1>3, <1>4, <1>5, <1>6, <1>7

-----------------------------------------------------------------------------
(* One iteration of the loop, on its sequences.                            *)

\* The offset splits the inserts: those before it are collected, the others are
\* after everything that is.
Splits(ks, ins, off) ==
  /\ off \in 1 .. (Len(ins) + 1)
  /\ \A i \in 1 .. (off - 1) : ins[i] \in ToSet(ks)
  /\ \A i \in off .. Len(ins) : \A x \in ToSet(ks) : PathLess(x, ins[i])

\* The inserts from m to n.
Slice(ins, m, n) == {ins[i] : i \in m .. n}

\* No collected entry is after e.
Tops(e, ks) == \A x \in ToSet(ks) : x = e \/ PathLess(x, e)

\* No name is empty.
Named(ins) == \A i \in 1 .. Len(ins) : ins[i] # <<>>

\* The indexes that the inner loop takes, with what it has collected in ks.
Taken(ks, ins, off, e) ==
  {i \in off .. Len(ins) :
     \A j \in off .. i : PathLess(ins[j], e) /\ PathLess(lastKey(ks), ins[j])}

\* From off, the inserts before e end at n.
Reaches(ins, off, e, n) ==
  /\ off <= n /\ n <= Len(ins) + 1
  /\ \A i \in off .. (n - 1) : PathLess(ins[i], e)
  /\ \A i \in n .. Len(ins) : ins[i] = e \/ PathLess(e, ins[i])
  /\ \A i \in (n + 1) .. Len(ins) : PathLess(e, ins[i])

\* The inner loop takes the inserts before the entry, up to the first that is
\* not, and what it has collected then is in order with the entry on top.
LEMMA InnerLoop ==
  ASSUME NEW ks \in Seq(Path), Ascending(ks),
         NEW ins \in Seq(Path), Ascending(ins), Named(ins),
         NEW off, Splits(ks, ins, off), NEW e \in Path
  PROVE  \E n \in Nat :
           /\ Cardinality(Taken(ks, ins, off, e)) = n - off
           /\ Reaches(ins, off, e, n)
<1>d. PICK C : C = Taken(ks, ins, off, e)
  OBVIOUS
<1>c. /\ C \subseteq off .. Len(ins)
      /\ \A i \in off .. Len(ins) :
           i \in C <=> \A j \in off .. i : /\ PathLess(ins[j], e)
                                          /\ PathLess(lastKey(ks), ins[j])
  BY <1>d DEF Taken
<1>p. off \in 1 .. (Len(ins) + 1)
  BY DEF Splits
<1>t. Len(ins) \in Nat /\ \A i \in 1 .. Len(ins) : ins[i] \in Path
  BY SeqFacts
<1>o. off \in Nat /\ off >= 1 /\ off <= Len(ins) + 1
  BY <1>p, <1>t
<1>1. ASSUME NEW i \in off .. Len(ins) PROVE PathLess(lastKey(ks), ins[i])
  <2>1. i \in 1 .. Len(ins)
    BY <1>o, <1>t
  <2>2. CASE ks = <<>>
    BY <2>1, <2>2, <1>t, EmptyLeast DEF lastKey, Named
  <2>3. CASE ks # <<>>
    <3>1. lastKey(ks) \in ToSet(ks)
      BY <2>3, LastFacts
    <3> QED BY <3>1 DEF Splits
  <2> QED BY <2>2, <2>3
<1> DEFINE T == {i \in off .. (Len(ins) + 1) : i = Len(ins) + 1 \/ ~PathLess(ins[i], e)}
<1>2. T \in SUBSET Nat /\ T # {}
  <2>1. Len(ins) + 1 \in T
    BY <1>t, <1>o
  <2>2. T \in SUBSET Nat
    BY <1>t, <1>o
  <2> QED BY <2>1, <2>2
<1>3. PICK n \in T : \A y \in T : n <= y
  <2> HIDE DEF T
  <2> QED BY <1>2, LeastElement
<1>n. n \in Nat /\ off <= n /\ n <= Len(ins) + 1
  BY <1>t, <1>o
<1>4. ASSUME NEW i \in off .. (n - 1) PROVE PathLess(ins[i], e)
  <2>1. i \in off .. (Len(ins) + 1) /\ i < n /\ i # Len(ins) + 1
    BY <1>t, <1>o, <1>n
  <2>2. i \notin T
    BY <2>1, <1>3, <1>n, <1>o
  <2> QED BY <2>1, <2>2
<1>5. C = off .. (n - 1)
  <2>1. ASSUME NEW i \in off .. (n - 1) PROVE i \in C
    <3>1. i \in off .. Len(ins)
      BY <1>o, <1>n, <1>t
    <3>2. \A j \in off .. i : j \in off .. (n - 1) /\ j \in off .. Len(ins)
      BY <3>1, <1>o, <1>n, <1>t
    <3> QED BY <3>1, <3>2, <1>1, <1>4, <1>c
  <2>2. ASSUME NEW i \in C PROVE i \in off .. (n - 1)
    <3>0. i \in off .. Len(ins)
      BY <1>c
    <3>1. i \in off .. Len(ins) /\ \A j \in off .. i : PathLess(ins[j], e)
      BY <3>0, <1>c
    <3>2. i \in Nat /\ off <= i /\ i <= Len(ins)
      BY <3>1, <1>o, <1>t
    <3>3. CASE n <= i
      <4>1. n \in off .. i
        BY <3>2, <3>3, <1>n, <1>o
      <4>2. PathLess(ins[n], e)
        BY <3>1, <4>1
      <4>3. n # Len(ins) + 1
        BY <3>2, <3>3, <1>n, <1>t
      <4> QED BY <4>2, <4>3
    <3>4. CASE i < n
      BY <3>2, <3>4, <1>n, <1>o
    <3> QED BY <3>2, <3>3, <3>4, <1>n
  <2> QED BY <2>1, <2>2
<1>6. Cardinality(C) = n - off
  <2>1. off \in Int /\ n - 1 \in Int
    BY <1>o, <1>n
  <2>2. Cardinality(off .. (n - 1)) = IF off > n - 1 THEN 0 ELSE n - 1 - off + 1
    BY <2>1, FS_Interval
  <2>3. Cardinality(off .. (n - 1)) = n - off
    BY <2>2, <1>o, <1>n
  <2> QED BY <2>3, <1>5
<1>7. ASSUME NEW i \in n .. Len(ins) PROVE ins[i] = e \/ PathLess(e, ins[i])
  <2>1. i \in Nat /\ i \in 1 .. Len(ins) /\ n \in 1 .. Len(ins) /\ n <= i /\ n # Len(ins) + 1
    BY <1>n, <1>o, <1>t
  <2>2. ins[n] = e \/ PathLess(e, ins[n])
    BY <2>1, <1>t, PathTotal
  <2>3. CASE i = n
    BY <2>2, <2>3
  <2>4. CASE n < i
    <3>1. PathLess(ins[n], ins[i])
      BY <2>1, <2>4 DEF Ascending
    <3> QED BY <2>1, <2>2, <3>1, <1>t, PathTransitive
  <2> QED BY <2>1, <2>3, <2>4, <1>n
<1>8. ASSUME NEW i \in (n + 1) .. Len(ins) PROVE PathLess(e, ins[i])
  <2>1. /\ i \in 1 .. Len(ins) /\ n \in 1 .. Len(ins) /\ n < i
        /\ n \in n .. Len(ins)
    BY <1>n, <1>o, <1>t
  <2>2. PathLess(ins[n], ins[i])
    BY <2>1 DEF Ascending
  <2>3. ins[n] = e \/ PathLess(e, ins[n])
    BY <2>1, <1>7
  <2> QED BY <2>1, <2>2, <2>3, <1>t, PathTransitive
<1>9. Reaches(ins, off, e, n)
  BY <1>4, <1>7, <1>8, <1>n DEF Reaches
<1> QED BY <1>d, <1>6, <1>9, <1>n

\* The list is in order, has the entries of ks and the inserts T, and takes e on
\* top; if it has e, e is its last.
Receives(merged, e, ks, T) ==
  /\ merged \in Seq(Path)
  /\ Ascending(merged)
  /\ ToSet(merged) = ToSet(ks) \cup T
  /\ Tops(e, merged)
  /\ e \in ToSet(merged) => merged # <<>> /\ lastKey(merged) = e
  /\ merged # <<>> => lastKey(merged) \in ToSet(merged)
  /\ e \notin ToSet(merged) =>
       /\ Append(merged, e) \in Seq(Path)
       /\ Ascending(Append(merged, e))
       /\ ToSet(Append(merged, e)) = ToSet(merged) \cup {e}

\* The collected list after the inner loop, and after the entry.
LEMMA MergedFacts ==
  ASSUME NEW ks \in Seq(Path), Ascending(ks),
         NEW ins \in Seq(Path), Ascending(ins),
         NEW off \in Nat, Splits(ks, ins, off), NEW e \in Path, Tops(e, ks),
         NEW n \in Nat, Reaches(ins, off, e, n),
         NEW merged, merged = ks \o SubSeq(ins, off, n - 1)
  PROVE  Receives(merged, e, ks, Slice(ins, off, n - 1))
<1>t. Len(ins) \in Nat
  BY SeqFacts
<1>o. off >= 1 /\ off <= n /\ n <= Len(ins) + 1
  BY <1>t DEF Splits, Reaches
<1>d. PICK u : u = SubSeq(ins, off, n - 1)
  OBVIOUS
<1>1. /\ u \in Seq(Path) /\ Ascending(u)
      /\ ToSet(u) = {ins[i] : i \in off .. (n - 1)}
  <2>1. n - 1 \in Nat /\ n - 1 <= Len(ins) /\ off <= n - 1 + 1
    BY <1>o, <1>t
  <2> QED BY <1>d, <1>o, <2>1, SubSeqAscending
<1>2. \A i \in off .. (n - 1) : i \in off .. Len(ins)
  BY <1>o, <1>t
<1>3. \A x \in ToSet(ks), y \in ToSet(u) : PathLess(x, y)
  BY <1>1, <1>2 DEF Splits
<1>4. merged \in Seq(Path) /\ Ascending(merged) /\ ToSet(merged) = ToSet(ks) \cup ToSet(u)
  BY <1>d, <1>1, <1>3, ConcatSet, ConcatAscending
<1>5. ASSUME NEW x \in ToSet(merged) PROVE x = e \/ PathLess(x, e)
  BY <1>1, <1>4 DEF Tops, Reaches
<1>6. ASSUME e \in ToSet(merged) PROVE merged # <<>> /\ lastKey(merged) = e
  <2>1. merged # <<>>
    BY <1>4, <1>6, SeqFacts
  <2>2. /\ lastKey(merged) \in ToSet(merged)
        /\ e = lastKey(merged) \/ PathLess(e, lastKey(merged))
    BY <1>4, <1>6, <2>1, LastFacts
  <2>3. lastKey(merged) \in Path
    BY <1>4, <2>2, SeqFacts
  <2>4. ~PathLess(e, lastKey(merged))
    <3> SUFFICES ASSUME PathLess(e, lastKey(merged)) PROVE FALSE
      OBVIOUS
    <3>1. lastKey(merged) = e \/ PathLess(lastKey(merged), e)
      BY <1>5, <2>2
    <3> QED BY <2>3, <3>1, PathIrreflexive, PathTransitive
  <2> QED BY <2>1, <2>2, <2>4
<1>7. ASSUME merged # <<>> PROVE lastKey(merged) \in ToSet(merged)
  BY <1>4, <1>7, LastFacts
<1>8. ASSUME e \notin ToSet(merged)
      PROVE  /\ Append(merged, e) \in Seq(Path)
             /\ Ascending(Append(merged, e))
             /\ ToSet(Append(merged, e)) = ToSet(merged) \cup {e}
  <2>1. \A x \in ToSet(merged) : PathLess(x, e)
    BY <1>5, <1>8
  <2> QED BY <1>4, <2>1, AppendAscending
<1>9. Tops(e, merged)
  BY <1>5 DEF Tops
<1>10. ToSet(merged) = ToSet(ks) \cup Slice(ins, off, n - 1)
  BY <1>1, <1>4 DEF Slice
<1> QED BY ONLY <1>4, <1>6, <1>7, <1>8, <1>9, <1>10 DEF Receives

-----------------------------------------------------------------------------
(* A page.                                                                 *)

\* The members of s within the limit l are the least of W.
Ranked(s, W, l) ==
  \A m \in 1 .. Len(s) : (l = 0 \/ m <= l) =>
     s[m] \in W /\ Cardinality(Below(W, s[m])) = m - 1

\* What s lacks of W is after the l-th member of s.
Complete(s, W, l) ==
  \A w \in W : w \in ToSet(s) \/ (l > 0 /\ l <= Len(s) /\ PathLess(s[l], w))

\* The page of a set: its l least members, all of them when l is zero.
PageOf(W, l) == {e \in W : l = 0 \/ Cardinality({f \in W : PathLess(f, e)}) < l}

\* The first members of an ascending sequence are the sorted page of a set, when
\* they are the least of the set and the sequence lacks none that is on the page.
LEMMA PageLemma ==
  ASSUME NEW W \in SUBSET Path, IsFiniteSet(W), NEW l \in Nat,
         NEW s \in Seq(Path), Ascending(s), Ranked(s, W, l), Complete(s, W, l)
  PROVE  (IF l > 0 /\ l < Len(s) THEN SubSeq(s, 1, l) ELSE s) = Sorted(PageOf(W, l))
<1> DEFINE P == {e \in W : l = 0 \/ Cardinality(Below(W, e)) < l}
<1>0. P = PageOf(W, l)
  BY DEF Below, PageOf
<1>t. Len(s) \in Nat
  BY SeqFacts
<1>1. ASSUME NEW m \in 1 .. Len(s), l = 0 \/ m <= l PROVE s[m] \in P
  <2>1. s[m] \in W /\ Cardinality(Below(W, s[m])) = m - 1
    BY <1>1 DEF Ranked
  <2>2. l = 0 \/ m - 1 < l
    BY <1>1
  <2> QED BY <2>1, <2>2
<1>2. ASSUME NEW w \in P PROVE \E m \in 1 .. Len(s) : s[m] = w /\ (l = 0 \/ m <= l)
  <2>1. w \in W /\ (l = 0 \/ Cardinality(Below(W, w)) < l)
    OBVIOUS
  <2>2. ASSUME l > 0, l <= Len(s), PathLess(s[l], w) PROVE FALSE
    <3>1. l \in 1 .. Len(s) /\ l <= l
      BY <2>2, <1>t
    <3>2. s[l] \in W /\ Cardinality(Below(W, s[l])) = l - 1
      BY <3>1 DEF Ranked
    <3>3. Cardinality(Below(W, s[l])) < Cardinality(Below(W, w))
      BY <2>1, <2>2, <3>2, BelowFacts
    <3>4. Cardinality(Below(W, w)) \in Nat
      BY <2>1, BelowFacts
    <3> QED BY <2>1, <2>2, <3>2, <3>3, <3>4
  <2>3. w \in ToSet(s)
    BY <2>1, <2>2 DEF Complete
  <2>4. PICK m \in 1 .. Len(s) : s[m] = w
    BY <2>3, SeqFacts
  <2>5. l = 0 \/ m <= l
    <3> SUFFICES ASSUME l > 0, m > l PROVE FALSE
      BY <1>t
    <3>1. l \in 1 .. Len(s) /\ l < m
      BY <1>t
    <3>2. PathLess(s[l], w)
      BY <2>4, <3>1 DEF Ascending
    <3> QED BY <2>2, <3>1, <3>2, <1>t
  <2> QED BY <2>4, <2>5
<1>3. CASE l > 0 /\ l < Len(s)
  <2>1. /\ SubSeq(s, 1, l) \in Seq(Path) /\ Ascending(SubSeq(s, 1, l))
        /\ ToSet(SubSeq(s, 1, l)) = {s[i] : i \in 1 .. l}
    <3>1. 1 \in Nat /\ 1 >= 1 /\ l <= Len(s) /\ 1 <= l + 1
      BY <1>3, <1>t
    <3> QED BY <3>1, SubSeqAscending
  <2>2. {s[i] : i \in 1 .. l} = P
    <3>1. ASSUME NEW i \in 1 .. l PROVE s[i] \in P
      <4>1. i \in 1 .. Len(s) /\ i <= l
        BY <1>3, <1>t
      <4> QED BY <1>1, <4>1
    <3>2. ASSUME NEW w \in P PROVE w \in {s[i] : i \in 1 .. l}
      <4>1. PICK m \in 1 .. Len(s) : s[m] = w /\ (l = 0 \/ m <= l)
        BY <1>2
      <4>2. m \in 1 .. l
        BY <4>1, <1>3, <1>t
      <4> QED BY <4>1, <4>2
    <3> HIDE DEF P
    <3> QED BY <3>1, <3>2
  <2>3. SubSeq(s, 1, l) = Sorted(P)
    <3> HIDE DEF P
    <3> QED BY <2>1, <2>2, AscendingIsSorted
  <2> QED BY <1>0, <1>3, <2>3
<1>4. CASE ~(l > 0 /\ l < Len(s))
  <2>1. ToSet(s) = P
    <3>1. ASSUME NEW x \in ToSet(s) PROVE x \in P
      <4>1. PICK m \in 1 .. Len(s) : s[m] = x
        BY SeqFacts
      <4>2. l = 0 \/ m <= l
        BY <1>4, <1>t
      <4> QED BY <1>1, <4>1, <4>2
    <3>2. ASSUME NEW w \in P PROVE w \in ToSet(s)
      BY <1>2, SeqFacts
    <3> HIDE DEF P
    <3> QED BY <3>1, <3>2
  <2>2. s = Sorted(P)
    <3> HIDE DEF P
    <3> QED BY <2>1, AscendingIsSorted
  <2> QED BY <1>0, <1>4, <2>2
<1> QED BY <1>3, <1>4

-----------------------------------------------------------------------------
(* The entries of a query.                                                 *)

\* The entries that a set of keys shows below a prefix.
Shows(p, X) == {EntryOf(p, k) : k \in {x \in X : HasPrefix(x, p)}}

\* The entries of the snapshot and of the transaction, without the limit.
Whole(st, q, ins, del) ==
  {EntryOf(q.prefix, k) : k \in Yielding(st, q, del)} \cup Inserts(q, ins)

\* The entries of a finite set of keys are finite, and none is empty.
LEMMA ShowsFacts ==
  ASSUME NEW p \in Path, NEW X \in SUBSET Path, IsFiniteSet(X)
  PROVE  /\ Shows(p, X) \in SUBSET Path
         /\ IsFiniteSet(Shows(p, X))
         /\ <<>> \notin Shows(p, X)
<1> DEFINE B == {x \in X : HasPrefix(x, p)}
           f == [k \in B |-> EntryOf(p, k)]
<1>1. B \in SUBSET X /\ IsFiniteSet(B)
  <2>1. B \in SUBSET X
    OBVIOUS
  <2> HIDE DEF B
  <2> QED BY <2>1, FS_Subset
<1>2. f \in Surjection(B, Shows(p, X))
  BY DEF Surjection, Shows
<1>3. IsFiniteSet(Shows(p, X))
  <2> HIDE DEF B, f
  <2> QED BY <1>1, <1>2, FS_Surjection
<1>4. \A x \in B : EntryOf(p, x) \in Path /\ EntryOf(p, x) # <<>>
  BY EntryFacts
<1> QED BY <1>3, <1>4 DEF Shows

\* The keys that yield an entry: the seek leaves none of them out.
LEMMA YieldingFacts ==
  ASSUME NEW st \in SUBSET Path, NEW del, NEW q, q.prefix \in Path, q.after \in Path
  PROVE  Yielding(st, q, del) =
           {k \in st \ del : HasPrefix(k, q.prefix) /\ ShouldInclude(q, k)}
<1>1. ASSUME NEW k \in st, HasPrefix(k, q.prefix), ShouldInclude(q, k)
      PROVE  q.after = <<>> \/ ~PathLess(k, q.prefix \o q.after)
  BY <1>1, IncludedIsSought DEF ShouldInclude
<1> QED BY <1>1 DEF Yielding, Scanned

\* The keys that the transaction sees: the snapshot's and its own writes.
Current(st, ins, del) == (st \ del) \cup ins

\* The entries after the point where a page starts.
AfterPoint(S, a) == {e \in S : a = <<>> \/ PathLess(a, e)}

\* Without the limit, a page has what the current keys show after its start.
LEMMA WholeFacts ==
  ASSUME NEW st \in SUBSET Path, NEW ins \in SUBSET Path, NEW del, NEW q,
         q.prefix \in Path, q.after \in Path
  PROVE  Whole(st, q, ins, del) =
           AfterPoint(Shows(q.prefix, Current(st, ins, del)), q.after)
<1>1. Yielding(st, q, del) =
        {k \in st \ del : HasPrefix(k, q.prefix) /\ ShouldInclude(q, k)}
  BY YieldingFacts
<1> QED BY <1>1 DEF Whole, Shows, Inserts, ShouldInclude, AfterPoint, Current

\* That set is a finite set of paths.
LEMMA WholeFinite ==
  ASSUME NEW st \in SUBSET Path, NEW ins \in SUBSET Path, NEW del, NEW q,
         q.prefix \in Path, q.after \in Path, IsFiniteSet(st), IsFiniteSet(ins)
  PROVE  /\ Whole(st, q, ins, del) \in SUBSET Path
         /\ IsFiniteSet(Whole(st, q, ins, del))
         /\ <<>> \notin Whole(st, q, ins, del)
<1> DEFINE X == (st \ del) \cup ins
<1>1. IsFiniteSet(st \cup ins)
  BY FS_Union
<1>2. X \in SUBSET (st \cup ins)
  OBVIOUS
<1>3. X \in SUBSET Path /\ IsFiniteSet(X)
  <2>1. X \in SUBSET Path
    OBVIOUS
  <2> HIDE DEF X
  <2> QED BY <1>1, <1>2, <2>1, FS_Subset
<1>4. /\ Shows(q.prefix, X) \in SUBSET Path
      /\ IsFiniteSet(Shows(q.prefix, X))
      /\ <<>> \notin Shows(q.prefix, X)
  <2> HIDE DEF X
  <2> QED BY <1>3, ShowsFacts
<1>5. Whole(st, q, ins, del) \in SUBSET Shows(q.prefix, X)
  <2>1. Yielding(st, q, del) =
          {k \in st \ del : HasPrefix(k, q.prefix) /\ ShouldInclude(q, k)}
    BY YieldingFacts
  <2> QED BY <2>1 DEF Whole, Shows, Inserts
<1> HIDE DEF X
<1> QED BY <1>4, <1>5, FS_Subset

\* The page of a query is what its entries give within the limit.
LEMMA PageOfWhole ==
  ASSUME NEW st, NEW ins, NEW del, NEW q
  PROVE  ListPage(st, q, ins, del) =
           {e \in Whole(st, q, ins, del) :
              \/ q.limit = 0
              \/ Cardinality({f \in Whole(st, q, ins, del) : PathLess(f, e)}) < q.limit}
BY DEF ListPage, Whole

-----------------------------------------------------------------------------
(* What the loop has collected.                                            *)

\* What a call gets: a finite snapshot, finite writes and a query.
Input(st, q, ins) ==
  /\ st \in SUBSET Path /\ IsFiniteSet(st) /\ <<>> \notin st
  /\ ins \in SUBSET Path /\ IsFiniteSet(ins)
  /\ q.prefix \in Path /\ q.after \in Path /\ q.limit \in Nat

\* The entries of the yielding keys among those visited.
Shown(st, q, del, V) == {EntryOf(q.prefix, k) : k \in V \cap Yielding(st, q, del)}

\* The entries collected when the keys V are visited.
Collected(st, q, ins, del, V) ==
  Shown(st, q, del, V)
    \cup {e \in Inserts(q, ins) : \E f \in Shown(st, q, del, V) : e = f \/ PathLess(e, f)}

\* SeekPrefix, of any query.
SeekOf(q) ==
  IF q.prefix # <<>> /\ q.after = <<>> THEN Append(q.prefix, Slash)
  ELSE q.prefix \o q.after

\* The keys from the one that Start seeks.
Seekable(st, q) == {k \in st : ~PathLess(k, SeekOf(q))}

\* The cursor starts at or before every key that the listing scans.
LEMMA SeekFacts ==
  ASSUME NEW st, NEW ins, NEW q, Input(st, q, ins)
  PROVE  /\ SeekOf(q) \in Path
         /\ q.prefix = <<>> \/ HasPrefix(SeekOf(q), q.prefix)
         /\ Scanned(st, q) = {k \in Seekable(st, q) : HasPrefix(k, q.prefix)}
<1>i. st \in SUBSET Path /\ q.prefix \in Path /\ q.after \in Path
  BY DEF Input
<1>1. PICK p \in Path, a \in Path : p = q.prefix /\ a = q.after
  BY <1>i
<1>2. CASE p # <<>> /\ a = <<>>
  <2>1. SeekOf(q) = Append(p, Slash)
    BY <1>1, <1>2 DEF SeekOf
  <2>2. /\ Append(p, Slash) \in Path
        /\ Len(Append(p, Slash)) = Len(p) + 1 /\ Len(p) \in Nat
        /\ \A i \in 1 .. Len(p) : Append(p, Slash)[i] = p[i]
    BY AppendProperties DEF Path, Slash
  <2>3. HasPrefix(Append(p, Slash), p)
    <3>1. Len(Append(p, Slash)) > Len(p)
      BY <2>2
    <3> QED BY <2>2, <3>1, PrefixFacts
  <2>4. \A k \in st : HasPrefix(k, p) => ~PathLess(k, Append(p, Slash))
    BY <1>i, PrefixSeeks
  <2> QED BY <1>1, <1>2, <2>1, <2>2, <2>3, <2>4 DEF Scanned, Seekable
<1>3. CASE p = <<>> /\ a = <<>>
  <2>1. SeekOf(q) = <<>>
    <3>1. <<>> \o <<>> = <<>>
      BY ConcatEmptySeq, EmptySeq
    <3> QED BY <1>1, <1>3, <3>1 DEF SeekOf
  <2>2. <<>> \in Path
    BY DEF Path
  <2>3. \A k \in Path : ~PathLess(k, <<>>)
    BY DEF PathLess
  <2> QED BY <1>1, <1>3, <1>i, <2>1, <2>2, <2>3 DEF Scanned, Seekable
<1>4. CASE a # <<>>
  <2>1. SeekOf(q) = p \o a
    BY <1>1, <1>4 DEF SeekOf
  <2>2. /\ p \o a \in Path
        /\ Len(p \o a) = Len(p) + Len(a) /\ Len(p) \in Nat /\ Len(a) \in Nat
        /\ \A i \in 1 .. Len(p) + Len(a) :
             (p \o a)[i] = IF i <= Len(p) THEN p[i] ELSE a[i - Len(p)]
    BY ConcatProperties DEF Path
  <2>3. Len(a) > 0
    BY <1>4, EmptySeq DEF Path
  <2>4. \A i \in 1 .. Len(p) : (p \o a)[i] = p[i]
    BY <2>2
  <2>5. HasPrefix(p \o a, p)
    <3>1. Len(p \o a) > Len(p)
      BY <2>2, <2>3
    <3> QED BY <2>2, <2>4, <3>1, PrefixFacts
  <2> QED BY <1>1, <1>4, <2>1, <2>2, <2>5 DEF Scanned, Seekable
<1> QED BY <1>2, <1>3, <1>4

\* A yielding key is a scanned key.
LEMMA YieldingScanned ==
  ASSUME NEW st, NEW ins, NEW q, NEW del, Input(st, q, ins), NEW k \in Yielding(st, q, del)
  PROVE  /\ k \in st /\ k \in Path /\ k \in Seekable(st, q)
         /\ HasPrefix(k, q.prefix)
         /\ EntryOf(q.prefix, k) \in Path
<1>1. k \in Scanned(st, q)
  BY DEF Yielding
<1>2. k \in Seekable(st, q) /\ HasPrefix(k, q.prefix)
  BY <1>1, SeekFacts
<1>3. k \in st /\ k \in Path /\ q.prefix \in Path
  BY <1>2 DEF Seekable, Input
<1> QED BY <1>2, <1>3, EntryFacts

\* The sorted inserts.
LEMMA InsertsFacts ==
  ASSUME NEW st, NEW ins, NEW q, Input(st, q, ins)
  PROVE  /\ Inserts(q, ins) \in SUBSET Path
         /\ Sorted(Inserts(q, ins)) \in Seq(Path)
         /\ Ascending(Sorted(Inserts(q, ins)))
         /\ ToSet(Sorted(Inserts(q, ins))) = Inserts(q, ins)
         /\ \A i \in 1 .. Len(Sorted(Inserts(q, ins))) : Sorted(Inserts(q, ins))[i] # <<>>
<1>1. Inserts(q, ins) \in SUBSET Shows(q.prefix, ins)
  BY DEF Inserts, Shows
<1>2. /\ Shows(q.prefix, ins) \in SUBSET Path
      /\ IsFiniteSet(Shows(q.prefix, ins)) /\ <<>> \notin Shows(q.prefix, ins)
  BY ShowsFacts DEF Input
<1>3. Inserts(q, ins) \in SUBSET Path /\ IsFiniteSet(Inserts(q, ins))
  BY <1>1, <1>2, FS_Subset
<1>4. /\ Sorted(Inserts(q, ins)) \in Seq(Path)
      /\ Ascending(Sorted(Inserts(q, ins)))
      /\ ToSet(Sorted(Inserts(q, ins))) = Inserts(q, ins)
  BY <1>3, SortedFacts
<1>5. \A i \in 1 .. Len(Sorted(Inserts(q, ins))) :
        Sorted(Inserts(q, ins))[i] \in Inserts(q, ins)
  BY <1>4, SeqFacts
<1> QED BY <1>1, <1>2, <1>3, <1>4, <1>5

\* What is collected is part of the whole, and finite.
LEMMA CollectedFinite ==
  ASSUME NEW st, NEW ins, NEW q, NEW del, Input(st, q, ins), NEW V
  PROVE  /\ Collected(st, q, ins, del, V) \in SUBSET Whole(st, q, ins, del)
         /\ Whole(st, q, ins, del) \in SUBSET Path
         /\ IsFiniteSet(Whole(st, q, ins, del))
         /\ IsFiniteSet(Collected(st, q, ins, del, V))
<1>1. /\ Whole(st, q, ins, del) \in SUBSET Path
      /\ IsFiniteSet(Whole(st, q, ins, del))
  BY WholeFinite DEF Input
<1>2. Collected(st, q, ins, del, V) \in SUBSET Whole(st, q, ins, del)
  BY DEF Collected, Shown, Whole
<1> QED BY <1>1, <1>2, FS_Subset

\* What is collected before a key, when the keys before it are the visited ones.
LEMMA BeforeIsCollected ==
  ASSUME NEW st, NEW ins, NEW q, NEW del, NEW V, NEW r
  PROVE  /\ CollectedBefore(st, q, ins, del, r) =
              Collected(st, q, ins, del, Below(Yielding(st, q, del), r))
         /\ V \cap Yielding(st, q, del) = Below(Yielding(st, q, del), r)
               => CollectedBefore(st, q, ins, del, r) = Collected(st, q, ins, del, V)
         /\ V \cap Yielding(st, q, del) \subseteq Below(Yielding(st, q, del), r)
               => Collected(st, q, ins, del, V)
                    \subseteq CollectedBefore(st, q, ins, del, r)
<1> DEFINE B == Below(Yielding(st, q, del), r)
<1>1. B = B \cap Yielding(st, q, del)
  BY DEF Below
<1>2. CollectedBefore(st, q, ins, del, r) = Collected(st, q, ins, del, B)
  BY <1>1 DEF CollectedBefore, Collected, Shown, Below
<1>3. V \cap Yielding(st, q, del) = B => Shown(st, q, del, V) = Shown(st, q, del, B)
  BY <1>1 DEF Shown
<1>4. V \cap Yielding(st, q, del) \subseteq B => Shown(st, q, del, V) \subseteq Shown(st, q, del, B)
  BY <1>1 DEF Shown
<1> HIDE DEF B
<1>5. V \cap Yielding(st, q, del) = B => Collected(st, q, ins, del, V) = Collected(st, q, ins, del, B)
  BY <1>3 DEF Collected
<1>6. V \cap Yielding(st, q, del) \subseteq B
        => Collected(st, q, ins, del, V) \subseteq Collected(st, q, ins, del, B)
  BY <1>4 DEF Collected
<1> QED BY <1>2, <1>5, <1>6 DEF B

\* Every collected entry is one of a yielding visited key, or is before one.
LEMMA CollectedBound ==
  ASSUME NEW st, NEW ins, NEW q, NEW del, Input(st, q, ins), NEW V,
         NEW x \in Collected(st, q, ins, del, V)
  PROVE  \E k \in V \cap Yielding(st, q, del) :
           x = EntryOf(q.prefix, k) \/ PathLess(x, EntryOf(q.prefix, k))
BY DEF Collected, Shown

\* Visiting a key that yields no entry collects nothing.
LEMMA SkipCollects ==
  ASSUME NEW st, NEW ins, NEW q, NEW del, NEW V, NEW k, k \notin Yielding(st, q, del)
  PROVE  Collected(st, q, ins, del, V \cup {k}) = Collected(st, q, ins, del, V)
<1>1. Shown(st, q, del, V \cup {k}) = Shown(st, q, del, V)
  BY DEF Shown
<1> QED BY <1>1 DEF Collected

\* Every key of V is before k.
Precedes(V, k) == \A x \in V : PathLess(x, k)

\* The inserts up to e.
UpTo(q, ins, e) == {x \in Inserts(q, ins) : x = e \/ PathLess(x, e)}

\* With k, the entry e and the inserts up to it are collected; nothing that was
\* collected is after e, and e is among it only as a folder.
Gains(st, q, ins, del, V, k, e) ==
  /\ e \in Path
  /\ \A x \in Collected(st, q, ins, del, V) : x = e \/ PathLess(x, e)
  /\ Collected(st, q, ins, del, V \cup {k}) =
       Collected(st, q, ins, del, V) \cup {e} \cup UpTo(q, ins, e)
  /\ Len(e) # 2 => e \notin Collected(st, q, ins, del, V)

\* Visiting the next key, if it yields an entry: the entry is after all that was
\* collected, or is the folder on top of it, and the inserts up to the entry come
\* with it.
LEMMA VisitCollects ==
  ASSUME NEW st, NEW ins, NEW q, NEW del, Input(st, q, ins),
         NEW V, NEW k \in Yielding(st, q, del), Precedes(V, k),
         NEW e, e = EntryOf(q.prefix, k)
  PROVE  Gains(st, q, ins, del, V, k, e)
<1>1. /\ k \in Path /\ HasPrefix(k, q.prefix) /\ e \in Path /\ q.prefix \in Path
  BY YieldingScanned DEF Input
<1>2. ASSUME NEW y \in V \cap Yielding(st, q, del)
      PROVE  /\ y \in Path /\ HasPrefix(y, q.prefix) /\ EntryOf(q.prefix, y) \in Path
             /\ EntryOf(q.prefix, y) = e \/ PathLess(EntryOf(q.prefix, y), e)
             /\ y # k
  <2>1. y \in Path /\ HasPrefix(y, q.prefix) /\ EntryOf(q.prefix, y) \in Path
    BY YieldingScanned
  <2>2. PathLess(y, k)
    BY DEF Precedes
  <2>3. EntryOf(q.prefix, y) = e \/ PathLess(EntryOf(q.prefix, y), e)
    BY <1>1, <2>1, <2>2, EntryMonotone
  <2> QED BY <1>1, <2>1, <2>2, <2>3, PathIrreflexive
<1>3. ASSUME NEW x \in Collected(st, q, ins, del, V) PROVE x \in Path /\ (x = e \/ PathLess(x, e))
  <2>1. x \in Path
    BY CollectedFinite
  <2>2. PICK y \in V \cap Yielding(st, q, del) :
          x = EntryOf(q.prefix, y) \/ PathLess(x, EntryOf(q.prefix, y))
    BY CollectedBound
  <2>3. EntryOf(q.prefix, y) \in Path
    BY <1>2
  <2> QED BY <1>1, <1>2, <2>1, <2>2, <2>3, PathTransitive
<1>4. Shown(st, q, del, V \cup {k}) = Shown(st, q, del, V) \cup {e}
  BY DEF Shown
<1>5. Collected(st, q, ins, del, V \cup {k}) =
        Collected(st, q, ins, del, V) \cup {e} \cup UpTo(q, ins, e)
  BY <1>4 DEF Collected, UpTo
<1>6. ASSUME Len(e) # 2, e \in Collected(st, q, ins, del, V) PROVE FALSE
  <2>1. PICK y \in V \cap Yielding(st, q, del) :
          e = EntryOf(q.prefix, y) \/ PathLess(e, EntryOf(q.prefix, y))
    BY <1>6, CollectedBound
  <2>2. e = EntryOf(q.prefix, y)
    <3> SUFFICES ASSUME e # EntryOf(q.prefix, y) PROVE FALSE
      OBVIOUS
    <3>1. PathLess(e, EntryOf(q.prefix, y)) /\ PathLess(EntryOf(q.prefix, y), e)
      BY <1>2, <2>1
    <3>2. PathLess(e, e)
      BY <1>1, <1>2, <3>1, PathTransitive
    <3> QED BY <1>1, <3>2, PathIrreflexive
  <2>3. y = k
    BY <1>1, <1>2, <1>6, <2>2, FileEntryUnique
  <2> QED BY <1>2, <2>3
<1> QED BY ONLY <1>1, <1>3, <1>5, <1>6 DEF Gains

\* The keys of V are before the others of Y.
Leads(V, Y) == \A x \in V : \A y \in Y \ V : PathLess(x, y)

\* When the visited keys come before the others, nothing that the cursor has yet
\* to show comes before what is collected.
LEMMA InitialSegment ==
  ASSUME NEW st, NEW ins, NEW q, NEW del, Input(st, q, ins), NEW V,
         Leads(V, Yielding(st, q, del)),
         NEW w \in Whole(st, q, ins, del),
         NEW c \in Collected(st, q, ins, del, V), PathLess(w, c)
  PROVE  w \in Collected(st, q, ins, del, V)
<1>t. w \in Path /\ c \in Path
  BY CollectedFinite
<1>1. PICK k \in V \cap Yielding(st, q, del) :
        c = EntryOf(q.prefix, k) \/ PathLess(c, EntryOf(q.prefix, k))
  BY CollectedBound
<1>2. k \in Path /\ HasPrefix(k, q.prefix) /\ EntryOf(q.prefix, k) \in Path /\ q.prefix \in Path
  BY YieldingScanned DEF Input
<1>3. PathLess(w, EntryOf(q.prefix, k))
  BY <1>t, <1>1, <1>2, PathTransitive
<1>4. EntryOf(q.prefix, k) \in Shown(st, q, del, V)
  BY DEF Shown
<1>5. CASE w \in Inserts(q, ins)
  BY <1>3, <1>4, <1>5 DEF Collected
<1>6. CASE w \notin Inserts(q, ins)
  <2>1. PICK y \in Yielding(st, q, del) : w = EntryOf(q.prefix, y)
    BY <1>6 DEF Whole
  <2>2. y \in V
    <3> SUFFICES ASSUME y \notin V PROVE FALSE
      OBVIOUS
    <3>1. PathLess(k, y)
      BY DEF Leads
    <3>2. y \in Path /\ HasPrefix(y, q.prefix)
      BY YieldingScanned
    <3>3. EntryOf(q.prefix, k) = w \/ PathLess(EntryOf(q.prefix, k), w)
      BY <1>2, <2>1, <3>1, <3>2, EntryMonotone
    <3>4. PathLess(w, w)
      BY <1>t, <1>2, <1>3, <3>3, PathTransitive
    <3> QED BY <1>t, <3>4, PathIrreflexive
  <2> QED BY <2>1, <2>2 DEF Collected, Shown
<1> QED BY <1>5, <1>6

\* An initial segment of a set, put in order, has the ranks of the set.
LEMMA SegmentRank ==
  ASSUME NEW W \in SUBSET Path, NEW s \in Seq(Path), Ascending(s), ToSet(s) \subseteq W,
         \A w \in W : \A c \in ToSet(s) : PathLess(w, c) => w \in ToSet(s),
         NEW m \in 1 .. Len(s)
  PROVE  s[m] \in W /\ Cardinality(Below(W, s[m])) = m - 1
<1>1. s[m] \in ToSet(s)
  BY SeqFacts
<1>2. Below(W, s[m]) = Below(ToSet(s), s[m])
  BY <1>1 DEF Below
<1> QED BY <1>1, <1>2, AscendingRank

\* The lists and the offset of an iteration that shows the entry e.
Iterates(ks, I, off, e, next, merged, ks2, off2) ==
  /\ next = off + Cardinality(Taken(ks, I, off, e))
  /\ merged = ks \o SubSeq(I, off, next - 1)
  /\ ks2 = IF Len(e) = 2 /\ merged # <<>> /\ lastKey(merged) = e
           THEN merged ELSE Append(merged, e)
  /\ off2 = next + (IF next <= Len(I) /\ I[next] = e THEN 1 ELSE 0)

\* The list has, in order, what the keys V bring, and the offset fits it.
Holds(st, q, ins, del, V, ks, I, off) ==
  /\ ks \in Seq(Path) /\ Ascending(ks)
  /\ ToSet(ks) = Collected(st, q, ins, del, V)
  /\ Splits(ks, I, off)

\* An iteration on a key that yields an entry, as a whole.
LEMMA VisitMerges ==
  ASSUME NEW st, NEW ins, NEW q, NEW del, Input(st, q, ins),
         NEW V, NEW k \in Yielding(st, q, del), Precedes(V, k),
         NEW e, e = EntryOf(q.prefix, k),
         NEW I \in Seq(Path), I = Sorted(Inserts(q, ins)),
         NEW ks \in Seq(Path), Ascending(ks), ToSet(ks) = Collected(st, q, ins, del, V),
         NEW off \in Nat, Splits(ks, I, off),
         NEW next, NEW merged, NEW ks2, NEW off2,
         Iterates(ks, I, off, e, next, merged, ks2, off2)
  PROVE  Holds(st, q, ins, del, V \cup {k}, ks2, I, off2)
<1>q. /\ next = off + Cardinality(Taken(ks, I, off, e))
      /\ merged = ks \o SubSeq(I, off, next - 1)
      /\ ks2 = IF Len(e) = 2 /\ merged # <<>> /\ lastKey(merged) = e
               THEN merged ELSE Append(merged, e)
      /\ off2 = next + (IF next <= Len(I) /\ I[next] = e THEN 1 ELSE 0)
  BY DEF Iterates
<1>1. /\ I \in Seq(Path) /\ Ascending(I) /\ ToSet(I) = Inserts(q, ins)
      /\ \A i \in 1 .. Len(I) : I[i] # <<>>
  BY InsertsFacts
<1>2. /\ e \in Path
      /\ \A x \in ToSet(ks) : x = e \/ PathLess(x, e)
      /\ Collected(st, q, ins, del, V \cup {k}) =
           ToSet(ks) \cup {e} \cup UpTo(q, ins, e)
      /\ Len(e) # 2 => e \notin ToSet(ks)
  <2>1. Input(st, q, ins) /\ Precedes(V, k) /\ e = EntryOf(q.prefix, k)
    OBVIOUS
  <2>2. Gains(st, q, ins, del, V, k, e)
    BY ONLY <2>1, VisitCollects
  <2>3. ToSet(ks) = Collected(st, q, ins, del, V)
    OBVIOUS
  <2> QED BY ONLY <2>2, <2>3 DEF Gains
<1>t. Len(I) \in Nat /\ (\A i \in 1 .. Len(I) : I[i] \in Path /\ I[i] \in Inserts(q, ins))
  BY <1>1, SeqFacts
<1>l. Len(I) \in Nat
  BY <1>t
<1>k. Ascending(ks)
  OBVIOUS
<1>o. off \in Nat /\ off >= 1 /\ off <= Len(I) + 1
  BY <1>t DEF Splits
<1>s. /\ \A i \in 1 .. (off - 1) : I[i] \in ToSet(ks)
      /\ \A i \in off .. Len(I) : \A x \in ToSet(ks) : PathLess(x, I[i])
  BY DEF Splits
<1>p. Named(I) /\ Tops(e, ks) /\ Splits(ks, I, off)
  BY <1>1, <1>2 DEF Named, Tops
<1>r. PICK n \in Nat :
        /\ Cardinality(Taken(ks, I, off, e)) = n - off
        /\ Reaches(I, off, e, n)
  BY ONLY <1>1, <1>2, <1>k, <1>p, InnerLoop
<1>3. /\ \A i \in off .. (n - 1) : PathLess(I[i], e)
      /\ \A i \in n .. Len(I) : I[i] = e \/ PathLess(e, I[i])
      /\ \A i \in (n + 1) .. Len(I) : PathLess(e, I[i])
  BY ONLY <1>r DEF Reaches
<1>n. n \in Nat /\ off <= n /\ n <= Len(I) + 1
  BY ONLY <1>r DEF Reaches
<1>4. next = n
  <2>1. next = off + (n - off)
    BY <1>q, <1>r
  <2> QED BY ONLY <2>1, <1>n, <1>o
<1>5. /\ merged \in Seq(Path)
      /\ Ascending(merged)
      /\ ToSet(merged) = ToSet(ks) \cup {I[i] : i \in off .. (n - 1)}
      /\ \A x \in ToSet(merged) : x = e \/ PathLess(x, e)
      /\ e \in ToSet(merged) => merged # <<>> /\ lastKey(merged) = e
      /\ merged # <<>> => lastKey(merged) \in ToSet(merged)
      /\ e \notin ToSet(merged) =>
           /\ Append(merged, e) \in Seq(Path)
           /\ Ascending(Append(merged, e))
           /\ ToSet(Append(merged, e)) = ToSet(merged) \cup {e}
  <2>1. merged = ks \o SubSeq(I, off, n - 1)
    BY <1>q, <1>4
  <2>2. Receives(merged, e, ks, Slice(I, off, n - 1))
    BY ONLY <1>1, <1>2, <1>k, <1>p, <1>r, <2>1, MergedFacts
  <2> QED BY ONLY <2>2 DEF Receives, Tops, Slice
<1>6. Len(e) # 2 => e \notin ToSet(merged)
  <2> SUFFICES ASSUME Len(e) # 2, e \in ToSet(merged) PROVE FALSE
    OBVIOUS
  <2>1. PICK i \in off .. (n - 1) : I[i] = e
    BY <1>2, <1>5
  <2>2. PathLess(e, e)
    BY <1>3, <2>1
  <2> QED BY <1>2, <2>2, PathIrreflexive
<1>7. ks2 \in Seq(Path) /\ Ascending(ks2) /\ ToSet(ks2) = ToSet(merged) \cup {e}
  <2>1. CASE Len(e) = 2 /\ merged # <<>> /\ lastKey(merged) = e
    <3>1. e \in ToSet(merged) /\ ks2 = merged
      BY <2>1, <1>5, <1>q
    <3> QED BY <3>1, <1>5
  <2>2. CASE ~(Len(e) = 2 /\ merged # <<>> /\ lastKey(merged) = e)
    <3>1. e \notin ToSet(merged) /\ ks2 = Append(merged, e)
      BY <2>2, <1>5, <1>6, <1>q
    <3> QED BY <3>1, <1>5
  <2> QED BY <2>1, <2>2
<1>8. ASSUME NEW i \in 1 .. (n - 1) PROVE I[i] \in ToSet(merged)
  <2>1. i \in 1 .. (off - 1) \/ i \in off .. (n - 1)
    BY <1>o, <1>n
  <2> QED BY <2>1, <1>s, <1>5
<1>9. ToSet(ks2) = Collected(st, q, ins, del, V \cup {k})
  <2>1. ASSUME NEW x \in Inserts(q, ins), x = e \/ PathLess(x, e) PROVE x \in ToSet(ks2)
    <3>1. PICK i \in 1 .. Len(I) : I[i] = x
      BY <1>1, SeqFacts
    <3>2. CASE i <= n - 1
      <4>1. i \in 1 .. (n - 1)
        BY <3>2, <1>n, <1>t
      <4> QED BY <3>1, <4>1, <1>8, <1>7
    <3>3. CASE ~(i <= n - 1)
      <4>1. i \in n .. Len(I)
        BY <3>3, <1>n, <1>t
      <4>2. x = e \/ PathLess(e, x)
        BY <3>1, <4>1, <1>3
      <4>3. x \in Path
        BY <3>1, <1>t
      <4>4. x = e
        BY <2>1, <4>2, <4>3, <1>2, PathTransitive, PathIrreflexive
      <4> QED BY <4>4, <1>7
    <3> QED BY <3>2, <3>3
  <2>2. ASSUME NEW i \in off .. (n - 1)
        PROVE  I[i] \in UpTo(q, ins, e)
    <3>1. i \in 1 .. Len(I)
      BY ONLY <1>o, <1>n, <1>l, i \in off .. (n - 1)
    <3> QED BY ONLY <3>1, <1>3, <1>t, i \in off .. (n - 1) DEF UpTo
  <2>3. UpTo(q, ins, e) \subseteq ToSet(ks2)
    BY <2>1 DEF UpTo
  <2>4. ToSet(merged) \subseteq ToSet(ks) \cup UpTo(q, ins, e)
    BY ONLY <2>2, <1>5
  <2>5. ToSet(ks) \subseteq ToSet(merged)
    BY <1>5
  <2> QED BY ONLY <2>3, <2>4, <2>5, <1>2, <1>7
<1>10. ASSUME NEW x \in ToSet(ks2) PROVE x \in Path /\ (x = e \/ PathLess(x, e))
  BY <1>2, <1>5, <1>7, SeqFacts
<1>11. CASE n <= Len(I) /\ I[n] = e
  <2>1. off2 = n + 1
    BY <1>4, <1>11, <1>q
  <2>2. n + 1 \in 1 .. (Len(I) + 1)
    BY <1>11, <1>n, <1>o, <1>t
  <2>3. ASSUME NEW i \in 1 .. (n + 1 - 1) PROVE I[i] \in ToSet(ks2)
    <3>1. i \in 1 .. (n - 1) \/ i = n
      BY <1>n
    <3> QED BY <3>1, <1>7, <1>8, <1>11
  <2>4. ASSUME NEW i \in (n + 1) .. Len(I), NEW x \in ToSet(ks2) PROVE PathLess(x, I[i])
    <3>1. PathLess(e, I[i])
      BY <1>3
    <3>2. I[i] \in Path
      <4>1. i \in 1 .. Len(I)
        BY ONLY <1>n, <1>o, <1>l, i \in (n + 1) .. Len(I)
      <4> QED BY <4>1, <1>t
    <3> QED BY <1>2, <1>10, <3>1, <3>2, PathTransitive
  <2>5. Splits(ks2, I, off2)
    BY ONLY <2>1, <2>2, <2>3, <2>4 DEF Splits
  <2> QED BY ONLY <1>7, <1>9, <2>5 DEF Holds
<1>12. CASE ~(n <= Len(I) /\ I[n] = e)
  <2>1. off2 = n
    BY <1>4, <1>12, <1>n, <1>q
  <2>2. n \in 1 .. (Len(I) + 1)
    BY <1>n, <1>o, <1>t
  <2>3. ASSUME NEW i \in 1 .. (n - 1) PROVE I[i] \in ToSet(ks2)
    BY <1>7, <1>8
  <2>4. ASSUME NEW i \in n .. Len(I), NEW x \in ToSet(ks2) PROVE PathLess(x, I[i])
    <3>1. PathLess(e, I[i])
      <4>1. i = n \/ i \in (n + 1) .. Len(I)
        BY <1>n, <1>t
      <4>2. CASE i = n
        <5>1. n <= Len(I)
          BY <4>2, <1>n, <1>t
        <5> QED BY <4>2, <5>1, <1>3, <1>12
      <4>3. CASE i \in (n + 1) .. Len(I)
        BY <4>3, <1>3
      <4> QED BY <4>1, <4>2, <4>3
    <3>2. I[i] \in Path
      <4>1. i \in 1 .. Len(I)
        BY ONLY <1>n, <1>o, <1>l, i \in n .. Len(I)
      <4> QED BY <4>1, <1>t
    <3> QED BY <1>2, <1>10, <3>1, <3>2, PathTransitive
  <2>5. Splits(ks2, I, off2)
    BY ONLY <2>1, <2>2, <2>3, <2>4 DEF Splits
  <2> QED BY ONLY <1>7, <1>9, <2>5 DEF Holds
<1> QED BY <1>11, <1>12

\* The inserts that are left at the end of the loop.
Rest(ks, ins, off) ==
  {ins[i] : i \in {j \in off .. Len(ins) : PathLess(lastKey(ks), ins[j])}}

\* The visited keys are all that count, or the list has a page.
Suffices(Y, V, ks, l) == Y \subseteq V \/ (l > 0 /\ Len(ks) >= l)

\* The list, cut at the limit, is the page.
Cuts(s, st, q, ins, del) ==
  (IF q.limit > 0 /\ q.limit < Len(s) THEN SubSeq(s, 1, q.limit) ELSE s)
    = Sorted(ListPage(st, q, ins, del))

\* The end of the call: the inserts that are left, then the limit.
LEMMA MergeIsPage ==
  ASSUME NEW st, NEW ins, NEW q, NEW del, Input(st, q, ins), NEW V,
         Leads(V, Yielding(st, q, del)),
         NEW I \in Seq(Path), I = Sorted(Inserts(q, ins)),
         NEW ks \in Seq(Path), NEW off \in Nat, Holds(st, q, ins, del, V, ks, I, off),
         Suffices(Yielding(st, q, del), V, ks, q.limit),
         NEW all, all = ks \o Sorted(Rest(ks, I, off))
  PROVE  Cuts(all, st, q, ins, del)
<1>h. Ascending(ks) /\ ToSet(ks) = Collected(st, q, ins, del, V) /\ Splits(ks, I, off)
  BY DEF Holds
<1>1. /\ I \in Seq(Path) /\ Ascending(I) /\ ToSet(I) = Inserts(q, ins)
      /\ \A i \in 1 .. Len(I) : I[i] # <<>>
  BY InsertsFacts
<1>t. /\ Len(I) \in Nat /\ (\A i \in 1 .. Len(I) : I[i] \in Path /\ I[i] \in Inserts(q, ins))
      /\ Len(ks) \in Nat /\ q.limit \in Nat
  BY <1>1, SeqFacts DEF Input
<1>o. off \in Nat /\ off >= 1 /\ off <= Len(I) + 1
  BY <1>h, <1>t DEF Splits
<1>s. /\ \A i \in 1 .. (off - 1) : I[i] \in ToSet(ks)
      /\ \A i \in off .. Len(I) : \A x \in ToSet(ks) : PathLess(x, I[i])
  BY <1>h DEF Splits
<1>2. ASSUME NEW i \in off .. Len(I) PROVE i \in 1 .. Len(I) /\ PathLess(lastKey(ks), I[i])
  <2>1. i \in 1 .. Len(I)
    BY <1>o, <1>t
  <2>2. CASE ks = <<>>
    BY <2>1, <2>2, <1>1, <1>t, EmptyLeast DEF lastKey
  <2>3. CASE ks # <<>>
    <3>1. lastKey(ks) \in ToSet(ks)
      BY <2>3, <1>h, LastFacts
    <3> QED BY ONLY <2>1, <1>s, <3>1, i \in off .. Len(I)
  <2> QED BY <2>1, <2>2, <2>3
<1> DEFINE A == {I[i] : i \in off .. Len(I)}
<1>w. PICK W : W = Whole(st, q, ins, del)
  OBVIOUS
<1>3. all = ks \o Sorted(A)
  <2>1. {j \in off .. Len(I) : PathLess(lastKey(ks), I[j])} = off .. Len(I)
    BY <1>2
  <2>2. Rest(ks, I, off) = A
    BY <2>1 DEF Rest
  <2> QED BY <2>2
<1>4. A \in SUBSET Inserts(q, ins) /\ A \in SUBSET Path /\ IsFiniteSet(A)
  <2>1. A \in SUBSET Inserts(q, ins) /\ A \in SUBSET Path
    BY <1>2, <1>t
  <2>2. IsFiniteSet(ToSet(I))
    BY <1>1, AscendingCount
  <2> HIDE DEF A
  <2> QED BY <2>1, <2>2, <1>1, FS_Subset
<1>5. Inserts(q, ins) \subseteq ToSet(ks) \cup A
  <2> SUFFICES ASSUME NEW x \in Inserts(q, ins) PROVE x \in ToSet(ks) \cup A
    OBVIOUS
  <2>1. PICK i \in 1 .. Len(I) : I[i] = x
    BY <1>1, SeqFacts
  <2>2. i \in 1 .. (off - 1) \/ i \in off .. Len(I)
    BY <1>o, <1>t
  <2> QED BY <2>1, <2>2, <1>s
<1>6. \A x \in ToSet(ks), y \in A : PathLess(x, y)
  BY <1>s
<1>7. /\ W \in SUBSET Path /\ IsFiniteSet(W)
      /\ ToSet(ks) \subseteq W
      /\ Inserts(q, ins) \subseteq W
  <2>1. Inserts(q, ins) \subseteq W
    BY <1>w DEF Whole
  <2> QED BY <1>w, <1>h, <2>1, CollectedFinite
<1>8. \A w \in W : \A c \in ToSet(ks) : PathLess(w, c) => w \in ToSet(ks)
  BY <1>w, <1>h, InitialSegment
<1>9. ListPage(st, q, ins, del) = PageOf(W, q.limit)
  BY <1>w, PageOfWhole DEF PageOf
<1>y. Yielding(st, q, del) \subseteq V => W \subseteq ToSet(ks) \cup A
  <2> SUFFICES ASSUME Yielding(st, q, del) \subseteq V, NEW w \in W
               PROVE  w \in ToSet(ks) \cup A
    OBVIOUS
  <2>1. CASE w \in Inserts(q, ins)
    BY <1>5, <2>1
  <2>2. CASE w \notin Inserts(q, ins)
    BY <2>2, <1>w, <1>h DEF Whole, Collected, Shown
  <2> QED BY <2>1, <2>2
<1> HIDE DEF A
<1>10. PICK B : B = Sorted(A)
  OBVIOUS
<1>11. B \in Seq(Path) /\ Ascending(B) /\ ToSet(B) = A
  BY <1>4, <1>10, SortedFacts
<1>12. /\ all \in Seq(Path) /\ Ascending(all) /\ ToSet(all) = ToSet(ks) \cup A
       /\ Len(all) = Len(ks) + Len(B) /\ Len(B) \in Nat
       /\ \A i \in 1 .. Len(ks) : all[i] = ks[i]
  <2>1. all = ks \o B
    BY <1>3, <1>10
  <2>2. \A x \in ToSet(ks), y \in ToSet(B) : PathLess(x, y)
    BY <1>6, <1>11
  <2>3. Ascending(all)
    BY <1>11, <1>h, <2>1, <2>2, ConcatAscending
  <2>4. Len(B) \in Nat
    BY <1>11, SeqFacts
  <2> QED BY ONLY <1>11, <2>1, <2>3, <2>4, ConcatSet
<1>13. PICK l \in Nat : l = q.limit
  BY <1>t
<1>14. CASE Yielding(st, q, del) \subseteq V
  <2>1. ToSet(all) = W
    BY <1>4, <1>7, <1>12, <1>14, <1>y
  <2>2. \A m \in 1 .. Len(all) : all[m] \in W /\ Cardinality(Below(W, all[m])) = m - 1
    BY <1>7, <1>12, <2>1, SegmentRank
  <2>3. (IF l > 0 /\ l < Len(all) THEN SubSeq(all, 1, l) ELSE all)
          = Sorted(PageOf(W, l))
    <3>1. Ranked(all, W, l)
      BY <2>2 DEF Ranked
    <3>2. Complete(all, W, l)
      BY <2>1 DEF Complete
    <3> QED BY ONLY <1>7, <1>12, <3>1, <3>2, l \in Nat, PageLemma
  <2> QED BY ONLY <1>9, <1>13, <2>3 DEF Cuts
<1>15. CASE l > 0 /\ Len(ks) >= l
  <2>1. \A m \in 1 .. Len(ks) : ks[m] \in W /\ Cardinality(Below(W, ks[m])) = m - 1
    BY <1>7, <1>8, <1>h, SegmentRank
  <2>2. ASSUME NEW m \in 1 .. Len(all), m <= l
        PROVE  all[m] \in W /\ Cardinality(Below(W, all[m])) = m - 1
    <3>1. m \in 1 .. Len(ks)
      BY <1>12, <1>15, <1>t, <2>2
    <3> QED BY <1>12, <2>1, <3>1
  <2>3. l \in 1 .. Len(ks) /\ l <= Len(all)
    BY <1>12, <1>15, <1>t
  <2>4. ASSUME NEW w \in W, w \notin ToSet(all) PROVE PathLess(all[l], w)
    <3>1. all[l] = ks[l] /\ ks[l] \in ToSet(ks) /\ ks[l] \in Path /\ w \in Path
      BY <1>7, <1>12, <2>3, SeqFacts
    <3>2. w # ks[l] /\ ~PathLess(w, ks[l])
      BY <1>8, <1>12, <2>4, <3>1
    <3> QED BY <3>1, <3>2, PathTotal
  <2>5. Ranked(all, W, l)
    <3> SUFFICES ASSUME NEW m \in 1 .. Len(all), l = 0 \/ m <= l
                 PROVE  all[m] \in W /\ Cardinality(Below(W, all[m])) = m - 1
      BY DEF Ranked
    <3>1. m <= l
      BY <1>15
    <3> QED BY <2>2, <3>1
  <2>6. Complete(all, W, l)
    BY <1>15, <2>3, <2>4 DEF Complete
  <2>7. (IF l > 0 /\ l < Len(all) THEN SubSeq(all, 1, l) ELSE all)
          = Sorted(PageOf(W, l))
    BY ONLY <1>7, <1>12, <2>5, <2>6, l \in Nat, PageLemma
  <2> QED BY ONLY <1>9, <1>13, <2>7 DEF Cuts
<1> QED BY <1>13, <1>14, <1>15 DEF Suffices

-----------------------------------------------------------------------------
(* The inductive invariant.                                                *)

\* The types of the variables.
Typed ==
  /\ stored \in SUBSET Key /\ inserted \in SUBSET Key /\ deleted \in SUBSET Key
  /\ query \in Query
  /\ pc \in {"loop", "merge", "done", "cancelled"}
  /\ cursor \in Seq(Path) /\ keys \in Seq(Path) /\ presentKeys \in Seq(Path)
  /\ offset \in Nat

\* The three sequences are in order.
InOrder == Ascending(cursor) /\ Ascending(presentKeys) /\ Ascending(keys)

\* The cursor has passed the visited keys, all below the prefix, and has the
\* others from the one it sought.
Walk ==
  /\ ToSet(presentKeys) \cup ToSet(cursor) = Seekable(stored, query)
  /\ \A r \in ToSet(presentKeys) :
        /\ HasPrefix(r, query.prefix)
        /\ \A k \in ToSet(cursor) : PathLess(r, k)

\* No key was visited after the page was full.
Looked ==
  \A r \in ToSet(presentKeys) :
     \/ query.limit = 0
     \/ Cardinality(CollectedBefore(stored, query, inserted, deleted, r)) < query.limit

\* keys has what the visited keys bring.
Gathered ==
  ToSet(keys) = Collected(stored, query, inserted, deleted, ToSet(presentKeys))

\* The loop as a whole, until the result is made.
Loop ==
  /\ InOrder
  /\ Walk
  /\ Looked
  /\ Gathered
  /\ Splits(keys, inserts, offset)
  /\ pc = "merge" => HasEnough \/ AtEnd

\* The invariant that the steps preserve.
IInv ==
  /\ Typed
  /\ pc \in {"loop", "merge"} => Loop
  /\ PageIsCorrect
  /\ PresentKeysAreCorrect

\* The input of a call is the one the lemmas are about.
LEMMA InputFacts ==
  ASSUME Typed
  PROVE  /\ Input(stored, query, inserted)
         /\ query.prefix \in Path /\ query.after \in Path /\ query.limit \in Nat
<1>1. Key \in SUBSET Path /\ <<>> \notin Key /\ IsFiniteSet(Key)
  BY ListerAssumption DEF Path
<1>2. query \in [prefix : Seq(Nat), after : Seq(Nat), limit : Nat]
  BY ListerAssumption DEF Typed
<1>3. query.prefix \in Path /\ query.after \in Path /\ query.limit \in Nat
  BY <1>2 DEF Path
<1>4. stored \in SUBSET Key /\ inserted \in SUBSET Key
  BY DEF Typed
<1>5. IsFiniteSet(stored) /\ IsFiniteSet(inserted)
  BY <1>1, <1>4, FS_Subset
<1> QED BY <1>1, <1>3, <1>4, <1>5 DEF Input

\* The path that Start seeks.
LEMMA SeekPrefixIs == SeekPrefix = SeekOf(query)
BY DEF SeekPrefix, SeekOf

\* The inserts of a call, in order.
LEMMA InsertsIs ==
  ASSUME Typed
  PROVE  inserts \in Seq(Path) /\ inserts = Sorted(Inserts(query, inserted))
BY InputFacts, InsertsFacts DEF inserts

\* The keys a cursor may visit are nonempty paths.
LEMMA SeekablePaths ==
  ASSUME Typed, NEW k \in Seekable(stored, query)
  PROVE  k \in Path /\ k # <<>> /\ k \in stored /\ ~PathLess(k, SeekOf(query))
BY InputFacts DEF Seekable, Input

\* The visited keys come before the other keys that yield an entry.
LEMMA VisitedFirst ==
  ASSUME Typed, Walk
  PROVE  Leads(ToSet(presentKeys), Yielding(stored, query, deleted))
<1>1. Input(stored, query, inserted)
  BY InputFacts
<1>2. \A y \in Yielding(stored, query, deleted) : y \in Seekable(stored, query)
  BY <1>1, YieldingScanned
<1> QED BY <1>2 DEF Leads, Walk

\* What is collected when the cursor is at a key.
LEMMA AtHead ==
  ASSUME Typed, InOrder, Walk, cursor # <<>>
  PROVE  /\ Precedes(ToSet(presentKeys), Head(cursor))
         /\ Head(cursor) \in Seekable(stored, query)
         /\ CollectedBefore(stored, query, inserted, deleted, Head(cursor))
              = Collected(stored, query, inserted, deleted, ToSet(presentKeys))
<1> DEFINE V == ToSet(presentKeys)
           Y == Yielding(stored, query, deleted)
           h == Head(cursor)
<1>1. Input(stored, query, inserted)
  BY InputFacts
<1>2. \A y \in Y : y \in Seekable(stored, query)
  BY <1>1, YieldingScanned
<1>3. /\ h \in ToSet(cursor)
      /\ ToSet(cursor) = {h} \cup ToSet(Tail(cursor))
      /\ \A x \in ToSet(Tail(cursor)) : PathLess(h, x)
  BY HeadFacts DEF Typed, InOrder
<1>4. Precedes(V, h)
  BY <1>3 DEF Walk, Precedes
<1>5. h \in Seekable(stored, query) /\ h \in Path
  BY <1>3, SeekablePaths DEF Walk
<1>6. V \cap Y = Below(Y, h)
  <2>1. ASSUME NEW x \in V \cap Y PROVE PathLess(x, h)
    BY <1>4 DEF Precedes
  <2>2. ASSUME NEW x \in Y, PathLess(x, h) PROVE x \in V
    <3> SUFFICES ASSUME x \notin V PROVE FALSE
      OBVIOUS
    <3>1. x \in ToSet(cursor)
      BY <1>2 DEF Walk
    <3>2. x = h \/ PathLess(h, x)
      BY <1>3, <3>1
    <3>3. x \in Path
      BY <1>2, SeekablePaths
    <3> QED BY <1>5, <2>2, <3>2, <3>3, PathTransitive, PathIrreflexive
  <2> HIDE DEF V, Y, h
  <2> QED BY <2>1, <2>2 DEF Below
<1>7. CollectedBefore(stored, query, inserted, deleted, h)
        = Collected(stored, query, inserted, deleted, V)
  BY <1>6, BeforeIsCollected
<1> QED BY <1>4, <1>5, <1>7

\* When the cursor is past the prefix, every scanned key was visited.
LEMMA EndReached ==
  ASSUME Typed, InOrder, Walk, AtEnd
  PROVE  /\ Scanned(stored, query) \subseteq ToSet(presentKeys)
         /\ Yielding(stored, query, deleted) \subseteq ToSet(presentKeys)
<1>1. Input(stored, query, inserted) /\ query.prefix \in Path
  BY InputFacts
<1>2. /\ SeekOf(query) \in Path
      /\ query.prefix = <<>> \/ HasPrefix(SeekOf(query), query.prefix)
      /\ Scanned(stored, query) = {k \in Seekable(stored, query) : HasPrefix(k, query.prefix)}
  BY <1>1, SeekFacts
<1>3. ASSUME NEW r \in Scanned(stored, query), r \notin ToSet(presentKeys) PROVE FALSE
  <2>1. r \in ToSet(cursor) /\ HasPrefix(r, query.prefix) /\ r \in Path
    BY <1>2, <1>3, SeekablePaths DEF Walk
  <2>2. cursor # <<>>
    BY <2>1, SeqFacts DEF Typed
  <2>3. ~HasPrefix(Head(cursor), query.prefix)
    BY <2>2 DEF AtEnd
  <2>4. /\ Head(cursor) \in ToSet(cursor)
        /\ r = Head(cursor) \/ PathLess(Head(cursor), r)
    BY <2>1, <2>2, HeadFacts DEF Typed, InOrder
  <2>5. PathLess(Head(cursor), r)
    BY <2>1, <2>3, <2>4
  <2>6. /\ Head(cursor) \in Path /\ Head(cursor) # <<>>
        /\ ~PathLess(Head(cursor), SeekOf(query))
    BY <2>4, SeekablePaths DEF Walk
  <2> QED BY <1>1, <1>2, <2>1, <2>3, <2>5, <2>6, Contiguous
<1>4. Yielding(stored, query, deleted) \subseteq Scanned(stored, query)
  BY DEF Yielding
<1> QED BY <1>3, <1>4

\* The visited keys are the ones that PresentKeys names.
LEMMA VisitedArePresent ==
  ASSUME Typed, InOrder, Walk, Looked, Gathered, HasEnough \/ AtEnd
  PROVE  presentKeys = Sorted(PresentKeys(stored, query, inserted, deleted))
<1> DEFINE V == ToSet(presentKeys)
           P == PresentKeys(stored, query, inserted, deleted)
<1>1. Input(stored, query, inserted) /\ query.limit \in Nat
  BY InputFacts
<1>2. Scanned(stored, query) = {k \in Seekable(stored, query) : HasPrefix(k, query.prefix)}
  BY <1>1, SeekFacts
<1>3. ASSUME NEW r \in V PROVE r \in P
  <2>1. r \in Scanned(stored, query)
    BY <1>2 DEF Walk
  <2> QED BY <2>1 DEF Looked, PresentKeys
<1>4. ASSUME NEW r \in P PROVE r \in V
  <2>1. r \in Scanned(stored, query)
    BY DEF PresentKeys
  <2>2. CASE AtEnd
    BY <2>1, <2>2, EndReached
  <2>3. CASE HasEnough
    <3> SUFFICES ASSUME r \notin V PROVE FALSE
      OBVIOUS
    <3>1. query.limit > 0 /\ Len(keys) >= query.limit
      BY <2>3 DEF HasEnough
    <3>2. \A x \in V : PathLess(x, r)
      BY <1>2, <2>1 DEF Walk
    <3>3. Collected(stored, query, inserted, deleted, V)
            \subseteq CollectedBefore(stored, query, inserted, deleted, r)
      <4>1. V \cap Yielding(stored, query, deleted)
              \subseteq Below(Yielding(stored, query, deleted), r)
        BY <3>2 DEF Below
      <4> QED BY <4>1, BeforeIsCollected
    <3>4. PICK B : B = CollectedBefore(stored, query, inserted, deleted, r)
      OBVIOUS
    <3>5. IsFiniteSet(B)
      <4>1. B = Collected(stored, query, inserted, deleted,
                          Below(Yielding(stored, query, deleted), r))
        BY <3>4, BeforeIsCollected
      <4> QED BY ONLY <1>1, <4>1, CollectedFinite
    <3>6. Cardinality(ToSet(keys)) = Len(keys) /\ Len(keys) \in Nat
      BY AscendingCount, SeqFacts DEF Typed, InOrder
    <3>7. ToSet(keys) \in SUBSET B
      BY <3>3, <3>4 DEF Gathered
    <3>8. Len(keys) <= Cardinality(B) /\ Cardinality(B) \in Nat
      BY <3>5, <3>6, <3>7, FS_Subset, FS_CardinalityType
    <3>9. query.limit = 0 \/ Cardinality(B) < query.limit
      BY <3>4 DEF PresentKeys
    <3> QED BY <1>1, <3>1, <3>6, <3>8, <3>9
  <2> QED BY <2>2, <2>3
<1>5. V = P
  <2> HIDE DEF V, P
  <2> QED BY <1>3, <1>4
<1> QED BY <1>5, AscendingIsSorted DEF Typed, InOrder

-----------------------------------------------------------------------------
(* The steps.                                                              *)

\* Init: nothing is visited, and the cursor has every key from the sought one.
LEMMA InitIInv == Init => IInv
<1> SUFFICES ASSUME Init PROVE IInv
  OBVIOUS
<1>1. /\ stored \in SUBSET Key /\ inserted \in SUBSET Key /\ deleted \in SUBSET Key
      /\ query \in Query /\ pc = "loop" /\ keys = <<>> /\ presentKeys = <<>> /\ offset = 1
  BY DEF Init
<1>2. cursor = Sorted(Seekable(stored, query))
  BY SeekPrefixIs DEF Init, Seekable
<1>3. /\ Key \in SUBSET Path /\ IsFiniteSet(Key)
  BY ListerAssumption DEF Path
<1>4. Seekable(stored, query) \in SUBSET Path /\ IsFiniteSet(Seekable(stored, query))
  <2>1. Seekable(stored, query) \in SUBSET Key
    BY <1>1 DEF Seekable
  <2> QED BY <1>3, <2>1, FS_Subset
<1>5. cursor \in Seq(Path) /\ Ascending(cursor) /\ ToSet(cursor) = Seekable(stored, query)
  BY <1>2, <1>4, SortedFacts
<1>6. <<>> \in Seq(Path) /\ Ascending(<<>>) /\ ToSet(<<>>) = {} /\ Len(<<>>) = 0
  BY DEF Ascending, ToSet
<1>7. Typed
  BY <1>1, <1>5, <1>6 DEF Typed
<1>8. inserts \in Seq(Path) /\ Len(inserts) \in Nat
  BY <1>7, InsertsIs, SeqFacts
<1>9. Collected(stored, query, inserted, deleted, {}) = {}
  BY DEF Collected, Shown
<1>10. Splits(keys, inserts, offset)
  BY <1>1, <1>6, <1>8 DEF Splits
<1>11. InOrder /\ Walk /\ Looked /\ Gathered
  BY <1>1, <1>5, <1>6, <1>9 DEF InOrder, Walk, Looked, Gathered
<1>12. Loop
  BY <1>1, <1>10, <1>11 DEF Loop
<1> QED BY <1>1, <1>7, <1>12 DEF IInv, PageIsCorrect, PresentKeysAreCorrect

\* What a step that leaves the input alone leaves of the definitions on it.
LEMMA SameInput ==
  ASSUME UNCHANGED input
  PROVE  /\ stored' = stored /\ inserted' = inserted /\ deleted' = deleted
         /\ query' = query /\ inserts' = inserts
BY DEF input, inserts

\* Visit: the key at the cursor is looked at, and its entry, if it yields one, is
\* merged with the inserts before it.
LEMMA VisitPreserves ==
  ASSUME IInv, Visit
  PROVE  IInv'
<1>0. pc = "loop" /\ Loop /\ Typed /\ ~HasEnough /\ ~AtEnd
  BY DEF IInv, Visit
<1>i. /\ stored' = stored /\ inserted' = inserted /\ deleted' = deleted
      /\ query' = query /\ inserts' = inserts /\ pc' = pc
  BY SameInput DEF Visit
<1>l. InOrder /\ Walk /\ Looked /\ Gathered /\ Splits(keys, inserts, offset)
  BY <1>0 DEF Loop
<1>t. /\ cursor \in Seq(Path) /\ keys \in Seq(Path) /\ presentKeys \in Seq(Path)
      /\ offset \in Nat
      /\ Ascending(cursor) /\ Ascending(presentKeys) /\ Ascending(keys)
  BY <1>0, <1>l DEF Typed, InOrder
<1>1. Input(stored, query, inserted) /\ query.prefix \in Path /\ query.limit \in Nat
  BY <1>0, InputFacts
<1>2. cursor # <<>> /\ HasPrefix(Head(cursor), query.prefix)
  BY <1>0 DEF AtEnd
<1>d. PICK key, e, V, Y : /\ key = Head(cursor) /\ e = EntryOf(query.prefix, key)
                          /\ V = ToSet(presentKeys)
                          /\ Y = Yielding(stored, query, deleted)
  OBVIOUS
<1>3. /\ key \in ToSet(cursor) /\ Tail(cursor) \in Seq(Path) /\ Ascending(Tail(cursor))
      /\ ToSet(cursor) = {key} \cup ToSet(Tail(cursor))
      /\ \A x \in ToSet(Tail(cursor)) : PathLess(key, x)
  BY <1>2, <1>t, <1>d, HeadFacts
<1>4. /\ Precedes(V, key) /\ key \in Seekable(stored, query)
      /\ CollectedBefore(stored, query, inserted, deleted, key)
           = Collected(stored, query, inserted, deleted, V)
  BY <1>0, <1>2, <1>d, <1>l, AtHead
<1>5. key \in Path /\ key \in Scanned(stored, query)
  <2>1. Scanned(stored, query) = {k \in Seekable(stored, query) : HasPrefix(k, query.prefix)}
    BY <1>1, SeekFacts
  <2> QED BY <1>0, <1>2, <1>4, <1>d, <2>1, SeekablePaths
<1>6. cursor' = Tail(cursor) /\ presentKeys' = Append(presentKeys, key)
  BY <1>d DEF Visit
<1>7. presentKeys' \in Seq(Path) /\ Ascending(presentKeys') /\ ToSet(presentKeys') = V \cup {key}
  BY <1>4, <1>5, <1>6, <1>d, <1>t, AppendAscending DEF Precedes
<1>8. Walk'
  <2>1. (V \cup {key}) \cup ToSet(Tail(cursor)) = Seekable(stored, query)
    BY <1>3, <1>d, <1>l DEF Walk
  <2>2. \A r \in V : HasPrefix(r, query.prefix) /\ \A k \in ToSet(Tail(cursor)) : PathLess(r, k)
    BY <1>3, <1>d, <1>l DEF Walk
  <2> QED BY <1>2, <1>3, <1>6, <1>7, <1>d, <1>i, <2>1, <2>2 DEF Walk
<1>9. Looked'
  <2>1. query.limit = 0 \/ Len(keys) < query.limit
    <3>1. Len(keys) \in Nat
      BY <1>t, SeqFacts
    <3>2. ~(query.limit > 0 /\ Len(keys) >= query.limit)
      BY <1>0 DEF HasEnough
    <3> QED BY <1>1, <3>1, <3>2
  <2>2. Len(keys) = Cardinality(Collected(stored, query, inserted, deleted, V))
    BY <1>d, <1>l, <1>t, AscendingCount DEF Gathered
  <2>3. query.limit = 0
        \/ Cardinality(CollectedBefore(stored, query, inserted, deleted, key)) < query.limit
    BY <1>4, <2>1, <2>2
  <2>4. \A r \in V :
          query.limit = 0
          \/ Cardinality(CollectedBefore(stored, query, inserted, deleted, r)) < query.limit
    BY <1>d, <1>l DEF Looked
  <2> QED BY <1>7, <1>i, <2>3, <2>4 DEF Looked
<1>10. /\ keys' \in Seq(Path) /\ Ascending(keys') /\ offset' \in Nat
       /\ ToSet(keys') = Collected(stored, query, inserted, deleted, V \cup {key})
       /\ Splits(keys', inserts, offset')
  <2>1. CASE key \in deleted \/ ~ShouldInclude(query, key)
    <3>1. keys' = keys /\ offset' = offset
      BY <1>d, <2>1 DEF Visit
    <3>2. key \notin Yielding(stored, query, deleted)
      BY <2>1 DEF Yielding
    <3>3. Collected(stored, query, inserted, deleted, V \cup {key})
            = Collected(stored, query, inserted, deleted, V)
      BY <3>2, SkipCollects
    <3> QED BY <1>d, <1>l, <1>t, <3>1, <3>3 DEF Gathered
  <2>2. CASE ~(key \in deleted \/ ~ShouldInclude(query, key))
    <3>1. key \in Yielding(stored, query, deleted)
      BY <1>5, <2>2 DEF Yielding
    <3>2. PICK next, merged :
            /\ next = offset + Cardinality(Taken(keys, inserts, offset, e))
            /\ merged = keys \o SubSeq(inserts, offset, next - 1)
      OBVIOUS
    <3>3. Candidates(e) = Taken(keys, inserts, offset, e)
      BY DEF Candidates, Taken
    <3>4. offset' = next + Skips(e, next)
      BY <1>d, <2>2, <3>2, <3>3 DEF Visit
    <3>5. keys' = IF IsDuplicate(key, merged) THEN merged ELSE Append(merged, e)
      BY <1>d, <2>2, <3>2, <3>3 DEF Visit
    <3>6. offset' = next + (IF next <= Len(inserts) /\ inserts[next] = e THEN 1 ELSE 0)
      BY <3>4 DEF Skips
    <3>7. keys' = IF Len(e) = 2 /\ merged # <<>> /\ lastKey(merged) = e
                  THEN merged ELSE Append(merged, e)
      BY <1>d, <3>5 DEF IsDuplicate
    <3>8. inserts \in Seq(Path) /\ inserts = Sorted(Inserts(query, inserted))
      BY <1>0, InsertsIs
    <3>9. ToSet(keys) = Collected(stored, query, inserted, deleted, V)
          /\ Splits(keys, inserts, offset)
      BY <1>d, <1>l DEF Gathered
    <3>10. e = EntryOf(query.prefix, key)
      BY <1>d
    <3>11. /\ keys' \in Seq(Path) /\ Ascending(keys')
           /\ ToSet(keys') = Collected(stored, query, inserted, deleted, V \cup {key})
           /\ Splits(keys', inserts, offset')
      <4>1. Iterates(keys, inserts, offset, e, next, merged, keys', offset')
        BY ONLY <3>2, <3>6, <3>7 DEF Iterates
      <4>2. Holds(stored, query, inserted, deleted, V \cup {key}, keys', inserts, offset')
        BY ONLY <1>1, <1>4, <1>t, <3>1, <3>8, <3>9, <3>10, <4>1, VisitMerges
      <4> QED BY ONLY <4>2 DEF Holds
    <3>12. offset' \in Nat
      <4>1. offset' \in 1 .. (Len(inserts) + 1)
        BY <3>11 DEF Splits
      <4>2. Len(inserts) \in Nat
        BY <3>8, SeqFacts
      <4> QED BY ONLY <4>1, <4>2
    <3> QED BY <3>11, <3>12
  <2> QED BY <2>1, <2>2
<1>11. InOrder' /\ Gathered' /\ Splits(keys, inserts, offset)'
  BY <1>3, <1>6, <1>7, <1>10, <1>i DEF InOrder, Gathered
<1>12. Loop'
  BY <1>0, <1>8, <1>9, <1>11, <1>i DEF Loop
<1>13. Typed'
  BY <1>0, <1>3, <1>6, <1>7, <1>10, <1>i DEF Typed
<1> QED BY <1>0, <1>12, <1>13, <1>i DEF IInv, PageIsCorrect, PresentKeysAreCorrect

\* LeaveLoop: the page is full or the cursor is past the prefix.
LEMMA LeaveLoopPreserves ==
  ASSUME IInv, LeaveLoop
  PROVE  IInv'
<1>0. pc = "loop" /\ Loop /\ Typed /\ (HasEnough \/ AtEnd) /\ pc' = "merge"
  BY DEF IInv, LeaveLoop
<1>i. /\ stored' = stored /\ inserted' = inserted /\ deleted' = deleted
      /\ query' = query /\ inserts' = inserts
      /\ cursor' = cursor /\ keys' = keys /\ presentKeys' = presentKeys /\ offset' = offset
  BY SameInput DEF LeaveLoop
<1>1. HasEnough' \/ AtEnd'
  BY <1>0, <1>i DEF HasEnough, AtEnd
<1>2. InOrder' /\ Walk' /\ Looked' /\ Gathered' /\ Splits(keys, inserts, offset)'
  BY <1>0, <1>i DEF Loop, InOrder, Walk, Looked, Gathered
<1>3. Loop'
  BY <1>1, <1>2 DEF Loop
<1>4. Typed'
  BY <1>0, <1>i DEF Typed
<1> QED BY <1>0, <1>3, <1>4 DEF IInv, PageIsCorrect, PresentKeysAreCorrect

\* Merge: the two results are the ones that Listing defines.
LEMMA MergePreserves ==
  ASSUME IInv, Merge
  PROVE  IInv'
<1>0. pc = "merge" /\ Loop /\ Typed /\ (HasEnough \/ AtEnd) /\ pc' = "done"
  BY DEF IInv, Merge, Loop
<1>i. /\ stored' = stored /\ inserted' = inserted /\ deleted' = deleted
      /\ query' = query /\ inserts' = inserts
      /\ cursor' = cursor /\ presentKeys' = presentKeys /\ offset' = offset
  BY SameInput DEF Merge
<1>l. InOrder /\ Walk /\ Looked /\ Gathered /\ Splits(keys, inserts, offset)
  BY <1>0 DEF Loop
<1>t. keys \in Seq(Path) /\ offset \in Nat /\ Ascending(keys)
  BY <1>0, <1>l DEF Typed, InOrder
<1>1. Input(stored, query, inserted)
  BY <1>0, InputFacts
<1>2. PICK all : all = keys \o Sorted(Rest(keys, inserts, offset))
  OBVIOUS
<1>3. keys' = IF query.limit > 0 /\ query.limit < Len(all)
              THEN SubSeq(all, 1, query.limit) ELSE all
  BY <1>2 DEF Merge, Rest
<1>4. inserts \in Seq(Path) /\ inserts = Sorted(Inserts(query, inserted))
  BY <1>0, InsertsIs
<1>5. Leads(ToSet(presentKeys), Yielding(stored, query, deleted))
  BY <1>0, <1>l, VisitedFirst
<1>6. Suffices(Yielding(stored, query, deleted), ToSet(presentKeys), keys, query.limit)
  BY <1>0, <1>l, EndReached DEF HasEnough, Suffices
<1>7. Holds(stored, query, inserted, deleted, ToSet(presentKeys), keys, inserts, offset)
  BY <1>l, <1>t DEF Gathered, Holds
<1>8. keys' = Sorted(ListPage(stored, query, inserted, deleted))
  <2>1. Cuts(all, stored, query, inserted, deleted)
    BY ONLY <1>1, <1>2, <1>4, <1>5, <1>6, <1>7, <1>t, MergeIsPage
  <2> QED BY ONLY <1>3, <2>1 DEF Cuts
<1>9. presentKeys = Sorted(PresentKeys(stored, query, inserted, deleted))
  BY <1>0, <1>l, VisitedArePresent
<1>10. keys' \in Seq(Path)
  <2>1. /\ Whole(stored, query, inserted, deleted) \in SUBSET Path
        /\ IsFiniteSet(Whole(stored, query, inserted, deleted))
    BY ONLY <1>1, CollectedFinite
  <2>2. ListPage(stored, query, inserted, deleted)
          \in SUBSET Whole(stored, query, inserted, deleted)
    BY PageOfWhole
  <2> QED BY ONLY <1>8, <2>1, <2>2, FS_Subset, SortedFacts
<1>11. Typed'
  BY <1>0, <1>10, <1>i DEF Typed
<1> QED BY <1>0, <1>8, <1>9, <1>11, <1>i DEF IInv, PageIsCorrect, PresentKeysAreCorrect

\* The invariant holds in every reachable state.
THEOREM IInvHolds == Spec => []IInv
<1>1. Init => IInv
  BY InitIInv
<1>2. IInv /\ [Next]_vars => IInv'
  <2> SUFFICES ASSUME IInv, [Next]_vars PROVE IInv'
    OBVIOUS
  <2>1. CASE Visit
    BY <2>1, VisitPreserves
  <2>2. CASE LeaveLoop
    BY <2>2, LeaveLoopPreserves
  <2>3. CASE Merge
    BY <2>3, MergePreserves
  <2>4. CASE Cancel
    <3>1. <<>> \in Seq(Path)
      OBVIOUS
    <3>2. Typed'
      BY <2>4, <3>1, SameInput DEF IInv, Typed, Cancel
    <3>3. pc' = "cancelled"
      BY <2>4 DEF Cancel
    <3> QED BY <3>2, <3>3 DEF IInv, PageIsCorrect, PresentKeysAreCorrect
  <2>5. CASE UNCHANGED vars
    <3>1. /\ stored' = stored /\ inserted' = inserted /\ deleted' = deleted
          /\ query' = query /\ inserts' = inserts /\ pc' = pc
          /\ cursor' = cursor /\ keys' = keys /\ presentKeys' = presentKeys
          /\ offset' = offset
      BY <2>5, SameInput DEF vars
    <3>2. Typed'
      BY <3>1 DEF IInv, Typed
    <3>3. (pc \in {"loop", "merge"} => Loop)'
      BY <3>1 DEF IInv, Loop, InOrder, Walk, Looked, Gathered, HasEnough, AtEnd
    <3>4. PageIsCorrect' /\ PresentKeysAreCorrect'
      BY <3>1 DEF IInv, PageIsCorrect, PresentKeysAreCorrect
    <3> QED BY <3>2, <3>3, <3>4 DEF IInv
  <2> QED BY <2>1, <2>2, <2>3, <2>4, <2>5 DEF Next
<1> QED BY <1>1, <1>2, PTL DEF Spec

\* PageIsCorrect: the page that Lister.ListPage returns is the one that the
\* snapshot and the transaction's writes define, for every input.
THEOREM PageIsAlwaysCorrect == Spec => []PageIsCorrect
BY IInvHolds, PTL DEF IInv

\* PresentKeysAreCorrect: the keys that ListPage reports to the conflict check
\* are those of the snapshot that decided the page.
THEOREM PresentKeysAreAlwaysCorrect == Spec => []PresentKeysAreCorrect
BY IInvHolds, PTL DEF IInv

\* A page without a limit is the whole.
LEMMA NoLimit ==
  ASSUME NEW st \in SUBSET Path, NEW ins \in SUBSET Path, NEW del, NEW q,
         q.prefix \in Path, q.after \in Path, q.limit = 0
  PROVE  ListPage(st, q, ins, del) =
           AfterPoint(Shows(q.prefix, Current(st, ins, del)), q.after)
<1>1. ListPage(st, q, ins, del) = Whole(st, q, ins, del)
  BY DEF ListPage, Whole
<1> QED BY <1>1, WholeFacts

\* The page ends where the next begins.
LEMMA PageThenRest ==
  ASSUME IInv, pc = "done", keys # <<>>
  PROVE  LET whole == ListPage(stored, [query EXCEPT !.limit = 0], inserted, deleted)
             rest  == ListPage(stored, [query EXCEPT !.after = Last(keys), !.limit = 0],
                               inserted, deleted)
         IN  /\ ToSet(keys) \cup rest = whole
             /\ ToSet(keys) \cap rest = {}
<1>0. Typed /\ keys = Sorted(ListPage(stored, query, inserted, deleted))
  BY DEF IInv, PageIsCorrect
<1>1. /\ Input(stored, query, inserted)
      /\ query.prefix \in Path /\ query.after \in Path /\ query.limit \in Nat
      /\ query \in [prefix : Seq(Nat), after : Seq(Nat), limit : Nat]
  BY <1>0, InputFacts, ListerAssumption DEF Typed
<1>2. stored \in SUBSET Path /\ inserted \in SUBSET Path
  BY <1>1 DEF Input
<1>3. PICK W, P, S, last :
        /\ W = Whole(stored, query, inserted, deleted)
        /\ P = ListPage(stored, query, inserted, deleted)
        /\ S = Shows(query.prefix, Current(stored, inserted, deleted))
        /\ last = Last(keys)
  OBVIOUS
<1>4. /\ W \in SUBSET Path /\ IsFiniteSet(W) /\ <<>> \notin W
      /\ W = AfterPoint(S, query.after)
  <2>1. W \in SUBSET Path /\ IsFiniteSet(W) /\ <<>> \notin W
    BY <1>1, <1>3, WholeFinite DEF Input
  <2> QED BY <1>1, <1>2, <1>3, <2>1, WholeFacts
<1>5. P = {e \in W : query.limit = 0 \/ Cardinality(Below(W, e)) < query.limit}
  BY <1>3, PageOfWhole DEF Below
<1>6. keys \in Seq(Path) /\ Ascending(keys) /\ ToSet(keys) = P
  <2>1. P \in SUBSET W
    BY <1>5
  <2>2. P \in SUBSET Path /\ IsFiniteSet(P)
    BY <1>4, <2>1, FS_Subset
  <2> QED BY <1>0, <1>3, <2>2, SortedFacts
<1>7. /\ last \in P /\ last \in W /\ last \in Path /\ last # <<>>
      /\ \A x \in P : x = last \/ PathLess(x, last)
  <2>1. last \in P /\ \A x \in P : x = last \/ PathLess(x, last)
    BY <1>3, <1>6, LastFacts
  <2> QED BY <1>4, <1>5, <2>1
<1>8. ListPage(stored, [query EXCEPT !.limit = 0], inserted, deleted) = W
  <2>1. PICK q0 : q0 = [query EXCEPT !.limit = 0]
    OBVIOUS
  <2>2. q0.prefix = query.prefix /\ q0.after = query.after /\ q0.limit = 0
    BY <1>1, <2>1
  <2>3. ListPage(stored, q0, inserted, deleted) =
          AfterPoint(Shows(q0.prefix, Current(stored, inserted, deleted)), q0.after)
    BY <1>1, <1>2, <2>2, NoLimit
  <2> QED BY ONLY <1>3, <1>4, <2>1, <2>2, <2>3
<1>9. ListPage(stored, [query EXCEPT !.after = Last(keys), !.limit = 0], inserted, deleted)
        = {e \in S : PathLess(last, e)}
  <2>1. PICK q2 : q2 = [query EXCEPT !.after = Last(keys), !.limit = 0]
    OBVIOUS
  <2>2. q2.prefix = query.prefix /\ q2.after = last /\ q2.limit = 0
    BY <1>1, <1>3, <2>1
  <2>3. q2.prefix \in Path /\ q2.after \in Path
    BY <1>1, <1>7, <2>2
  <2>4. ListPage(stored, q2, inserted, deleted) =
          AfterPoint(Shows(q2.prefix, Current(stored, inserted, deleted)), q2.after)
    BY <1>2, <2>2, <2>3, NoLimit
  <2> QED BY ONLY <1>3, <1>7, <2>1, <2>2, <2>4 DEF AfterPoint
<1>10. ASSUME NEW e \in S, PathLess(last, e) PROVE e \in W /\ e \notin P
  <2>1. e \in W
    <3>1. query.after = <<>> \/ PathLess(query.after, last)
      BY <1>4, <1>7 DEF AfterPoint
    <3>2. e \in Path
      <4>1. /\ IsFiniteSet(stored) /\ IsFiniteSet(inserted)
        BY <1>1 DEF Input
      <4>2. /\ Current(stored, inserted, deleted) \in SUBSET (stored \cup inserted)
            /\ Current(stored, inserted, deleted) \in SUBSET Path
        BY <1>2 DEF Current
      <4>3. IsFiniteSet(stored \cup inserted)
        BY <4>1, FS_Union
      <4>4. PICK X : X = Current(stored, inserted, deleted)
        OBVIOUS
      <4>5. X \in SUBSET Path /\ IsFiniteSet(X)
        BY <1>2, <4>2, <4>3, <4>4, FS_Subset
      <4> QED BY <1>1, <1>3, <4>4, <4>5, ShowsFacts
    <3> QED BY <1>1, <1>4, <1>7, <1>10, <3>1, <3>2, PathTransitive DEF AfterPoint
  <2>2. e \notin P
    <3> SUFFICES ASSUME e \in P PROVE FALSE
      OBVIOUS
    <3>1. e \in Path
      BY <1>4, <2>1
    <3>2. e = last \/ PathLess(e, last)
      BY <1>7
    <3> QED BY <1>7, <1>10, <3>1, <3>2, PathTransitive, PathIrreflexive
  <2> QED BY <2>1, <2>2
<1>11. ASSUME NEW e \in W, ~PathLess(last, e) PROVE e \in P
  <2>1. e \in Path /\ (e = last \/ PathLess(e, last))
    BY <1>4, <1>7, <1>11, PathTotal
  <2>2. CASE e = last
    BY <1>7, <2>2
  <2>3. CASE PathLess(e, last)
    <3>1. /\ Cardinality(Below(W, e)) < Cardinality(Below(W, last))
          /\ Cardinality(Below(W, e)) \in Nat /\ Cardinality(Below(W, last)) \in Nat
      BY <1>4, <1>7, <2>3, BelowFacts
    <3>2. query.limit = 0 \/ Cardinality(Below(W, last)) < query.limit
      BY <1>5, <1>7
    <3>3. query.limit = 0 \/ Cardinality(Below(W, e)) < query.limit
      BY ONLY <1>1, <3>1, <3>2
    <3> QED BY <1>5, <3>3
  <2> QED BY <2>1, <2>2, <2>3
<1>12. P \cup {e \in S : PathLess(last, e)} = W
  BY ONLY <1>4, <1>5, <1>10, <1>11 DEF AfterPoint
<1>13. P \cap {e \in S : PathLess(last, e)} = {}
  BY ONLY <1>10
<1> QED BY ONLY <1>6, <1>8, <1>9, <1>12, <1>13

\* PagesCompose: a caller that continues after the last entry of a page gets
\* exactly the entries that the page did not have, for every input.
THEOREM PagesAlwaysCompose == Spec => []PagesCompose
<1>1. IInv => PagesCompose
  BY PageThenRest DEF PagesCompose
<1> QED BY <1>1, IInvHolds, PTL
=============================================================================
