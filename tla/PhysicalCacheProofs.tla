------------------------- MODULE PhysicalCacheProofs -------------------------
(***************************************************************************)
(* The cache keeps its contract, for any keys, locks, clients and size.    *)
(***************************************************************************)
EXTENDS PhysicalCache, TLAPS

USE CacheAssumption DEF CacheAssumption

Inside == {"read", "fill", "put", "delete"}

(* Inside a cached operation there is a key that may be cached, and "fill" *)
(* and "put" have an entry in their hands.                                 *)
KeyInHand ==
  /\ \A p \in Proc : pc[p] \in Inside => key[p] \in Key /\ ShouldCache(key[p])
  /\ \A p \in Proc : pc[p] \in {"fill", "put"} => val[p] \in Value
  /\ \A p \in Proc : val[p] \in Value => key[p] \in Key
  /\ \A p \in Proc : pc[p] \in {"read", "inval", "purge"} => val[p] = NoEntry

(* The holder of a write lock is alone with the keys of that lock.         *)
LocksExclude ==
  \A p, q \in Proc :
    p # q /\ pc[p] \in {"put", "delete"} /\ pc[q] \in Inside
      => LockOf[key[p]] # LockOf[key[q]]

(* Nothing is cached for a key that is not to be cached.                   *)
NeverCached == \A k \in Key : ~ShouldCache(k) => lru[k] = NoEntry

(* Put adds the entry of the storage, unless another writer of the key is  *)
(* waiting for the lock.                                                   *)
PutIsCurrent ==
  \A p \in Proc :
    pc[p] = "put" /\ key[p] \notin doubt
                  /\ (\A q \in Proc \ {p} : key[p] \notin Owed(q))
      => val[p] = store[key[p]]

(* Every key that a commit will change in the storage and that the parent  *)
(* may have cached is on the list of keys to invalidate.                   *)
WritesAreListed ==
  \A p \in Proc :
    pc[p] = "tx" =>
      \A k \in tx[p].written : ShouldCache(k) => k \in tx[p].modified

IInv ==
  /\ TypeOK
  /\ KeyInHand
  /\ LocksExclude
  /\ NeverCached
  /\ PutIsCurrent
  /\ WritesAreListed

-----------------------------------------------------------------------------
(* What TwoQueueCache.Add leaves behind: the new entry, and of the others  *)
(* what was there or nothing.                                              *)
LEMMA LruAddResult ==
  ASSUME NEW c \in [Key -> Entry], NEW k \in Key, NEW v \in Entry,
         NEW d \in LruAdd(c, k, v)
  PROVE  /\ d \in [Key -> Entry]
         /\ d[k] = v
         /\ \A j \in Key \ {k} : d[j] \in {c[j], NoEntry}
BY DEF LruAdd, Entry

(* Nobody is inside an operation on a key whose lock is free.              *)
LEMMA LockIsFree ==
  ASSUME NEW l, MayLock(l), NEW q \in Proc, pc[q] \in Inside
  PROVE  LockOf[key[q]] # l
BY DEF MayLock, HoldsRead, HoldsWrite, Inside

(* The invariant holds at the start. *)
LEMMA InitIInv == Init => IInv
<1> SUFFICES ASSUME Init PROVE IInv
  OBVIOUS
<1>1. TypeOK
  <2>1. NoTx \in TxRecord
    BY DEF NoTx, TxRecord, Empty, Entry
  <2>2. enabled \in BOOLEAN
    BY Zenon DEF Init
  <2>3. changes \in 0 .. MaxChanges
    BY DEF Init
  <2> QED BY <2>1, <2>2, <2>3 DEF Init, TypeOK, TxRecord, Empty, Entry, States
<1>2. KeyInHand /\ LocksExclude /\ NeverCached /\ PutIsCurrent /\ WritesAreListed
  BY DEF Init, KeyInHand, LocksExclude, NeverCached, PutIsCurrent,
         WritesAreListed, Inside, ShouldCache, Empty
<1> QED BY <1>1, <1>2 DEF IInv

(* The record of no transaction is a transaction record. *)
LEMMA NoTxType == NoTx \in TxRecord
BY DEF NoTx, TxRecord, Empty, Entry

(* GetBypass keeps the invariant. *)
LEMMA GetBypassKeeps ==
  ASSUME IInv, NEW p \in Proc, NEW k \in Key,
         GetBypass(p, k)
  PROVE  IInv'
<1> USE DEF IInv, GetBypass, Hold
<1>1. TypeOK'
  BY LruAddResult, NoTxType DEF TypeOK, KeyInHand, Inside, States, Entry, TxRecord, Empty
<1>2. KeyInHand'
  BY <1>1, LruAddResult DEF TypeOK, KeyInHand, Inside, States, Entry, ShouldCache
<1>3. LocksExclude'
  BY <1>1, LockIsFree
     DEF TypeOK, KeyInHand, LocksExclude, MayRLock, HoldsWrite, Inside, States
<1>4. NeverCached'
  BY <1>1, LruAddResult
     DEF TypeOK, KeyInHand, NeverCached, ShouldCache, Inside, Entry, Empty
<1>5. WritesAreListed'
  BY <1>1, LruAddResult DEF TypeOK, WritesAreListed, ShouldCache, TxRecord, NoTx
<1>6. PutIsCurrent'
  <2> SUFFICES ASSUME NEW q \in Proc, pc'[q] = "put", key'[q] \notin doubt',
                      \A r \in Proc \ {q} : key'[q] \notin Owed(r)'
               PROVE  val'[q] = store'[key'[q]]
    BY DEF PutIsCurrent
  <2>1. \A r \in Proc \ {p} : Owed(r)' = Owed(r)
    BY DEF TypeOK, Owed
  <2>2. CASE q = p
    BY <2>2 DEF TypeOK, KeyInHand, Inside
  <2>3. CASE q # p
    <3>1. pc[q] = "put" /\ key'[q] = key[q] /\ val'[q] = val[q] /\ key[q] \in Key
      BY <2>3 DEF TypeOK, KeyInHand, Inside
    <3>2. key[q] \notin Owed(p) /\ key[q] \notin doubt
      BY <2>3, <3>1, LockIsFree DEF TypeOK, KeyInHand, LocksExclude, Inside, Owed
    <3>3. store'[key[q]] = store[key[q]]
      BY <2>3, <3>1, LockIsFree
         DEF TypeOK, KeyInHand, LocksExclude, Inside, Owed, WritesAreListed
    <3> QED BY <2>1, <2>3, <3>1, <3>2, <3>3 DEF PutIsCurrent
  <2> QED BY <2>2, <2>3
<1> QED BY <1>1, <1>2, <1>3, <1>4, <1>5, <1>6

(* GetHit keeps the invariant. *)
LEMMA GetHitKeeps ==
  ASSUME IInv, NEW p \in Proc, NEW k \in Key,
         GetHit(p, k)
  PROVE  IInv'
<1> USE DEF IInv, GetHit, Hold
<1>1. TypeOK'
  BY LruAddResult, NoTxType DEF TypeOK, KeyInHand, Inside, States, Entry, TxRecord, Empty
<1>2. KeyInHand'
  BY <1>1, LruAddResult DEF TypeOK, KeyInHand, Inside, States, Entry, ShouldCache
<1>3. LocksExclude'
  BY <1>1, LockIsFree
     DEF TypeOK, KeyInHand, LocksExclude, MayRLock, HoldsWrite, Inside, States
<1>4. NeverCached'
  BY <1>1, LruAddResult
     DEF TypeOK, KeyInHand, NeverCached, ShouldCache, Inside, Entry, Empty
<1>5. WritesAreListed'
  BY <1>1, LruAddResult DEF TypeOK, WritesAreListed, ShouldCache, TxRecord, NoTx
<1>6. PutIsCurrent'
  <2> SUFFICES ASSUME NEW q \in Proc, pc'[q] = "put", key'[q] \notin doubt',
                      \A r \in Proc \ {q} : key'[q] \notin Owed(r)'
               PROVE  val'[q] = store'[key'[q]]
    BY DEF PutIsCurrent
  <2>1. \A r \in Proc \ {p} : Owed(r)' = Owed(r)
    BY DEF TypeOK, Owed
  <2>2. CASE q = p
    BY <2>2 DEF TypeOK, KeyInHand, Inside
  <2>3. CASE q # p
    <3>1. pc[q] = "put" /\ key'[q] = key[q] /\ val'[q] = val[q] /\ key[q] \in Key
      BY <2>3 DEF TypeOK, KeyInHand, Inside
    <3>2. key[q] \notin Owed(p) /\ key[q] \notin doubt
      BY <2>3, <3>1, LockIsFree DEF TypeOK, KeyInHand, LocksExclude, Inside, Owed
    <3>3. store'[key[q]] = store[key[q]]
      BY <2>3, <3>1, LockIsFree
         DEF TypeOK, KeyInHand, LocksExclude, Inside, Owed, WritesAreListed
    <3> QED BY <2>1, <2>3, <3>1, <3>2, <3>3 DEF PutIsCurrent
  <2> QED BY <2>2, <2>3
<1> QED BY <1>1, <1>2, <1>3, <1>4, <1>5, <1>6

(* GetMiss keeps the invariant. *)
LEMMA GetMissKeeps ==
  ASSUME IInv, NEW p \in Proc, NEW k \in Key, NEW refresh \in BOOLEAN,
         GetMiss(p, k, refresh)
  PROVE  IInv'
<1> USE DEF IInv, GetMiss, Hold, Go
<1>1. TypeOK'
  BY LruAddResult, NoTxType DEF TypeOK, KeyInHand, Inside, States, Entry, TxRecord, Empty
<1>2. KeyInHand'
  BY <1>1, LruAddResult DEF TypeOK, KeyInHand, Inside, States, Entry, ShouldCache
<1>3. LocksExclude'
  BY <1>1, LockIsFree
     DEF TypeOK, KeyInHand, LocksExclude, MayRLock, HoldsWrite, Inside, States
<1>4. NeverCached'
  BY <1>1, LruAddResult
     DEF TypeOK, KeyInHand, NeverCached, ShouldCache, Inside, Entry, Empty
<1>5. WritesAreListed'
  BY <1>1, LruAddResult DEF TypeOK, WritesAreListed, ShouldCache, TxRecord, NoTx
<1>6. PutIsCurrent'
  <2> SUFFICES ASSUME NEW q \in Proc, pc'[q] = "put", key'[q] \notin doubt',
                      \A r \in Proc \ {q} : key'[q] \notin Owed(r)'
               PROVE  val'[q] = store'[key'[q]]
    BY DEF PutIsCurrent
  <2>1. \A r \in Proc \ {p} : Owed(r)' = Owed(r)
    BY DEF TypeOK, Owed
  <2>2. CASE q = p
    BY <2>2 DEF TypeOK, KeyInHand, Inside
  <2>3. CASE q # p
    <3>1. pc[q] = "put" /\ key'[q] = key[q] /\ val'[q] = val[q] /\ key[q] \in Key
      BY <2>3 DEF TypeOK, KeyInHand, Inside
    <3>2. key[q] \notin Owed(p) /\ key[q] \notin doubt
      BY <2>3, <3>1, LockIsFree DEF TypeOK, KeyInHand, LocksExclude, Inside, Owed
    <3>3. store'[key[q]] = store[key[q]]
      BY <2>3, <3>1, LockIsFree
         DEF TypeOK, KeyInHand, LocksExclude, Inside, Owed, WritesAreListed
    <3> QED BY <2>1, <2>3, <3>1, <3>2, <3>3 DEF PutIsCurrent
  <2> QED BY <2>2, <2>3
<1> QED BY <1>1, <1>2, <1>3, <1>4, <1>5, <1>6

(* GetBackend keeps the invariant. *)
LEMMA GetBackendKeeps ==
  ASSUME IInv, NEW p \in Proc,
         GetBackend(p)
  PROVE  IInv'
<1> USE DEF IInv, GetBackend, Hold, Go
<1>1. TypeOK'
  BY LruAddResult, NoTxType DEF TypeOK, KeyInHand, Inside, States, Entry, TxRecord, Empty
<1>2. KeyInHand'
  BY <1>1, LruAddResult DEF TypeOK, KeyInHand, Inside, States, Entry, ShouldCache
<1>3. LocksExclude'
  BY <1>1, LockIsFree
     DEF TypeOK, KeyInHand, LocksExclude, MayRLock, HoldsWrite, Inside, States
<1>4. NeverCached'
  BY <1>1, LruAddResult
     DEF TypeOK, KeyInHand, NeverCached, ShouldCache, Inside, Entry, Empty
<1>5. WritesAreListed'
  BY <1>1, LruAddResult DEF TypeOK, WritesAreListed, ShouldCache, TxRecord, NoTx
<1>6. PutIsCurrent'
  <2> SUFFICES ASSUME NEW q \in Proc, pc'[q] = "put", key'[q] \notin doubt',
                      \A r \in Proc \ {q} : key'[q] \notin Owed(r)'
               PROVE  val'[q] = store'[key'[q]]
    BY DEF PutIsCurrent
  <2>1. \A r \in Proc \ {p} : Owed(r)' = Owed(r)
    BY DEF TypeOK, Owed
  <2>2. CASE q = p
    BY <2>2 DEF TypeOK, KeyInHand, Inside
  <2>3. CASE q # p
    <3>1. pc[q] = "put" /\ key'[q] = key[q] /\ val'[q] = val[q] /\ key[q] \in Key
      BY <2>3 DEF TypeOK, KeyInHand, Inside
    <3>2. key[q] \notin Owed(p) /\ key[q] \notin doubt
      BY <2>3, <3>1, LockIsFree DEF TypeOK, KeyInHand, LocksExclude, Inside, Owed
    <3>3. store'[key[q]] = store[key[q]]
      BY <2>3, <3>1, LockIsFree
         DEF TypeOK, KeyInHand, LocksExclude, Inside, Owed, WritesAreListed
    <3> QED BY <2>1, <2>3, <3>1, <3>2, <3>3 DEF PutIsCurrent
  <2> QED BY <2>2, <2>3
<1> QED BY <1>1, <1>2, <1>3, <1>4, <1>5, <1>6

(* GetError keeps the invariant. *)
LEMMA GetErrorKeeps ==
  ASSUME IInv, NEW p \in Proc,
         GetError(p)
  PROVE  IInv'
<1> USE DEF IInv, GetError, Hold, Go, Release
<1>1. TypeOK'
  BY LruAddResult, NoTxType DEF TypeOK, KeyInHand, Inside, States, Entry, TxRecord, Empty
<1>2. KeyInHand'
  BY <1>1, LruAddResult DEF TypeOK, KeyInHand, Inside, States, Entry, ShouldCache
<1>3. LocksExclude'
  BY <1>1, LockIsFree
     DEF TypeOK, KeyInHand, LocksExclude, MayRLock, HoldsWrite, Inside, States
<1>4. NeverCached'
  BY <1>1, LruAddResult
     DEF TypeOK, KeyInHand, NeverCached, ShouldCache, Inside, Entry, Empty
<1>5. WritesAreListed'
  BY <1>1, LruAddResult DEF TypeOK, WritesAreListed, ShouldCache, TxRecord, NoTx
<1>6. PutIsCurrent'
  <2> SUFFICES ASSUME NEW q \in Proc, pc'[q] = "put", key'[q] \notin doubt',
                      \A r \in Proc \ {q} : key'[q] \notin Owed(r)'
               PROVE  val'[q] = store'[key'[q]]
    BY DEF PutIsCurrent
  <2>1. \A r \in Proc \ {p} : Owed(r)' = Owed(r)
    BY DEF TypeOK, Owed
  <2>2. CASE q = p
    BY <2>2 DEF TypeOK, KeyInHand, Inside
  <2>3. CASE q # p
    <3>1. pc[q] = "put" /\ key'[q] = key[q] /\ val'[q] = val[q] /\ key[q] \in Key
      BY <2>3 DEF TypeOK, KeyInHand, Inside
    <3>2. key[q] \notin Owed(p) /\ key[q] \notin doubt
      BY <2>3, <3>1, LockIsFree DEF TypeOK, KeyInHand, LocksExclude, Inside, Owed
    <3>3. store'[key[q]] = store[key[q]]
      BY <2>3, <3>1, LockIsFree
         DEF TypeOK, KeyInHand, LocksExclude, Inside, Owed, WritesAreListed
    <3> QED BY <2>1, <2>3, <3>1, <3>2, <3>3 DEF PutIsCurrent
  <2> QED BY <2>2, <2>3
<1> QED BY <1>1, <1>2, <1>3, <1>4, <1>5, <1>6

(* GetFill keeps the invariant. *)
LEMMA GetFillKeeps ==
  ASSUME IInv, NEW p \in Proc,
         GetFill(p)
  PROVE  IInv'
<1> USE DEF IInv, GetFill, Go
<1>1. TypeOK'
  BY LruAddResult, NoTxType DEF TypeOK, KeyInHand, Inside, States, Entry, TxRecord, Empty
<1>2. KeyInHand'
  BY <1>1, LruAddResult DEF TypeOK, KeyInHand, Inside, States, Entry, ShouldCache
<1>3. LocksExclude'
  BY <1>1, LockIsFree
     DEF TypeOK, KeyInHand, LocksExclude, MayRLock, HoldsWrite, Inside, States
<1>4. NeverCached'
  BY <1>1, LruAddResult
     DEF TypeOK, KeyInHand, NeverCached, ShouldCache, Inside, Entry, Empty
<1>5. WritesAreListed'
  BY <1>1, LruAddResult DEF TypeOK, WritesAreListed, ShouldCache, TxRecord, NoTx
<1>6. PutIsCurrent'
  <2> SUFFICES ASSUME NEW q \in Proc, pc'[q] = "put", key'[q] \notin doubt',
                      \A r \in Proc \ {q} : key'[q] \notin Owed(r)'
               PROVE  val'[q] = store'[key'[q]]
    BY DEF PutIsCurrent
  <2>1. \A r \in Proc \ {p} : Owed(r)' = Owed(r)
    BY DEF TypeOK, Owed
  <2>2. CASE q = p
    BY <2>2 DEF TypeOK, KeyInHand, Inside
  <2>3. CASE q # p
    <3>1. pc[q] = "put" /\ key'[q] = key[q] /\ val'[q] = val[q] /\ key[q] \in Key
      BY <2>3 DEF TypeOK, KeyInHand, Inside
    <3>2. key[q] \notin Owed(p) /\ key[q] \notin doubt
      BY <2>3, <3>1, LockIsFree DEF TypeOK, KeyInHand, LocksExclude, Inside, Owed
    <3>3. store'[key[q]] = store[key[q]]
      BY <2>3, <3>1, LockIsFree
         DEF TypeOK, KeyInHand, LocksExclude, Inside, Owed, WritesAreListed
    <3> QED BY <2>1, <2>3, <3>1, <3>2, <3>3 DEF PutIsCurrent
  <2> QED BY <2>2, <2>3
<1> QED BY <1>1, <1>2, <1>3, <1>4, <1>5, <1>6

(* WriteBypass keeps the invariant. *)
LEMMA WriteBypassKeeps ==
  ASSUME IInv, NEW p \in Proc, NEW k \in Key, NEW v \in Value,
         WriteBypass(p, k, v)
  PROVE  IInv'
<1> USE DEF IInv, WriteBypass, Hold, Release
<1>1. TypeOK'
  BY LruAddResult, NoTxType DEF TypeOK, KeyInHand, Inside, States, Entry, TxRecord, Empty
<1>2. KeyInHand'
  BY <1>1, LruAddResult DEF TypeOK, KeyInHand, Inside, States, Entry, ShouldCache
<1>3. LocksExclude'
  BY <1>1, LockIsFree
     DEF TypeOK, KeyInHand, LocksExclude, MayRLock, HoldsWrite, Inside, States
<1>4. NeverCached'
  BY <1>1, LruAddResult
     DEF TypeOK, KeyInHand, NeverCached, ShouldCache, Inside, Entry, Empty
<1>5. WritesAreListed'
  BY <1>1, LruAddResult DEF TypeOK, WritesAreListed, ShouldCache, TxRecord, NoTx
<1>6. PutIsCurrent'
  <2> SUFFICES ASSUME NEW q \in Proc, pc'[q] = "put", key'[q] \notin doubt',
                      \A r \in Proc \ {q} : key'[q] \notin Owed(r)'
               PROVE  val'[q] = store'[key'[q]]
    BY DEF PutIsCurrent
  <2>1. \A r \in Proc \ {p} : Owed(r)' = Owed(r)
    BY DEF TypeOK, Owed
  <2>2. CASE q = p
    BY <2>2 DEF TypeOK, KeyInHand, Inside
  <2>3. CASE q # p
    <3>1. pc[q] = "put" /\ key'[q] = key[q] /\ val'[q] = val[q] /\ key[q] \in Key
      BY <2>3 DEF TypeOK, KeyInHand, Inside
    <3>2. key[q] \notin Owed(p) /\ key[q] \notin doubt
      BY <2>3, <3>1, LockIsFree DEF TypeOK, KeyInHand, LocksExclude, Inside, Owed
    <3>3. store'[key[q]] = store[key[q]]
      BY <2>3, <3>1, LockIsFree
         DEF TypeOK, KeyInHand, LocksExclude, Inside, Owed, WritesAreListed
    <3> QED BY <2>1, <2>3, <3>1, <3>2, <3>3 DEF PutIsCurrent
  <2> QED BY <2>2, <2>3
<1> QED BY <1>1, <1>2, <1>3, <1>4, <1>5, <1>6

(* PutStore keeps the invariant. *)
LEMMA PutStoreKeeps ==
  ASSUME IInv, NEW p \in Proc, NEW k \in Key, NEW v \in Value,
         PutStore(p, k, v)
  PROVE  IInv'
<1> USE DEF IInv, PutStore, WriteStore, Hold, Go
<1>1. TypeOK'
  BY LruAddResult, NoTxType DEF TypeOK, KeyInHand, Inside, States, Entry, TxRecord, Empty
<1>2. KeyInHand'
  BY <1>1, LruAddResult DEF TypeOK, KeyInHand, Inside, States, Entry, ShouldCache
<1>3. LocksExclude'
  BY <1>1, LockIsFree
     DEF TypeOK, KeyInHand, LocksExclude, MayRLock, HoldsWrite, Inside, States
<1>4. NeverCached'
  BY <1>1, LruAddResult
     DEF TypeOK, KeyInHand, NeverCached, ShouldCache, Inside, Entry, Empty
<1>5. WritesAreListed'
  BY <1>1, LruAddResult DEF TypeOK, WritesAreListed, ShouldCache, TxRecord, NoTx
<1>6. PutIsCurrent'
  <2> SUFFICES ASSUME NEW q \in Proc, pc'[q] = "put", key'[q] \notin doubt',
                      \A r \in Proc \ {q} : key'[q] \notin Owed(r)'
               PROVE  val'[q] = store'[key'[q]]
    BY DEF PutIsCurrent
  <2>1. \A r \in Proc \ {p} : Owed(r)' = Owed(r)
    BY DEF TypeOK, Owed
  <2>2. CASE q = p
    BY <2>2 DEF TypeOK, KeyInHand, Inside
  <2>3. CASE q # p
    <3>1. pc[q] = "put" /\ key'[q] = key[q] /\ val'[q] = val[q] /\ key[q] \in Key
      BY <2>3 DEF TypeOK, KeyInHand, Inside
    <3>2. key[q] \notin Owed(p) /\ key[q] \notin doubt
      BY <2>3, <3>1, LockIsFree DEF TypeOK, KeyInHand, LocksExclude, Inside, Owed
    <3>3. store'[key[q]] = store[key[q]]
      BY <2>3, <3>1, LockIsFree
         DEF TypeOK, KeyInHand, LocksExclude, Inside, Owed, WritesAreListed
    <3> QED BY <2>1, <2>3, <3>1, <3>2, <3>3 DEF PutIsCurrent
  <2> QED BY <2>2, <2>3
<1> QED BY <1>1, <1>2, <1>3, <1>4, <1>5, <1>6

(* WriteFails keeps the invariant. *)
LEMMA WriteFailsKeeps ==
  ASSUME IInv, NEW p \in Proc, NEW k \in Key, NEW v \in Value,
         WriteFails(p, k, v)
  PROVE  IInv'
<1> USE DEF IInv, WriteFails, Hold, Release
<1>1. TypeOK'
  BY LruAddResult, NoTxType DEF TypeOK, KeyInHand, Inside, States, Entry, TxRecord, Empty
<1>2. KeyInHand'
  BY <1>1, LruAddResult DEF TypeOK, KeyInHand, Inside, States, Entry, ShouldCache
<1>3. LocksExclude'
  BY <1>1, LockIsFree
     DEF TypeOK, KeyInHand, LocksExclude, MayRLock, HoldsWrite, Inside, States
<1>4. NeverCached'
  BY <1>1, LruAddResult
     DEF TypeOK, KeyInHand, NeverCached, ShouldCache, Inside, Entry, Empty
<1>5. WritesAreListed'
  BY <1>1, LruAddResult DEF TypeOK, WritesAreListed, ShouldCache, TxRecord, NoTx
<1>6. PutIsCurrent'
  <2> SUFFICES ASSUME NEW q \in Proc, pc'[q] = "put", key'[q] \notin doubt',
                      \A r \in Proc \ {q} : key'[q] \notin Owed(r)'
               PROVE  val'[q] = store'[key'[q]]
    BY DEF PutIsCurrent
  <2>1. \A r \in Proc \ {p} : Owed(r)' = Owed(r)
    BY DEF TypeOK, Owed
  <2>2. CASE q = p
    BY <2>2 DEF TypeOK, KeyInHand, Inside
  <2>3. CASE q # p
    <3>1. pc[q] = "put" /\ key'[q] = key[q] /\ val'[q] = val[q] /\ key[q] \in Key
      BY <2>3 DEF TypeOK, KeyInHand, Inside
    <3>2. key[q] \notin Owed(p) /\ key[q] \notin doubt
      BY <2>3, <3>1, LockIsFree DEF TypeOK, KeyInHand, LocksExclude, Inside, Owed
    <3>3. store'[key[q]] = store[key[q]]
      BY <2>3, <3>1, LockIsFree
         DEF TypeOK, KeyInHand, LocksExclude, Inside, Owed, WritesAreListed
    <3> QED BY <2>1, <2>3, <3>1, <3>2, <3>3 DEF PutIsCurrent
  <2> QED BY <2>2, <2>3
<1> QED BY <1>1, <1>2, <1>3, <1>4, <1>5, <1>6

(* PutCache keeps the invariant. *)
LEMMA PutCacheKeeps ==
  ASSUME IInv, NEW p \in Proc,
         PutCache(p)
  PROVE  IInv'
<1> USE DEF IInv, PutCache, Hold, Go, Release
<1>1. TypeOK'
  BY LruAddResult, NoTxType DEF TypeOK, KeyInHand, Inside, States, Entry, TxRecord, Empty
<1>2. KeyInHand'
  BY <1>1, LruAddResult DEF TypeOK, KeyInHand, Inside, States, Entry, ShouldCache
<1>3. LocksExclude'
  BY <1>1, LockIsFree
     DEF TypeOK, KeyInHand, LocksExclude, MayRLock, HoldsWrite, Inside, States
<1>4. NeverCached'
  BY <1>1, LruAddResult
     DEF TypeOK, KeyInHand, NeverCached, ShouldCache, Inside, Entry, Empty
<1>5. WritesAreListed'
  BY <1>1, LruAddResult DEF TypeOK, WritesAreListed, ShouldCache, TxRecord, NoTx
<1>6. PutIsCurrent'
  <2> SUFFICES ASSUME NEW q \in Proc, pc'[q] = "put", key'[q] \notin doubt',
                      \A r \in Proc \ {q} : key'[q] \notin Owed(r)'
               PROVE  val'[q] = store'[key'[q]]
    BY DEF PutIsCurrent
  <2>1. \A r \in Proc \ {p} : Owed(r)' = Owed(r)
    BY DEF TypeOK, Owed
  <2>2. CASE q = p
    BY <2>2 DEF TypeOK, KeyInHand, Inside
  <2>3. CASE q # p
    <3>1. pc[q] = "put" /\ key'[q] = key[q] /\ val'[q] = val[q] /\ key[q] \in Key
      BY <2>3 DEF TypeOK, KeyInHand, Inside
    <3>2. key[q] \notin Owed(p) /\ key[q] \notin doubt
      BY <2>3, <3>1, LockIsFree DEF TypeOK, KeyInHand, LocksExclude, Inside, Owed
    <3>3. store'[key[q]] = store[key[q]]
      BY <2>3, <3>1, LockIsFree
         DEF TypeOK, KeyInHand, LocksExclude, Inside, Owed, WritesAreListed
    <3> QED BY <2>1, <2>3, <3>1, <3>2, <3>3 DEF PutIsCurrent
  <2> QED BY <2>2, <2>3
<1> QED BY <1>1, <1>2, <1>3, <1>4, <1>5, <1>6

(* DeleteStore keeps the invariant. *)
LEMMA DeleteStoreKeeps ==
  ASSUME IInv, NEW p \in Proc, NEW k \in Key,
         DeleteStore(p, k)
  PROVE  IInv'
<1> USE DEF IInv, DeleteStore, WriteStore, Hold, Go
<1>1. TypeOK'
  BY LruAddResult, NoTxType DEF TypeOK, KeyInHand, Inside, States, Entry, TxRecord, Empty
<1>2. KeyInHand'
  BY <1>1, LruAddResult DEF TypeOK, KeyInHand, Inside, States, Entry, ShouldCache
<1>3. LocksExclude'
  BY <1>1, LockIsFree
     DEF TypeOK, KeyInHand, LocksExclude, MayRLock, HoldsWrite, Inside, States
<1>4. NeverCached'
  BY <1>1, LruAddResult
     DEF TypeOK, KeyInHand, NeverCached, ShouldCache, Inside, Entry, Empty
<1>5. WritesAreListed'
  BY <1>1, LruAddResult DEF TypeOK, WritesAreListed, ShouldCache, TxRecord, NoTx
<1>6. PutIsCurrent'
  <2> SUFFICES ASSUME NEW q \in Proc, pc'[q] = "put", key'[q] \notin doubt',
                      \A r \in Proc \ {q} : key'[q] \notin Owed(r)'
               PROVE  val'[q] = store'[key'[q]]
    BY DEF PutIsCurrent
  <2>1. \A r \in Proc \ {p} : Owed(r)' = Owed(r)
    BY DEF TypeOK, Owed
  <2>2. CASE q = p
    BY <2>2 DEF TypeOK, KeyInHand, Inside
  <2>3. CASE q # p
    <3>1. pc[q] = "put" /\ key'[q] = key[q] /\ val'[q] = val[q] /\ key[q] \in Key
      BY <2>3 DEF TypeOK, KeyInHand, Inside
    <3>2. key[q] \notin Owed(p) /\ key[q] \notin doubt
      BY <2>3, <3>1, LockIsFree DEF TypeOK, KeyInHand, LocksExclude, Inside, Owed
    <3>3. store'[key[q]] = store[key[q]]
      BY <2>3, <3>1, LockIsFree
         DEF TypeOK, KeyInHand, LocksExclude, Inside, Owed, WritesAreListed
    <3> QED BY <2>1, <2>3, <3>1, <3>2, <3>3 DEF PutIsCurrent
  <2> QED BY <2>2, <2>3
<1> QED BY <1>1, <1>2, <1>3, <1>4, <1>5, <1>6

(* DeleteCache keeps the invariant. *)
LEMMA DeleteCacheKeeps ==
  ASSUME IInv, NEW p \in Proc,
         DeleteCache(p)
  PROVE  IInv'
<1> USE DEF IInv, DeleteCache, Hold, Go, Release, LruRemove
<1>1. TypeOK'
  BY LruAddResult, NoTxType DEF TypeOK, KeyInHand, Inside, States, Entry, TxRecord, Empty
<1>2. KeyInHand'
  BY <1>1, LruAddResult DEF TypeOK, KeyInHand, Inside, States, Entry, ShouldCache
<1>3. LocksExclude'
  BY <1>1, LockIsFree
     DEF TypeOK, KeyInHand, LocksExclude, MayRLock, HoldsWrite, Inside, States
<1>4. NeverCached'
  BY <1>1, LruAddResult
     DEF TypeOK, KeyInHand, NeverCached, ShouldCache, Inside, Entry, Empty
<1>5. WritesAreListed'
  BY <1>1, LruAddResult DEF TypeOK, WritesAreListed, ShouldCache, TxRecord, NoTx
<1>6. PutIsCurrent'
  <2> SUFFICES ASSUME NEW q \in Proc, pc'[q] = "put", key'[q] \notin doubt',
                      \A r \in Proc \ {q} : key'[q] \notin Owed(r)'
               PROVE  val'[q] = store'[key'[q]]
    BY DEF PutIsCurrent
  <2>1. \A r \in Proc \ {p} : Owed(r)' = Owed(r)
    BY DEF TypeOK, Owed
  <2>2. CASE q = p
    BY <2>2 DEF TypeOK, KeyInHand, Inside
  <2>3. CASE q # p
    <3>1. pc[q] = "put" /\ key'[q] = key[q] /\ val'[q] = val[q] /\ key[q] \in Key
      BY <2>3 DEF TypeOK, KeyInHand, Inside
    <3>2. key[q] \notin Owed(p) /\ key[q] \notin doubt
      BY <2>3, <3>1, LockIsFree DEF TypeOK, KeyInHand, LocksExclude, Inside, Owed
    <3>3. store'[key[q]] = store[key[q]]
      BY <2>3, <3>1, LockIsFree
         DEF TypeOK, KeyInHand, LocksExclude, Inside, Owed, WritesAreListed
    <3> QED BY <2>1, <2>3, <3>1, <3>2, <3>3 DEF PutIsCurrent
  <2> QED BY <2>2, <2>3
<1> QED BY <1>1, <1>2, <1>3, <1>4, <1>5, <1>6

(* BeginTx keeps the invariant. *)
LEMMA BeginTxKeeps ==
  ASSUME IInv, NEW p \in Proc,
         BeginTx(p)
  PROVE  IInv'
<1> USE DEF IInv, BeginTx, Hold, Go, Release
<1>1. TypeOK'
  BY LruAddResult, NoTxType DEF TypeOK, KeyInHand, Inside, States, Entry, TxRecord, Empty
<1>2. KeyInHand'
  BY <1>1, LruAddResult DEF TypeOK, KeyInHand, Inside, States, Entry, ShouldCache
<1>3. LocksExclude'
  BY <1>1, LockIsFree
     DEF TypeOK, KeyInHand, LocksExclude, MayRLock, HoldsWrite, Inside, States
<1>4. NeverCached'
  BY <1>1, LruAddResult
     DEF TypeOK, KeyInHand, NeverCached, ShouldCache, Inside, Entry, Empty
<1>5. WritesAreListed'
  BY <1>1, LruAddResult DEF TypeOK, WritesAreListed, ShouldCache, TxRecord, NoTx
<1>6. PutIsCurrent'
  <2> SUFFICES ASSUME NEW q \in Proc, pc'[q] = "put", key'[q] \notin doubt',
                      \A r \in Proc \ {q} : key'[q] \notin Owed(r)'
               PROVE  val'[q] = store'[key'[q]]
    BY DEF PutIsCurrent
  <2>1. \A r \in Proc \ {p} : Owed(r)' = Owed(r)
    BY DEF TypeOK, Owed
  <2>2. CASE q = p
    BY <2>2 DEF TypeOK, KeyInHand, Inside
  <2>3. CASE q # p
    <3>1. pc[q] = "put" /\ key'[q] = key[q] /\ val'[q] = val[q] /\ key[q] \in Key
      BY <2>3 DEF TypeOK, KeyInHand, Inside
    <3>2. key[q] \notin Owed(p) /\ key[q] \notin doubt
      BY <2>3, <3>1, LockIsFree DEF TypeOK, KeyInHand, LocksExclude, Inside, Owed
    <3>3. store'[key[q]] = store[key[q]]
      BY <2>3, <3>1, LockIsFree
         DEF TypeOK, KeyInHand, LocksExclude, Inside, Owed, WritesAreListed
    <3> QED BY <2>1, <2>3, <3>1, <3>2, <3>3 DEF PutIsCurrent
  <2> QED BY <2>2, <2>3
<1> QED BY <1>1, <1>2, <1>3, <1>4, <1>5, <1>6

(* TxGetHit keeps the invariant. *)
LEMMA TxGetHitKeeps ==
  ASSUME IInv, NEW p \in Proc, NEW k \in Key,
         TxGetHit(p, k)
  PROVE  IInv'
<1> USE DEF IInv, TxGetHit, Hold
<1>1. TypeOK'
  BY LruAddResult, NoTxType DEF TypeOK, KeyInHand, Inside, States, Entry, TxRecord, Empty
<1>2. KeyInHand'
  BY <1>1, LruAddResult DEF TypeOK, KeyInHand, Inside, States, Entry, ShouldCache
<1>3. LocksExclude'
  BY <1>1, LockIsFree
     DEF TypeOK, KeyInHand, LocksExclude, MayRLock, HoldsWrite, Inside, States
<1>4. NeverCached'
  BY <1>1, LruAddResult
     DEF TypeOK, KeyInHand, NeverCached, ShouldCache, Inside, Entry, Empty
<1>5. WritesAreListed'
  BY <1>1, LruAddResult DEF TypeOK, WritesAreListed, ShouldCache, TxRecord, NoTx
<1>6. PutIsCurrent'
  <2> SUFFICES ASSUME NEW q \in Proc, pc'[q] = "put", key'[q] \notin doubt',
                      \A r \in Proc \ {q} : key'[q] \notin Owed(r)'
               PROVE  val'[q] = store'[key'[q]]
    BY DEF PutIsCurrent
  <2>1. \A r \in Proc \ {p} : Owed(r)' = Owed(r)
    BY DEF TypeOK, Owed
  <2>2. CASE q = p
    BY <2>2 DEF TypeOK, KeyInHand, Inside
  <2>3. CASE q # p
    <3>1. pc[q] = "put" /\ key'[q] = key[q] /\ val'[q] = val[q] /\ key[q] \in Key
      BY <2>3 DEF TypeOK, KeyInHand, Inside
    <3>2. key[q] \notin Owed(p) /\ key[q] \notin doubt
      BY <2>3, <3>1, LockIsFree DEF TypeOK, KeyInHand, LocksExclude, Inside, Owed
    <3>3. store'[key[q]] = store[key[q]]
      BY <2>3, <3>1, LockIsFree
         DEF TypeOK, KeyInHand, LocksExclude, Inside, Owed, WritesAreListed
    <3> QED BY <2>1, <2>3, <3>1, <3>2, <3>3 DEF PutIsCurrent
  <2> QED BY <2>2, <2>3
<1> QED BY <1>1, <1>2, <1>3, <1>4, <1>5, <1>6

(* TxGetMiss keeps the invariant. *)
LEMMA TxGetMissKeeps ==
  ASSUME IInv, NEW p \in Proc, NEW k \in Key,
         TxGetMiss(p, k)
  PROVE  IInv'
<1> USE DEF IInv, TxGetMiss, Hold
<1>1. TypeOK'
  <2>1. tx[p] \in TxRecord /\ tx[p].lru \in [Key -> Entry] /\ tx[p].view[k] \in Entry
    BY DEF TypeOK, TxRecord, Entry
  <2>2. PICK c \in IF ShouldCache(k) THEN LruAdd(tx[p].lru, k, tx[p].view[k]) ELSE {tx[p].lru} :
          tx' = [tx EXCEPT ![p] = [tx[p] EXCEPT !.lru = c]]
    OBVIOUS
  <2>3. c \in [Key -> Entry]
    BY <2>1, <2>2, LruAddResult DEF Entry
  <2>4. tx' \in [Proc -> TxRecord]
    BY <2>1, <2>2, <2>3 DEF TypeOK, TxRecord
  <2> QED BY <2>1, <2>4 DEF TypeOK, Entry
<1>2. KeyInHand'
  BY <1>1, LruAddResult DEF TypeOK, KeyInHand, Inside, States, Entry, ShouldCache
<1>3. LocksExclude'
  BY <1>1, LockIsFree
     DEF TypeOK, KeyInHand, LocksExclude, MayRLock, HoldsWrite, Inside, States
<1>4. NeverCached'
  BY <1>1, LruAddResult
     DEF TypeOK, KeyInHand, NeverCached, ShouldCache, Inside, Entry, Empty
<1>5. WritesAreListed'
  BY <1>1, LruAddResult DEF TypeOK, WritesAreListed, ShouldCache, TxRecord, NoTx
<1>6. PutIsCurrent'
  <2> SUFFICES ASSUME NEW q \in Proc, pc'[q] = "put", key'[q] \notin doubt',
                      \A r \in Proc \ {q} : key'[q] \notin Owed(r)'
               PROVE  val'[q] = store'[key'[q]]
    BY DEF PutIsCurrent
  <2>1. \A r \in Proc \ {p} : Owed(r)' = Owed(r)
    BY DEF TypeOK, Owed
  <2>2. CASE q = p
    BY <2>2 DEF TypeOK, KeyInHand, Inside
  <2>3. CASE q # p
    <3>1. pc[q] = "put" /\ key'[q] = key[q] /\ val'[q] = val[q] /\ key[q] \in Key
      BY <2>3 DEF TypeOK, KeyInHand, Inside
    <3>2. key[q] \notin Owed(p) /\ key[q] \notin doubt
      BY <2>3, <3>1, LockIsFree DEF TypeOK, KeyInHand, LocksExclude, Inside, Owed
    <3>3. store'[key[q]] = store[key[q]]
      BY <2>3, <3>1, LockIsFree
         DEF TypeOK, KeyInHand, LocksExclude, Inside, Owed, WritesAreListed
    <3> QED BY <2>1, <2>3, <3>1, <3>2, <3>3 DEF PutIsCurrent
  <2> QED BY <2>2, <2>3
<1> QED BY <1>1, <1>2, <1>3, <1>4, <1>5, <1>6

(* TxPut keeps the invariant. *)
LEMMA TxPutKeeps ==
  ASSUME IInv, NEW p \in Proc, NEW k \in Key, NEW v \in Value,
         TxPut(p, k, v)
  PROVE  IInv'
<1> USE DEF IInv, TxPut, TxWrite, Hold, Release
<1>1. TypeOK'
  <2>1. tx[p] \in TxRecord /\ tx[p].lru \in [Key -> Entry] /\ tx[p].view[k] \in Entry
    BY DEF TypeOK, TxRecord, Entry
  <2>2. PICK c \in IF ShouldCache(k) THEN LruAdd(tx[p].lru, k, v) ELSE {tx[p].lru} :
          tx' = [tx EXCEPT ![p] = 
               [view     |-> [tx[p].view EXCEPT ![k] = v],
                written  |-> tx[p].written \union {k},
                lru      |-> c,
                modified |-> IF ShouldCache(k) THEN tx[p].modified \union {k}
                                               ELSE tx[p].modified]]
    OBVIOUS
  <2>3. c \in [Key -> Entry]
    BY <2>1, <2>2, LruAddResult DEF Entry
  <2>4. tx' \in [Proc -> TxRecord]
    BY <2>1, <2>2, <2>3 DEF TypeOK, TxRecord
  <2> QED BY <2>1, <2>4 DEF TypeOK, Entry
<1>2. KeyInHand'
  BY <1>1, LruAddResult DEF TypeOK, KeyInHand, Inside, States, Entry, ShouldCache
<1>3. LocksExclude'
  BY <1>1, LockIsFree
     DEF TypeOK, KeyInHand, LocksExclude, MayRLock, HoldsWrite, Inside, States
<1>4. NeverCached'
  BY <1>1, LruAddResult
     DEF TypeOK, KeyInHand, NeverCached, ShouldCache, Inside, Entry, Empty
<1>5. WritesAreListed'
  BY <1>1, LruAddResult DEF TypeOK, WritesAreListed, ShouldCache, TxRecord, NoTx
<1>6. PutIsCurrent'
  <2> SUFFICES ASSUME NEW q \in Proc, pc'[q] = "put", key'[q] \notin doubt',
                      \A r \in Proc \ {q} : key'[q] \notin Owed(r)'
               PROVE  val'[q] = store'[key'[q]]
    BY DEF PutIsCurrent
  <2>1. \A r \in Proc \ {p} : Owed(r)' = Owed(r)
    BY DEF TypeOK, Owed
  <2>2. CASE q = p
    BY <2>2 DEF TypeOK, KeyInHand, Inside
  <2>3. CASE q # p
    <3>1. pc[q] = "put" /\ key'[q] = key[q] /\ val'[q] = val[q] /\ key[q] \in Key
      BY <2>3 DEF TypeOK, KeyInHand, Inside
    <3>2. key[q] \notin Owed(p) /\ key[q] \notin doubt
      BY <2>3, <3>1, LockIsFree DEF TypeOK, KeyInHand, LocksExclude, Inside, Owed
    <3>3. store'[key[q]] = store[key[q]]
      BY <2>3, <3>1, LockIsFree
         DEF TypeOK, KeyInHand, LocksExclude, Inside, Owed, WritesAreListed
    <3> QED BY <2>1, <2>3, <3>1, <3>2, <3>3 DEF PutIsCurrent
  <2> QED BY <2>2, <2>3
<1> QED BY <1>1, <1>2, <1>3, <1>4, <1>5, <1>6

(* TxDelete keeps the invariant. *)
LEMMA TxDeleteKeeps ==
  ASSUME IInv, NEW p \in Proc, NEW k \in Key,
         TxDelete(p, k)
  PROVE  IInv'
<1> USE DEF IInv, TxDelete, TxWrite, Hold, Release, LruRemove
<1>1. TypeOK'
  <2>1. tx[p] \in TxRecord /\ tx[p].lru \in [Key -> Entry] /\ tx[p].view[k] \in Entry
    BY DEF TypeOK, TxRecord, Entry
  <2>2. PICK c \in IF ShouldCache(k) THEN {LruRemove(tx[p].lru, k)} ELSE {tx[p].lru} :
          tx' = [tx EXCEPT ![p] = 
               [view     |-> [tx[p].view EXCEPT ![k] = Absent],
                written  |-> tx[p].written \union {k},
                lru      |-> c,
                modified |-> IF ShouldCache(k) THEN tx[p].modified \union {k}
                                               ELSE tx[p].modified]]
    OBVIOUS
  <2>3. c \in [Key -> Entry]
    BY <2>1, <2>2, LruAddResult DEF Entry
  <2>4. tx' \in [Proc -> TxRecord]
    BY <2>1, <2>2, <2>3 DEF TypeOK, TxRecord
  <2> QED BY <2>1, <2>4 DEF TypeOK, Entry
<1>2. KeyInHand'
  BY <1>1, LruAddResult DEF TypeOK, KeyInHand, Inside, States, Entry, ShouldCache
<1>3. LocksExclude'
  BY <1>1, LockIsFree
     DEF TypeOK, KeyInHand, LocksExclude, MayRLock, HoldsWrite, Inside, States
<1>4. NeverCached'
  BY <1>1, LruAddResult
     DEF TypeOK, KeyInHand, NeverCached, ShouldCache, Inside, Entry, Empty
<1>5. WritesAreListed'
  BY <1>1, LruAddResult DEF TypeOK, WritesAreListed, ShouldCache, TxRecord, NoTx
<1>6. PutIsCurrent'
  <2> SUFFICES ASSUME NEW q \in Proc, pc'[q] = "put", key'[q] \notin doubt',
                      \A r \in Proc \ {q} : key'[q] \notin Owed(r)'
               PROVE  val'[q] = store'[key'[q]]
    BY DEF PutIsCurrent
  <2>1. \A r \in Proc \ {p} : Owed(r)' = Owed(r)
    BY DEF TypeOK, Owed
  <2>2. CASE q = p
    BY <2>2 DEF TypeOK, KeyInHand, Inside
  <2>3. CASE q # p
    <3>1. pc[q] = "put" /\ key'[q] = key[q] /\ val'[q] = val[q] /\ key[q] \in Key
      BY <2>3 DEF TypeOK, KeyInHand, Inside
    <3>2. key[q] \notin Owed(p) /\ key[q] \notin doubt
      BY <2>3, <3>1, LockIsFree DEF TypeOK, KeyInHand, LocksExclude, Inside, Owed
    <3>3. store'[key[q]] = store[key[q]]
      BY <2>3, <3>1, LockIsFree
         DEF TypeOK, KeyInHand, LocksExclude, Inside, Owed, WritesAreListed
    <3> QED BY <2>1, <2>3, <3>1, <3>2, <3>3 DEF PutIsCurrent
  <2> QED BY <2>2, <2>3
<1> QED BY <1>1, <1>2, <1>3, <1>4, <1>5, <1>6

(* Commit keeps the invariant. *)
LEMMA CommitKeeps ==
  ASSUME IInv, NEW p \in Proc,
         Commit(p)
  PROVE  IInv'
<1> USE DEF IInv, Commit, Finish, Go, Hold, Release
<1>1. TypeOK'
  BY LruAddResult, NoTxType DEF TypeOK, KeyInHand, Inside, States, Entry, TxRecord, Empty
<1>2. KeyInHand'
  BY <1>1, LruAddResult DEF TypeOK, KeyInHand, Inside, States, Entry, ShouldCache
<1>3. LocksExclude'
  BY <1>1, LockIsFree
     DEF TypeOK, KeyInHand, LocksExclude, MayRLock, HoldsWrite, Inside, States
<1>4. NeverCached'
  BY <1>1, LruAddResult
     DEF TypeOK, KeyInHand, NeverCached, ShouldCache, Inside, Entry, Empty
<1>5. WritesAreListed'
  BY <1>1, LruAddResult DEF TypeOK, WritesAreListed, ShouldCache, TxRecord, NoTx
<1>6. PutIsCurrent'
  <2> SUFFICES ASSUME NEW q \in Proc, pc'[q] = "put", key'[q] \notin doubt',
                      \A r \in Proc \ {q} : key'[q] \notin Owed(r)'
               PROVE  val'[q] = store'[key'[q]]
    BY DEF PutIsCurrent
  <2>1. \A r \in Proc \ {p} : Owed(r)' = Owed(r)
    BY DEF TypeOK, Owed
  <2>2. CASE q = p
    BY <2>2 DEF TypeOK, KeyInHand, Inside
  <2>3. CASE q # p
    <3>1. pc[q] = "put" /\ key'[q] = key[q] /\ val'[q] = val[q] /\ key[q] \in Key
      BY <2>3 DEF TypeOK, KeyInHand, Inside
    <3>2. key[q] \notin Owed(p) /\ key[q] \notin doubt
      BY <2>3, <3>1, LockIsFree DEF TypeOK, KeyInHand, LocksExclude, Inside, Owed
    <3>3. store'[key[q]] = store[key[q]]
      BY <2>3, <3>1, LockIsFree
         DEF TypeOK, KeyInHand, LocksExclude, Inside, Owed, WritesAreListed
    <3> QED BY <2>1, <2>3, <3>1, <3>2, <3>3 DEF PutIsCurrent
  <2> QED BY <2>2, <2>3
<1> QED BY <1>1, <1>2, <1>3, <1>4, <1>5, <1>6

(* CommitFails keeps the invariant. *)
LEMMA CommitFailsKeeps ==
  ASSUME IInv, NEW p \in Proc,
         CommitFails(p)
  PROVE  IInv'
<1> USE DEF IInv, CommitFails, Finish, Go, Hold, Release
<1>1. TypeOK'
  BY LruAddResult, NoTxType DEF TypeOK, KeyInHand, Inside, States, Entry, TxRecord, Empty
<1>2. KeyInHand'
  BY <1>1, LruAddResult DEF TypeOK, KeyInHand, Inside, States, Entry, ShouldCache
<1>3. LocksExclude'
  BY <1>1, LockIsFree
     DEF TypeOK, KeyInHand, LocksExclude, MayRLock, HoldsWrite, Inside, States
<1>4. NeverCached'
  BY <1>1, LruAddResult
     DEF TypeOK, KeyInHand, NeverCached, ShouldCache, Inside, Entry, Empty
<1>5. WritesAreListed'
  BY <1>1, LruAddResult DEF TypeOK, WritesAreListed, ShouldCache, TxRecord, NoTx
<1>6. PutIsCurrent'
  <2> SUFFICES ASSUME NEW q \in Proc, pc'[q] = "put", key'[q] \notin doubt',
                      \A r \in Proc \ {q} : key'[q] \notin Owed(r)'
               PROVE  val'[q] = store'[key'[q]]
    BY DEF PutIsCurrent
  <2>1. \A r \in Proc \ {p} : Owed(r)' = Owed(r)
    BY DEF TypeOK, Owed
  <2>2. CASE q = p
    BY <2>2 DEF TypeOK, KeyInHand, Inside
  <2>3. CASE q # p
    <3>1. pc[q] = "put" /\ key'[q] = key[q] /\ val'[q] = val[q] /\ key[q] \in Key
      BY <2>3 DEF TypeOK, KeyInHand, Inside
    <3>2. key[q] \notin Owed(p) /\ key[q] \notin doubt
      BY <2>3, <3>1, LockIsFree DEF TypeOK, KeyInHand, LocksExclude, Inside, Owed
    <3>3. store'[key[q]] = store[key[q]]
      BY <2>3, <3>1, LockIsFree
         DEF TypeOK, KeyInHand, LocksExclude, Inside, Owed, WritesAreListed
    <3> QED BY <2>1, <2>3, <3>1, <3>2, <3>3 DEF PutIsCurrent
  <2> QED BY <2>2, <2>3
<1> QED BY <1>1, <1>2, <1>3, <1>4, <1>5, <1>6

(* Rollback keeps the invariant. *)
LEMMA RollbackKeeps ==
  ASSUME IInv, NEW p \in Proc,
         Rollback(p)
  PROVE  IInv'
<1> USE DEF IInv, Rollback, Finish, Go, Hold, Release
<1>1. TypeOK'
  BY LruAddResult, NoTxType DEF TypeOK, KeyInHand, Inside, States, Entry, TxRecord, Empty
<1>2. KeyInHand'
  BY <1>1, LruAddResult DEF TypeOK, KeyInHand, Inside, States, Entry, ShouldCache
<1>3. LocksExclude'
  BY <1>1, LockIsFree
     DEF TypeOK, KeyInHand, LocksExclude, MayRLock, HoldsWrite, Inside, States
<1>4. NeverCached'
  BY <1>1, LruAddResult
     DEF TypeOK, KeyInHand, NeverCached, ShouldCache, Inside, Entry, Empty
<1>5. WritesAreListed'
  BY <1>1, LruAddResult DEF TypeOK, WritesAreListed, ShouldCache, TxRecord, NoTx
<1>6. PutIsCurrent'
  <2> SUFFICES ASSUME NEW q \in Proc, pc'[q] = "put", key'[q] \notin doubt',
                      \A r \in Proc \ {q} : key'[q] \notin Owed(r)'
               PROVE  val'[q] = store'[key'[q]]
    BY DEF PutIsCurrent
  <2>1. \A r \in Proc \ {p} : Owed(r)' = Owed(r)
    BY DEF TypeOK, Owed
  <2>2. CASE q = p
    BY <2>2 DEF TypeOK, KeyInHand, Inside
  <2>3. CASE q # p
    <3>1. pc[q] = "put" /\ key'[q] = key[q] /\ val'[q] = val[q] /\ key[q] \in Key
      BY <2>3 DEF TypeOK, KeyInHand, Inside
    <3>2. key[q] \notin Owed(p) /\ key[q] \notin doubt
      BY <2>3, <3>1, LockIsFree DEF TypeOK, KeyInHand, LocksExclude, Inside, Owed
    <3>3. store'[key[q]] = store[key[q]]
      BY <2>3, <3>1, LockIsFree
         DEF TypeOK, KeyInHand, LocksExclude, Inside, Owed, WritesAreListed
    <3> QED BY <2>1, <2>3, <3>1, <3>2, <3>3 DEF PutIsCurrent
  <2> QED BY <2>2, <2>3
<1> QED BY <1>1, <1>2, <1>3, <1>4, <1>5, <1>6

(* InvalidateKey keeps the invariant. *)
LEMMA InvalidateKeyKeeps ==
  ASSUME IInv, NEW p \in Proc, NEW k \in Key,
         InvalidateKey(p, k)
  PROVE  IInv'
<1> USE DEF IInv, InvalidateKey, Go, LruRemove
<1>1. TypeOK'
  BY LruAddResult, NoTxType DEF TypeOK, KeyInHand, Inside, States, Entry, TxRecord, Empty
<1>2. KeyInHand'
  BY <1>1, LruAddResult DEF TypeOK, KeyInHand, Inside, States, Entry, ShouldCache
<1>3. LocksExclude'
  BY <1>1, LockIsFree
     DEF TypeOK, KeyInHand, LocksExclude, MayRLock, HoldsWrite, Inside, States
<1>4. NeverCached'
  BY <1>1, LruAddResult
     DEF TypeOK, KeyInHand, NeverCached, ShouldCache, Inside, Entry, Empty
<1>5. WritesAreListed'
  BY <1>1, LruAddResult DEF TypeOK, WritesAreListed, ShouldCache, TxRecord, NoTx
<1>6. PutIsCurrent'
  <2> SUFFICES ASSUME NEW q \in Proc, pc'[q] = "put", key'[q] \notin doubt',
                      \A r \in Proc \ {q} : key'[q] \notin Owed(r)'
               PROVE  val'[q] = store'[key'[q]]
    BY DEF PutIsCurrent
  <2>1. \A r \in Proc \ {p} : Owed(r)' = Owed(r)
    BY DEF TypeOK, Owed
  <2>2. CASE q = p
    BY <2>2 DEF TypeOK, KeyInHand, Inside
  <2>3. CASE q # p
    <3>1. pc[q] = "put" /\ key'[q] = key[q] /\ val'[q] = val[q] /\ key[q] \in Key
      BY <2>3 DEF TypeOK, KeyInHand, Inside
    <3>2. key[q] \notin Owed(p) /\ key[q] \notin doubt
      BY <2>3, <3>1, LockIsFree DEF TypeOK, KeyInHand, LocksExclude, Inside, Owed
    <3>3. store'[key[q]] = store[key[q]]
      BY <2>3, <3>1, LockIsFree
         DEF TypeOK, KeyInHand, LocksExclude, Inside, Owed, WritesAreListed
    <3> QED BY <2>1, <2>3, <3>1, <3>2, <3>3 DEF PutIsCurrent
  <2> QED BY <2>2, <2>3
<1> QED BY <1>1, <1>2, <1>3, <1>4, <1>5, <1>6

(* ApplyRemote keeps the invariant. *)
LEMMA ApplyRemoteKeeps ==
  ASSUME IInv, NEW p \in Proc, NEW k \in Key, NEW v \in Value,
         ApplyRemote(p, k, v)
  PROVE  IInv'
<1> USE DEF IInv, ApplyRemote, Go, Hold, Release
<1>1. TypeOK'
  BY LruAddResult, NoTxType DEF TypeOK, KeyInHand, Inside, States, Entry, TxRecord, Empty
<1>2. KeyInHand'
  BY <1>1, LruAddResult DEF TypeOK, KeyInHand, Inside, States, Entry, ShouldCache
<1>3. LocksExclude'
  BY <1>1, LockIsFree
     DEF TypeOK, KeyInHand, LocksExclude, MayRLock, HoldsWrite, Inside, States
<1>4. NeverCached'
  BY <1>1, LruAddResult
     DEF TypeOK, KeyInHand, NeverCached, ShouldCache, Inside, Entry, Empty
<1>5. WritesAreListed'
  BY <1>1, LruAddResult DEF TypeOK, WritesAreListed, ShouldCache, TxRecord, NoTx
<1>6. PutIsCurrent'
  <2> SUFFICES ASSUME NEW q \in Proc, pc'[q] = "put", key'[q] \notin doubt',
                      \A r \in Proc \ {q} : key'[q] \notin Owed(r)'
               PROVE  val'[q] = store'[key'[q]]
    BY DEF PutIsCurrent
  <2>1. \A r \in Proc \ {p} : Owed(r)' = Owed(r)
    BY DEF TypeOK, Owed
  <2>2. CASE q = p
    BY <2>2 DEF TypeOK, KeyInHand, Inside
  <2>3. CASE q # p
    <3>1. pc[q] = "put" /\ key'[q] = key[q] /\ val'[q] = val[q] /\ key[q] \in Key
      BY <2>3 DEF TypeOK, KeyInHand, Inside
    <3>2. key[q] \notin Owed(p) /\ key[q] \notin doubt
      BY <2>3, <3>1, LockIsFree DEF TypeOK, KeyInHand, LocksExclude, Inside, Owed
    <3>3. store'[key[q]] = store[key[q]]
      BY <2>3, <3>1, LockIsFree
         DEF TypeOK, KeyInHand, LocksExclude, Inside, Owed, WritesAreListed
    <3> QED BY <2>1, <2>3, <3>1, <3>2, <3>3 DEF PutIsCurrent
  <2> QED BY <2>2, <2>3
<1> QED BY <1>1, <1>2, <1>3, <1>4, <1>5, <1>6

(* Restore keeps the invariant. *)
LEMMA RestoreKeeps ==
  ASSUME IInv, NEW p \in Proc,
         Restore(p)
  PROVE  IInv'
<1> USE DEF IInv, Restore, Go, Hold, Release
<1>1. TypeOK'
  BY LruAddResult, NoTxType DEF TypeOK, KeyInHand, Inside, States, Entry, TxRecord, Empty
<1>2. KeyInHand'
  BY <1>1, LruAddResult DEF TypeOK, KeyInHand, Inside, States, Entry, ShouldCache
<1>3. LocksExclude'
  BY <1>1, LockIsFree
     DEF TypeOK, KeyInHand, LocksExclude, MayRLock, HoldsWrite, Inside, States
<1>4. NeverCached'
  BY <1>1, LruAddResult
     DEF TypeOK, KeyInHand, NeverCached, ShouldCache, Inside, Entry, Empty
<1>5. WritesAreListed'
  BY <1>1, LruAddResult DEF TypeOK, WritesAreListed, ShouldCache, TxRecord, NoTx
<1>6. PutIsCurrent'
  <2> SUFFICES ASSUME NEW q \in Proc, pc'[q] = "put", key'[q] \notin doubt',
                      \A r \in Proc \ {q} : key'[q] \notin Owed(r)'
               PROVE  val'[q] = store'[key'[q]]
    BY DEF PutIsCurrent
  <2>1. \A r \in Proc \ {p} : Owed(r)' = Owed(r)
    BY DEF TypeOK, Owed
  <2>2. CASE q = p
    BY <2>2 DEF TypeOK, KeyInHand, Inside
  <2>3. CASE q # p
    <3>1. pc[q] = "put" /\ key'[q] = key[q] /\ val'[q] = val[q] /\ key[q] \in Key
      BY <2>3 DEF TypeOK, KeyInHand, Inside
    <3>2. key[q] \notin Owed(p) /\ key[q] \notin doubt
      BY <2>3, <3>1, LockIsFree DEF TypeOK, KeyInHand, LocksExclude, Inside, Owed
    <3>3. store'[key[q]] = store[key[q]]
      BY <2>3, <3>1, LockIsFree
         DEF TypeOK, KeyInHand, LocksExclude, Inside, Owed, WritesAreListed
    <3> QED BY <2>1, <2>3, <3>1, <3>2, <3>3 DEF PutIsCurrent
  <2> QED BY <2>2, <2>3
<1> QED BY <1>1, <1>2, <1>3, <1>4, <1>5, <1>6

(* Purge keeps the invariant. *)
LEMMA PurgeKeeps ==
  ASSUME IInv, NEW p \in Proc,
         Purge(p)
  PROVE  IInv'
<1> USE DEF IInv, Purge, Go
<1>1. TypeOK'
  BY LruAddResult, NoTxType DEF TypeOK, KeyInHand, Inside, States, Entry, TxRecord, Empty
<1>2. KeyInHand'
  BY <1>1, LruAddResult DEF TypeOK, KeyInHand, Inside, States, Entry, ShouldCache
<1>3. LocksExclude'
  BY <1>1, LockIsFree
     DEF TypeOK, KeyInHand, LocksExclude, MayRLock, HoldsWrite, Inside, States
<1>4. NeverCached'
  BY <1>1, LruAddResult
     DEF TypeOK, KeyInHand, NeverCached, ShouldCache, Inside, Entry, Empty
<1>5. WritesAreListed'
  BY <1>1, LruAddResult DEF TypeOK, WritesAreListed, ShouldCache, TxRecord, NoTx
<1>6. PutIsCurrent'
  <2> SUFFICES ASSUME NEW q \in Proc, pc'[q] = "put", key'[q] \notin doubt',
                      \A r \in Proc \ {q} : key'[q] \notin Owed(r)'
               PROVE  val'[q] = store'[key'[q]]
    BY DEF PutIsCurrent
  <2>1. \A r \in Proc \ {p} : Owed(r)' = Owed(r)
    BY DEF TypeOK, Owed
  <2>2. CASE q = p
    BY <2>2 DEF TypeOK, KeyInHand, Inside
  <2>3. CASE q # p
    <3>1. pc[q] = "put" /\ key'[q] = key[q] /\ val'[q] = val[q] /\ key[q] \in Key
      BY <2>3 DEF TypeOK, KeyInHand, Inside
    <3>2. key[q] \notin Owed(p) /\ key[q] \notin doubt
      BY <2>3, <3>1, LockIsFree DEF TypeOK, KeyInHand, LocksExclude, Inside, Owed
    <3>3. store'[key[q]] = store[key[q]]
      BY <2>3, <3>1, LockIsFree
         DEF TypeOK, KeyInHand, LocksExclude, Inside, Owed, WritesAreListed
    <3> QED BY <2>1, <2>3, <3>1, <3>2, <3>3 DEF PutIsCurrent
  <2> QED BY <2>2, <2>3
<1> QED BY <1>1, <1>2, <1>3, <1>4, <1>5, <1>6

(* Toggle keeps the invariant. *)
LEMMA ToggleKeeps ==
  ASSUME IInv, Toggle
  PROVE  IInv'
<1> USE DEF IInv, Toggle
<1>1. TypeOK'
  <2>1. enabled' \in BOOLEAN
    BY Zenon DEF TypeOK
  <2> QED BY <2>1 DEF TypeOK, Empty, Entry
<1>2. KeyInHand' /\ LocksExclude' /\ NeverCached' /\ PutIsCurrent' /\ WritesAreListed'
  BY DEF TypeOK, KeyInHand, LocksExclude, NeverCached, PutIsCurrent,
         WritesAreListed, Inside, Empty
<1> QED BY <1>1, <1>2

(* Stutter keeps the invariant. *)
LEMMA StutterKeeps ==
  ASSUME IInv, UNCHANGED vars
  PROVE  IInv'
BY DEF vars, IInv, TypeOK, KeyInHand, LocksExclude, NeverCached, PutIsCurrent,
       WritesAreListed, Inside, ShouldCache, Owed

(* The inductive step.                                                     *)
LEMMA IInvInductive == IInv /\ [Next]_vars => IInv'
<1> SUFFICES ASSUME IInv, [Next]_vars PROVE IInv'
  OBVIOUS
<1>1. CASE Toggle
  BY <1>1, ToggleKeeps
<1>2. ASSUME NEW p \in Proc,
             \/ GetBackend(p) \/ GetError(p) \/ GetFill(p)
             \/ PutCache(p) \/ DeleteCache(p)
             \/ BeginTx(p) \/ Commit(p) \/ CommitFails(p) \/ Rollback(p)
             \/ Restore(p) \/ Purge(p)
      PROVE  IInv'
  BY <1>2, GetBackendKeeps, GetErrorKeeps, GetFillKeeps, PutCacheKeeps,
     DeleteCacheKeeps, BeginTxKeeps, CommitKeeps, CommitFailsKeeps,
     RollbackKeeps, RestoreKeeps, PurgeKeeps
<1>3. ASSUME NEW p \in Proc, NEW k \in Key,
             \/ GetBypass(p, k) \/ GetHit(p, k)
             \/ \E refresh \in BOOLEAN : GetMiss(p, k, refresh)
             \/ DeleteStore(p, k)
             \/ TxGetHit(p, k) \/ TxGetMiss(p, k) \/ TxDelete(p, k)
             \/ InvalidateKey(p, k)
      PROVE  IInv'
  BY <1>3, GetBypassKeeps, GetHitKeeps, GetMissKeeps, DeleteStoreKeeps,
     TxGetHitKeeps, TxGetMissKeeps, TxDeleteKeeps, InvalidateKeyKeeps
<1>4. ASSUME NEW p \in Proc, NEW k \in Key, NEW v \in Value,
             \/ WriteBypass(p, k, v) \/ PutStore(p, k, v)
             \/ WriteFails(p, k, v)
             \/ TxPut(p, k, v) \/ ApplyRemote(p, k, v)
      PROVE  IInv'
  BY <1>4, WriteBypassKeeps, PutStoreKeeps, WriteFailsKeeps, TxPutKeeps,
     ApplyRemoteKeeps
<1>5. CASE UNCHANGED vars
  BY <1>5, StutterKeeps
<1> QED BY <1>1, <1>2, <1>3, <1>4, <1>5 DEF Next

(* The inductive invariant holds always. *)
THEOREM Invariance == Spec => []IInv
<1>1. Init => IInv
  BY InitIInv
<1> QED BY <1>1, IInvInductive, PTL DEF Spec

-----------------------------------------------------------------------------
(* The values of the contract's variables: every step is one of its steps. *)

(* Nobody holds anything for a key that is not to be cached.               *)
LEMMA NothingHeld ==
  ASSUME IInv, NEW k \in Key, ~ShouldCache(k)
  PROVE  Held(k) \subseteq {NoEntry}
BY DEF IInv, KeyInHand, NeverCached, Held, Inside

(* While nobody holds the lock of a key only the cache has a value of it.  *)
LEMMA OnlyCached ==
  ASSUME IInv, NEW k \in Key, MayLock(LockOf[k])
  PROVE  Held(k) \subseteq {lru[k]}
BY LockIsFree DEF Held, Inside

(* When no value comes to be held but the stored one, nothing gets stale   *)
(* but what the storage gives up.                                          *)
LEMMA StaleValues ==
  ASSUME NEW k \in Key, Held(k)' \subseteq Held(k) \union {NoEntry, store'[k]}
  PROVE  /\ Stale'[k] \subseteq Stale[k] \union {store[k]}
         /\ store'[k] = store[k] => Stale'[k] \subseteq Stale[k]
BY DEF Stale

(* The actions of the contract, in terms of the cache.                     *)
LEMMA IsRead ==
  ASSUME NEW p \in Proc, NEW k \in Key, NEW v \in Value,
         v \in Stale[k] \union {store[k]},
         Answers' = [Answers EXCEPT ![p] = <<k, v>>],
         \A j \in Key : Stale'[j] \subseteq Stale[j],
         UNCHANGED <<store, OwedBy, doubt>>
  PROVE  Contract!Read(p)
BY DEF Contract!Read, Contract!Fades

(* The same for Contract!Drop: the client drops its answer. *)
LEMMA IsDrop ==
  ASSUME NEW p \in Proc,
         Answers' = [Answers EXCEPT ![p] = << >>],
         \A j \in Key : Stale'[j] \subseteq Stale[j],
         UNCHANGED <<store, OwedBy, doubt>>
  PROVE  Contract!Drop(p)
BY DEF Contract!Drop, Contract!Fades, Contract!NoAnswer

(* The same for Contract!Write: the storage takes a write. *)
LEMMA IsWrite ==
  ASSUME NEW p \in Proc, NEW K \in SUBSET Key,
         OwedBy[p] = {}, store' \in [Key -> Value],
         OwedBy' = [OwedBy EXCEPT ![p] = K], K = OwedBy'[p],
         doubt' \in SUBSET Key, doubt \subseteq doubt',
         \A j \in Key : /\ Stale'[j] \subseteq Stale[j] \union {store[j]}
                        /\ store'[j] = store[j] => Stale'[j] \subseteq Stale[j],
         \A j \in Key : store'[j] # store[j] /\ j \notin K \union doubt'
                          => Stale'[j] = {},
         Answers' = [Answers EXCEPT ![p] = << >>]
  PROVE  Contract!Write(p)
BY DEF Contract!Write, Contract!NoAnswer

(* The same for Contract!Settle: a write returns. *)
LEMMA IsSettle ==
  ASSUME NEW p \in Proc, NEW k \in OwedBy[p],
         OwedBy' = [OwedBy EXCEPT ![p] = @ \ {k}],
         \A j \in Key : Stale'[j] \subseteq Stale[j],
         (\A q \in Proc : k \notin OwedBy'[q]) /\ k \notin doubt
           => Stale'[k] = {},
         Answers' = [Answers EXCEPT ![p] = << >>],
         UNCHANGED <<store, doubt>>
  PROVE  Contract!Settle(p)
BY DEF Contract!Settle, Contract!Fades, Contract!NoAnswer

(* The same for Contract!Invalidate: keys are invalidated. *)
LEMMA IsInvalidate ==
  ASSUME NEW p \in Proc, NEW K \in SUBSET Key,
         OwedBy' = [OwedBy EXCEPT ![p] = @ \ K],
         doubt' = doubt \ K,
         \A j \in Key : Stale'[j] \subseteq Stale[j],
         \A j \in K : Stale'[j] = {},
         Answers' \in {Answers, [Answers EXCEPT ![p] = << >>]},
         UNCHANGED store
  PROVE  Contract!Invalidate(p)
BY DEF Contract!Invalidate, Contract!Fades, Contract!NoAnswer

(* GetBypass is a Read of the contract. *)
LEMMA GetBypassImplements ==
  ASSUME IInv, IInv', NEW p \in Proc, NEW k \in Key,
         GetBypass(p, k)
  PROVE  Contract!Read(p)
<1> USE DEF IInv, GetBypass, Hold
<1>1. \A q \in Proc \ {p} : Owed(q)' = Owed(q) /\ Answer(q)' = Answer(q)
  BY DEF TypeOK, Owed, Answer
<1>2. Owed(p)' = Owed(p) /\ Answer(p)' = <<k, store[k]>>
  BY DEF TypeOK, KeyInHand, Inside, Owed, Answer, Entry
<1>3. OwedBy' = OwedBy /\ Answers' = [Answers EXCEPT ![p] = <<k, store[k]>>]
  BY <1>1, <1>2 DEF OwedBy, Answers
<1>4. \A j \in Key : Held(j)' \subseteq Held(j) \union {NoEntry, store'[j]}
  BY LruAddResult DEF TypeOK, KeyInHand, Inside, Held, Entry, Empty
<1>5. \A j \in Key : /\ Stale'[j] \subseteq Stale[j] \union {store[j]}
                     /\ store'[j] = store[j] => Stale'[j] \subseteq Stale[j]
  BY <1>4, StaleValues
<1>6. \A j \in Key : Stale'[j] \subseteq Stale[j]
  BY <1>5
<1>7. store[k] \in Value /\ k \in Key /\ store[k] \in Stale[k] \union {store[k]}
  BY DEF TypeOK, KeyInHand, Inside, Held, Entry, Stale
<1> QED BY <1>3, <1>6, <1>7, IsRead

(* GetHit is a Read of the contract. *)
LEMMA GetHitImplements ==
  ASSUME IInv, IInv', NEW p \in Proc, NEW k \in Key,
         GetHit(p, k)
  PROVE  Contract!Read(p)
<1> USE DEF IInv, GetHit, Hold
<1>1. \A q \in Proc \ {p} : Owed(q)' = Owed(q) /\ Answer(q)' = Answer(q)
  BY DEF TypeOK, Owed, Answer
<1>2. Owed(p)' = Owed(p) /\ Answer(p)' = <<k, lru[k]>>
  BY DEF TypeOK, KeyInHand, Inside, Owed, Answer, Entry
<1>3. OwedBy' = OwedBy /\ Answers' = [Answers EXCEPT ![p] = <<k, lru[k]>>]
  BY <1>1, <1>2 DEF OwedBy, Answers
<1>4. \A j \in Key : Held(j)' \subseteq Held(j) \union {NoEntry, store'[j]}
  BY LruAddResult DEF TypeOK, KeyInHand, Inside, Held, Entry, Empty
<1>5. \A j \in Key : /\ Stale'[j] \subseteq Stale[j] \union {store[j]}
                     /\ store'[j] = store[j] => Stale'[j] \subseteq Stale[j]
  BY <1>4, StaleValues
<1>6. \A j \in Key : Stale'[j] \subseteq Stale[j]
  BY <1>5
<1>7. lru[k] \in Value /\ k \in Key /\ lru[k] \in Stale[k] \union {store[k]}
  BY DEF TypeOK, KeyInHand, Inside, Held, Entry, Stale
<1> QED BY <1>3, <1>6, <1>7, IsRead

(* GetMiss is a Drop of the contract. *)
LEMMA GetMissImplements ==
  ASSUME IInv, IInv', NEW p \in Proc, NEW k \in Key, NEW refresh \in BOOLEAN,
         GetMiss(p, k, refresh)
  PROVE  Contract!Drop(p)
<1> USE DEF IInv, GetMiss, Hold, Go
<1>1. \A q \in Proc \ {p} : Owed(q)' = Owed(q) /\ Answer(q)' = Answer(q)
  BY DEF TypeOK, Owed, Answer
<1>2. Owed(p)' = Owed(p) /\ Answer(p)' = << >>
  BY DEF TypeOK, KeyInHand, Inside, Owed, Answer, Entry
<1>3. OwedBy' = OwedBy /\ Answers' = [Answers EXCEPT ![p] = << >>]
  BY <1>1, <1>2 DEF OwedBy, Answers
<1>4. \A j \in Key : Held(j)' \subseteq Held(j) \union {NoEntry, store'[j]}
  BY LruAddResult DEF TypeOK, KeyInHand, Inside, Held, Entry, Empty
<1>5. \A j \in Key : /\ Stale'[j] \subseteq Stale[j] \union {store[j]}
                     /\ store'[j] = store[j] => Stale'[j] \subseteq Stale[j]
  BY <1>4, StaleValues
<1>6. \A j \in Key : Stale'[j] \subseteq Stale[j]
  BY <1>5
<1> QED BY <1>3, <1>6, IsDrop

(* GetBackend is a Read of the contract. *)
LEMMA GetBackendImplements ==
  ASSUME IInv, IInv', NEW p \in Proc,
         GetBackend(p)
  PROVE  Contract!Read(p)
<1> USE DEF IInv, GetBackend, Hold, Go
<1>1. \A q \in Proc \ {p} : Owed(q)' = Owed(q) /\ Answer(q)' = Answer(q)
  BY DEF TypeOK, Owed, Answer
<1>2. Owed(p)' = Owed(p) /\ Answer(p)' = <<key[p], store[key[p]]>>
  BY DEF TypeOK, KeyInHand, Inside, Owed, Answer, Entry
<1>3. OwedBy' = OwedBy /\ Answers' = [Answers EXCEPT ![p] = <<key[p], store[key[p]]>>]
  BY <1>1, <1>2 DEF OwedBy, Answers
<1>4. \A j \in Key : Held(j)' \subseteq Held(j) \union {NoEntry, store'[j]}
  BY LruAddResult DEF TypeOK, KeyInHand, Inside, Held, Entry, Empty
<1>5. \A j \in Key : /\ Stale'[j] \subseteq Stale[j] \union {store[j]}
                     /\ store'[j] = store[j] => Stale'[j] \subseteq Stale[j]
  BY <1>4, StaleValues
<1>6. \A j \in Key : Stale'[j] \subseteq Stale[j]
  BY <1>5
<1>7. store[key[p]] \in Value /\ key[p] \in Key /\ store[key[p]] \in Stale[key[p]] \union {store[key[p]]}
  BY DEF TypeOK, KeyInHand, Inside, Held, Entry, Stale
<1> QED BY <1>3, <1>6, <1>7, IsRead

(* GetError is a Drop of the contract. *)
LEMMA GetErrorImplements ==
  ASSUME IInv, IInv', NEW p \in Proc,
         GetError(p)
  PROVE  Contract!Drop(p)
<1> USE DEF IInv, GetError, Hold, Go, Release
<1>1. \A q \in Proc \ {p} : Owed(q)' = Owed(q) /\ Answer(q)' = Answer(q)
  BY DEF TypeOK, Owed, Answer
<1>2. Owed(p)' = Owed(p) /\ Answer(p)' = << >>
  BY DEF TypeOK, KeyInHand, Inside, Owed, Answer, Entry
<1>3. OwedBy' = OwedBy /\ Answers' = [Answers EXCEPT ![p] = << >>]
  BY <1>1, <1>2 DEF OwedBy, Answers
<1>4. \A j \in Key : Held(j)' \subseteq Held(j) \union {NoEntry, store'[j]}
  BY LruAddResult DEF TypeOK, KeyInHand, Inside, Held, Entry, Empty
<1>5. \A j \in Key : /\ Stale'[j] \subseteq Stale[j] \union {store[j]}
                     /\ store'[j] = store[j] => Stale'[j] \subseteq Stale[j]
  BY <1>4, StaleValues
<1>6. \A j \in Key : Stale'[j] \subseteq Stale[j]
  BY <1>5
<1> QED BY <1>3, <1>6, IsDrop

(* GetFill is a Invalidate of the contract. *)
LEMMA GetFillImplements ==
  ASSUME IInv, IInv', NEW p \in Proc,
         GetFill(p)
  PROVE  Contract!Invalidate(p)
<1> USE DEF IInv, GetFill, Go
<1>1. \A q \in Proc \ {p} : Owed(q)' = Owed(q) /\ Answer(q)' = Answer(q)
  BY DEF TypeOK, Owed, Answer
<1>2. Owed(p)' = Owed(p) /\ Answer(p)' = Answer(p)
  BY DEF TypeOK, KeyInHand, Inside, Owed, Answer, Entry
<1>3. OwedBy' = OwedBy /\ Answers' = [Answers EXCEPT ![p] = Answer(p)]
  BY <1>1, <1>2 DEF OwedBy, Answers
<1>4. \A j \in Key : Held(j)' \subseteq Held(j) \union {NoEntry, store'[j]}
  BY LruAddResult DEF TypeOK, KeyInHand, Inside, Held, Entry, Empty
<1>5. \A j \in Key : /\ Stale'[j] \subseteq Stale[j] \union {store[j]}
                     /\ store'[j] = store[j] => Stale'[j] \subseteq Stale[j]
  BY <1>4, StaleValues
<1>6. {} \in SUBSET Key /\ doubt' = doubt \ {} /\ OwedBy'[p] = OwedBy[p] \ {}
  BY <1>2 DEF TypeOK, KeyInHand, Inside, OwedBy, Owed
<1>7. \A j \in {} : Stale'[j] = {}
  <2> SUFFICES ASSUME NEW j \in {}, NEW v \in Held(j)' PROVE v = NoEntry
    BY <1>6 DEF Stale
  <2> QED BY <1>6, LockIsFree DEF TypeOK, Held, LocksExclude, KeyInHand, Inside, Empty
<1>8. OwedBy' = [OwedBy EXCEPT ![p] = @ \ {}]
  BY <1>3, <1>6 DEF OwedBy
<1>9. \A j \in Key : Stale'[j] \subseteq Stale[j]
  BY <1>5
<1>10. Answers' \in {Answers, [Answers EXCEPT ![p] = << >>]}
  BY <1>3 DEF Answers
<1> QED BY <1>6, <1>7, <1>8, <1>9, <1>10, IsInvalidate

(* WriteBypass is a Write of the contract. *)
LEMMA WriteBypassImplements ==
  ASSUME IInv, IInv', NEW p \in Proc, NEW k \in Key, NEW v \in Value,
         WriteBypass(p, k, v)
  PROVE  Contract!Write(p)
<1> USE DEF IInv, WriteBypass, Hold, Release
<1>1. \A q \in Proc \ {p} : Owed(q)' = Owed(q) /\ Answer(q)' = Answer(q)
  BY DEF TypeOK, Owed, Answer
<1>2. Owed(p)' = {} /\ Answer(p)' = << >>
  BY DEF TypeOK, KeyInHand, Inside, Owed, Answer, Entry
<1>3. OwedBy' = [OwedBy EXCEPT ![p] = {}] /\ Answers' = [Answers EXCEPT ![p] = << >>]
  BY <1>1, <1>2 DEF OwedBy, Answers
<1>4. \A j \in Key : Held(j)' \subseteq Held(j) \union {NoEntry, store'[j]}
  BY LruAddResult DEF TypeOK, KeyInHand, Inside, Held, Entry, Empty
<1>5. \A j \in Key : /\ Stale'[j] \subseteq Stale[j] \union {store[j]}
                     /\ store'[j] = store[j] => Stale'[j] \subseteq Stale[j]
  BY <1>4, StaleValues
<1>6. \A j \in Key : store'[j] # store[j] /\ j \notin {} \union doubt' => Stale'[j] = {}
  BY <1>4, NothingHeld DEF TypeOK, Stale, WritesAreListed, TxRecord
<1>7. /\ store' \in [Key -> Value] /\ doubt' \in SUBSET Key /\ doubt \subseteq doubt'
      /\ {} \in SUBSET Key
  BY DEF TypeOK, TxRecord
<1>8. OwedBy'[p] = {} /\ OwedBy[p] = {}
  BY <1>2 DEF OwedBy, Owed
<1> QED BY <1>3, <1>5, <1>6, <1>7, <1>8, IsWrite

(* PutStore is a Write of the contract. *)
LEMMA PutStoreImplements ==
  ASSUME IInv, IInv', NEW p \in Proc, NEW k \in Key, NEW v \in Value,
         PutStore(p, k, v)
  PROVE  Contract!Write(p)
<1> USE DEF IInv, PutStore, WriteStore, Hold, Go
<1>1. \A q \in Proc \ {p} : Owed(q)' = Owed(q) /\ Answer(q)' = Answer(q)
  BY DEF TypeOK, Owed, Answer
<1>2. Owed(p)' = {k} /\ Answer(p)' = << >>
  BY DEF TypeOK, KeyInHand, Inside, Owed, Answer, Entry
<1>3. OwedBy' = [OwedBy EXCEPT ![p] = {k}] /\ Answers' = [Answers EXCEPT ![p] = << >>]
  BY <1>1, <1>2 DEF OwedBy, Answers
<1>4. \A j \in Key : Held(j)' \subseteq Held(j) \union {NoEntry, store'[j]}
  BY LruAddResult DEF TypeOK, KeyInHand, Inside, Held, Entry, Empty
<1>5. \A j \in Key : /\ Stale'[j] \subseteq Stale[j] \union {store[j]}
                     /\ store'[j] = store[j] => Stale'[j] \subseteq Stale[j]
  BY <1>4, StaleValues
<1>6. \A j \in Key : store'[j] # store[j] /\ j \notin {k} \union doubt' => Stale'[j] = {}
  BY <1>4, NothingHeld DEF TypeOK, Stale, WritesAreListed, TxRecord
<1>7. /\ store' \in [Key -> Value] /\ doubt' \in SUBSET Key /\ doubt \subseteq doubt'
      /\ {k} \in SUBSET Key
  BY DEF TypeOK, TxRecord
<1>8. OwedBy'[p] = {k} /\ OwedBy[p] = {}
  BY <1>2 DEF OwedBy, Owed
<1> QED BY <1>3, <1>5, <1>6, <1>7, <1>8, IsWrite

(* WriteFails is a Write of the contract. *)
LEMMA WriteFailsImplements ==
  ASSUME IInv, IInv', NEW p \in Proc, NEW k \in Key, NEW v \in Value,
         WriteFails(p, k, v)
  PROVE  Contract!Write(p)
<1> USE DEF IInv, WriteFails, Hold, Release
<1>1. \A q \in Proc \ {p} : Owed(q)' = Owed(q) /\ Answer(q)' = Answer(q)
  BY DEF TypeOK, Owed, Answer
<1>2. Owed(p)' = {} /\ Answer(p)' = << >>
  BY DEF TypeOK, KeyInHand, Inside, Owed, Answer, Entry
<1>3. OwedBy' = [OwedBy EXCEPT ![p] = {}] /\ Answers' = [Answers EXCEPT ![p] = << >>]
  BY <1>1, <1>2 DEF OwedBy, Answers
<1>4. \A j \in Key : Held(j)' \subseteq Held(j) \union {NoEntry, store'[j]}
  BY LruAddResult DEF TypeOK, KeyInHand, Inside, Held, Entry, Empty
<1>5. \A j \in Key : /\ Stale'[j] \subseteq Stale[j] \union {store[j]}
                     /\ store'[j] = store[j] => Stale'[j] \subseteq Stale[j]
  BY <1>4, StaleValues
<1>6. \A j \in Key : store'[j] # store[j] /\ j \notin {} \union doubt' => Stale'[j] = {}
  BY <1>4, NothingHeld DEF TypeOK, Stale, WritesAreListed, TxRecord
<1>7. /\ store' \in [Key -> Value] /\ doubt' \in SUBSET Key /\ doubt \subseteq doubt'
      /\ {} \in SUBSET Key
  BY DEF TypeOK, TxRecord
<1>8. OwedBy'[p] = {} /\ OwedBy[p] = {}
  BY <1>2 DEF OwedBy, Owed
<1> QED BY <1>3, <1>5, <1>6, <1>7, <1>8, IsWrite

(* PutCache is a Settle of the contract. *)
LEMMA PutCacheImplements ==
  ASSUME IInv, IInv', NEW p \in Proc,
         PutCache(p)
  PROVE  Contract!Settle(p)
<1> USE DEF IInv, PutCache, Hold, Go, Release
<1>1. \A q \in Proc \ {p} : Owed(q)' = Owed(q) /\ Answer(q)' = Answer(q)
  BY DEF TypeOK, Owed, Answer
<1>2. Owed(p)' = Owed(p) \ {key[p]} /\ Answer(p)' = << >>
  BY DEF TypeOK, KeyInHand, Inside, Owed, Answer, Entry
<1>3. OwedBy' = [OwedBy EXCEPT ![p] = Owed(p) \ {key[p]}] /\ Answers' = [Answers EXCEPT ![p] = << >>]
  BY <1>1, <1>2 DEF OwedBy, Answers
<1>4. \A j \in Key : Held(j)' \subseteq Held(j) \union {NoEntry, store'[j]}
  BY LruAddResult DEF TypeOK, KeyInHand, Inside, Held, Entry, Empty
<1>5. \A j \in Key : /\ Stale'[j] \subseteq Stale[j] \union {store[j]}
                     /\ store'[j] = store[j] => Stale'[j] \subseteq Stale[j]
  BY <1>4, StaleValues
<1>6. key[p] \in Owed(p) /\ key[p] \in Key
  BY DEF KeyInHand, Inside, Owed
<1>7. ASSUME \A q \in Proc : key[p] \notin Owed(q)', key[p] \notin doubt
      PROVE  Stale'[key[p]] = {}
  <2>1. val[p] = store[key[p]]
    BY <1>1, <1>7 DEF PutIsCurrent
  <2>2. lru'[key[p]] = val[p]
    BY <1>6, LruAddResult DEF TypeOK
  <2>3. \A q \in Proc \ {p} : ~(pc[q] \in {"fill", "put"} /\ key[q] = key[p])
    BY DEF LocksExclude, Inside
  <2>4. PICK k \in Key : k = key[p]
    BY <1>6
  <2>5. ASSUME NEW v \in Held(k)' PROVE v = store'[k]
    BY <2>1, <2>2, <2>3, <2>4, <2>5 DEF Held, TypeOK
  <2> QED BY <2>4, <2>5 DEF Stale
<1>8. /\ OwedBy' = [OwedBy EXCEPT ![p] = @ \ {key[p]}]
      /\ key[p] \in OwedBy[p]
      /\ \A q \in Proc : OwedBy'[q] = Owed(q)'
  BY <1>3, <1>6 DEF OwedBy
<1>9. \A j \in Key : Stale'[j] \subseteq Stale[j]
  BY <1>5
<1> QED BY <1>3, <1>7, <1>8, <1>9, IsSettle

(* DeleteStore is a Write of the contract. *)
LEMMA DeleteStoreImplements ==
  ASSUME IInv, IInv', NEW p \in Proc, NEW k \in Key,
         DeleteStore(p, k)
  PROVE  Contract!Write(p)
<1> USE DEF IInv, DeleteStore, WriteStore, Hold, Go
<1>1. \A q \in Proc \ {p} : Owed(q)' = Owed(q) /\ Answer(q)' = Answer(q)
  BY DEF TypeOK, Owed, Answer
<1>2. Owed(p)' = {k} /\ Answer(p)' = << >>
  BY DEF TypeOK, KeyInHand, Inside, Owed, Answer, Entry
<1>3. OwedBy' = [OwedBy EXCEPT ![p] = {k}] /\ Answers' = [Answers EXCEPT ![p] = << >>]
  BY <1>1, <1>2 DEF OwedBy, Answers
<1>4. \A j \in Key : Held(j)' \subseteq Held(j) \union {NoEntry, store'[j]}
  BY LruAddResult DEF TypeOK, KeyInHand, Inside, Held, Entry, Empty
<1>5. \A j \in Key : /\ Stale'[j] \subseteq Stale[j] \union {store[j]}
                     /\ store'[j] = store[j] => Stale'[j] \subseteq Stale[j]
  BY <1>4, StaleValues
<1>6. \A j \in Key : store'[j] # store[j] /\ j \notin {k} \union doubt' => Stale'[j] = {}
  BY <1>4, NothingHeld DEF TypeOK, Stale, WritesAreListed, TxRecord
<1>7. /\ store' \in [Key -> Value] /\ doubt' \in SUBSET Key /\ doubt \subseteq doubt'
      /\ {k} \in SUBSET Key
  BY DEF TypeOK, TxRecord
<1>8. OwedBy'[p] = {k} /\ OwedBy[p] = {}
  BY <1>2 DEF OwedBy, Owed
<1> QED BY <1>3, <1>5, <1>6, <1>7, <1>8, IsWrite

(* DeleteCache is a Invalidate of the contract. *)
LEMMA DeleteCacheImplements ==
  ASSUME IInv, IInv', NEW p \in Proc,
         DeleteCache(p)
  PROVE  Contract!Invalidate(p)
<1> USE DEF IInv, DeleteCache, Hold, Go, Release, LruRemove
<1>1. \A q \in Proc \ {p} : Owed(q)' = Owed(q) /\ Answer(q)' = Answer(q)
  BY DEF TypeOK, Owed, Answer
<1>2. Owed(p)' = Owed(p) \ {key[p]} /\ Answer(p)' = << >>
  BY DEF TypeOK, KeyInHand, Inside, Owed, Answer, Entry
<1>3. OwedBy' = [OwedBy EXCEPT ![p] = Owed(p) \ {key[p]}] /\ Answers' = [Answers EXCEPT ![p] = << >>]
  BY <1>1, <1>2 DEF OwedBy, Answers
<1>4. \A j \in Key : Held(j)' \subseteq Held(j) \union {NoEntry, store'[j]}
  BY LruAddResult DEF TypeOK, KeyInHand, Inside, Held, Entry, Empty
<1>5. \A j \in Key : /\ Stale'[j] \subseteq Stale[j] \union {store[j]}
                     /\ store'[j] = store[j] => Stale'[j] \subseteq Stale[j]
  BY <1>4, StaleValues
<1>6. {key[p]} \in SUBSET Key /\ doubt' = doubt \ {key[p]} /\ OwedBy'[p] = OwedBy[p] \ {key[p]}
  BY <1>2 DEF TypeOK, KeyInHand, Inside, OwedBy, Owed
<1>7. \A j \in {key[p]} : Stale'[j] = {}
  <2> SUFFICES ASSUME NEW j \in {key[p]}, NEW v \in Held(j)' PROVE v = NoEntry
    BY <1>6 DEF Stale
  <2> QED BY <1>6, LockIsFree DEF TypeOK, Held, LocksExclude, KeyInHand, Inside, Empty
<1>8. OwedBy' = [OwedBy EXCEPT ![p] = @ \ {key[p]}]
  BY <1>3, <1>6 DEF OwedBy
<1>9. \A j \in Key : Stale'[j] \subseteq Stale[j]
  BY <1>5
<1>10. Answers' \in {Answers, [Answers EXCEPT ![p] = << >>]}
  BY <1>3 DEF Answers
<1> QED BY <1>6, <1>7, <1>8, <1>9, <1>10, IsInvalidate

(* BeginTx is a Drop of the contract. *)
LEMMA BeginTxImplements ==
  ASSUME IInv, IInv', NEW p \in Proc,
         BeginTx(p)
  PROVE  Contract!Drop(p)
<1> USE DEF IInv, BeginTx, Hold, Go, Release
<1>1. \A q \in Proc \ {p} : Owed(q)' = Owed(q) /\ Answer(q)' = Answer(q)
  BY DEF TypeOK, Owed, Answer
<1>2. Owed(p)' = Owed(p) /\ Answer(p)' = << >>
  BY DEF TypeOK, KeyInHand, Inside, Owed, Answer, Entry
<1>3. OwedBy' = OwedBy /\ Answers' = [Answers EXCEPT ![p] = << >>]
  BY <1>1, <1>2 DEF OwedBy, Answers
<1>4. \A j \in Key : Held(j)' \subseteq Held(j) \union {NoEntry, store'[j]}
  BY LruAddResult DEF TypeOK, KeyInHand, Inside, Held, Entry, Empty
<1>5. \A j \in Key : /\ Stale'[j] \subseteq Stale[j] \union {store[j]}
                     /\ store'[j] = store[j] => Stale'[j] \subseteq Stale[j]
  BY <1>4, StaleValues
<1>6. \A j \in Key : Stale'[j] \subseteq Stale[j]
  BY <1>5
<1> QED BY <1>3, <1>6, IsDrop

(* TxGetHit is a Drop of the contract. *)
LEMMA TxGetHitImplements ==
  ASSUME IInv, IInv', NEW p \in Proc, NEW k \in Key,
         TxGetHit(p, k)
  PROVE  Contract!Drop(p)
<1> USE DEF IInv, TxGetHit, Hold
<1>1. \A q \in Proc \ {p} : Owed(q)' = Owed(q) /\ Answer(q)' = Answer(q)
  BY DEF TypeOK, Owed, Answer
<1>2. Owed(p)' = Owed(p) /\ Answer(p)' = << >>
  BY DEF TypeOK, KeyInHand, Inside, Owed, Answer, Entry
<1>3. OwedBy' = OwedBy /\ Answers' = [Answers EXCEPT ![p] = << >>]
  BY <1>1, <1>2 DEF OwedBy, Answers
<1>4. \A j \in Key : Held(j)' \subseteq Held(j) \union {NoEntry, store'[j]}
  BY LruAddResult DEF TypeOK, KeyInHand, Inside, Held, Entry, Empty
<1>5. \A j \in Key : /\ Stale'[j] \subseteq Stale[j] \union {store[j]}
                     /\ store'[j] = store[j] => Stale'[j] \subseteq Stale[j]
  BY <1>4, StaleValues
<1>6. \A j \in Key : Stale'[j] \subseteq Stale[j]
  BY <1>5
<1> QED BY <1>3, <1>6, IsDrop

(* TxGetMiss is a Drop of the contract. *)
LEMMA TxGetMissImplements ==
  ASSUME IInv, IInv', NEW p \in Proc, NEW k \in Key,
         TxGetMiss(p, k)
  PROVE  Contract!Drop(p)
<1> USE DEF IInv, TxGetMiss, Hold
<1>1. \A q \in Proc \ {p} : Owed(q)' = Owed(q) /\ Answer(q)' = Answer(q)
  BY DEF TypeOK, Owed, Answer
<1>2. Owed(p)' = Owed(p) /\ Answer(p)' = << >>
  BY DEF TypeOK, KeyInHand, Inside, Owed, Answer, Entry
<1>3. OwedBy' = OwedBy /\ Answers' = [Answers EXCEPT ![p] = << >>]
  BY <1>1, <1>2 DEF OwedBy, Answers
<1>4. \A j \in Key : Held(j)' \subseteq Held(j) \union {NoEntry, store'[j]}
  BY LruAddResult DEF TypeOK, KeyInHand, Inside, Held, Entry, Empty
<1>5. \A j \in Key : /\ Stale'[j] \subseteq Stale[j] \union {store[j]}
                     /\ store'[j] = store[j] => Stale'[j] \subseteq Stale[j]
  BY <1>4, StaleValues
<1>6. \A j \in Key : Stale'[j] \subseteq Stale[j]
  BY <1>5
<1> QED BY <1>3, <1>6, IsDrop

(* TxPut is a Drop of the contract. *)
LEMMA TxPutImplements ==
  ASSUME IInv, IInv', NEW p \in Proc, NEW k \in Key, NEW v \in Value,
         TxPut(p, k, v)
  PROVE  Contract!Drop(p)
<1> USE DEF IInv, TxPut, TxWrite, Hold, Release
<1>1. \A q \in Proc \ {p} : Owed(q)' = Owed(q) /\ Answer(q)' = Answer(q)
  BY DEF TypeOK, Owed, Answer
<1>2. Owed(p)' = Owed(p) /\ Answer(p)' = << >>
  BY DEF TypeOK, KeyInHand, Inside, Owed, Answer, Entry
<1>3. OwedBy' = OwedBy /\ Answers' = [Answers EXCEPT ![p] = << >>]
  BY <1>1, <1>2 DEF OwedBy, Answers
<1>4. \A j \in Key : Held(j)' \subseteq Held(j) \union {NoEntry, store'[j]}
  BY LruAddResult DEF TypeOK, KeyInHand, Inside, Held, Entry, Empty
<1>5. \A j \in Key : /\ Stale'[j] \subseteq Stale[j] \union {store[j]}
                     /\ store'[j] = store[j] => Stale'[j] \subseteq Stale[j]
  BY <1>4, StaleValues
<1>6. \A j \in Key : Stale'[j] \subseteq Stale[j]
  BY <1>5
<1> QED BY <1>3, <1>6, IsDrop

(* TxDelete is a Drop of the contract. *)
LEMMA TxDeleteImplements ==
  ASSUME IInv, IInv', NEW p \in Proc, NEW k \in Key,
         TxDelete(p, k)
  PROVE  Contract!Drop(p)
<1> USE DEF IInv, TxDelete, TxWrite, Hold, Release, LruRemove
<1>1. \A q \in Proc \ {p} : Owed(q)' = Owed(q) /\ Answer(q)' = Answer(q)
  BY DEF TypeOK, Owed, Answer
<1>2. Owed(p)' = Owed(p) /\ Answer(p)' = << >>
  BY DEF TypeOK, KeyInHand, Inside, Owed, Answer, Entry
<1>3. OwedBy' = OwedBy /\ Answers' = [Answers EXCEPT ![p] = << >>]
  BY <1>1, <1>2 DEF OwedBy, Answers
<1>4. \A j \in Key : Held(j)' \subseteq Held(j) \union {NoEntry, store'[j]}
  BY LruAddResult DEF TypeOK, KeyInHand, Inside, Held, Entry, Empty
<1>5. \A j \in Key : /\ Stale'[j] \subseteq Stale[j] \union {store[j]}
                     /\ store'[j] = store[j] => Stale'[j] \subseteq Stale[j]
  BY <1>4, StaleValues
<1>6. \A j \in Key : Stale'[j] \subseteq Stale[j]
  BY <1>5
<1> QED BY <1>3, <1>6, IsDrop

(* Commit is a Write of the contract. *)
LEMMA CommitImplements ==
  ASSUME IInv, IInv', NEW p \in Proc,
         Commit(p)
  PROVE  Contract!Write(p)
<1> USE DEF IInv, Commit, Finish, Go, Hold, Release
<1>1. \A q \in Proc \ {p} : Owed(q)' = Owed(q) /\ Answer(q)' = Answer(q)
  BY DEF TypeOK, Owed, Answer
<1>2. Owed(p)' = tx[p].modified /\ Answer(p)' = << >>
  BY DEF TypeOK, KeyInHand, Inside, Owed, Answer, Entry
<1>3. OwedBy' = [OwedBy EXCEPT ![p] = tx[p].modified] /\ Answers' = [Answers EXCEPT ![p] = << >>]
  BY <1>1, <1>2 DEF OwedBy, Answers
<1>4. \A j \in Key : Held(j)' \subseteq Held(j) \union {NoEntry, store'[j]}
  BY LruAddResult DEF TypeOK, KeyInHand, Inside, Held, Entry, Empty
<1>5. \A j \in Key : /\ Stale'[j] \subseteq Stale[j] \union {store[j]}
                     /\ store'[j] = store[j] => Stale'[j] \subseteq Stale[j]
  BY <1>4, StaleValues
<1>6. \A j \in Key : store'[j] # store[j] /\ j \notin tx[p].modified \union doubt' => Stale'[j] = {}
  BY <1>4, NothingHeld DEF TypeOK, Stale, WritesAreListed, TxRecord
<1>7. /\ store' \in [Key -> Value] /\ doubt' \in SUBSET Key /\ doubt \subseteq doubt'
      /\ tx[p].modified \in SUBSET Key
  BY DEF TypeOK, TxRecord
<1>8. OwedBy'[p] = tx[p].modified /\ OwedBy[p] = {}
  BY <1>2 DEF OwedBy, Owed
<1> QED BY <1>3, <1>5, <1>6, <1>7, <1>8, IsWrite

(* CommitFails is a Write of the contract. *)
LEMMA CommitFailsImplements ==
  ASSUME IInv, IInv', NEW p \in Proc,
         CommitFails(p)
  PROVE  Contract!Write(p)
<1> USE DEF IInv, CommitFails, Finish, Go, Hold, Release
<1>1. \A q \in Proc \ {p} : Owed(q)' = Owed(q) /\ Answer(q)' = Answer(q)
  BY DEF TypeOK, Owed, Answer
<1>2. Owed(p)' = {} /\ Answer(p)' = << >>
  BY DEF TypeOK, KeyInHand, Inside, Owed, Answer, Entry
<1>3. OwedBy' = [OwedBy EXCEPT ![p] = {}] /\ Answers' = [Answers EXCEPT ![p] = << >>]
  BY <1>1, <1>2 DEF OwedBy, Answers
<1>4. \A j \in Key : Held(j)' \subseteq Held(j) \union {NoEntry, store'[j]}
  BY LruAddResult DEF TypeOK, KeyInHand, Inside, Held, Entry, Empty
<1>5. \A j \in Key : /\ Stale'[j] \subseteq Stale[j] \union {store[j]}
                     /\ store'[j] = store[j] => Stale'[j] \subseteq Stale[j]
  BY <1>4, StaleValues
<1>6. \A j \in Key : store'[j] # store[j] /\ j \notin {} \union doubt' => Stale'[j] = {}
  BY <1>4, NothingHeld DEF TypeOK, Stale, WritesAreListed, TxRecord
<1>7. /\ store' \in [Key -> Value] /\ doubt' \in SUBSET Key /\ doubt \subseteq doubt'
      /\ {} \in SUBSET Key
  BY DEF TypeOK, TxRecord
<1>8. OwedBy'[p] = {} /\ OwedBy[p] = {}
  BY <1>2 DEF OwedBy, Owed
<1> QED BY <1>3, <1>5, <1>6, <1>7, <1>8, IsWrite

(* Rollback is a Drop of the contract. *)
LEMMA RollbackImplements ==
  ASSUME IInv, IInv', NEW p \in Proc,
         Rollback(p)
  PROVE  Contract!Drop(p)
<1> USE DEF IInv, Rollback, Finish, Go, Hold, Release
<1>1. \A q \in Proc \ {p} : Owed(q)' = Owed(q) /\ Answer(q)' = Answer(q)
  BY DEF TypeOK, Owed, Answer
<1>2. Owed(p)' = Owed(p) /\ Answer(p)' = << >>
  BY DEF TypeOK, KeyInHand, Inside, Owed, Answer, Entry
<1>3. OwedBy' = OwedBy /\ Answers' = [Answers EXCEPT ![p] = << >>]
  BY <1>1, <1>2 DEF OwedBy, Answers
<1>4. \A j \in Key : Held(j)' \subseteq Held(j) \union {NoEntry, store'[j]}
  BY LruAddResult DEF TypeOK, KeyInHand, Inside, Held, Entry, Empty
<1>5. \A j \in Key : /\ Stale'[j] \subseteq Stale[j] \union {store[j]}
                     /\ store'[j] = store[j] => Stale'[j] \subseteq Stale[j]
  BY <1>4, StaleValues
<1>6. \A j \in Key : Stale'[j] \subseteq Stale[j]
  BY <1>5
<1> QED BY <1>3, <1>6, IsDrop

(* InvalidateKey is a Invalidate of the contract. *)
LEMMA InvalidateKeyImplements ==
  ASSUME IInv, IInv', NEW p \in Proc, NEW k \in Key,
         InvalidateKey(p, k)
  PROVE  Contract!Invalidate(p)
<1> USE DEF IInv, InvalidateKey, Go, LruRemove
<1>1. \A q \in Proc \ {p} : Owed(q)' = Owed(q) /\ Answer(q)' = Answer(q)
  BY DEF TypeOK, Owed, Answer
<1>2. Owed(p)' = Owed(p) \ {k} /\ Answer(p)' = << >>
  BY DEF TypeOK, KeyInHand, Inside, Owed, Answer, Entry
<1>3. OwedBy' = [OwedBy EXCEPT ![p] = Owed(p) \ {k}] /\ Answers' = [Answers EXCEPT ![p] = << >>]
  BY <1>1, <1>2 DEF OwedBy, Answers
<1>4. \A j \in Key : Held(j)' \subseteq Held(j) \union {NoEntry, store'[j]}
  BY LruAddResult DEF TypeOK, KeyInHand, Inside, Held, Entry, Empty
<1>5. \A j \in Key : /\ Stale'[j] \subseteq Stale[j] \union {store[j]}
                     /\ store'[j] = store[j] => Stale'[j] \subseteq Stale[j]
  BY <1>4, StaleValues
<1>6. {k} \in SUBSET Key /\ doubt' = doubt \ {k} /\ OwedBy'[p] = OwedBy[p] \ {k}
  BY <1>2 DEF TypeOK, KeyInHand, Inside, OwedBy, Owed
<1>7. \A j \in {k} : Stale'[j] = {}
  <2> SUFFICES ASSUME NEW j \in {k}, NEW v \in Held(j)' PROVE v = NoEntry
    BY <1>6 DEF Stale
  <2> QED BY <1>6, LockIsFree DEF TypeOK, Held, LocksExclude, KeyInHand, Inside, Empty
<1>8. OwedBy' = [OwedBy EXCEPT ![p] = @ \ {k}]
  BY <1>3, <1>6 DEF OwedBy
<1>9. \A j \in Key : Stale'[j] \subseteq Stale[j]
  BY <1>5
<1>10. Answers' \in {Answers, [Answers EXCEPT ![p] = << >>]}
  BY <1>3 DEF Answers
<1> QED BY <1>6, <1>7, <1>8, <1>9, <1>10, IsInvalidate

(* ApplyRemote is a Write of the contract. *)
LEMMA ApplyRemoteImplements ==
  ASSUME IInv, IInv', NEW p \in Proc, NEW k \in Key, NEW v \in Value,
         ApplyRemote(p, k, v)
  PROVE  Contract!Write(p)
<1> USE DEF IInv, ApplyRemote, Go, Hold, Release
<1>1. \A q \in Proc \ {p} : Owed(q)' = Owed(q) /\ Answer(q)' = Answer(q)
  BY DEF TypeOK, Owed, Answer
<1>2. Owed(p)' = {k} /\ Answer(p)' = << >>
  BY DEF TypeOK, KeyInHand, Inside, Owed, Answer, Entry
<1>3. OwedBy' = [OwedBy EXCEPT ![p] = {k}] /\ Answers' = [Answers EXCEPT ![p] = << >>]
  BY <1>1, <1>2 DEF OwedBy, Answers
<1>4. \A j \in Key : Held(j)' \subseteq Held(j) \union {NoEntry, store'[j]}
  BY LruAddResult DEF TypeOK, KeyInHand, Inside, Held, Entry, Empty
<1>5. \A j \in Key : /\ Stale'[j] \subseteq Stale[j] \union {store[j]}
                     /\ store'[j] = store[j] => Stale'[j] \subseteq Stale[j]
  BY <1>4, StaleValues
<1>6. \A j \in Key : store'[j] # store[j] /\ j \notin {k} \union doubt' => Stale'[j] = {}
  BY <1>4, NothingHeld DEF TypeOK, Stale, WritesAreListed, TxRecord
<1>7. /\ store' \in [Key -> Value] /\ doubt' \in SUBSET Key /\ doubt \subseteq doubt'
      /\ {k} \in SUBSET Key
  BY DEF TypeOK, TxRecord
<1>8. OwedBy'[p] = {k} /\ OwedBy[p] = {}
  BY <1>2 DEF OwedBy, Owed
<1> QED BY <1>3, <1>5, <1>6, <1>7, <1>8, IsWrite

(* Restore is a Write of the contract. *)
LEMMA RestoreImplements ==
  ASSUME IInv, IInv', NEW p \in Proc,
         Restore(p)
  PROVE  Contract!Write(p)
<1> USE DEF IInv, Restore, Go, Hold, Release
<1>1. \A q \in Proc \ {p} : Owed(q)' = Owed(q) /\ Answer(q)' = Answer(q)
  BY DEF TypeOK, Owed, Answer
<1>2. Owed(p)' = Key /\ Answer(p)' = << >>
  BY DEF TypeOK, KeyInHand, Inside, Owed, Answer, Entry
<1>3. OwedBy' = [OwedBy EXCEPT ![p] = Key] /\ Answers' = [Answers EXCEPT ![p] = << >>]
  BY <1>1, <1>2 DEF OwedBy, Answers
<1>4. \A j \in Key : Held(j)' \subseteq Held(j) \union {NoEntry, store'[j]}
  BY LruAddResult DEF TypeOK, KeyInHand, Inside, Held, Entry, Empty
<1>5. \A j \in Key : /\ Stale'[j] \subseteq Stale[j] \union {store[j]}
                     /\ store'[j] = store[j] => Stale'[j] \subseteq Stale[j]
  BY <1>4, StaleValues
<1>6. \A j \in Key : store'[j] # store[j] /\ j \notin Key \union doubt' => Stale'[j] = {}
  BY <1>4, NothingHeld DEF TypeOK, Stale, WritesAreListed, TxRecord
<1>7. /\ store' \in [Key -> Value] /\ doubt' \in SUBSET Key /\ doubt \subseteq doubt'
      /\ Key \in SUBSET Key
  BY DEF TypeOK, TxRecord
<1>8. OwedBy'[p] = Key /\ OwedBy[p] = {}
  BY <1>2 DEF OwedBy, Owed
<1> QED BY <1>3, <1>5, <1>6, <1>7, <1>8, IsWrite

(* Purge is a Invalidate of the contract. *)
LEMMA PurgeImplements ==
  ASSUME IInv, IInv', NEW p \in Proc,
         Purge(p)
  PROVE  Contract!Invalidate(p)
<1> USE DEF IInv, Purge, Go
<1>1. \A q \in Proc \ {p} : Owed(q)' = Owed(q) /\ Answer(q)' = Answer(q)
  BY DEF TypeOK, Owed, Answer
<1>2. Owed(p)' = {} /\ Answer(p)' = << >>
  BY DEF TypeOK, KeyInHand, Inside, Owed, Answer, Entry
<1>3. OwedBy' = [OwedBy EXCEPT ![p] = {}] /\ Answers' = [Answers EXCEPT ![p] = << >>]
  BY <1>1, <1>2 DEF OwedBy, Answers
<1>4. \A j \in Key : Held(j)' \subseteq Held(j) \union {NoEntry, store'[j]}
  BY LruAddResult DEF TypeOK, KeyInHand, Inside, Held, Entry, Empty
<1>5. \A j \in Key : /\ Stale'[j] \subseteq Stale[j] \union {store[j]}
                     /\ store'[j] = store[j] => Stale'[j] \subseteq Stale[j]
  BY <1>4, StaleValues
<1>6. Key \in SUBSET Key /\ doubt' = doubt \ Key /\ OwedBy'[p] = OwedBy[p] \ Key
  BY <1>2 DEF TypeOK, KeyInHand, Inside, OwedBy, Owed
<1>7. \A j \in Key : Stale'[j] = {}
  <2> SUFFICES ASSUME NEW j \in Key, NEW v \in Held(j)' PROVE v = NoEntry
    BY <1>6 DEF Stale
  <2> QED BY <1>6, LockIsFree DEF TypeOK, Held, LocksExclude, KeyInHand, Inside, Empty
<1>8. OwedBy' = [OwedBy EXCEPT ![p] = @ \ Key]
  BY <1>3, <1>6 DEF OwedBy
<1>9. \A j \in Key : Stale'[j] \subseteq Stale[j]
  BY <1>5
<1>10. Answers' \in {Answers, [Answers EXCEPT ![p] = << >>]}
  BY <1>3 DEF Answers
<1> QED BY <1>6, <1>7, <1>8, <1>9, <1>10, IsInvalidate

(* Toggle is an Invalidate of the contract. *)
LEMMA ToggleImplements ==
  ASSUME IInv, IInv', Toggle
  PROVE  \E p \in Proc : Contract!Invalidate(p)
<1> USE DEF IInv, Toggle
<1>1. PICK p \in Proc : TRUE
  OBVIOUS
<1>2. OwedBy' = OwedBy /\ Answers' = Answers /\ \A q \in Proc : OwedBy[q] = {}
  BY DEF TypeOK, OwedBy, Answers, Owed, Answer
<1>3. OwedBy' = [OwedBy EXCEPT ![p] = @ \ Key]
  BY <1>2 DEF OwedBy
<1>4. \A j \in Key : Stale'[j] = {}
  <2> SUFFICES ASSUME NEW j \in Key, NEW v \in Held(j)' PROVE v = NoEntry
    BY DEF Stale
  <2> QED BY DEF TypeOK, Held, Empty
<1>5. doubt' = doubt \ Key
  BY DEF TypeOK
<1> QED BY <1>2, <1>3, <1>4, <1>5, IsInvalidate

(* Every step of the cache is a step of the contract, or leaves all that   *)
(* the contract speaks of as it is.                                        *)
LEMMA StepImplements ==
  ASSUME IInv, IInv', [Next]_vars
  PROVE  [Contract!Next]_Contract!contractVars
<1>1. CASE Toggle
  BY <1>1, ToggleImplements DEF Contract!Next
<1>2. ASSUME NEW p \in Proc,
             \/ GetBackend(p) \/ GetError(p) \/ GetFill(p)
             \/ PutCache(p) \/ DeleteCache(p)
             \/ BeginTx(p) \/ Commit(p) \/ CommitFails(p) \/ Rollback(p)
             \/ Restore(p) \/ Purge(p)
      PROVE  Contract!Next
  BY <1>2, GetBackendImplements, GetErrorImplements, GetFillImplements,
     PutCacheImplements, DeleteCacheImplements, BeginTxImplements,
     CommitImplements, CommitFailsImplements, RollbackImplements,
     RestoreImplements, PurgeImplements DEF Contract!Next
<1>3. ASSUME NEW p \in Proc, NEW k \in Key,
             \/ GetBypass(p, k) \/ GetHit(p, k)
             \/ \E refresh \in BOOLEAN : GetMiss(p, k, refresh)
             \/ DeleteStore(p, k)
             \/ TxGetHit(p, k) \/ TxGetMiss(p, k) \/ TxDelete(p, k)
             \/ InvalidateKey(p, k)
      PROVE  Contract!Next
  BY <1>3, GetBypassImplements, GetHitImplements, GetMissImplements,
     DeleteStoreImplements, TxGetHitImplements, TxGetMissImplements,
     TxDeleteImplements, InvalidateKeyImplements DEF Contract!Next
<1>4. ASSUME NEW p \in Proc, NEW k \in Key, NEW v \in Value,
             \/ WriteBypass(p, k, v) \/ PutStore(p, k, v)
             \/ WriteFails(p, k, v)
             \/ TxPut(p, k, v) \/ ApplyRemote(p, k, v)
      PROVE  Contract!Next
  BY <1>4, WriteBypassImplements, PutStoreImplements, WriteFailsImplements,
     TxPutImplements, ApplyRemoteImplements DEF Contract!Next
<1>5. CASE UNCHANGED vars
  BY <1>5 DEF vars, Contract!contractVars, Stale, OwedBy, Answers, Held, Owed,
              Answer
<1> QED BY <1>1, <1>2, <1>3, <1>4, <1>5 DEF Next

(* The initial states are initial states of the contract. *)
LEMMA InitImplements == Init => Contract!Init
<1> SUFFICES ASSUME Init PROVE Contract!Init
  OBVIOUS
<1>1. Stale = [k \in Key |-> {}]
  BY DEF Init, Stale, Held, Empty
<1>2. OwedBy = [p \in Proc |-> {}]
  BY DEF Init, OwedBy, Owed
<1>3. Answers = [p \in Proc |-> << >>]
  BY DEF Init, Answers, Answer
<1> QED BY <1>1, <1>2, <1>3 DEF Init, Contract!Init, Contract!NoAnswer

-----------------------------------------------------------------------------
(* The state of the cache keeps its types.                                 *)
THEOREM TypeCorrect == Spec => []TypeOK
<1>1. IInv => TypeOK
  BY DEF IInv
<1> QED BY <1>1, Invariance, PTL

(* For any number of clients, keys and locks and any size of the LRU, the  *)
(* cache implements its contract: a read never gives a value that a write  *)
(* replaced and whose writer has returned without an error.                *)
THEOREM Refinement == Spec => ImplementsContract
<1>1. Spec => Contract!Init
  BY InitImplements DEF Spec
<1>2. IInv /\ IInv' /\ [Next]_vars => [Contract!Next]_Contract!contractVars
  BY StepImplements
<1> QED BY <1>1, <1>2, Invariance, PTL DEF Spec, ImplementsContract, Contract!Spec

(* A step of the contract keeps what is cached current.                    *)
LEMMA ContractKeepsCurrent ==
  ASSUME CachedIsCurrent, [Contract!Next]_Contract!contractVars,
         TypeOK, TypeOK'
  PROVE  CachedIsCurrent'
<1>1. \A k \in Key : k \notin doubt /\ (\A p \in Proc : k \notin OwedBy[p])
                       => Stale[k] = {}
  BY DEF CachedIsCurrent, OwedBy, Stale
<1>2. SUFFICES ASSUME NEW k \in Key, k \notin doubt',
                      \A p \in Proc : k \notin OwedBy'[p]
               PROVE  Stale'[k] = {}
  BY DEF CachedIsCurrent, OwedBy, Stale
<1>3. \A p, q \in Proc : \A x : [OwedBy EXCEPT ![p] = x][q] = IF p = q THEN x ELSE OwedBy[q]
  BY DEF OwedBy
<1>4. CASE UNCHANGED Contract!contractVars
  BY <1>1, <1>2, <1>4 DEF Contract!contractVars
<1>5. ASSUME NEW p \in Proc, Contract!Read(p) \/ Contract!Drop(p)
      PROVE  Stale'[k] = {}
  BY <1>1, <1>2, <1>5 DEF Contract!Read, Contract!Drop, Contract!Fades
<1>6. ASSUME NEW p \in Proc, Contract!Write(p)
      PROVE  Stale'[k] = {}
  <2>1. k \notin doubt
    BY <1>2, <1>6 DEF Contract!Write
  <2>2. CASE store'[k] # store[k]
    BY <1>2, <1>6, <2>2 DEF Contract!Write
  <2>3. CASE store'[k] = store[k]
    BY <1>1, <1>2, <1>3, <1>6, <2>1, <2>3 DEF Contract!Write
  <2> QED BY <2>2, <2>3
<1>7. ASSUME NEW p \in Proc, Contract!Settle(p)
      PROVE  Stale'[k] = {}
  BY <1>1, <1>2, <1>3, <1>7 DEF Contract!Settle, Contract!Fades
<1>8. ASSUME NEW p \in Proc, Contract!Invalidate(p)
      PROVE  Stale'[k] = {}
  BY <1>1, <1>2, <1>3, <1>8 DEF Contract!Invalidate, Contract!Fades
<1> QED BY <1>4, <1>5, <1>6, <1>7, <1>8 DEF Contract!Next

(* What is cached, or about to be, is what the storage has, except for     *)
(* keys with a write that has not returned or that failed.                 *)
THEOREM CacheIsCurrent == Spec => []CachedIsCurrent
<1>1. Init => CachedIsCurrent
  BY DEF Init, CachedIsCurrent, Held, Empty
<1>2. IInv /\ IInv' /\ CachedIsCurrent /\ [Next]_vars => CachedIsCurrent'
  BY StepImplements, ContractKeepsCurrent DEF IInv
<1> QED BY <1>1, <1>2, Invariance, PTL DEF Spec

(* A transaction's own cache shows what the transaction shows, and nothing *)
(* of a key that is not to be cached.                                      *)
TxCacheFollows ==
  \A p \in Proc, k \in Key :
    pc[p] = "tx" => /\ tx[p].lru[k] \in {NoEntry, tx[p].view[k]}
                    /\ ~ShouldCache(k) => tx[p].lru[k] = NoEntry

(* Put and Delete of a transaction keep that, whatever entry they leave.   *)
LEMMA TxWriteFollows ==
  ASSUME IInv, TxCacheFollows, NEW p \in Proc, NEW j \in Key, NEW v \in Value,
         NEW caches, TxWrite(p, j, v, caches),
         \A c \in caches : /\ c[j] \in {NoEntry, v}
                           /\ \A i \in Key \ {j} : c[i] \in {NoEntry, tx[p].lru[i]}
  PROVE  TxCacheFollows'
<1>1. PICK c \in IF ShouldCache(j) THEN caches ELSE {tx[p].lru} :
        tx' = [tx EXCEPT ![p] =
                 [view     |-> [tx[p].view EXCEPT ![j] = v],
                  written  |-> tx[p].written \union {j},
                  lru      |-> c,
                  modified |-> IF ShouldCache(j) THEN tx[p].modified \union {j}
                                                 ELSE tx[p].modified]]
  BY DEF TxWrite
<1>2. /\ tx'[p].lru = c /\ tx'[p].view = [tx[p].view EXCEPT ![j] = v]
      /\ \A q \in Proc \ {p} : tx'[q] = tx[q]
      /\ tx[p].view \in [Key -> Value]
  BY <1>1 DEF IInv, TypeOK, TxRecord
<1>3. \A k \in Key : /\ c[k] \in {NoEntry, tx'[p].view[k]}
                     /\ ~ShouldCache(k) => c[k] = NoEntry
  BY <1>1, <1>2 DEF TxWrite, TxCacheFollows
<1> QED BY <1>2, <1>3 DEF TxWrite, TxCacheFollows, ShouldCache

(* Every step keeps that.                                                 *)
LEMMA TxCacheStep ==
  ASSUME IInv, TxCacheFollows, [Next]_vars
  PROVE  TxCacheFollows'
<1>1. ASSUME NEW p \in Proc, NEW j \in Key, TxGetMiss(p, j)
      PROVE  TxCacheFollows'
  <2>1. PICK c \in IF ShouldCache(j) THEN LruAdd(tx[p].lru, j, tx[p].view[j])
                                     ELSE {tx[p].lru} :
          tx' = [tx EXCEPT ![p] = [tx[p] EXCEPT !.lru = c]]
    BY <1>1 DEF TxGetMiss
  <2>2. /\ tx'[p].lru = c /\ tx'[p].view = tx[p].view
        /\ \A q \in Proc \ {p} : tx'[q] = tx[q]
        /\ tx[p].lru \in [Key -> Entry] /\ tx[p].view[j] \in Entry
    BY <2>1 DEF IInv, TypeOK, TxRecord, Entry
  <2>3. \A k \in Key : c[k] \in {NoEntry, tx[p].lru[k]} \/ (k = j /\ c[k] = tx[p].view[j])
    <3>1. CASE ShouldCache(j)
      BY <2>1, <2>2, <3>1, LruAddResult
    <3>2. CASE ~ShouldCache(j)
      BY <2>1, <3>2
    <3> QED BY <3>1, <3>2
  <2>4. \A k \in Key : ~ShouldCache(k) => c[k] = NoEntry
    <3>1. CASE ShouldCache(j)
      BY <1>1, <2>3, <3>1 DEF TxGetMiss, TxCacheFollows
    <3>2. CASE ~ShouldCache(j)
      BY <1>1, <2>1, <3>2 DEF TxGetMiss, TxCacheFollows
    <3> QED BY <3>1, <3>2
  <2> QED BY <1>1, <2>2, <2>3, <2>4 DEF TxGetMiss, TxCacheFollows, ShouldCache
<1>2. ASSUME NEW p \in Proc, NEW j \in Key, NEW v \in Value, TxPut(p, j, v)
      PROVE  TxCacheFollows'
  <2>1. tx[p].lru \in [Key -> Entry] /\ v \in Entry
    BY DEF IInv, TypeOK, TxRecord, Entry
  <2>2. \A c \in LruAdd(tx[p].lru, j, v) :
          c[j] = v /\ \A i \in Key \ {j} : c[i] \in {NoEntry, tx[p].lru[i]}
    BY <2>1, LruAddResult
  <2> QED BY <1>2, <2>2, TxWriteFollows DEF TxPut
<1>3. ASSUME NEW p \in Proc, NEW j \in Key, TxDelete(p, j)
      PROVE  TxCacheFollows'
  <2>1. \A c \in {LruRemove(tx[p].lru, j)} :
          c[j] = NoEntry /\ \A i \in Key \ {j} : c[i] \in {NoEntry, tx[p].lru[i]}
    BY DEF IInv, TypeOK, TxRecord, LruRemove
  <2> QED BY <1>3, <2>1, TxWriteFollows DEF TxDelete
<1>4. ASSUME NEW p \in Proc, BeginTx(p)
      PROVE  TxCacheFollows'
  BY <1>4 DEF BeginTx, Go, NoTx, Empty, IInv, TypeOK, TxCacheFollows, ShouldCache
<1>5. ASSUME NEW p \in Proc, Commit(p) \/ CommitFails(p) \/ Rollback(p)
      PROVE  TxCacheFollows'
  BY <1>5 DEF Commit, CommitFails, Rollback, Finish, Go, IInv, TypeOK,
              TxCacheFollows, ShouldCache
<1>6. ASSUME UNCHANGED <<enabled, tx>>,
             \A p \in Proc : pc'[p] = "tx" => pc[p] = "tx"
      PROVE  TxCacheFollows'
  BY <1>6 DEF TxCacheFollows, ShouldCache
<1>7. CASE Toggle
  BY <1>7 DEF Toggle, TxCacheFollows
<1>8. CASE UNCHANGED vars
  BY <1>6, <1>8 DEF vars
<1>9. ASSUME NEW p \in Proc,
             \/ GetBackend(p) \/ GetError(p) \/ GetFill(p)
             \/ PutCache(p) \/ DeleteCache(p) \/ Restore(p) \/ Purge(p)
      PROVE  TxCacheFollows'
  BY <1>6, <1>9 DEF GetBackend, GetError, GetFill, PutCache, DeleteCache,
     Restore, Purge, Go, IInv, TypeOK
<1>10. ASSUME NEW p \in Proc, NEW k \in Key,
              \/ GetBypass(p, k) \/ GetHit(p, k)
              \/ \E refresh \in BOOLEAN : GetMiss(p, k, refresh)
              \/ DeleteStore(p, k) \/ TxGetHit(p, k) \/ InvalidateKey(p, k)
       PROVE  TxCacheFollows'
  BY <1>6, <1>10 DEF GetBypass, GetHit, GetMiss, DeleteStore, WriteStore,
     TxGetHit, InvalidateKey, Go, IInv, TypeOK
<1>11. ASSUME NEW p \in Proc, NEW k \in Key, NEW v \in Value,
              \/ WriteBypass(p, k, v) \/ PutStore(p, k, v)
              \/ WriteFails(p, k, v) \/ ApplyRemote(p, k, v)
       PROVE  TxCacheFollows'
  BY <1>6, <1>11 DEF WriteBypass, PutStore, WriteStore, WriteFails,
     ApplyRemote, Go, IInv, TypeOK
<1> QED BY <1>1, <1>2, <1>3, <1>4, <1>5, <1>7, <1>8, <1>9, <1>10, <1>11 DEF Next

(* A transaction reads what it has written, and its snapshot otherwise,    *)
(* also through its own cache.                                             *)
THEOREM TxReads == Spec => []TxReadsItsOwn
<1>1. Init => TxCacheFollows
  BY DEF Init, TxCacheFollows
<1>2. IInv /\ TxCacheFollows /\ [Next]_vars => TxCacheFollows'
  BY TxCacheStep
<1>3. TxCacheFollows => TxReadsItsOwn
  BY DEF TxCacheFollows, TxReadsItsOwn
<1> QED BY <1>1, <1>2, <1>3, Invariance, PTL DEF Spec
=============================================================================
