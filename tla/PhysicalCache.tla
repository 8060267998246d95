---------------------------- MODULE PhysicalCache ----------------------------
(***************************************************************************)
(* The cache in front of the physical storage, sdk/physical/cache.go.      *)
(*                                                                         *)
(* Every client p runs one operation at a time.  What it holds follows     *)
(* from pc[p]: "read" and "fill" are inside Get with the read lock of the  *)
(* key, "put" and "delete" inside Put and Delete with its write lock,      *)
(* after the storage was changed and before the cache is.  "tx" is an open *)
(* transaction; "inval" and "purge" are after a change of the storage that *)
(* took no lock of the cache, with the keys in todo[p] still to be         *)
(* invalidated.  A call that changes nothing (an error of the storage with *)
(* no effect, a List, which the cache passes through) is a stuttering step.*)
(***************************************************************************)
EXTENDS Naturals, FiniteSets

CONSTANTS
  Key,
  Value,      \* contents of an entry, Absent for none
  Absent,
  NoEntry,    \* nothing is cached
  NoKey,
  Proc,
  Lock,
  LockOf,     \* [Key -> Lock]: several keys share one
  Exceptions, \* keys under cacheExceptionsPaths
  Size,       \* entries of the LRU cache
  MaxChanges  \* bounds the changes made by others: replication and restores

ASSUME CacheAssumption ==
  /\ Absent \in Value
  /\ NoEntry \notin Value
  /\ NoKey \notin Key
  /\ LockOf \in [Key -> Lock]
  /\ Exceptions \subseteq Key
  /\ Proc # {}
  /\ Size \in Nat \ {0}
  /\ MaxChanges \in Nat

VARIABLES
  enabled,   \* cache.enabled
  store,     \* the backend
  lru,       \* cache.lru
  pc,
  key,       \* the key of the operation
  val,       \* the entry in the client's hands
  todo,      \* keys to invalidate
  tx,        \* the client's transaction
  doubt,     \* auxiliary: keys of writes that failed after they took effect
  changes    \* bound on the changes made by others

vars == <<enabled, store, lru, pc, key, val, todo, tx, doubt, changes>>

Entry == Value \union {NoEntry}
Empty == [k \in Key |-> NoEntry]

(* A transaction: what its storage transaction shows, the keys that this   *)
(* one has written, its own cache and cacheTransaction.modified.           *)
NoTx == [view |-> [k \in Key |-> Absent], written |-> {},
         lru |-> Empty, modified |-> {}]
TxRecord == [view: [Key -> Value], written: SUBSET Key,
             lru: [Key -> Entry], modified: SUBSET Key]

States == {"idle", "read", "fill", "put", "delete", "tx", "inval", "purge"}

TypeOK ==
  /\ enabled \in BOOLEAN
  /\ store \in [Key -> Value]
  /\ lru \in [Key -> Entry]
  /\ pc \in [Proc -> States]
  /\ key \in [Proc -> Key \union {NoKey}]
  /\ val \in [Proc -> Entry]
  /\ todo \in [Proc -> SUBSET Key]
  /\ tx \in [Proc -> TxRecord]
  /\ doubt \subseteq Key
  /\ changes \in 0 .. MaxChanges

Init ==
  /\ enabled = FALSE
  /\ store \in [Key -> Value]
  /\ lru = Empty
  /\ pc = [p \in Proc |-> "idle"]
  /\ key = [p \in Proc |-> NoKey]
  /\ val = [p \in Proc |-> NoEntry]
  /\ todo = [p \in Proc |-> {}]
  /\ tx = [p \in Proc |-> NoTx]
  /\ doubt = {}
  /\ changes = 0

-----------------------------------------------------------------------------
ShouldCache(k) == enabled /\ k \notin Exceptions

(* LockEntry of locksutil: many readers or one writer.                     *)
HoldsRead(q, l)  == pc[q] \in {"read", "fill"} /\ LockOf[key[q]] = l
HoldsWrite(q, l) == pc[q] \in {"put", "delete"} /\ LockOf[key[q]] = l
MayRLock(l) == \A q \in Proc : ~HoldsWrite(q, l)
MayLock(l)  == \A q \in Proc : ~HoldsWrite(q, l) /\ ~HoldsRead(q, l)

(* TwoQueueCache.Add: a full cache gives up one entry for a new one.       *)
LruAdd(c, k, v) ==
  LET new == [c EXCEPT ![k] = v]
      others == {j \in Key \ {k} : c[j] # NoEntry}
  IN  IF c[k] # NoEntry \/ Cardinality(others) < Size
      THEN {new}
      ELSE {[new EXCEPT ![j] = NoEntry] : j \in others}

LruRemove(c, k) == [c EXCEPT ![k] = NoEntry]

Go(p, state) == pc' = [pc EXCEPT ![p] = state]
Hold(p, k, v) == key' = [key EXCEPT ![p] = k] /\ val' = [val EXCEPT ![p] = v]
Release(p) == Hold(p, NoKey, NoEntry)

-----------------------------------------------------------------------------
(* cache.Get.  The context may ask for a refresh, which skips the lookup.  *)
GetBypass(p, k) ==
  /\ pc[p] = "idle" /\ ~ShouldCache(k)
  /\ Hold(p, k, store[k])
  /\ UNCHANGED <<enabled, store, lru, pc, todo, tx, doubt, changes>>

GetHit(p, k) ==
  /\ pc[p] = "idle" /\ ShouldCache(k) /\ MayRLock(LockOf[k])
  /\ lru[k] # NoEntry
  /\ Hold(p, k, lru[k])
  /\ UNCHANGED <<enabled, store, lru, pc, todo, tx, doubt, changes>>

GetMiss(p, k, refresh) ==
  /\ pc[p] = "idle" /\ ShouldCache(k) /\ MayRLock(LockOf[k])
  /\ refresh \/ lru[k] = NoEntry
  /\ Go(p, "read")
  /\ Hold(p, k, NoEntry)
  /\ UNCHANGED <<enabled, store, lru, todo, tx, doubt, changes>>

GetBackend(p) ==
  /\ pc[p] = "read"
  /\ Go(p, "fill")
  /\ Hold(p, key[p], store[key[p]])
  /\ UNCHANGED <<enabled, store, lru, todo, tx, doubt, changes>>

GetError(p) ==
  /\ pc[p] = "read"
  /\ Go(p, "idle")
  /\ Release(p)
  /\ UNCHANGED <<enabled, store, lru, todo, tx, doubt, changes>>

GetFill(p) ==
  /\ pc[p] = "fill"
  /\ lru' \in LruAdd(lru, key[p], val[p])
  /\ Go(p, "idle")
  /\ UNCHANGED <<enabled, store, key, val, todo, tx, doubt, changes>>

(* cache.Put and cache.Delete outside of the cache.                        *)
WriteBypass(p, k, v) ==
  /\ pc[p] = "idle" /\ ~ShouldCache(k)
  /\ store' = [store EXCEPT ![k] = v]
  /\ Release(p)
  /\ UNCHANGED <<enabled, lru, pc, todo, tx, doubt, changes>>

(* The storage changes under the write lock.                               *)
WriteStore(p, k, v, state) ==
  /\ pc[p] = "idle" /\ ShouldCache(k) /\ MayLock(LockOf[k])
  /\ store' = [store EXCEPT ![k] = v]
  /\ Go(p, state)
  /\ Hold(p, k, v)
  /\ UNCHANGED <<enabled, lru, todo, tx, doubt, changes>>

(* It changes and answers with an error all the same: the cache is left    *)
(* alone.                                                                  *)
WriteFails(p, k, v) ==
  /\ pc[p] = "idle" /\ ShouldCache(k) /\ MayLock(LockOf[k])
  /\ store' = [store EXCEPT ![k] = v]
  /\ Release(p)
  /\ doubt' = doubt \union {k}
  /\ UNCHANGED <<enabled, lru, pc, todo, tx, changes>>

PutStore(p, k, v) == v # Absent /\ WriteStore(p, k, v, "put")

PutCache(p) ==
  /\ pc[p] = "put"
  /\ lru' \in LruAdd(lru, key[p], val[p])
  /\ Go(p, "idle")
  /\ Release(p)
  /\ UNCHANGED <<enabled, store, todo, tx, doubt, changes>>

DeleteStore(p, k) == WriteStore(p, k, Absent, "delete")

DeleteCache(p) ==
  /\ pc[p] = "delete"
  /\ lru' = LruRemove(lru, key[p])
  /\ doubt' = doubt \ {key[p]}
  /\ Go(p, "idle")
  /\ Release(p)
  /\ UNCHANGED <<enabled, store, todo, tx, changes>>

-----------------------------------------------------------------------------
(* A transaction is used by one client.  It reads and writes through a     *)
(* cache of its own, which starts empty and is as enabled as its parent:   *)
(* the parent is not switched on or off while a transaction is open.       *)
BeginTx(p) ==
  /\ pc[p] = "idle"
  /\ Go(p, "tx")
  /\ tx' = [tx EXCEPT ![p] = [NoTx EXCEPT !.view = store]]
  /\ Release(p)
  /\ UNCHANGED <<enabled, store, lru, todo, doubt, changes>>

(* cache.Get with the transaction as its backend.                          *)
TxGetHit(p, k) ==
  /\ pc[p] = "tx" /\ ShouldCache(k) /\ tx[p].lru[k] # NoEntry
  /\ Hold(p, k, tx[p].lru[k])
  /\ UNCHANGED <<enabled, store, lru, pc, todo, tx, doubt, changes>>

TxGetMiss(p, k) ==
  /\ pc[p] = "tx"
  /\ ShouldCache(k) => tx[p].lru[k] = NoEntry
  /\ Hold(p, k, tx[p].view[k])
  /\ \E c \in IF ShouldCache(k) THEN LruAdd(tx[p].lru, k, tx[p].view[k])
                                ELSE {tx[p].lru} :
       tx' = [tx EXCEPT ![p].lru = c]
  /\ UNCHANGED <<enabled, store, lru, pc, todo, doubt, changes>>

(* cacheTransaction.Put and Delete.                                        *)
TxWrite(p, k, v, caches) ==
  /\ pc[p] = "tx"
  /\ \E c \in IF ShouldCache(k) THEN caches ELSE {tx[p].lru} :
       tx' = [tx EXCEPT ![p] =
                [view     |-> [@.view EXCEPT ![k] = v],
                 written  |-> @.written \union {k},
                 lru      |-> c,
                 modified |-> IF ShouldCache(k) THEN @.modified \union {k}
                                                ELSE @.modified]]
  /\ Release(p)
  /\ UNCHANGED <<enabled, store, lru, pc, todo, doubt, changes>>

(* Mutant of TxPut: the transaction's own cache is not written through.    *)
TxPutNotCached(p, k, v) == v # Absent /\ TxWrite(p, k, v, {tx[p].lru})

TxPut(p, k, v) == v # Absent /\ TxWrite(p, k, v, LruAdd(tx[p].lru, k, v))
TxDelete(p, k) == TxWrite(p, k, Absent, {LruRemove(tx[p].lru, k)})

(* The storage transaction is over: p goes on to invalidate the keys K.    *)
Finish(p, K) ==
  /\ Go(p, IF K = {} THEN "idle" ELSE "inval")
  /\ todo' = [todo EXCEPT ![p] = K]
  /\ tx' = [tx EXCEPT ![p] = NoTx]
  /\ Release(p)

(* Mutant of Commit: only the keys still in the transaction's own cache are *)
(* invalidated, so that a deleted key is not.                              *)
CommitCachedOnly(p) ==
  /\ pc[p] = "tx"
  /\ store' = [k \in Key |-> IF k \in tx[p].written THEN tx[p].view[k]
                                                    ELSE store[k]]
  /\ Finish(p, {k \in tx[p].modified : tx[p].lru[k] # NoEntry})
  /\ UNCHANGED <<enabled, lru, doubt, changes>>

(* cacheTransaction.Commit up to the answer of the storage, which takes    *)
(* the writes or refuses them (then nothing changes, as in Rollback).      *)
Commit(p) ==
  /\ pc[p] = "tx"
  /\ store' = [k \in Key |-> IF k \in tx[p].written THEN tx[p].view[k]
                                                    ELSE store[k]]
  /\ Finish(p, tx[p].modified)
  /\ UNCHANGED <<enabled, lru, doubt, changes>>

(* The storage takes the writes and answers with an error all the same:    *)
(* nothing is invalidated.                                                 *)
CommitFails(p) ==
  /\ pc[p] = "tx"
  /\ store' = [k \in Key |-> IF k \in tx[p].written THEN tx[p].view[k]
                                                    ELSE store[k]]
  /\ doubt' = doubt \union tx[p].modified
  /\ Finish(p, {})
  /\ UNCHANGED <<enabled, lru, changes>>

Rollback(p) ==
  /\ pc[p] = "tx"
  /\ Finish(p, {})
  /\ UNCHANGED <<enabled, store, lru, doubt, changes>>

(* Mutant of InvalidateKey: the entry is removed without the lock.         *)
InvalidateUnlocked(p, k) ==
  /\ pc[p] = "inval" /\ k \in todo[p]
  /\ lru' = LruRemove(lru, k)
  /\ doubt' = doubt \ {k}
  /\ todo' = [todo EXCEPT ![p] = @ \ {k}]
  /\ Go(p, IF todo[p] = {k} THEN "idle" ELSE "inval")
  /\ UNCHANGED <<enabled, store, key, val, tx, changes>>

(* The end of Commit, and cache.Invalidate: under the write lock of k its  *)
(* entry is removed.                                                       *)
InvalidateKey(p, k) ==
  /\ pc[p] = "inval" /\ k \in todo[p] /\ MayLock(LockOf[k])
  /\ lru' = LruRemove(lru, k)
  /\ doubt' = doubt \ {k}
  /\ todo' = [todo EXCEPT ![p] = @ \ {k}]
  /\ Go(p, IF todo[p] = {k} THEN "idle" ELSE "inval")
  /\ UNCHANGED <<enabled, store, key, val, tx, changes>>

-----------------------------------------------------------------------------
(* Another node's write arrives through replication; the invalidation job  *)
(* of its key comes later.                                                 *)
ApplyRemote(p, k, v) ==
  /\ pc[p] = "idle" /\ changes < MaxChanges
  /\ store' = [store EXCEPT ![k] = v]
  /\ Go(p, "inval")
  /\ todo' = [todo EXCEPT ![p] = {k}]
  /\ Release(p)
  /\ changes' = changes + 1
  /\ UNCHANGED <<enabled, lru, tx, doubt>>

(* A snapshot replaces the storage; the restore callback purges the cache  *)
(* afterwards.                                                             *)
Restore(p) ==
  /\ pc[p] = "idle" /\ changes < MaxChanges
  /\ store' \in [Key -> Value]
  /\ Go(p, "purge")
  /\ todo' = [todo EXCEPT ![p] = Key]
  /\ Release(p)
  /\ changes' = changes + 1
  /\ UNCHANGED <<enabled, lru, tx, doubt>>

(* cache.Purge "locks the world".                                          *)
Purge(p) ==
  /\ pc[p] = "purge"
  /\ \A l \in Lock : MayLock(l)
  /\ lru' = Empty
  /\ doubt' = {}
  /\ todo' = [todo EXCEPT ![p] = {}]
  /\ Go(p, "idle")
  /\ UNCHANGED <<enabled, store, key, val, tx, changes>>

(* postUnseal purges and enables, preSeal disables and purges, while the   *)
(* core's state lock keeps every request out.                              *)
Toggle ==
  /\ \A p \in Proc : pc[p] = "idle"
  /\ enabled' = ~enabled
  /\ lru' = Empty
  /\ doubt' = {}
  /\ UNCHANGED <<store, pc, key, val, todo, tx, changes>>

Next ==
  \/ Toggle
  \/ \E p \in Proc :
       \/ GetBackend(p) \/ GetError(p) \/ GetFill(p)
       \/ PutCache(p) \/ DeleteCache(p)
       \/ BeginTx(p) \/ Commit(p) \/ CommitFails(p) \/ Rollback(p)
       \/ Restore(p) \/ Purge(p)
       \/ \E k \in Key :
            \/ GetBypass(p, k) \/ GetHit(p, k)
            \/ \E refresh \in BOOLEAN : GetMiss(p, k, refresh)
            \/ DeleteStore(p, k)
            \/ TxGetHit(p, k) \/ TxGetMiss(p, k) \/ TxDelete(p, k)
            \/ InvalidateKey(p, k)
            \/ \E v \in Value :
                 \/ WriteBypass(p, k, v) \/ PutStore(p, k, v)
                 \/ WriteFails(p, k, v)
                 \/ TxPut(p, k, v) \/ ApplyRemote(p, k, v)

Spec == Init /\ [][Next]_vars

-----------------------------------------------------------------------------
(* The keys whose invalidation p still owes.                               *)
Owed(p) ==
  CASE pc[p] \in {"put", "delete"}  -> {key[p]}
    [] pc[p] \in {"inval", "purge"} -> todo[p]
    [] OTHER -> {}

(* What the cache holds for k or a client is about to put there.           *)
Held(k) ==
  {v \in Entry : \/ v = lru[k]
                  \/ \E p \in Proc : /\ pc[p] \in {"fill", "put"}
                                      /\ key[p] = k /\ val[p] = v}

(* What a client's last Get found.                                         *)
Answer(p) ==
  IF pc[p] \in {"idle", "fill"} /\ val[p] # NoEntry
  THEN <<key[p], val[p]>> ELSE << >>

(* The refinement mapping.                                                 *)
Stale   == [k \in Key |-> Held(k) \ {NoEntry, store[k]}]
OwedBy  == [p \in Proc |-> Owed(p)]
Answers == [p \in Proc |-> Answer(p)]

Contract ==
  INSTANCE CacheContract
    WITH stale <- Stale, owed <- OwedBy, answer <- Answers

(* The cache keeps the promise of a storage whose reads are current except *)
(* for writes that are on their way: cache.go calls itself a "write-through*)
(* cache", and Commit invalidates without a lock around both halves.       *)
ImplementsContract == Contract!Spec

(* An entry that is cached, or that a Get or a Put will still add, is the  *)
(* entry of the storage, unless a writer of its key has yet to take the    *)
(* key's lock, or failed without saying whether it wrote.                  *)
CachedIsCurrent ==
  \A k \in Key :
    k \notin doubt /\ (\A p \in Proc : k \notin Owed(p))
      => Held(k) \subseteq {NoEntry, store[k]}

(* A transaction's own cache shows what its storage transaction shows, its *)
(* own writes and deletes first.                                           *)
TxReadsItsOwn ==
  \A p \in Proc, k \in Key :
    pc[p] = "tx" => tx[p].lru[k] \in {NoEntry, tx[p].view[k]}
=============================================================================
