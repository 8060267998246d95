--------------------------- MODULE RaftTransactions ---------------------------
(***************************************************************************)
(* Interactive storage transactions of the raft backend:                   *)
(* internal/physical/raft/transaction.go, fsm.go and raft.go.              *)
(*                                                                         *)
(* A transaction runs on the leader against a bbolt snapshot.  Commit puts *)
(* its reads, lists and writes in one raft log entry, and every replica    *)
(* decides, when it applies the entry, whether the transaction conflicts.  *)
(* A replica skips the verification of a read when its fast-commit tracker *)
(* (indexModifiedMap) holds no later modification of the key.  The tracker *)
(* is in memory only, and its old entries are cleared up to an index that  *)
(* the leader computes from the transactions it has open (sourceIndexMap). *)
(*                                                                         *)
(* The raft library is external: log is the committed log, and dispatched  *)
(* is the leader's raft.AppliedIndex(), which runs ahead of the FSM since  *)
(* the library hands entries to the FSM's goroutine through a channel.     *)
(*                                                                         *)
(* ref, intact and calm are history variables that no action reads.        *)
(* ref[i] has the state that log entries 1..i lead to when no check of an  *)
(* entry is skipped, with the outcome of entry i.  intact and calm say     *)
(* which of the events that the code does not guard against have not       *)
(* happened so far.                                                        *)
(***************************************************************************)
EXTENDS Integers, Sequences, FiniteSets, Listing

CONSTANTS
  Key, Value,      \* storage paths and contents
  Absent, Unset,   \* no entry in storage; no record in a reads or updates map
  Empty,           \* the content of length zero, if it is in Value
  Query,           \* the ListPage calls that transactions make
  Txn, Writer,     \* transaction handles, and callers of Backend.Put/Delete
  Replica, Leader,
  TxnPermits,      \* size of txnPermitPool
  MaxLog,          \* bound on the length of the log
  MaxBatch,        \* bound on the entries of one ApplyBatch call
  MaxRestarts,     \* bound on replica restarts
  MaxSnapshots,    \* bound on raft snapshots
  MaxFailures,     \* bound on storage and raft errors
  MaxConfigs       \* bound on membership changes

ASSUME ContentAssumption ==
  /\ Absent \notin Value
  /\ Unset \notin Value \cup {Absent}

ASSUME PathAssumption ==
  /\ Key \subseteq Seq(Nat)
  /\ Query \subseteq [prefix : Seq(Nat), after : Seq(Nat), limit : Nat]

ASSUME ReplicaAssumption == Leader \in Replica

ASSUME BoundAssumption ==
  /\ MaxLog \in Nat
  /\ MaxBatch \in Nat \ {0}
  /\ {TxnPermits, MaxRestarts, MaxSnapshots, MaxFailures, MaxConfigs} \subseteq Nat

ASSUME FiniteAssumption == IsFiniteSet(Key) /\ IsFiniteSet(Txn)

VARIABLES
  log, dispatched,               \* the raft library
  db, cursor, stored,            \* per replica: bucket, entries applied to it,
                                 \*   index in the config bucket
  latestIndex, modified,         \* per replica: FSM.latestIndex, indexModifiedMap
  batch,                         \* per replica: the ApplyBatch call in progress
  snapshot, witnessed,           \* per replica: index of a snapshot being taken,
                                 \*   whether the config bucket has it
  verdict,                       \* the FSM's response to the leader's entries
  source,                        \* leader: sourceIndexMap
  txn, writer,                   \* leader: transactions and plain writers
  restarts, snapshots, failures, \* bounded counters
  ref, intact, calm              \* history

raftVars     == <<log, dispatched>>
fsmVars      == <<db, cursor, stored, latestIndex, modified, batch>>
snapshotVars == <<snapshot, witnessed>>
counterVars  == <<restarts, snapshots, failures>>
codeVars == <<raftVars, fsmVars, snapshotVars, verdict, source, txn, writer,
              counterVars, ref>>
vars == <<codeVars, intact, calm>>

-----------------------------------------------------------------------------
(* Data.                                                                   *)

Content  == Value \cup {Absent}
Store    == [Key -> Content]
Index    == 0 .. MaxLog
Infinite == MaxLog + 1           \* math.MaxUint64

NoKeys == [k \in Key |-> Unset]
Nothing == [k \in Key |-> Absent]

StoredKeys(store) == {k \in Key : store[k] # Absent}
KeysOf(map) == {k \in Key : map[k] # Unset}
Overwrite(store, writes) ==
  [k \in Key |-> IF writes[k] = Unset THEN store[k] ELSE writes[k]]

\* createVerificationEntryOfType: a missing entry is hashed as a nil slice, so
\* it has the digest of an entry without content.
Digest(content) == IF content = Empty THEN Absent ELSE content

\* Whether a write of key can change the list of a prefix.
Covers(prefix, key) == prefix = <<>> \/ HasPrefix(key, prefix)

\* Log entries.  start is the index of beginTxOp, reads and lists are the
\* verify operations, lowest is LowestActiveIndex.  A list check carries the
\* collapsed limit and the listed keys.
ListCheck == [prefix : Seq(Nat), after : Seq(Nat), limit : Nat,
              keys : SUBSET Seq(Nat)]
Entry == [kind : {"write", "txn", "config"}, start : Index,
          reads : [Key -> Content \cup {Unset}], lists : SUBSET ListCheck,
          writes : [Key -> Content \cup {Unset}], lowest : Index]

PlainEntry(key, content, lowest) ==
  [kind |-> "write", start |-> 0, reads |-> NoKeys, lists |-> {},
   writes |-> [NoKeys EXCEPT ![key] = content], lowest |-> lowest]

ConfigEntry ==
  [kind |-> "config", start |-> 0, reads |-> NoKeys, lists |-> {},
   writes |-> NoKeys, lowest |-> 0]

\* What the verify operations compare.  A list check has the keys as they are in
\* the bucket, and the page it is compared with has the names relative to the
\* prefix: once a list that found something is compared at all, it differs.
ReadHolds(store, entry, k) == Digest(store[k]) = entry.reads[k]
ListHolds(store, check) == ListPage(StoredKeys(store), check, {}, {}) = check.keys

\* What an entry that follows the log is answered when nothing is skipped: the
\* contents it read must be there, and each of its lists must compare equal
\* unless no write under the prefix took effect between its start and it.
Touched(start, last, prefix) ==
  \E i \in (start + 1) .. last :
     ref[i].ok /\ \E k \in KeysOf(log[i].writes) : Covers(prefix, k)
PassesAllChecks(entry) ==
  LET store == ref[Len(log)].store
  IN  /\ \A k \in KeysOf(entry.reads) : ReadHolds(store, entry, k)
      /\ \A c \in entry.lists :
            ~Touched(entry.start, Len(log), c.prefix) \/ ListHolds(store, c)

-----------------------------------------------------------------------------
(* The fast-commit tracker.                                                *)

\* Mutant of ActiveIndices: a second transaction at the same index is missed.
OtherIndices(own) == {i \in Index \ {own} : source[i] > 0} \cup {Infinite}

\* The starting indices that lowestActiveIndexAfterCommit(own) takes the
\* minimum of: its own transaction counts only if another has the same index.
ActiveIndices(own) ==
  {i \in Index : source[i] > 0 /\ ~(i = own /\ source[i] = 1)} \cup {Infinite}
IsLowestAfterCommit(lowest, own) ==
  lowest \in ActiveIndices(own) /\ \A i \in ActiveIndices(own) : lowest <= i
IsLowest(lowest) == IsLowestAfterCommit(lowest, Infinite)

\* Mutant of Capped: no cap.
Uncapped(lowest) == lowest

\* The cap that applyLog and Rollback put on it.
Capped(lowest) == IF lowest <= dispatched THEN lowest ELSE dispatched

trackTransaction(i) == [source EXCEPT ![i] = @ + 1]

completeTransaction(i) == [source EXCEPT ![i] = IF @ > 1 THEN @ - 1 ELSE 0]

\* indexModifiedMap has no entry for an index that maps to {} here: an entry
\* is only made for a write, and a transaction in the log has one.
clearOldEntries(map, lowest) ==
  [i \in DOMAIN map |-> IF i < lowest THEN {} ELSE map[i]]

\* Mutant of hasModifiedEntry: the first index after the start is skipped.
SkipsFirst(map, start, k) == \E i \in DOMAIN map : i > start + 1 /\ k \in map[i]

hasModifiedEntry(map, start, k) == \E i \in DOMAIN map : i > start /\ k \in map[i]

\* Mutant of hasModifiedListEntry: the listed prefix is looked up like a key.
ListedAsKey(map, start, prefix) == hasModifiedEntry(map, start, prefix)

hasModifiedListEntry(map, start, prefix) ==
  \E i \in DOMAIN map : i > start /\ \E k \in map[i] : Covers(prefix, k)

-----------------------------------------------------------------------------
(* Transactions and writers on the leader.                                 *)

TxnRecord ==
  [pc : {"idle", "begun", "opened", "active", "committing", "waiting",
         "clearing", "done", "leaked"},
   writable : BOOLEAN,
   index    : Index,                    \* RaftTransaction.index
   at       : Index,                    \* history: the entries its snapshot has
   snap     : Store,                    \* the bbolt read transaction
   reads    : SUBSET Key,               \* keys with a verifyReadOp
   lists    : SUBSET ListCheck,
   updates  : [Key -> Content \cup {Unset}],
   lowest   : Index \cup {Infinite},
   entry    : Index]                    \* its log entry, 0 when it has none

NewTxn ==
  [pc |-> "idle", writable |-> FALSE, index |-> 0, at |-> 0, snap |-> Nothing,
   reads |-> {}, lists |-> {}, updates |-> NoKeys,
   lowest |-> Infinite, entry |-> 0]

\* A writer has the key and the content of its call while it makes one.
WriterRecord ==
  [pc : {"idle", "lowest", "waiting"}, key : Key \cup {Unset},
   content : Content \cup {Unset}, lowest : Index \cup {Infinite}, entry : Index]

IdleWriter ==
  [pc |-> "idle", key |-> Unset, content |-> Unset, lowest |-> Infinite, entry |-> 0]

\* The handles that hold an entry of txnPermitPool.
Permits == {t \in Txn : txn[t].pc \notin {"idle", "done"}}

\* The bound on the log leaves room for the calls of applyLog under way.
Room ==
  Len(log) + Cardinality({t \in Txn : txn[t].pc = "committing"})
           + Cardinality({w \in Writer : writer[w].pc = "lowest"}) < MaxLog

\* The committed log grows, and so does its history.
Submit(entry) ==
  LET before == ref[Len(log)].store
      ok     == PassesAllChecks(entry)
      after  == IF ok THEN Overwrite(before, entry.writes) ELSE before
  IN  /\ Len(log) < MaxLog
      /\ log' = Append(log, entry)
      /\ ref' = [ref EXCEPT ![Len(log) + 1] = [store |-> after, ok |-> ok]]

\* Mutant of AppliedIndex: raft's index instead of the FSM's.
DispatchedIndex == dispatched

\* Backend.AppliedIndex.
AppliedIndex == latestIndex[Leader]

\* newTransaction: permit, then the index, then the snapshot, then tracking.
BeginTx(t, writable) ==
  /\ txn[t].pc = "idle"
  /\ Cardinality(Permits) < TxnPermits
  /\ txn' = [txn EXCEPT ![t] = [@ EXCEPT !.pc = "begun", !.writable = writable,
                                        !.index = AppliedIndex]]
  /\ UNCHANGED <<raftVars, fsmVars, snapshotVars, verdict, source, writer,
                 counterVars, ref>>

OpenSnapshot(t) ==
  /\ txn[t].pc = "begun"
  /\ txn' = [txn EXCEPT ![t] =
                [@ EXCEPT !.pc = IF txn[t].writable THEN "opened" ELSE "active",
                          !.snap = db[Leader], !.at = cursor[Leader]]]
  /\ UNCHANGED <<raftVars, fsmVars, snapshotVars, verdict, source, writer,
                 counterVars, ref>>

\* bolt.DB.Begin fails: the error return gives nothing back.
OpenSnapshotFails(t) ==
  /\ txn[t].pc = "begun"
  /\ failures < MaxFailures
  /\ failures' = failures + 1
  /\ txn' = [txn EXCEPT ![t] = [NewTxn EXCEPT !.pc = "leaked"]]
  /\ UNCHANGED <<raftVars, fsmVars, snapshotVars, verdict, source, writer,
                 restarts, snapshots, ref>>

TrackTransaction(t) ==
  /\ txn[t].pc = "opened"
  /\ txn' = [txn EXCEPT ![t] = [@ EXCEPT !.pc = "active"]]
  /\ source' = trackTransaction(txn[t].index)
  /\ UNCHANGED <<raftVars, fsmVars, snapshotVars, verdict, writer, counterVars, ref>>

\* A key that the transaction has written is read from its updates.
Get(t, k) ==
  /\ txn[t].pc = "active"
  /\ txn[t].updates[k] = Unset
  /\ txn' = [txn EXCEPT ![t] = [@ EXCEPT !.reads = txn[t].reads \cup {k}]]
  /\ UNCHANGED <<raftVars, fsmVars, snapshotVars, verdict, source, writer,
                 counterVars, ref>>

\* Put, and with Absent Delete.  The first write of a key verifies what the
\* snapshot has for it.  haveWritten holds when updates is not empty.
Update(t, k, content) ==
  /\ txn[t].pc = "active"
  /\ txn[t].writable
  /\ txn' = [txn EXCEPT ![t] =
                [@ EXCEPT !.updates = [txn[t].updates EXCEPT ![k] = content],
                          !.reads = IF txn[t].updates[k] = Unset
                                    THEN txn[t].reads \cup {k} ELSE txn[t].reads]]
  /\ UNCHANGED <<raftVars, fsmVars, snapshotVars, verdict, source, writer,
                 counterVars, ref>>

\* The verification of a list: the keys seen, and their number as the limit.
\* One check is kept for a prefix and a start, the one with the higher limit.
ListChecks(x, q) ==
  LET seen  == PresentKeys(StoredKeys(x.snap), q,
                           {k \in Key : x.updates[k] \notin {Unset, Absent}},
                           {k \in Key : x.updates[k] = Absent})
      check == [prefix |-> q.prefix, after |-> q.after,
                limit |-> Cardinality(seen), keys |-> seen]
      same  == {c \in x.lists : c.prefix = q.prefix /\ c.after = q.after}
  IN  IF \A c \in same : c.limit < check.limit
      THEN (x.lists \ same) \cup {check} ELSE x.lists

List(t, q) ==
  /\ txn[t].pc = "active"
  /\ txn' = [txn EXCEPT ![t] = [@ EXCEPT !.lists = ListChecks(txn[t], q)]]
  /\ UNCHANGED <<raftVars, fsmVars, snapshotVars, verdict, source, writer,
                 counterVars, ref>>

\* The deferred part of Commit and Rollback: the handle is finished, its permit
\* released and its state cleared.  Every later call on it returns an error.
DoneTxn == [NewTxn EXCEPT !.pc = "done"]
Finished(t) == [txn EXCEPT ![t] = DoneTxn]

\* Mutant of CompletedSource: only what has reached raft is completed.
CompletedIfSent(t) ==
  IF txn[t].pc = "waiting" THEN completeTransaction(txn[t].index) ELSE source

CompletedSource(t) ==
  IF txn[t].writable THEN completeTransaction(txn[t].index) ELSE source

\* Commit of a transaction without writes sends nothing to raft.
CommitUnwritten(t) ==
  /\ txn[t].pc = "active"
  /\ KeysOf(txn[t].updates) = {}
  /\ txn' = Finished(t)
  /\ source' = CompletedSource(t)
  /\ UNCHANGED <<raftVars, fsmVars, snapshotVars, verdict, writer, counterVars, ref>>

TxnEntry(t) ==
  [kind |-> "txn", start |-> txn[t].index,
   reads |-> [k \in Key |-> IF k \in txn[t].reads
                            THEN Digest(txn[t].snap[k]) ELSE Unset],
   lists |-> txn[t].lists, writes |-> txn[t].updates,
   lowest |-> Capped(txn[t].lowest)]

\* Commit, up to the call of applyLog.
Commit(t) ==
  /\ txn[t].pc = "active"
  /\ KeysOf(txn[t].updates) # {}
  /\ Room
  /\ \E lowest \in Index \cup {Infinite} :
        /\ IsLowestAfterCommit(lowest, txn[t].index)
        /\ txn' = [txn EXCEPT ![t] = [@ EXCEPT !.pc = "committing",
                                              !.lowest = lowest]]
  /\ UNCHANGED <<raftVars, fsmVars, snapshotVars, verdict, source, writer,
                 counterVars, ref>>

\* applyLog caps the index and hands the entry to raft.
CommitApplyLog(t) ==
  /\ txn[t].pc = "committing"
  /\ Submit(TxnEntry(t))
  /\ txn' = [txn EXCEPT ![t] = [NewTxn EXCEPT !.pc = "waiting",
                !.writable = TRUE, !.index = txn[t].index, !.entry = Len(log) + 1]]
  /\ UNCHANGED <<dispatched, fsmVars, snapshotVars, verdict, source, writer, counterVars>>

\* applyLog returns an error before the entry is in the log: cancelled
\* context, entry too large, leadership lost.
CommitFails(t) ==
  /\ txn[t].pc = "committing"
  /\ failures < MaxFailures
  /\ failures' = failures + 1
  /\ txn' = Finished(t)
  /\ source' = CompletedSource(t)
  /\ UNCHANGED <<raftVars, fsmVars, snapshotVars, verdict, writer, restarts,
                 snapshots, ref>>

\* Mutant of Answered: a caller is woken only if its entry was applied.
AnsweredOk(entry) == verdict[entry] = "ok"

\* The future of raft.Apply has the response of the FSM.
Answered(entry) == verdict[entry] # "none"

CommitReturns(t) ==
  /\ txn[t].pc = "waiting"
  /\ Answered(txn[t].entry)
  /\ txn' = Finished(t)
  /\ source' = CompletedSource(t)
  /\ UNCHANGED <<raftVars, fsmVars, snapshotVars, verdict, writer, counterVars, ref>>

\* Rollback, and the cleanup of a handle that was dropped: the transaction is
\* completed, then the leader clears its own tracker.
Rollback(t) ==
  /\ txn[t].pc = "active"
  /\ txn[t].writable
  /\ source' = completeTransaction(txn[t].index)
  /\ \E lowest \in Index \cup {Infinite} :
        /\ IsLowest(lowest)'
        /\ txn' = [txn EXCEPT ![t] = [@ EXCEPT !.pc = "clearing",
                                              !.lowest = lowest]]
  /\ UNCHANGED <<raftVars, fsmVars, snapshotVars, verdict, writer, counterVars, ref>>

RollbackReadOnly(t) ==
  /\ txn[t].pc = "active"
  /\ ~txn[t].writable
  /\ txn' = Finished(t)
  /\ UNCHANGED <<raftVars, fsmVars, snapshotVars, verdict, source, writer,
                 counterVars, ref>>

RollbackClears(t) ==
  /\ txn[t].pc = "clearing"
  /\ modified' = [modified EXCEPT
                    ![Leader] = clearOldEntries(@, Capped(txn[t].lowest))]
  /\ txn' = Finished(t)
  /\ UNCHANGED <<raftVars, db, cursor, stored, latestIndex, batch, snapshotVars,
                 verdict, source, writer, counterVars, ref>>

\* Backend.Put, and with Absent Backend.Delete, outside a transaction.
Write(w, k, content) ==
  /\ writer[w].pc = "idle"
  /\ Room
  /\ \E lowest \in Index \cup {Infinite} :
        /\ IsLowest(lowest)
        /\ writer' = [writer EXCEPT ![w] =
                        [pc |-> "lowest", key |-> k, content |-> content,
                         lowest |-> lowest, entry |-> 0]]
  /\ UNCHANGED <<raftVars, fsmVars, snapshotVars, verdict, source, txn,
                 counterVars, ref>>

WriteApplyLog(w) ==
  LET x == writer[w]
  IN  /\ x.pc = "lowest"
      /\ Submit(PlainEntry(x.key, x.content, Capped(x.lowest)))
      /\ writer' = [writer EXCEPT ![w] =
                      [IdleWriter EXCEPT !.pc = "waiting", !.entry = Len(log) + 1]]
      /\ UNCHANGED <<dispatched, fsmVars, snapshotVars, verdict, source, txn,
                     counterVars>>

WriteReturns(w) ==
  /\ writer[w].pc = "waiting"
  /\ Answered(writer[w].entry)
  /\ writer' = [writer EXCEPT ![w] = IdleWriter]
  /\ UNCHANGED <<raftVars, fsmVars, snapshotVars, verdict, source, txn,
                 counterVars, ref>>

-----------------------------------------------------------------------------
(* The raft library and the FSM of a replica.                              *)

\* A membership change: an entry of type LogConfiguration.
ConfigurationChange ==
  /\ Room
  /\ Cardinality({i \in 1 .. Len(log) : log[i].kind = "config"}) < MaxConfigs
  /\ Submit(ConfigEntry)
  /\ UNCHANGED <<dispatched, fsmVars, snapshotVars, verdict, source, txn, writer,
                 counterVars>>

\* The library queues the next entry for the FSM and counts it as applied.
Dispatch ==
  /\ dispatched < Len(log)
  /\ dispatched' = dispatched + 1
  /\ UNCHANGED <<log, fsmVars, snapshotVars, verdict, source, txn, writer,
                 counterVars, ref>>

BatchRecord ==
  [pc : {"idle", "ops", "clear", "publish"}, first : Index,
   next : Index \cup {Infinite}, last : Index,
   base : Index,                     \* latestIndex when the update started
   work : Store,                     \* the bucket inside db.Update
   lowest : Index,                   \* lowestActiveIndex, 0 when nil
   conflicts : SUBSET Index]         \* entries answered with a tx error

NoBatch ==
  [pc |-> "idle", first |-> 0, next |-> 0, last |-> 0, base |-> 0,
   work |-> Nothing, lowest |-> 0, conflicts |-> {}]

Queued(n) == IF n = Leader THEN dispatched ELSE Len(log)

\* The call of ApplyBatch, up to the loop in db.Update.
ApplyBatch(n) ==
  /\ batch[n].pc = "idle"
  /\ \E last \in (cursor[n] + 1) .. Queued(n) :
        /\ last <= cursor[n] + MaxBatch
        /\ batch' = [batch EXCEPT ![n] =
                       [NoBatch EXCEPT !.pc = "ops", !.first = cursor[n] + 1,
                          !.next = cursor[n] + 1, !.last = last,
                          !.base = latestIndex[n], !.work = db[n]]]
  /\ UNCHANGED <<raftVars, db, cursor, stored, latestIndex, modified, snapshotVars,
                 verdict, source, txn, writer, counterVars, ref>>

\* Mutant of canFastWrite: the place in the batch is not looked at.
FastAnywhere(b, entry) == b.base = entry.start

canFastWrite(b, entry) == b.next = b.first /\ b.base = entry.start

doVerifyRead(map, b, entry, k) ==
  \/ canFastWrite(b, entry)
  \/ ~hasModifiedEntry(map, entry.start, k)
  \/ ReadHolds(b.work, entry, k)

doVerifyList(map, b, entry, check) ==
  \/ canFastWrite(b, entry)
  \/ ~hasModifiedListEntry(map, entry.start, check.prefix)
  \/ ListHolds(b.work, check)

\* applyBatchTxOps verifies before it writes; other entries have no checks.
Verified(map, b, entry) ==
  /\ \A k \in KeysOf(entry.reads) : doVerifyRead(map, b, entry, k)
  /\ \A c \in entry.lists : doVerifyList(map, b, entry, c)

\* One iteration of the loop over commands.
ApplyCommand(n) ==
  LET b  == batch[n]
      e  == log[b.next]
      ok == Verified(modified[n], b, e)
  IN  /\ b.pc = "ops"
      /\ b.next <= b.last
      /\ batch' = [batch EXCEPT ![n] =
           [b EXCEPT !.next = @ + 1,
                     !.work = IF ok THEN Overwrite(@, e.writes) ELSE @,
                     !.lowest = IF e.kind = "config" THEN @ ELSE e.lowest,
                     !.conflicts = IF ok THEN @ ELSE @ \cup {b.next}]]
      /\ modified' = [modified EXCEPT ![n][b.next] =
                        IF ok THEN KeysOf(e.writes) ELSE @]
      /\ UNCHANGED <<raftVars, db, cursor, stored, latestIndex, snapshotVars,
                     verdict, source, txn, writer, counterVars, ref>>

\* The index only advances: it is compared before the update.
Advanced(b, index) == IF b.base < b.last THEN b.last ELSE index

\* bbolt commits the update, with the index of the last entry.
StoreBatch(n) ==
  LET b == batch[n]
  IN  /\ b.pc = "ops"
      /\ b.next > b.last
      /\ db' = [db EXCEPT ![n] = b.work]
      /\ cursor' = [cursor EXCEPT ![n] = b.last]
      /\ stored' = [stored EXCEPT ![n] = Advanced(b, @)]
      /\ batch' = [batch EXCEPT ![n] = [@ EXCEPT !.pc = "clear"]]
      /\ UNCHANGED <<raftVars, latestIndex, modified, snapshotVars, verdict, source,
                     txn, writer, counterVars, ref>>

ClearBatch(n) ==
  /\ batch[n].pc = "clear"
  /\ modified' = [modified EXCEPT ![n] = clearOldEntries(@, batch[n].lowest)]
  /\ batch' = [batch EXCEPT ![n] = [@ EXCEPT !.pc = "publish"]]
  /\ UNCHANGED <<raftVars, db, cursor, stored, latestIndex, snapshotVars, verdict,
                 source, txn, writer, counterVars, ref>>

\* Mutant of Response: the error of one entry is the answer to all.
ResponseOfBatch(b, i) == IF b.conflicts # {} THEN "conflict" ELSE "ok"

Response(b, i) == IF i \in b.conflicts THEN "conflict" ELSE "ok"

\* The in-memory index advances and ApplyBatch returns the responses.
PublishBatch(n) ==
  LET b == batch[n]
  IN  /\ b.pc = "publish"
      /\ latestIndex' = [latestIndex EXCEPT ![n] = Advanced(b, @)]
      /\ verdict' = [i \in Index |-> IF n = Leader /\ i \in b.first .. b.last
                                     THEN Response(b, i) ELSE verdict[i]]
      /\ batch' = [batch EXCEPT ![n] = NoBatch]
      /\ UNCHANGED <<raftVars, db, cursor, stored, modified, snapshotVars, source,
                     txn, writer, counterVars, ref>>

\* The library asks the FSM's goroutine for a snapshot: it notes the index.
TakeSnapshot(n) ==
  /\ batch[n].pc = "idle"
  /\ snapshot[n] = Infinite
  /\ cursor[n] > 0
  /\ snapshots < MaxSnapshots
  /\ snapshots' = snapshots + 1
  /\ snapshot' = [snapshot EXCEPT ![n] = cursor[n]]
  /\ UNCHANGED <<raftVars, fsmVars, witnessed, verdict, source, txn, writer,
                 restarts, failures, ref>>

\* Persist and witnessSnapshot, in a goroutine of their own: the index of the
\* snapshot replaces the FSM's, first in the database and then in memory.  The
\* database has one writer, so an update in progress is waited for.
WriteSnapshotMeta(n) ==
  /\ snapshot[n] # Infinite
  /\ ~witnessed[n]
  /\ batch[n].pc # "ops"
  /\ stored' = [stored EXCEPT ![n] = snapshot[n]]
  /\ witnessed' = [witnessed EXCEPT ![n] = TRUE]
  /\ UNCHANGED <<raftVars, db, cursor, latestIndex, modified, batch, snapshot,
                 verdict, source, txn, writer, counterVars, ref>>

WitnessSnapshot(n) ==
  /\ snapshot[n] # Infinite
  /\ witnessed[n]
  /\ latestIndex' = [latestIndex EXCEPT ![n] = snapshot[n]]
  /\ snapshot' = [snapshot EXCEPT ![n] = Infinite]
  /\ witnessed' = [witnessed EXCEPT ![n] = FALSE]
  /\ UNCHANGED <<raftVars, db, cursor, stored, modified, batch, verdict, source,
                 txn, writer, counterVars, ref>>

\* Mutant of NewFSM: the tracker outlives the process.
OldTracker(n) ==
  /\ latestIndex' = [latestIndex EXCEPT ![n] = stored[n]]
  /\ UNCHANGED modified

\* The stored index is read and the tracker is empty.
NewFSM(n) ==
  /\ latestIndex' = [latestIndex EXCEPT ![n] = stored[n]]
  /\ modified' = [modified EXCEPT ![n] = [i \in Index |-> {}]]

\* The process stops and starts again, and raft replays the log from the stored
\* index.  The calls that the leader had open are gone.
Restart(n) ==
  /\ restarts < MaxRestarts
  /\ restarts' = restarts + 1
  /\ cursor' = [cursor EXCEPT ![n] = stored[n]]
  /\ NewFSM(n)
  /\ batch' = [batch EXCEPT ![n] = NoBatch]
  /\ snapshot' = [snapshot EXCEPT ![n] = Infinite]
  /\ witnessed' = [witnessed EXCEPT ![n] = FALSE]
  /\ IF n = Leader
     THEN /\ dispatched' = stored[n]
          /\ source' = [i \in Index |-> 0]
          /\ txn' = [t \in Txn |-> IF txn[t].pc \in {"idle", "done"} THEN txn[t]
                                   ELSE DoneTxn]
          /\ writer' = [w \in Writer |-> IdleWriter]
     ELSE UNCHANGED <<dispatched, source, txn, writer>>
  /\ UNCHANGED <<log, db, stored, verdict, snapshots, failures, ref>>

-----------------------------------------------------------------------------
Init ==
  /\ log = <<>>
  /\ dispatched = 0
  /\ db = [n \in Replica |-> Nothing]
  /\ cursor = [n \in Replica |-> 0]
  /\ stored = [n \in Replica |-> 0]
  /\ latestIndex = [n \in Replica |-> 0]
  /\ modified = [n \in Replica |-> [i \in Index |-> {}]]
  /\ batch = [n \in Replica |-> NoBatch]
  /\ snapshot = [n \in Replica |-> Infinite]
  /\ witnessed = [n \in Replica |-> FALSE]
  /\ verdict = [i \in Index |-> "none"]
  /\ source = [i \in Index |-> 0]
  /\ txn = [t \in Txn |-> NewTxn]
  /\ writer = [w \in Writer |-> IdleWriter]
  /\ restarts = 0 /\ snapshots = 0 /\ failures = 0
  /\ ref = [i \in Index |-> [store |-> Nothing, ok |-> TRUE]]
  /\ intact = TRUE /\ calm = TRUE

TxnStep(t) ==
  \/ \E writable \in BOOLEAN : BeginTx(t, writable)
  \/ OpenSnapshot(t)
  \/ OpenSnapshotFails(t)
  \/ TrackTransaction(t)
  \/ \E k \in Key : Get(t, k)
  \/ \E k \in Key, content \in Content : Update(t, k, content)
  \/ \E q \in Query : List(t, q)
  \/ CommitUnwritten(t)
  \/ Commit(t)
  \/ CommitApplyLog(t)
  \/ CommitFails(t)
  \/ CommitReturns(t)
  \/ Rollback(t)
  \/ RollbackReadOnly(t)
  \/ RollbackClears(t)

WriterStep(w) ==
  \/ \E k \in Key, content \in Content : Write(w, k, content)
  \/ WriteApplyLog(w)
  \/ WriteReturns(w)

ReplicaStep(n) ==
  \/ ApplyBatch(n)
  \/ ApplyCommand(n)
  \/ StoreBatch(n)
  \/ ClearBatch(n)
  \/ PublishBatch(n)
  \/ TakeSnapshot(n)
  \/ WriteSnapshotMeta(n)
  \/ WitnessSnapshot(n)
  \/ Restart(n)

Step ==
  \/ \E t \in Txn : TxnStep(t)
  \/ \E w \in Writer : WriterStep(w)
  \/ \E n \in Replica : ReplicaStep(n)
  \/ ConfigurationChange
  \/ Dispatch

-----------------------------------------------------------------------------
(* The history of what the code does not guard against.                    *)

\* The entries a replica has applied, those of an update in progress included.
Applied(n) == IF batch[n].pc = "ops" THEN batch[n].next - 1 ELSE cursor[n]

\* A replica's indexModifiedMap has all the writes applied since an index.
Remembers(n, start) ==
  \A i \in (start + 1) .. Applied(n) :
     ref[i].ok => KeysOf(log[i].writes) \subseteq modified[n][i]

\* A handle whose transaction has its verification ahead of it.
Verifies(x) == x.writable /\ x.pc \in {"begun", "opened", "active", "committing"}

\* No replica forgets a modification that a transaction still needs: for every
\* open write transaction, and every transaction in the log that a replica has
\* yet to apply, the replica's indexModifiedMap has all the writes it has
\* applied since the transaction's start index.
TrackerCovers ==
  \A n \in Replica :
    /\ \A t \in Txn : Verifies(txn[t]) => Remembers(n, txn[t].index)
    /\ \A j \in (Applied(n) + 1) .. Len(log) :
          log[j].kind = "txn" => Remembers(n, log[j].start)

\* A batch starts from the index that the bucket has: no snapshot has put the
\* FSM's latestIndex back.
BaseIsCursor(n) == batch[n].pc = "ops" => batch[n].base = cursor[n]

\* Nothing that a check relies on has been lost so far: no tracker has forgotten
\* what a transaction needs, no batch has started from an index put back, and no
\* replica has gone back in the log.
StaysIntact ==
  /\ intact
  /\ TrackerCovers'
  /\ \A n \in Replica : BaseIsCursor(n)' /\ cursor[n] <= cursor'[n]

\* The stretches of code that use what they read before another lock:
\* newTransaction between AppliedIndex() and trackTransaction, applyLog and
\* Rollback between lowestActiveIndex() and the use of raft.AppliedIndex().
InTxnWindow(x) == x.pc \in {"begun", "opened", "committing", "clearing"}
InWriterWindow(w) == writer[w].pc = "lowest"
Alone ==
  /\ \A t, u \in Txn : InTxnWindow(txn[t]) /\ InTxnWindow(txn[u]) => t = u
  /\ \A t \in Txn, w \in Writer : ~(InTxnWindow(txn[t]) /\ InWriterWindow(w))
  /\ \A v, w \in Writer : InWriterWindow(v) /\ InWriterWindow(w) => v = w

\* raft.AppliedIndex() is at most one entry ahead of the leader's FSM.
Lag == dispatched <= latestIndex[Leader] + 1

\* So far no two of those stretches have overlapped, raft.AppliedIndex() has not
\* run further ahead, and no replica has restarted or taken a snapshot.
StaysCalm == calm /\ Alone' /\ Lag' /\ restarts' = 0 /\ snapshots' = 0

Next == Step /\ intact' = StaysIntact /\ calm' = StaysCalm

Spec == Init /\ [][Next]_vars

\* What every caller does in the end: Commit or Rollback.  The cleanup of a
\* dropped handle does the same for one that does not.
Finish(t) ==
  Commit(t) \/ CommitUnwritten(t) \/ Rollback(t) \/ RollbackReadOnly(t)

\* The code after a lock or a channel is reached if the scheduler is fair: the
\* raft library hands out what is committed, and ApplyBatch runs to its end.
Fairness ==
  /\ \A t \in Txn : /\ WF_codeVars(OpenSnapshot(t) \/ OpenSnapshotFails(t))
                    /\ WF_codeVars(TrackTransaction(t))
                    /\ WF_codeVars(Finish(t))
                    /\ WF_codeVars(CommitApplyLog(t) \/ CommitFails(t))
                    /\ WF_codeVars(CommitReturns(t))
                    /\ WF_codeVars(RollbackClears(t))
  /\ \A w \in Writer : WF_codeVars(WriteApplyLog(w)) /\ WF_codeVars(WriteReturns(w))
  /\ WF_codeVars(Dispatch)
  /\ WF_codeVars(ApplyBatch(Leader)) /\ WF_codeVars(ApplyCommand(Leader))
  /\ WF_codeVars(StoreBatch(Leader)) /\ WF_codeVars(ClearBatch(Leader))
  /\ WF_codeVars(PublishBatch(Leader))

FairSpec == Spec /\ Fairness

-----------------------------------------------------------------------------
(* Properties.                                                             *)

CodeTypeOK ==
  /\ log \in Seq(Entry) /\ Len(log) \in Index
  /\ dispatched \in Index
  /\ db \in [Replica -> Store]
  /\ cursor \in [Replica -> Index]
  /\ stored \in [Replica -> Index]
  /\ latestIndex \in [Replica -> Index]
  /\ modified \in [Replica -> [Index -> SUBSET Key]]
  /\ batch \in [Replica -> BatchRecord]
  /\ snapshot \in [Replica -> Index \cup {Infinite}]
  /\ witnessed \in [Replica -> BOOLEAN]
  /\ verdict \in [Index -> {"none", "ok", "conflict"}]
  /\ source \in [Index -> Nat]
  /\ txn \in [Txn -> TxnRecord]
  /\ writer \in [Writer -> WriterRecord]
  /\ restarts \in Nat /\ snapshots \in Nat /\ failures \in Nat
  /\ ref \in [Index -> [store : Store, ok : BOOLEAN]]

\* The variables have their types: indices stay inside the log, and the maps and
\* records of the backend, the FSM and the transactions have their shape.
TypeOK == CodeTypeOK /\ intact \in BOOLEAN /\ calm \in BOOLEAN

\* Every replica has, after the log entries it has applied, the state that full
\* verification of every transaction gives: no skipped check of applyBatchTxOps
\* let a conflicting transaction through, so the replicas cannot diverge.
StateMachineSafety == \A n \in Replica : db[n] = ref[cursor[n]].store

\* The checks that applyBatchTxOps skips make no difference, whatever overlaps,
\* fails, restarts or is snapshotted: the replicas agree until a tracker forgets
\* what a transaction needs, or a snapshot or a restart puts an index back.
AgreesWhileIntact == intact => StateMachineSafety

\* clearOldEntries forgets too much only through the races that nothing in the
\* code excludes: until two of the stretches between lowestActiveIndex() or
\* AppliedIndex() and its use overlap, raft runs further ahead of the FSM, or a
\* replica restarts or takes a snapshot, the index that Commit, Put, Delete and
\* Rollback clear up to is safe for every transaction.
RemembersWhileCalm == calm => TrackerCovers

\* Commit tells its caller the truth.  An entry answered with success found what
\* it had read, and each of its lists untouched or comparing equal; an entry
\* answered with a commit failure read something that has changed, or listed a
\* prefix that was written below since its start.
VerdictsAreTrue ==
  intact =>
    \A i \in 1 .. Len(log) :
      LET e         == log[i]
          unchanged == \A k \in KeysOf(e.reads) : ReadHolds(ref[i - 1].store, e, k)
          touched   == {c \in e.lists : Touched(e.start, i - 1, c.prefix)}
      IN  /\ verdict[i] = "ok" =>
                unchanged /\ \A c \in touched : ListHolds(ref[i - 1].store, c)
          /\ verdict[i] = "conflict" => ~unchanged \/ touched # {}

\* sourceIndexMap counts exactly the write transactions that are open, at the
\* index they started at: completeTransaction is called once for each.
Tracked(t) == txn[t].writable /\ txn[t].pc \in {"active", "committing", "waiting"}
SourceCounts ==
  \A i \in Index :
     source[i] = Cardinality({t \in Txn : Tracked(t) /\ txn[t].index = i})

\* The snapshot of a transaction has everything up to its start index, which
\* newTransaction reads before it opens the snapshot for that reason.
StartIndexInSnapshot ==
  \A t \in Txn :
     txn[t].pc \in {"opened", "active", "committing"} => txn[t].index <= txn[t].at

\* hasModifiedEntry and hasModifiedListEntry do not panic: while an entry is
\* verified, the replica's tracker has no later index.
NoLaterIndex ==
  \A n \in Replica : \A i \in Index :
     (batch[n].pc = "ops" /\ modified[n][i] # {}) => i <= batch[n].next

\* An entry of txnPermitPool comes back, since Commit is answered and Rollback
\* does not wait, unless bolt.DB.Begin has failed: that error return of
\* newTransaction is the only way for an entry to be lost.
PermitsComeBack ==
  \A t \in Txn : (t \in Permits) ~> (t \notin Permits \/ txn[t].pc = "leaked")
=============================================================================
