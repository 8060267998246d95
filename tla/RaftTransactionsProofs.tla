------------------------ MODULE RaftTransactionsProofs ------------------------
(***************************************************************************)
(* Proofs about RaftTransactions for every set of keys, transactions,      *)
(* writers and replicas and every bound.                                   *)
(*                                                                         *)
(* The first part allows restarts, snapshots, errors and overlapping       *)
(* windows.  Three inductive invariants:                                   *)
(*   TypeInv      CodeTypeOK, and nothing refers past the end of the log;  *)
(*   PositionInv  how far the parts of a replica and the handles are in    *)
(*                the log, relative to each other;                         *)
(*   CountInv     sourceIndexMap against the handles that are open.        *)
(* Each has a lemma for Init and one for the steps, which goes through the *)
(* actions; the theorems follow by temporal reasoning.  The second part,   *)
(* from SnapshotOf on, is about conflict detection.                        *)
(***************************************************************************)
EXTENDS RaftTransactions, FiniteSetTheorems, TLAPS

\* Nothing refers past the end of the log.
WithinLog ==
  /\ dispatched <= Len(log)
  /\ \A n \in Replica :
       /\ cursor[n] <= Len(log)
       /\ stored[n] <= Len(log)
       /\ snapshot[n] = Infinite \/ snapshot[n] <= Len(log)
       /\ batch[n].pc = "ops" => 1 <= batch[n].next /\ batch[n].last <= Len(log)

\* The invariant that type correctness needs: log[i] is only looked up inside
\* the log, by ApplyBatch as well.
TypeInv == CodeTypeOK /\ WithinLog

\* Log indices, and math.MaxUint64, which is none of them.
LEMMA IndexType == Index \subseteq Nat /\ Infinite \in Nat /\ Infinite \notin Index
                   /\ 0 \in Index
BY BoundAssumption DEF Index, Infinite

\* The bucket stays a bucket when a batch writes to it.
LEMMA StoreType ==
  /\ Nothing \in Store
  /\ NoKeys \in [Key -> Content \cup {Unset}]
  /\ \A store \in Store, writes \in [Key -> Content \cup {Unset}] :
        Overwrite(store, writes) \in Store
BY DEF Nothing, NoKeys, Store, Content, Overwrite

\* The fresh records of handles, writers and batches.
LEMMA RecordTypes ==
  NewTxn \in TxnRecord /\ DoneTxn \in TxnRecord /\ IdleWriter \in WriterRecord
  /\ NoBatch \in BatchRecord
BY StoreType, IndexType DEF NewTxn, DoneTxn, IdleWriter, NoBatch, TxnRecord, WriterRecord, BatchRecord

\* A new cluster satisfies the invariant.
LEMMA InitTypeInv == Init => TypeInv
<1> SUFFICES ASSUME Init PROVE TypeInv OBVIOUS
<1>1. CodeTypeOK
  BY StoreType, IndexType, RecordTypes DEF CodeTypeOK, Init
<1>2. WithinLog
  BY IndexType, BoundAssumption DEF WithinLog, Init, NoBatch
<1> QED BY <1>1, <1>2 DEF TypeInv

\* A step of a handle or a writer that leaves raft and the replicas alone.
LEMMA HandleTypes ==
  ASSUME TypeInv,
         txn' \in [Txn -> TxnRecord], writer' \in [Writer -> WriterRecord],
         source' \in [Index -> Nat], failures' \in Nat,
         UNCHANGED <<raftVars, fsmVars, snapshotVars, verdict, restarts, snapshots, ref>>
  PROVE  TypeInv'
<1>1. CodeTypeOK'
  BY DEF TypeInv, CodeTypeOK, raftVars, snapshotVars, fsmVars
<1>2. WithinLog'
  BY DEF TypeInv, WithinLog, raftVars, snapshotVars, fsmVars
<1> QED BY <1>1, <1>2 DEF TypeInv

\* A step that appends an entry to the log.
LEMMA SubmitTypes ==
  ASSUME TypeInv,
         NEW entry \in Entry, Submit(entry),
         txn' \in [Txn -> TxnRecord], writer' \in [Writer -> WriterRecord],
         UNCHANGED <<dispatched, fsmVars, snapshotVars, verdict, source, counterVars>>
  PROVE  TypeInv' /\ Len(log') = Len(log) + 1
<1>1. Len(log) \in Nat /\ Len(log) + 1 \in Index
  <2>1. Len(log) < MaxLog
    BY DEF Submit
  <2>2. Len(log) \in Index
    BY DEF TypeInv, CodeTypeOK
  <2> QED BY <2>1, <2>2, BoundAssumption DEF Index
<1>2. log' \in Seq(Entry) /\ Len(log') = Len(log) + 1
  BY <1>1 DEF TypeInv, CodeTypeOK, Submit
<1>3. ref' \in [Index -> [store : Store, ok : BOOLEAN]]
  <2> DEFINE after == IF PassesAllChecks(entry)
                      THEN Overwrite(ref[Len(log)].store, entry.writes)
                      ELSE ref[Len(log)].store
  <2>1. PassesAllChecks(entry) \in BOOLEAN
    BY DEF PassesAllChecks
  <2>2. ref[Len(log)].store \in Store /\ entry.writes \in [Key -> Content \cup {Unset}]
    BY DEF TypeInv, CodeTypeOK, Entry
  <2>3. after \in Store
    BY <2>2, StoreType
  <2>4. [store |-> after, ok |-> PassesAllChecks(entry)] \in [store : Store, ok : BOOLEAN]
    BY <2>1, <2>3
  <2> QED BY <1>1, <2>4 DEF TypeInv, CodeTypeOK, Submit
<1>4. CodeTypeOK'
  BY <1>1, <1>2, <1>3 DEF TypeInv, CodeTypeOK, fsmVars, snapshotVars, counterVars
<1>5. WithinLog'
  <2>1. /\ dispatched' = dispatched /\ cursor' = cursor /\ stored' = stored
        /\ snapshot' = snapshot /\ batch' = batch
    BY DEF fsmVars, snapshotVars
  <2>2. dispatched \in Nat /\ dispatched <= Len(log)
    BY DEF TypeInv, CodeTypeOK, WithinLog, Index
  <2>3. ASSUME NEW n \in Replica
        PROVE  /\ cursor[n] \in Nat /\ stored[n] \in Nat /\ snapshot[n] \in Nat
               /\ batch[n].last \in Nat
    <3>1. batch[n] \in BatchRecord /\ cursor[n] \in Index /\ stored[n] \in Index
          /\ snapshot[n] \in Index \cup {Infinite}
      BY DEF TypeInv, CodeTypeOK
    <3> QED BY <3>1, IndexType DEF BatchRecord
  <2>4. WithinLog
    BY DEF TypeInv
  <2> QED BY ONLY <1>1, <1>2, <2>1, <2>2, <2>3, <2>4 DEF WithinLog
<1> QED BY <1>2, <1>4, <1>5 DEF TypeInv

\* A step of a replica.
LEMMA ReplicaTypes ==
  ASSUME TypeInv, NEW n \in Replica,
         NEW b \in BatchRecord, batch' = [batch EXCEPT ![n] = b],
         b.pc = "ops" => 1 <= b.next /\ b.last <= Len(log),
         db' \in [Replica -> Store], cursor' \in [Replica -> Index],
         stored' \in [Replica -> Index], latestIndex' \in [Replica -> Index],
         modified' \in [Replica -> [Index -> SUBSET Key]],
         verdict' \in [Index -> {"none", "ok", "conflict"}],
         \A m \in Replica : cursor'[m] <= Len(log) /\ stored'[m] <= Len(log),
         UNCHANGED <<raftVars, snapshotVars, source, txn, writer, counterVars, ref>>
  PROVE  TypeInv'
<1>1. CodeTypeOK'
  BY DEF TypeInv, CodeTypeOK, raftVars, snapshotVars, counterVars
<1>2. WithinLog'
  BY DEF TypeInv, CodeTypeOK, WithinLog, raftVars, snapshotVars
<1> QED BY <1>1, <1>2 DEF TypeInv

\* The index that applyLog puts in an entry is capped by raft.AppliedIndex().
LEMMA CappedType ==
  ASSUME TypeInv, NEW lowest \in Index \cup {Infinite}
  PROVE  Capped(lowest) \in Index /\ Capped(lowest) <= lowest /\ Capped(lowest) <= dispatched
BY BoundAssumption DEF TypeInv, CodeTypeOK, Capped, Index, Infinite

\* completeTransaction leaves sourceIndexMap with counts.
LEMMA CompletedType ==
  ASSUME TypeInv, NEW t \in Txn
  PROVE  /\ CompletedSource(t) \in [Index -> Nat]
         /\ completeTransaction(txn[t].index) \in [Index -> Nat]
<1>1. source \in [Index -> Nat] /\ txn[t].index \in Index
  BY DEF TypeInv, CodeTypeOK, TxnRecord
<1>2. completeTransaction(txn[t].index) \in [Index -> Nat]
  BY <1>1 DEF completeTransaction
<1> QED BY <1>1, <1>2 DEF CompletedSource

\* clearOldEntries keeps the shape of indexModifiedMap.
LEMMA ClearedType ==
  ASSUME NEW map \in [Index -> SUBSET Key], NEW lowest
  PROVE  clearOldEntries(map, lowest) \in [Index -> SUBSET Key]
BY DEF clearOldEntries

\* The keys a list has looked at are keys of the storage, so they are finite.
LEMMA ListChecksType ==
  ASSUME NEW x \in TxnRecord, NEW q \in Query
  PROVE  ListChecks(x, q) \in SUBSET ListCheck
<1> DEFINE inserted == {k \in Key : x.updates[k] \notin {Unset, Absent}}
           deleted  == {k \in Key : x.updates[k] = Absent}
           seen     == PresentKeys(StoredKeys(x.snap), q, inserted, deleted)
           check    == [prefix |-> q.prefix, after |-> q.after,
                        limit |-> Cardinality(seen), keys |-> seen]
<1>1. seen \subseteq Key
  BY DEF PresentKeys, Scanned, StoredKeys
<1>2. Cardinality(seen) \in Nat
  BY <1>1, FiniteAssumption, FS_Subset, FS_CardinalityType
<1>3. q.prefix \in Seq(Nat) /\ q.after \in Seq(Nat)
  BY PathAssumption
<1>4. check \in ListCheck
  <2>1. seen \in SUBSET Seq(Nat)
    BY <1>1, PathAssumption
  <2> HIDE DEF seen
  <2> QED BY <1>2, <1>3, <2>1 DEF ListCheck
<1>5. x.lists \in SUBSET ListCheck
  BY DEF TxnRecord
<1> HIDE DEF check
<1> QED BY <1>4, <1>5 DEF ListChecks, check

\* Handles with changed fields.
LEMMA TxnUpdates ==
  ASSUME NEW x \in TxnRecord
  PROVE  /\ [x EXCEPT !.pc = "active"] \in TxnRecord
         /\ \A b \in BOOLEAN, i \in Index :
               [x EXCEPT !.pc = "begun", !.writable = b, !.index = i] \in TxnRecord
         /\ \A store \in Store, i \in Index :
               /\ [x EXCEPT !.pc = "opened", !.snap = store, !.at = i] \in TxnRecord
               /\ [x EXCEPT !.pc = "active", !.snap = store, !.at = i] \in TxnRecord
         /\ \A updates \in [Key -> Content \cup {Unset}], reads \in SUBSET Key :
               [x EXCEPT !.updates = updates, !.reads = reads] \in TxnRecord
         /\ \A lowest \in Index \cup {Infinite} :
               /\ [x EXCEPT !.pc = "committing", !.lowest = lowest] \in TxnRecord
               /\ [x EXCEPT !.pc = "clearing", !.lowest = lowest] \in TxnRecord
BY DEF TxnRecord

\* Every action keeps the type invariant, one step for each.
LEMMA TypeStep == TypeInv /\ [Step]_codeVars => TypeInv'
<1> SUFFICES ASSUME TypeInv, [Step]_codeVars PROVE TypeInv' OBVIOUS
<1>0. /\ txn \in [Txn -> TxnRecord]
      /\ \A t \in Txn : txn[t] \in TxnRecord
      /\ writer \in [Writer -> WriterRecord] /\ source \in [Index -> Nat]
      /\ failures \in Nat
      /\ \A w \in Writer : writer[w] \in WriterRecord
      /\ \A n \in Replica : /\ db[n] \in Store
                            /\ cursor[n] \in Index
                            /\ stored[n] \in Index
                            /\ latestIndex[n] \in Index
                            /\ modified[n] \in [Index -> SUBSET Key]
                            /\ batch[n] \in BatchRecord
                            /\ snapshot[n] \in Index \cup {Infinite}
      /\ Leader \in Replica
  BY ReplicaAssumption DEF TypeInv, CodeTypeOK
<1>1. ASSUME NEW t \in Txn, NEW writable \in BOOLEAN, BeginTx(t, writable) PROVE TypeInv'
  <2>1. [txn[t] EXCEPT !.pc = "begun", !.writable = writable, !.index = AppliedIndex]
           \in TxnRecord
    BY <1>0, TxnUpdates DEF AppliedIndex
  <2>2. txn' \in [Txn -> TxnRecord]
    BY <1>0, <1>1, <2>1 DEF BeginTx
  <2> QED BY <1>0, <1>1, <2>2, HandleTypes DEF BeginTx, counterVars
<1>2. ASSUME NEW t \in Txn, OpenSnapshot(t) PROVE TypeInv'
  <2>1. [txn[t] EXCEPT !.pc = IF txn[t].writable THEN "opened" ELSE "active",
                       !.snap = db[Leader], !.at = cursor[Leader]] \in TxnRecord
    <3>1. CASE txn[t].writable
      BY <1>0, <3>1, TxnUpdates
    <3>2. CASE ~txn[t].writable
      BY <1>0, <3>2, TxnUpdates
    <3> QED BY <3>1, <3>2
  <2>2. txn' \in [Txn -> TxnRecord]
    BY <1>0, <1>2, <2>1 DEF OpenSnapshot
  <2> QED BY <1>0, <1>2, <2>2, HandleTypes DEF OpenSnapshot, counterVars
<1>3. ASSUME NEW t \in Txn, OpenSnapshotFails(t) PROVE TypeInv'
  <2>1. txn' \in [Txn -> TxnRecord]
    BY <1>0, <1>3, RecordTypes DEF OpenSnapshotFails, TxnRecord
  <2> QED BY <1>0, <1>3, <2>1, HandleTypes DEF OpenSnapshotFails, counterVars
<1>4. ASSUME NEW t \in Txn, TrackTransaction(t) PROVE TypeInv'
  <2>1. [txn[t] EXCEPT !.pc = "active"] \in TxnRecord
    BY <1>0, TxnUpdates
  <2>2. txn' \in [Txn -> TxnRecord]
    BY <1>0, <1>4, <2>1 DEF TrackTransaction
  <2>3. source' \in [Index -> Nat]
    <3>1. txn[t].index \in Index
      BY <1>0 DEF TxnRecord
    <3>2. source \in [Index -> Nat] /\ source' = [source EXCEPT ![txn[t].index] = @ + 1]
      BY <1>0, <1>4 DEF TrackTransaction, trackTransaction
    <3> QED BY <3>1, <3>2
  <2>4. UNCHANGED <<raftVars, fsmVars, snapshotVars, verdict, writer, counterVars, ref>>
    BY <1>4 DEF TrackTransaction
  <2>5. writer' \in [Writer -> WriterRecord] /\ failures' \in Nat
    BY <1>0, <2>4 DEF counterVars
  <2> QED BY <2>2, <2>3, <2>4, <2>5, HandleTypes DEF counterVars
<1>5. ASSUME NEW t \in Txn, NEW k \in Key, Get(t, k) PROVE TypeInv'
  <2> DEFINE reads == txn[t].reads \cup {k}
  <2>1. [txn[t] EXCEPT !.reads = reads] \in TxnRecord
    <3>1. txn[t] \in TxnRecord
      BY <1>0
    <3>2. reads \in SUBSET Key
      BY <3>1 DEF TxnRecord
    <3> HIDE DEF reads
    <3> QED BY <3>1, <3>2 DEF TxnRecord
  <2>2. txn' \in [Txn -> TxnRecord]
    BY <1>0, <1>5, <2>1 DEF Get
  <2> QED BY <1>0, <1>5, <2>2, HandleTypes DEF Get, counterVars
<1>6. ASSUME NEW t \in Txn, NEW k \in Key, NEW content \in Content, Update(t, k, content)
      PROVE  TypeInv'
  <2> DEFINE updates == [txn[t].updates EXCEPT ![k] = content]
             reads == IF txn[t].updates[k] = Unset THEN txn[t].reads \cup {k} ELSE txn[t].reads
  <2>1. [txn[t] EXCEPT !.updates = updates, !.reads = reads] \in TxnRecord
    <3>1. updates \in [Key -> Content \cup {Unset}] /\ reads \in SUBSET Key
      BY <1>0 DEF TxnRecord
    <3> HIDE DEF updates, reads
    <3> QED BY <1>0, <3>1, TxnUpdates
  <2>2. txn' \in [Txn -> TxnRecord]
    BY <1>0, <1>6, <2>1 DEF Update
  <2> QED BY <1>0, <1>6, <2>2, HandleTypes DEF Update, counterVars
<1>7. ASSUME NEW t \in Txn, NEW q \in Query, List(t, q) PROVE TypeInv'
  <2>1. [txn[t] EXCEPT !.lists = ListChecks(txn[t], q)] \in TxnRecord
    BY <1>0, ListChecksType DEF TxnRecord
  <2>2. txn' \in [Txn -> TxnRecord]
    BY <1>0, <1>7, <2>1 DEF List
  <2> QED BY <1>0, <1>7, <2>2, HandleTypes DEF List, counterVars
<1>8. ASSUME NEW t \in Txn, CommitUnwritten(t) PROVE TypeInv'
  <2>1. txn' \in [Txn -> TxnRecord]
    BY <1>0, <1>8, RecordTypes DEF CommitUnwritten, Finished
  <2> QED BY <1>0, <1>8, <2>1, CompletedType, HandleTypes
      DEF CommitUnwritten, counterVars
<1>9. ASSUME NEW t \in Txn, Commit(t) PROVE TypeInv'
  <2>1. PICK lowest \in Index \cup {Infinite} :
           txn' = [txn EXCEPT ![t] = [@ EXCEPT !.pc = "committing", !.lowest = lowest]]
    BY <1>9 DEF Commit
  <2>2. [txn[t] EXCEPT !.pc = "committing", !.lowest = lowest] \in TxnRecord
    BY <1>0, TxnUpdates
  <2>3. txn' \in [Txn -> TxnRecord]
    BY <1>0, <2>1, <2>2
  <2> QED BY <1>0, <1>9, <2>3, HandleTypes DEF Commit, counterVars
<1>10. ASSUME NEW t \in Txn, CommitApplyLog(t) PROVE TypeInv'
  <2>1. TxnEntry(t) \in Entry
    <3>1. Capped(txn[t].lowest) \in Index
      BY <1>0, CappedType DEF TxnRecord
    <3>2. [k \in Key |-> IF k \in txn[t].reads THEN Digest(txn[t].snap[k]) ELSE Unset]
             \in [Key -> Content \cup {Unset}]
      BY <1>0 DEF TxnRecord, Store, Content, Digest
    <3> QED BY <1>0, <3>1, <3>2 DEF TxnRecord, Entry, TxnEntry
  <2>2. Len(log) + 1 \in Index
    BY <1>10, BoundAssumption DEF CommitApplyLog, Submit, TypeInv, CodeTypeOK, Index
  <2>3. [NewTxn EXCEPT !.pc = "waiting", !.writable = TRUE, !.index = txn[t].index,
                       !.entry = Len(log) + 1] \in TxnRecord
    BY <1>0, <2>2, RecordTypes DEF TxnRecord
  <2>4. txn' \in [Txn -> TxnRecord]
    BY <1>0, <1>10, <2>3 DEF CommitApplyLog
  <2> QED BY <1>10, <2>1, <2>4, SubmitTypes DEF TypeInv, CodeTypeOK, CommitApplyLog
<1>11. ASSUME NEW t \in Txn, CommitFails(t) PROVE TypeInv'
  <2>1. txn' \in [Txn -> TxnRecord]
    BY <1>0, <1>11, RecordTypes DEF CommitFails, Finished
  <2> QED BY <1>0, <1>11, <2>1, CompletedType, HandleTypes DEF CommitFails
<1>12. ASSUME NEW t \in Txn, CommitReturns(t) PROVE TypeInv'
  <2>1. txn' \in [Txn -> TxnRecord]
    BY <1>0, <1>12, RecordTypes DEF CommitReturns, Finished
  <2> QED BY <1>0, <1>12, <2>1, CompletedType, HandleTypes
      DEF CommitReturns, counterVars
<1>13. ASSUME NEW t \in Txn, Rollback(t) PROVE TypeInv'
  <2>1. PICK lowest \in Index \cup {Infinite} :
           txn' = [txn EXCEPT ![t] = [@ EXCEPT !.pc = "clearing", !.lowest = lowest]]
    BY <1>13 DEF Rollback
  <2>2. [txn[t] EXCEPT !.pc = "clearing", !.lowest = lowest] \in TxnRecord
    BY <1>0, TxnUpdates
  <2>3. txn' \in [Txn -> TxnRecord]
    BY <1>0, <2>1, <2>2
  <2>4. source' \in [Index -> Nat]
    BY <1>13, CompletedType DEF Rollback
  <2> QED BY <1>0, <1>13, <2>3, <2>4, HandleTypes DEF Rollback, counterVars
<1>14. ASSUME NEW t \in Txn, RollbackReadOnly(t) PROVE TypeInv'
  <2>1. txn' \in [Txn -> TxnRecord]
    BY <1>0, <1>14, RecordTypes DEF RollbackReadOnly, Finished
  <2> QED BY <1>0, <1>14, <2>1, HandleTypes DEF RollbackReadOnly, counterVars
<1>15. ASSUME NEW t \in Txn, RollbackClears(t) PROVE TypeInv'
  <2>1. txn' \in [Txn -> TxnRecord]
    BY <1>0, <1>15, RecordTypes DEF RollbackClears, Finished
  <2>2. modified' \in [Replica -> [Index -> SUBSET Key]]
    BY <1>0, <1>15, ClearedType DEF TypeInv, CodeTypeOK, RollbackClears
  <2>3. CodeTypeOK'
    BY <1>15, <2>1, <2>2 DEF TypeInv, CodeTypeOK, RollbackClears, raftVars, snapshotVars, counterVars
  <2>4. WithinLog'
    BY <1>15 DEF TypeInv, WithinLog, RollbackClears, raftVars, snapshotVars
  <2> QED BY <2>3, <2>4 DEF TypeInv
<1>16. ASSUME NEW w \in Writer, NEW k \in Key, NEW content \in Content, Write(w, k, content)
       PROVE  TypeInv'
  <2>1. PICK lowest \in Index \cup {Infinite} :
           writer' = [writer EXCEPT ![w] =
              [pc |-> "lowest", key |-> k, content |-> content, lowest |-> lowest, entry |-> 0]]
    BY <1>16 DEF Write
  <2>2. writer' \in [Writer -> WriterRecord]
    BY <2>1, IndexType DEF TypeInv, CodeTypeOK, WriterRecord
  <2> QED BY <1>0, <1>16, <2>2, HandleTypes DEF Write, counterVars
<1>17. ASSUME NEW w \in Writer, WriteApplyLog(w) PROVE TypeInv'
  <2>1. PlainEntry(writer[w].key, writer[w].content, Capped(writer[w].lowest)) \in Entry
    <3>1. Capped(writer[w].lowest) \in Index
      BY <1>0, CappedType DEF WriterRecord
    <3>2. [NoKeys EXCEPT ![writer[w].key] = writer[w].content] \in [Key -> Content \cup {Unset}]
      BY <1>0, StoreType DEF WriterRecord
    <3> QED BY <3>1, <3>2, StoreType, IndexType DEF PlainEntry, Entry
  <2>2. Len(log) + 1 \in Index
    BY <1>17, BoundAssumption DEF WriteApplyLog, Submit, TypeInv, CodeTypeOK, Index
  <2>3. writer' \in [Writer -> WriterRecord]
    BY <1>17, <2>2, RecordTypes DEF TypeInv, CodeTypeOK, WriteApplyLog, WriterRecord
  <2> QED BY <1>0, <1>17, <2>1, <2>3, SubmitTypes DEF WriteApplyLog
<1>18. ASSUME NEW w \in Writer, WriteReturns(w) PROVE TypeInv'
  <2>1. writer' \in [Writer -> WriterRecord]
    BY <1>18, RecordTypes DEF TypeInv, CodeTypeOK, WriteReturns
  <2> QED BY <1>0, <1>18, <2>1, HandleTypes DEF WriteReturns, counterVars
<1>19. CASE ConfigurationChange
  <2>1. ConfigEntry \in Entry
    BY StoreType, IndexType DEF ConfigEntry, Entry
  <2> QED BY <1>19, <2>1, IndexType, SubmitTypes DEF TypeInv, CodeTypeOK, ConfigurationChange
<1>20. CASE Dispatch
  <2>1. dispatched' \in Index /\ dispatched' <= Len(log)
    <3>1. dispatched \in Nat /\ Len(log) \in Nat /\ Len(log) <= MaxLog
      BY BoundAssumption DEF TypeInv, CodeTypeOK, Index
    <3>2. dispatched' = dispatched + 1 /\ dispatched < Len(log) /\ UNCHANGED log
      BY <1>20 DEF Dispatch
    <3> QED BY <3>1, <3>2, BoundAssumption DEF Index
  <2>2. CodeTypeOK'
    BY <1>20, <2>1 DEF Dispatch, TypeInv, CodeTypeOK, fsmVars, snapshotVars, counterVars
  <2>3. WithinLog'
    BY <1>20, <2>1 DEF Dispatch, TypeInv, WithinLog, fsmVars, snapshotVars
  <2> QED BY <2>2, <2>3 DEF TypeInv
<1>21. ASSUME NEW n \in Replica, ApplyBatch(n) PROVE TypeInv'
  <2>1. PICK last \in (cursor[n] + 1) .. Queued(n) :
           batch' = [batch EXCEPT ![n] =
                       [NoBatch EXCEPT !.pc = "ops", !.first = cursor[n] + 1,
                          !.next = cursor[n] + 1, !.last = last,
                          !.base = latestIndex[n], !.work = db[n]]]
    BY <1>21 DEF ApplyBatch
  <2> DEFINE b == [NoBatch EXCEPT !.pc = "ops", !.first = cursor[n] + 1,
                          !.next = cursor[n] + 1, !.last = last,
                          !.base = latestIndex[n], !.work = db[n]]
  <2>2. last \in Index /\ cursor[n] + 1 \in Index /\ 1 <= cursor[n] + 1 /\ last <= Len(log)
    <3>1. Queued(n) \in Index /\ Queued(n) <= Len(log) /\ cursor[n] \in Index
      BY <1>0 DEF Queued, TypeInv, CodeTypeOK, WithinLog, Index
    <3>2. Len(log) \in Nat
      BY DEF TypeInv, CodeTypeOK
    <3>3. last \in (cursor[n] + 1) .. Queued(n)
      OBVIOUS
    <3>4. MaxLog \in Nat /\ cursor[n] \in Nat /\ Queued(n) \in Nat /\ Queued(n) <= MaxLog
      BY ONLY <3>1, BoundAssumption DEF Index
    <3>5. last \in Nat /\ cursor[n] + 1 <= last /\ last <= Queued(n)
      BY ONLY <3>3, <3>4
    <3> QED BY ONLY <3>1, <3>2, <3>4, <3>5 DEF Index
  <2>3. b \in BatchRecord /\ b.next = cursor[n] + 1 /\ b.last = last
    BY <1>0, <2>2, RecordTypes DEF BatchRecord
  <2> HIDE DEF b
  <2>4. batch' = [batch EXCEPT ![n] = b]
    BY <2>1 DEF b
  <2>5. \A m \in Replica : cursor'[m] <= Len(log) /\ stored'[m] <= Len(log)
    BY <1>21 DEF ApplyBatch, TypeInv, WithinLog
  <2>6. UNCHANGED <<raftVars, db, cursor, stored, latestIndex, modified, snapshotVars,
                    verdict, source, txn, writer, counterVars, ref>>
    BY <1>21 DEF ApplyBatch
  <2>7. /\ db' \in [Replica -> Store] /\ cursor' \in [Replica -> Index]
        /\ stored' \in [Replica -> Index] /\ latestIndex' \in [Replica -> Index]
        /\ modified' \in [Replica -> [Index -> SUBSET Key]]
        /\ verdict' \in [Index -> {"none", "ok", "conflict"}]
    BY <2>6 DEF TypeInv, CodeTypeOK
  <2> QED BY <2>2, <2>3, <2>4, <2>5, <2>6, <2>7, ReplicaTypes
<1>22. ASSUME NEW n \in Replica, ApplyCommand(n) PROVE TypeInv'
  <2> DEFINE c  == batch[n]
             e  == log[c.next]
             ok == Verified(modified[n], c, e)
             b  == [c EXCEPT !.next = c.next + 1,
                       !.work = IF ok THEN Overwrite(c.work, e.writes) ELSE c.work,
                       !.lowest = IF e.kind = "config" THEN c.lowest ELSE e.lowest,
                       !.conflicts = IF ok THEN c.conflicts ELSE c.conflicts \cup {c.next}]
  <2>1. /\ c.pc = "ops" /\ c.next <= c.last
        /\ batch' = [batch EXCEPT ![n] = b]
        /\ modified' = [modified EXCEPT ![n][c.next] = IF ok THEN KeysOf(e.writes) ELSE @]
    BY <1>22 DEF ApplyCommand
  <2>2. /\ c.next \in Index /\ 1 <= c.next /\ c.next <= Len(log) /\ c.last <= Len(log)
        /\ c.next + 1 \in Index \cup {Infinite} /\ 1 <= c.next + 1
    <3>1. c.next \in Index \cup {Infinite} /\ c.last \in Index /\ Len(log) \in Index
      BY <1>0 DEF BatchRecord, TypeInv, CodeTypeOK
    <3>2. 1 <= c.next /\ c.last <= Len(log)
      BY <2>1 DEF TypeInv, WithinLog
    <3>3. c.next <= c.last
      BY <2>1
    <3> HIDE DEF c
    <3>4. c.last \in Nat /\ c.last <= MaxLog /\ Len(log) \in Nat /\ c.next \in Nat
      BY <3>1, BoundAssumption DEF Index, Infinite
    <3>5. c.next <= MaxLog /\ c.next <= Len(log)
      BY <3>2, <3>3, <3>4, BoundAssumption
    <3> QED BY <3>2, <3>4, <3>5, BoundAssumption DEF Index, Infinite
  <2>3. e \in Entry
    BY <2>2 DEF TypeInv, CodeTypeOK, Index
  <2>4. e.writes \in [Key -> Content \cup {Unset}] /\ e.lowest \in Index
    BY <2>3 DEF Entry
  <2>5. b \in BatchRecord /\ b.next = c.next + 1 /\ b.last = c.last
    <3> DEFINE work == IF ok THEN Overwrite(c.work, e.writes) ELSE c.work
               lowest == IF e.kind = "config" THEN c.lowest ELSE e.lowest
               conflicts == IF ok THEN c.conflicts ELSE c.conflicts \cup {c.next}
    <3>1. c \in BatchRecord
      BY <1>0
    <3>2. work \in Store
      BY <2>4, <3>1, StoreType DEF BatchRecord
    <3>3. lowest \in Index
      BY <2>4, <3>1 DEF BatchRecord
    <3>4. conflicts \in SUBSET Index
      BY <2>2, <3>1 DEF BatchRecord
    <3>5. b = [c EXCEPT !.next = c.next + 1, !.work = work, !.lowest = lowest,
                        !.conflicts = conflicts]
      OBVIOUS
    <3> HIDE DEF work, lowest, conflicts, c, b
    <3> QED BY <2>2, <3>1, <3>2, <3>3, <3>4, <3>5 DEF BatchRecord
  <2>6. modified' \in [Replica -> [Index -> SUBSET Key]]
    <3>1. KeysOf(e.writes) \in SUBSET Key
      BY DEF KeysOf
    <3> HIDE DEF ok, c, e
    <3> QED BY <1>0, <2>1, <2>2, <3>1 DEF TypeInv, CodeTypeOK
  <2>7. \A m \in Replica : cursor'[m] <= Len(log) /\ stored'[m] <= Len(log)
    BY <1>22 DEF ApplyCommand, TypeInv, WithinLog
  <2>8. b.pc = "ops" => 1 <= b.next /\ b.last <= Len(log)
    BY <2>2, <2>5
  <2> HIDE DEF b
  <2> QED BY <1>22, <2>1, <2>5, <2>6, <2>7, <2>8, ReplicaTypes
      DEF ApplyCommand, TypeInv, CodeTypeOK
<1>23. ASSUME NEW n \in Replica, StoreBatch(n) PROVE TypeInv'
  <2> DEFINE b == [batch[n] EXCEPT !.pc = "clear"]
  <2>1. b \in BatchRecord /\ b.pc = "clear"
    BY <1>0 DEF BatchRecord
  <2>2. batch[n].last \in Index /\ batch[n].last <= Len(log) /\ batch[n].work \in Store
    BY <1>0, <1>23 DEF BatchRecord, StoreBatch, TypeInv, WithinLog
  <2>3. Advanced(batch[n], stored[n]) \in Index /\ Advanced(batch[n], stored[n]) <= Len(log)
    BY <1>0, <2>2 DEF Advanced, TypeInv, WithinLog
  <2>4. db' \in [Replica -> Store]
    BY <1>23, <2>2 DEF StoreBatch, TypeInv, CodeTypeOK
  <2>5. /\ cursor' \in [Replica -> Index] /\ stored' \in [Replica -> Index]
        /\ \A m \in Replica : cursor'[m] <= Len(log) /\ stored'[m] <= Len(log)
    BY <1>23, <2>2, <2>3 DEF StoreBatch, TypeInv, CodeTypeOK, WithinLog
  <2> HIDE DEF b
  <2>6. batch' = [batch EXCEPT ![n] = b]
    BY <1>23 DEF StoreBatch, b
  <2> QED BY <1>23, <2>1, <2>4, <2>5, <2>6, ReplicaTypes DEF StoreBatch, TypeInv, CodeTypeOK
<1>24. ASSUME NEW n \in Replica, ClearBatch(n) PROVE TypeInv'
  <2> DEFINE b == [batch[n] EXCEPT !.pc = "publish"]
  <2>1. b \in BatchRecord /\ b.pc = "publish"
    BY <1>0 DEF BatchRecord
  <2>2. modified' \in [Replica -> [Index -> SUBSET Key]]
    BY <1>0, <1>24, ClearedType DEF ClearBatch, TypeInv, CodeTypeOK
  <2> HIDE DEF b
  <2>3. batch' = [batch EXCEPT ![n] = b]
    BY <1>24 DEF ClearBatch, b
  <2>4. \A m \in Replica : cursor'[m] <= Len(log) /\ stored'[m] <= Len(log)
    BY <1>24 DEF ClearBatch, TypeInv, WithinLog
  <2> QED BY <1>24, <2>1, <2>2, <2>3, <2>4, ReplicaTypes DEF ClearBatch, TypeInv, CodeTypeOK
<1>25. ASSUME NEW n \in Replica, PublishBatch(n) PROVE TypeInv'
  <2>1. verdict' \in [Index -> {"none", "ok", "conflict"}]
    BY <1>25 DEF PublishBatch, Response, TypeInv, CodeTypeOK
  <2>2. batch[n].last \in Index
    BY <1>0 DEF BatchRecord
  <2>3. latestIndex' \in [Replica -> Index]
    BY <1>0, <1>25, <2>2 DEF PublishBatch, Advanced, TypeInv, CodeTypeOK
  <2>4. \A m \in Replica : cursor'[m] <= Len(log) /\ stored'[m] <= Len(log)
    BY <1>25 DEF PublishBatch, TypeInv, WithinLog
  <2>5. NoBatch.pc # "ops"
    BY DEF NoBatch
  <2> QED BY <1>25, <2>1, <2>3, <2>4, <2>5, RecordTypes, ReplicaTypes
      DEF PublishBatch, TypeInv, CodeTypeOK
<1>26. ASSUME NEW n \in Replica, TakeSnapshot(n) PROVE TypeInv'
  <2>1. CodeTypeOK'
    BY <1>0, <1>26 DEF TakeSnapshot, TypeInv, CodeTypeOK, raftVars, snapshotVars, fsmVars
  <2>2. WithinLog'
    BY <1>0, <1>26 DEF TakeSnapshot, TypeInv, CodeTypeOK, WithinLog, raftVars, snapshotVars, fsmVars
  <2> QED BY <2>1, <2>2 DEF TypeInv
<1>33. ASSUME NEW n \in Replica, WriteSnapshotMeta(n) PROVE TypeInv'
  <2>1. snapshot[n] \in Index /\ snapshot[n] <= Len(log)
    BY <1>0, <1>33 DEF WriteSnapshotMeta, TypeInv, WithinLog
  <2>2. CodeTypeOK'
    BY <1>33, <2>1 DEF WriteSnapshotMeta, TypeInv, CodeTypeOK, raftVars, counterVars
  <2>3. WithinLog'
    BY <1>33, <2>1 DEF WriteSnapshotMeta, TypeInv, CodeTypeOK, WithinLog, raftVars
  <2> QED BY <2>2, <2>3 DEF TypeInv
<1>27. ASSUME NEW n \in Replica, WitnessSnapshot(n) PROVE TypeInv'
  <2>1. snapshot[n] \in Index /\ snapshot[n] <= Len(log)
    BY <1>0, <1>27 DEF WitnessSnapshot, TypeInv, WithinLog
  <2>2. CodeTypeOK'
    BY <1>27, <2>1 DEF WitnessSnapshot, TypeInv, CodeTypeOK, raftVars, snapshotVars, counterVars
  <2>3. WithinLog'
    BY <1>27, <2>1 DEF WitnessSnapshot, TypeInv, CodeTypeOK, WithinLog, raftVars, snapshotVars
  <2> QED BY <2>2, <2>3 DEF TypeInv
<1>28. ASSUME NEW n \in Replica, Restart(n) PROVE TypeInv'
  <2>1. txn' \in [Txn -> TxnRecord] /\ writer' \in [Writer -> WriterRecord]
    BY <1>0, <1>28, RecordTypes DEF Restart
  <2>2. source' \in [Index -> Nat] /\ dispatched' \in Index /\ dispatched' <= Len(log)
    BY <1>0, <1>28 DEF Restart, TypeInv, CodeTypeOK, WithinLog
  <2>3. /\ modified' \in [Replica -> [Index -> SUBSET Key]]
        /\ latestIndex' \in [Replica -> Index]
    BY <1>0, <1>28 DEF Restart, NewFSM, TypeInv, CodeTypeOK
  <2>4. CodeTypeOK'
    <3>1. /\ cursor' \in [Replica -> Index] /\ snapshot' \in [Replica -> Index \cup {Infinite}]
          /\ witnessed' \in [Replica -> BOOLEAN]
      BY <1>0, <1>28 DEF Restart, TypeInv, CodeTypeOK
    <3>2. batch' \in [Replica -> BatchRecord] /\ restarts' \in Nat
      BY <1>28, RecordTypes DEF Restart, TypeInv, CodeTypeOK
    <3> QED BY <1>28, <2>1, <2>2, <2>3, <3>1, <3>2 DEF Restart, TypeInv, CodeTypeOK
  <2>5. WithinLog'
    <3>1. NoBatch.pc # "ops"
      BY DEF NoBatch
    <3> QED BY <1>0, <1>28, <2>2, <3>1 DEF Restart, TypeInv, CodeTypeOK, WithinLog
  <2> QED BY <2>4, <2>5 DEF TypeInv
<1>29. CASE UNCHANGED codeVars
  <2>1. CodeTypeOK'
    BY <1>29 DEF codeVars, raftVars, snapshotVars, fsmVars, counterVars, TypeInv, CodeTypeOK
  <2>2. WithinLog'
    BY <1>29 DEF codeVars, raftVars, snapshotVars, fsmVars, counterVars, TypeInv, WithinLog
  <2> QED BY <2>1, <2>2 DEF TypeInv
<1>30. ASSUME NEW t \in Txn, TxnStep(t) PROVE TypeInv'
  BY <1>30, <1>1, <1>2, <1>3, <1>4, <1>5, <1>6, <1>7, <1>8, <1>9, <1>10, <1>11, <1>12,
     <1>13, <1>14, <1>15 DEF TxnStep
<1>31. ASSUME NEW w \in Writer, WriterStep(w) PROVE TypeInv'
  BY <1>31, <1>16, <1>17, <1>18 DEF WriterStep
<1>32. ASSUME NEW n \in Replica, ReplicaStep(n) PROVE TypeInv'
  BY <1>32, <1>21, <1>22, <1>23, <1>24, <1>25, <1>26, <1>27, <1>28, <1>33
  DEF ReplicaStep
<1> QED BY <1>19, <1>20, <1>29, <1>30, <1>31, <1>32 DEF Step

\* The history variables change by themselves.
LEMMA StepOfNext == [Next]_vars => [Step]_codeVars
BY DEF Next, vars

\* The type invariant holds in every reachable state.
THEOREM TypeCorrect == Spec => []TypeOK
<1> DEFINE Flags == intact \in BOOLEAN /\ calm \in BOOLEAN
<1>1. Init => TypeInv /\ Flags
  BY InitTypeInv DEF Init
<1>2. TypeInv /\ Flags /\ [Next]_vars => (TypeInv /\ Flags)'
  <2>1. ASSUME Flags, Next PROVE Flags'
    BY <2>1, Zenon DEF Next, StaysIntact, StaysCalm
  <2>2. ASSUME Flags, UNCHANGED vars PROVE Flags'
    BY <2>2 DEF vars
  <2> QED BY <2>1, <2>2, TypeStep, StepOfNext
<1>3. TypeInv /\ Flags => TypeOK
  BY DEF TypeInv, TypeOK
<1> QED BY <1>1, <1>2, <1>3, PTL DEF Spec

-------------------------------------------------------------------------------
(* Where the parts of a replica are in the log.                             *)

\* A replica's indices do not run ahead of the entries it has applied, nor its
\* tracker ahead of the entry that is being applied.
ReplicaPosition(n) ==
  /\ latestIndex[n] <= cursor[n]
  /\ snapshot[n] = Infinite \/ snapshot[n] <= cursor[n]
  /\ batch[n].pc = "ops" =>
        /\ batch[n].first = cursor[n] + 1
        /\ batch[n].first <= batch[n].last
        /\ batch[n].first <= batch[n].next
        /\ batch[n].next <= batch[n].last + 1
  /\ batch[n].pc \in {"clear", "publish"} => batch[n].last = cursor[n]
  /\ \A i \in Index : modified[n][i] # {} =>
        i <= cursor[n] \/ (batch[n].pc = "ops" /\ i < batch[n].next)

\* A handle's index is in the leader's bucket, then in its snapshot.
TxnPosition(t) ==
  /\ txn[t].pc = "begun" => txn[t].index <= cursor[Leader]
  /\ txn[t].pc \in {"opened", "active", "committing"} => txn[t].index <= txn[t].at

\* The inductive invariant of StartIndexInSnapshot and NoLaterIndex.
PositionInv == (\A n \in Replica : ReplicaPosition(n)) /\ (\A t \in Txn : TxnPosition(t))

\* It holds before anything is applied.
LEMMA InitPosition == Init => PositionInv
BY IndexType DEF Init, PositionInv, ReplicaPosition, TxnPosition, NewTxn, NoBatch

\* Replicas that a step does not change, and handles it does not change.
LEMMA ReplicaUnchanged ==
  ASSUME NEW n \in Replica, ReplicaPosition(n),
         latestIndex'[n] = latestIndex[n], cursor'[n] = cursor[n],
         snapshot'[n] = snapshot[n], batch'[n] = batch[n], modified'[n] = modified[n]
  PROVE  ReplicaPosition(n)'
BY DEF ReplicaPosition

\* The leader's bucket only grows under a handle that has read its index.
LEMMA TxnUnchanged ==
  ASSUME NEW t \in Txn, TxnPosition(t), txn'[t] = txn[t], TypeInv, TypeInv',
         cursor[Leader] <= cursor'[Leader]
  PROVE  TxnPosition(t)'
<1>1. cursor[Leader] \in Nat /\ cursor'[Leader] \in Nat /\ txn[t].index \in Nat
  BY ReplicaAssumption DEF TypeInv, CodeTypeOK, TxnRecord, Index
<1> QED BY <1>1 DEF TxnPosition

\* A step of one handle that leaves the replicas alone.
LEMMA HandlePosition ==
  ASSUME TypeInv, PositionInv, NEW t \in Txn, NEW x,
         txn' = [txn EXCEPT ![t] = x],
         x.pc = "begun" => x.index <= cursor[Leader],
         x.pc \in {"opened", "active", "committing"} => x.index <= x.at,
         UNCHANGED <<cursor, latestIndex, snapshot, batch, modified>>
  PROVE  PositionInv'
<1>1. ASSUME NEW n \in Replica PROVE ReplicaPosition(n)'
  BY <1>1, ReplicaUnchanged DEF PositionInv
<1>2. ASSUME NEW u \in Txn PROVE TxnPosition(u)'
  BY <1>2 DEF PositionInv, TxnPosition, TypeInv, CodeTypeOK
<1> QED BY <1>1, <1>2 DEF PositionInv

\* A step that leaves both alone.
LEMMA OtherPosition ==
  ASSUME PositionInv, UNCHANGED <<txn, cursor, latestIndex, snapshot, batch, modified>>
  PROVE  PositionInv'
BY DEF PositionInv, ReplicaPosition, TxnPosition

\* A step that finishes a handle.
LEMMA FinishedPosition ==
  ASSUME TypeInv, PositionInv, NEW t \in Txn, txn' = Finished(t),
         UNCHANGED <<cursor, latestIndex, snapshot, batch, modified>>
  PROVE  PositionInv'
<1>1. DoneTxn.pc = "done"
  BY DEF DoneTxn, NewTxn
<1> QED BY <1>1, HandlePosition DEF Finished

\* Every action keeps the positions in order, Restart and the two steps of
\* witnessSnapshot included.
LEMMA PositionStep == TypeInv /\ TypeInv' /\ PositionInv /\ [Step]_codeVars => PositionInv'
<1> SUFFICES ASSUME TypeInv, TypeInv', PositionInv, [Step]_codeVars PROVE PositionInv' OBVIOUS
<1>0. /\ \A t \in Txn : txn[t] \in TxnRecord
      /\ \A n \in Replica : /\ cursor[n] \in Nat
                            /\ stored[n] \in Nat
                            /\ latestIndex[n] \in Nat
                            /\ modified[n] \in [Index -> SUBSET Key]
                            /\ batch[n] \in BatchRecord
      /\ Leader \in Replica
  BY IndexType, ReplicaAssumption DEF TypeInv, CodeTypeOK
<1>1. ASSUME NEW t \in Txn, NEW writable \in BOOLEAN, BeginTx(t, writable) PROVE PositionInv'
  <2>1. latestIndex[Leader] <= cursor[Leader]
    BY <1>0 DEF PositionInv, ReplicaPosition
  <2> DEFINE x == [txn[t] EXCEPT !.pc = "begun", !.writable = writable, !.index = AppliedIndex]
  <2>2. x.pc = "begun" /\ x.index <= cursor[Leader]
    BY <1>0, <2>1 DEF AppliedIndex, TxnRecord
  <2> HIDE DEF x
  <2>3. txn' = [txn EXCEPT ![t] = x]
    BY <1>1 DEF BeginTx, x
  <2> QED BY <1>1, <2>2, <2>3, HandlePosition DEF BeginTx, fsmVars, snapshotVars
<1>2. ASSUME NEW t \in Txn, OpenSnapshot(t) PROVE PositionInv'
  <2> DEFINE x == [txn[t] EXCEPT !.pc = IF txn[t].writable THEN "opened" ELSE "active",
                                 !.snap = db[Leader], !.at = cursor[Leader]]
  <2>1. txn[t].index <= cursor[Leader]
    BY <1>2 DEF OpenSnapshot, PositionInv, TxnPosition
  <2>2. x.pc # "begun" /\ x.index <= x.at
    BY <1>0, <2>1 DEF TxnRecord
  <2> HIDE DEF x
  <2>3. txn' = [txn EXCEPT ![t] = x]
    BY <1>2 DEF OpenSnapshot, x
  <2> QED BY <1>2, <2>2, <2>3, HandlePosition DEF OpenSnapshot, fsmVars, snapshotVars
<1>3. ASSUME NEW t \in Txn, OpenSnapshotFails(t) PROVE PositionInv'
  <2>1. [NewTxn EXCEPT !.pc = "leaked"].pc = "leaked"
    BY DEF NewTxn
  <2> QED BY <1>3, <2>1, HandlePosition DEF OpenSnapshotFails, fsmVars, snapshotVars
<1>4. ASSUME NEW t \in Txn, TrackTransaction(t) PROVE PositionInv'
  <2> DEFINE x == [txn[t] EXCEPT !.pc = "active"]
  <2>1. x.pc = "active" /\ x.index <= x.at
    BY <1>0, <1>4 DEF TrackTransaction, PositionInv, TxnPosition, TxnRecord
  <2> HIDE DEF x
  <2>2. txn' = [txn EXCEPT ![t] = x]
    BY <1>4 DEF TrackTransaction, x
  <2> QED BY <1>4, <2>1, <2>2, HandlePosition DEF TrackTransaction, fsmVars, snapshotVars
<1>5. ASSUME NEW t \in Txn, NEW k \in Key, Get(t, k) PROVE PositionInv'
  <2> DEFINE x == [txn[t] EXCEPT !.reads = txn[t].reads \cup {k}]
  <2>1. x.pc = "active" /\ x.index <= x.at
    BY <1>0, <1>5 DEF Get, PositionInv, TxnPosition, TxnRecord
  <2> HIDE DEF x
  <2>2. txn' = [txn EXCEPT ![t] = x]
    BY <1>5 DEF Get, x
  <2> QED BY <1>5, <2>1, <2>2, HandlePosition DEF Get, fsmVars, snapshotVars
<1>6. ASSUME NEW t \in Txn, NEW k \in Key, NEW content \in Content, Update(t, k, content)
      PROVE  PositionInv'
  <2> DEFINE updates == [txn[t].updates EXCEPT ![k] = content]
             reads == IF txn[t].updates[k] = Unset THEN txn[t].reads \cup {k} ELSE txn[t].reads
             x == [txn[t] EXCEPT !.updates = updates, !.reads = reads]
  <2>1. txn[t].pc = "active" /\ txn[t].index <= txn[t].at
    BY <1>6 DEF Update, PositionInv, TxnPosition
  <2>2. x.pc = "active" /\ x.index <= x.at
    BY <1>0, <2>1 DEF TxnRecord
  <2>3. txn' = [txn EXCEPT ![t] = x]
    BY <1>6 DEF Update
  <2> HIDE DEF x
  <2> QED BY <1>6, <2>2, <2>3, HandlePosition DEF Update, fsmVars, snapshotVars
<1>7. ASSUME NEW t \in Txn, NEW q \in Query, List(t, q) PROVE PositionInv'
  <2> DEFINE x == [txn[t] EXCEPT !.lists = ListChecks(txn[t], q)]
  <2>1. x.pc = "active" /\ x.index <= x.at
    BY <1>0, <1>7 DEF List, PositionInv, TxnPosition, TxnRecord
  <2> HIDE DEF x
  <2>2. txn' = [txn EXCEPT ![t] = x]
    BY <1>7 DEF List, x
  <2> QED BY <1>7, <2>1, <2>2, HandlePosition DEF List, fsmVars, snapshotVars
<1>8. ASSUME NEW t \in Txn, CommitUnwritten(t) PROVE PositionInv'
  BY <1>8, FinishedPosition DEF CommitUnwritten, fsmVars, snapshotVars
<1>9. ASSUME NEW t \in Txn, Commit(t) PROVE PositionInv'
  <2>1. PICK lowest \in Index \cup {Infinite} :
           txn' = [txn EXCEPT ![t] = [@ EXCEPT !.pc = "committing", !.lowest = lowest]]
    BY <1>9 DEF Commit
  <2> DEFINE x == [txn[t] EXCEPT !.pc = "committing", !.lowest = lowest]
  <2>2. x.pc = "committing" /\ x.index <= x.at
    BY <1>0, <1>9 DEF Commit, PositionInv, TxnPosition, TxnRecord
  <2> HIDE DEF x
  <2>3. txn' = [txn EXCEPT ![t] = x]
    BY <2>1 DEF x
  <2> QED BY <1>9, <2>2, <2>3, HandlePosition DEF Commit, fsmVars, snapshotVars
<1>10. ASSUME NEW t \in Txn, CommitApplyLog(t) PROVE PositionInv'
  <2> DEFINE x == [NewTxn EXCEPT !.pc = "waiting", !.writable = TRUE, !.index = txn[t].index,
                                 !.entry = Len(log) + 1]
  <2>1. x.pc = "waiting"
    BY DEF NewTxn
  <2> HIDE DEF x
  <2>2. txn' = [txn EXCEPT ![t] = x]
    BY <1>10 DEF CommitApplyLog, x
  <2> QED BY <1>10, <2>1, <2>2, HandlePosition DEF CommitApplyLog, fsmVars, snapshotVars
<1>11. ASSUME NEW t \in Txn, CommitFails(t) PROVE PositionInv'
  BY <1>11, FinishedPosition DEF CommitFails, fsmVars, snapshotVars
<1>12. ASSUME NEW t \in Txn, CommitReturns(t) PROVE PositionInv'
  BY <1>12, FinishedPosition DEF CommitReturns, fsmVars, snapshotVars
<1>13. ASSUME NEW t \in Txn, Rollback(t) PROVE PositionInv'
  <2>1. PICK lowest \in Index \cup {Infinite} :
           txn' = [txn EXCEPT ![t] = [@ EXCEPT !.pc = "clearing", !.lowest = lowest]]
    BY <1>13 DEF Rollback
  <2> DEFINE x == [txn[t] EXCEPT !.pc = "clearing", !.lowest = lowest]
  <2>2. x.pc = "clearing"
    BY <1>0 DEF TxnRecord
  <2> HIDE DEF x
  <2>3. txn' = [txn EXCEPT ![t] = x]
    BY <2>1 DEF x
  <2> QED BY <1>13, <2>2, <2>3, HandlePosition DEF Rollback, fsmVars, snapshotVars
<1>14. ASSUME NEW t \in Txn, RollbackReadOnly(t) PROVE PositionInv'
  BY <1>14, FinishedPosition DEF RollbackReadOnly, fsmVars, snapshotVars
<1>15. ASSUME NEW t \in Txn, RollbackClears(t) PROVE PositionInv'
  <2>1. \A n \in Replica, i \in Index : modified'[n][i] # {} => modified[n][i] # {}
    <3>1. modified \in [Replica -> [Index -> SUBSET Key]]
      BY DEF TypeInv, CodeTypeOK
    <3>2. PICK low : modified' = [modified EXCEPT ![Leader] = clearOldEntries(@, low)]
      BY <1>15 DEF RollbackClears
    <3> QED BY ONLY <3>1, <3>2 DEF clearOldEntries
  <2>2. ASSUME NEW n \in Replica PROVE ReplicaPosition(n)'
    BY <1>15, <2>1 DEF snapshotVars, RollbackClears, PositionInv, ReplicaPosition
  <2>3. ASSUME NEW u \in Txn PROVE TxnPosition(u)'
    <3>1. DoneTxn.pc = "done"
      BY DEF DoneTxn, NewTxn
    <3> QED BY <1>15, <3>1 DEF RollbackClears, Finished, PositionInv, TxnPosition, TypeInv, CodeTypeOK
  <2> QED BY <2>2, <2>3 DEF PositionInv
<1>16. ASSUME NEW w \in Writer, WriterStep(w) PROVE PositionInv'
  BY <1>16, OtherPosition DEF WriterStep, Write, WriteApplyLog, WriteReturns, fsmVars, snapshotVars
<1>17. CASE ConfigurationChange
  BY <1>17, OtherPosition DEF ConfigurationChange, fsmVars, snapshotVars
<1>18. CASE Dispatch
  BY <1>18, OtherPosition DEF Dispatch, fsmVars, snapshotVars
<1>19. ASSUME NEW n \in Replica,
              \A m \in Replica \ {n} :
                 /\ latestIndex'[m] = latestIndex[m] /\ cursor'[m] = cursor[m]
                 /\ snapshot'[m] = snapshot[m] /\ batch'[m] = batch[m]
                 /\ modified'[m] = modified[m],
              cursor[Leader] <= cursor'[Leader], UNCHANGED txn, ReplicaPosition(n)'
       PROVE  PositionInv'
  <2>1. ASSUME NEW m \in Replica PROVE ReplicaPosition(m)'
    BY <1>19, <2>1, ReplicaUnchanged DEF PositionInv
  <2>2. ASSUME NEW t \in Txn PROVE TxnPosition(t)'
    BY <1>19, <2>2, TxnUnchanged DEF PositionInv
  <2> QED BY <2>1, <2>2 DEF PositionInv
<1>20. ASSUME NEW n \in Replica, ApplyBatch(n) PROVE PositionInv'
  <2>1. PICK last \in (cursor[n] + 1) .. Queued(n) :
           batch' = [batch EXCEPT ![n] =
                       [NoBatch EXCEPT !.pc = "ops", !.first = cursor[n] + 1,
                          !.next = cursor[n] + 1, !.last = last,
                          !.base = latestIndex[n], !.work = db[n]]]
    BY <1>20 DEF ApplyBatch
  <2>2. /\ batch'[n].pc = "ops" /\ batch'[n].first = cursor[n] + 1
        /\ batch'[n].next = cursor[n] + 1 /\ batch'[n].last = last
    BY <2>1 DEF NoBatch, TypeInv, CodeTypeOK
  <2>3. last >= cursor[n] + 1
    <3>1. Queued(n) \in Int
      BY DEF Queued, TypeInv, CodeTypeOK, Index
    <3> QED BY <1>0, <3>1
  <2>4. ReplicaPosition(n)
    BY DEF PositionInv
  <2>5. ReplicaPosition(n)'
    BY <1>0, <1>20, <2>2, <2>3, <2>4, IndexType DEF snapshotVars, ApplyBatch, ReplicaPosition
  <2>6. \A m \in Replica \ {n} : batch'[m] = batch[m]
    BY <2>1 DEF TypeInv, CodeTypeOK
  <2> QED BY <1>0, <1>19, <1>20, <2>5, <2>6 DEF snapshotVars, ApplyBatch
<1>21. ASSUME NEW n \in Replica, ApplyCommand(n) PROVE PositionInv'
  <2> DEFINE c == batch[n]
  <2>1. /\ c.pc = "ops" /\ c.next <= c.last /\ c \in BatchRecord
        /\ batch'[n].pc = "ops" /\ batch'[n].first = c.first
        /\ batch'[n].next = c.next + 1 /\ batch'[n].last = c.last
    <3>1. c \in BatchRecord /\ c.pc = "ops" /\ c.next <= c.last /\ n \in DOMAIN batch
      BY <1>0, <1>21 DEF ApplyCommand, TypeInv, CodeTypeOK
    <3>2. PICK work, lowest, conflicts :
             batch'[n] = [c EXCEPT !.next = c.next + 1, !.work = work, !.lowest = lowest,
                                   !.conflicts = conflicts]
      BY <1>21, <3>1 DEF ApplyCommand
    <3> HIDE DEF c
    <3> QED BY <3>1, <3>2 DEF BatchRecord
  <2>2. c.first \in Nat /\ c.next \in Nat /\ c.last \in Nat
    BY <2>1, IndexType DEF BatchRecord
  <2>3. \A i \in Index : modified'[n][i] # {} => modified[n][i] # {} \/ i = c.next
    BY <1>0, <1>21 DEF ApplyCommand, TypeInv, CodeTypeOK
  <2>4. ReplicaPosition(n)
    BY DEF PositionInv
  <2> HIDE DEF c
  <2>5. ReplicaPosition(n)'
    BY <1>0, <1>21, <2>1, <2>2, <2>3, <2>4, IndexType DEF snapshotVars, ApplyCommand, ReplicaPosition, c
  <2>6. \A m \in Replica \ {n} : batch'[m] = batch[m] /\ modified'[m] = modified[m]
    BY <1>21 DEF ApplyCommand, TypeInv, CodeTypeOK
  <2> QED BY <1>0, <1>19, <1>21, <2>5, <2>6 DEF snapshotVars, ApplyCommand
<1>22. ASSUME NEW n \in Replica, StoreBatch(n) PROVE PositionInv'
  <2> DEFINE c == batch[n]
  <2>1. /\ c.pc = "ops" /\ c.next > c.last /\ c \in BatchRecord
        /\ batch'[n].pc = "clear" /\ batch'[n].last = c.last
        /\ cursor'[n] = c.last
    BY <1>0, <1>22 DEF StoreBatch, TypeInv, CodeTypeOK, BatchRecord
  <2>2. c.first \in Nat /\ c.next \in Nat /\ c.last \in Nat
    BY <2>1, IndexType DEF BatchRecord
  <2>3. ReplicaPosition(n)
    BY DEF PositionInv
  <2>4. cursor[n] <= c.last /\ \A i \in Index : modified[n][i] # {} => i <= c.last
    <3>1. cursor[n] <= c.last /\ c.next <= c.last + 1
      BY <1>0, <2>1, <2>2, <2>3 DEF ReplicaPosition
    <3>2. ASSUME NEW i \in Index, modified[n][i] # {} PROVE i <= c.last
      <4>1. i <= cursor[n] \/ i < c.next
        BY <2>3, <3>2 DEF ReplicaPosition
      <4>2. i \in Nat /\ cursor[n] \in Nat
        BY <1>0, IndexType
      <4> HIDE DEF c
      <4> QED BY <2>2, <3>1, <4>1, <4>2
    <3> QED BY <3>1, <3>2
  <2>5. snapshot[n] \in Nat
    BY IndexType DEF TypeInv, CodeTypeOK
  <2> HIDE DEF c
  <2>6. ReplicaPosition(n)'
    <3>1. latestIndex[n] <= c.last /\ (snapshot[n] = Infinite \/ snapshot[n] <= c.last)
      BY <1>0, <2>2, <2>3, <2>4, <2>5 DEF ReplicaPosition
    <3>2. UNCHANGED <<latestIndex, snapshot, modified>>
      BY <1>22 DEF snapshotVars, StoreBatch
    <3> QED BY <2>1, <2>4, <3>1, <3>2 DEF ReplicaPosition
  <2>7. \A m \in Replica \ {n} : batch'[m] = batch[m] /\ cursor'[m] = cursor[m]
    BY <1>22 DEF StoreBatch, TypeInv, CodeTypeOK
  <2>8. cursor[Leader] <= cursor'[Leader]
    BY <1>0, <2>1, <2>4, <2>7
  <2> QED BY <1>0, <1>19, <1>22, <2>6, <2>7, <2>8 DEF snapshotVars, StoreBatch
<1>23. ASSUME NEW n \in Replica, ClearBatch(n) PROVE PositionInv'
  <2>1. /\ batch[n].pc = "clear" /\ batch'[n].pc = "publish"
        /\ batch'[n].last = batch[n].last
    BY <1>0, <1>23 DEF ClearBatch, TypeInv, CodeTypeOK, BatchRecord
  <2>2. \A i \in Index : modified'[n][i] # {} => modified[n][i] # {}
    BY <1>0, <1>23 DEF ClearBatch, clearOldEntries, TypeInv, CodeTypeOK
  <2>3. ReplicaPosition(n)
    BY DEF PositionInv
  <2>4. ReplicaPosition(n)'
    BY <1>23, <2>1, <2>2, <2>3 DEF snapshotVars, ClearBatch, ReplicaPosition
  <2>5. \A m \in Replica \ {n} : batch'[m] = batch[m] /\ modified'[m] = modified[m]
    BY <1>23 DEF ClearBatch, TypeInv, CodeTypeOK
  <2> QED BY <1>0, <1>19, <1>23, <2>4, <2>5 DEF snapshotVars, ClearBatch
<1>24. ASSUME NEW n \in Replica, PublishBatch(n) PROVE PositionInv'
  <2>1. /\ batch[n].pc = "publish" /\ batch'[n].pc = "idle"
        /\ latestIndex'[n] \in {batch[n].last, latestIndex[n]}
    BY <1>0, <1>24 DEF PublishBatch, Advanced, NoBatch, TypeInv, CodeTypeOK
  <2>2. ReplicaPosition(n)
    BY DEF PositionInv
  <2>3. ReplicaPosition(n)'
    BY <1>0, <1>24, <2>1, <2>2 DEF snapshotVars, PublishBatch, ReplicaPosition
  <2>4. \A m \in Replica \ {n} : batch'[m] = batch[m] /\ latestIndex'[m] = latestIndex[m]
    BY <1>24 DEF PublishBatch, TypeInv, CodeTypeOK
  <2> QED BY <1>0, <1>19, <1>24, <2>3, <2>4 DEF snapshotVars, PublishBatch
<1>25. ASSUME NEW n \in Replica, TakeSnapshot(n) PROVE PositionInv'
  <2>1. ReplicaPosition(n)
    BY DEF PositionInv
  <2>2. ReplicaPosition(n)'
    <3>1. snapshot'[n] = cursor[n] /\ cursor[n] \in Nat /\ UNCHANGED fsmVars
      BY <1>0, <1>25, IndexType DEF TakeSnapshot, TypeInv, CodeTypeOK
    <3> QED BY <2>1, <3>1 DEF ReplicaPosition, fsmVars
  <2>3. \A m \in Replica \ {n} : snapshot'[m] = snapshot[m]
    BY <1>25 DEF TakeSnapshot, TypeInv, CodeTypeOK
  <2> QED BY <1>0, <1>19, <1>25, <2>2, <2>3 DEF TakeSnapshot, fsmVars, snapshotVars
<1>31. ASSUME NEW n \in Replica, WriteSnapshotMeta(n) PROVE PositionInv'
  BY <1>31, OtherPosition DEF WriteSnapshotMeta
<1>26. ASSUME NEW n \in Replica, WitnessSnapshot(n) PROVE PositionInv'
  <2>1. ReplicaPosition(n)
    BY DEF PositionInv
  <2>2. ReplicaPosition(n)'
    BY <1>0, <1>26, <2>1 DEF WitnessSnapshot, ReplicaPosition, TypeInv, CodeTypeOK
  <2>3. \A m \in Replica \ {n} : snapshot'[m] = snapshot[m] /\ latestIndex'[m] = latestIndex[m]
    BY <1>26 DEF WitnessSnapshot, TypeInv, CodeTypeOK
  <2> QED BY <1>0, <1>19, <1>26, <2>2, <2>3 DEF WitnessSnapshot
<1>27. ASSUME NEW n \in Replica, Restart(n) PROVE PositionInv'
  <2>1. ASSUME NEW m \in Replica PROVE ReplicaPosition(m)'
    <3>1. CASE m = n
      <4>1. /\ latestIndex'[n] = stored[n] /\ cursor'[n] = stored[n]
            /\ snapshot'[n] = Infinite /\ batch'[n] = NoBatch
            /\ \A i \in Index : modified'[n][i] = {}
        BY <1>27 DEF Restart, NewFSM, TypeInv, CodeTypeOK
      <4> QED BY <1>0, <3>1, <4>1 DEF NoBatch, ReplicaPosition
    <3>2. CASE m # n
      BY <1>27, <3>2, ReplicaUnchanged DEF Restart, NewFSM, PositionInv, TypeInv, CodeTypeOK
    <3> QED BY <3>1, <3>2
  <2>2. ASSUME NEW t \in Txn PROVE TxnPosition(t)'
    <3>1. CASE n = Leader
      <4>1. txn'[t].pc \in {"idle", "done"}
        BY <1>27, <3>1 DEF Restart, DoneTxn, NewTxn
      <4> QED BY <4>1 DEF TxnPosition
    <3>2. CASE n # Leader
      <4>1. UNCHANGED txn /\ cursor'[Leader] = cursor[Leader]
        BY <1>0, <1>27, <3>2 DEF Restart, TypeInv, CodeTypeOK
      <4> QED BY <1>0, <4>1, TxnUnchanged DEF PositionInv
    <3> QED BY <3>1, <3>2
  <2> QED BY <2>1, <2>2 DEF PositionInv
<1>28. CASE UNCHANGED codeVars
  BY <1>28, OtherPosition DEF codeVars, fsmVars, snapshotVars
<1>29. ASSUME NEW t \in Txn, TxnStep(t) PROVE PositionInv'
  BY <1>29, <1>1, <1>2, <1>3, <1>4, <1>5, <1>6, <1>7, <1>8, <1>9, <1>10, <1>11, <1>12,
     <1>13, <1>14, <1>15 DEF TxnStep
<1>30. ASSUME NEW n \in Replica, ReplicaStep(n) PROVE PositionInv'
  BY <1>30, <1>20, <1>21, <1>22, <1>23, <1>24, <1>25, <1>26, <1>27, <1>31
  DEF ReplicaStep
<1> QED BY <1>16, <1>17, <1>18, <1>28, <1>29, <1>30 DEF Step

\* Both invariants hold in every reachable state.
LEMMA Positions == Spec => [](TypeInv /\ PositionInv)
<1>1. Init => TypeInv /\ PositionInv
  BY InitTypeInv, InitPosition
<1>2. TypeInv /\ PositionInv /\ [Next]_vars => (TypeInv /\ PositionInv)'
  BY TypeStep, PositionStep, StepOfNext
<1> QED BY <1>1, <1>2, PTL DEF Spec

\* A transaction's snapshot is never older than the index it claims to start at.
THEOREM SnapshotHasStartIndex == Spec => []StartIndexInSnapshot
<1>1. TypeInv /\ PositionInv => StartIndexInSnapshot
  BY DEF PositionInv, TxnPosition, StartIndexInSnapshot
<1> QED BY <1>1, Positions, PTL

\* The panic of hasModifiedEntry and hasModifiedListEntry is out of reach,
\* restarts and snapshots included.
THEOREM TrackerNeverAhead == Spec => []NoLaterIndex
<1>1. TypeInv /\ PositionInv => NoLaterIndex
  <2> SUFFICES ASSUME TypeInv, PositionInv, NEW n \in Replica, NEW i \in Index,
                      batch[n].pc = "ops", modified[n][i] # {}
               PROVE  i <= batch[n].next
    BY DEF NoLaterIndex
  <2>1. batch[n].next \in Nat /\ cursor[n] \in Nat /\ i \in Nat
    BY IndexType DEF TypeInv, CodeTypeOK, BatchRecord
  <2> QED BY <2>1 DEF PositionInv, ReplicaPosition
<1> QED BY <1>1, Positions, PTL

-------------------------------------------------------------------------------
(* sourceIndexMap.                                                          *)

\* Only a writable handle has updates, is tracked, or is committed.
HandleOK(x) ==
  /\ x.pc = "idle" => KeysOf(x.updates) = {}
  /\ KeysOf(x.updates) # {} \/ x.pc \in {"opened", "committing"} => x.writable

\* Tracked, of a record.
TrackedRecord(x) == x.writable /\ x.pc \in {"active", "committing", "waiting"}

\* The inductive invariant of SourceCounts.
CountInv == SourceCounts /\ \A t \in Txn : HandleOK(txn[t])

\* The open write transactions that started at an index.
Open(i) == {t \in Txn : TrackedRecord(txn[t]) /\ txn[t].index = i}

\* SourceCounts in terms of Open, now and after a step.
LEMMA OpenCount ==
  /\ SourceCounts <=> \A i \in Index : source[i] = Cardinality(Open(i))
  /\ \A i : IsFiniteSet(Open(i)) /\ Cardinality(Open(i)) \in Nat
<1>1. ASSUME NEW i PROVE IsFiniteSet(Open(i)) /\ Cardinality(Open(i)) \in Nat
  BY FiniteAssumption, FS_Subset, FS_CardinalityType DEF Open
<1>2. SourceCounts <=> \A i \in Index : source[i] = Cardinality(Open(i))
  BY DEF SourceCounts, Open, Tracked, TrackedRecord
<1> QED BY <1>1, <1>2

\* The same of the next state.
LEMMA OpenCountPrime == SourceCounts' <=> \A i \in Index : source'[i] = Cardinality(Open(i)')
BY DEF SourceCounts, Open, Tracked, TrackedRecord

\* A handle that is new or done has no updates and is not tracked.
LEMMA NoUpdates == /\ KeysOf(NewTxn.updates) = {} /\ KeysOf(DoneTxn.updates) = {}
                   /\ NewTxn.pc = "idle" /\ DoneTxn.pc = "done"
BY DEF KeysOf, NewTxn, DoneTxn, NoKeys

\* A handle changes, and whether it is tracked does not.
LEMMA SameCounts ==
  ASSUME TypeInv, CountInv, NEW t \in Txn, NEW x, txn' = [txn EXCEPT ![t] = x],
         HandleOK(x), TrackedRecord(x) <=> TrackedRecord(txn[t]),
         TrackedRecord(x) => x.index = txn[t].index, UNCHANGED source
  PROVE  CountInv'
<1>1. \A u \in Txn : txn'[u] = IF u = t THEN x ELSE txn[u]
  BY DEF TypeInv, CodeTypeOK
<1>2. ASSUME NEW i PROVE Open(i)' = Open(i)
  BY <1>1 DEF Open
<1>3. SourceCounts'
  BY <1>2, OpenCount, OpenCountPrime DEF CountInv
<1> QED BY <1>1, <1>3 DEF CountInv

\* A tracked handle is no longer tracked, and completeTransaction is called.
LEMMA OneLess ==
  ASSUME TypeInv, CountInv, NEW t \in Txn, NEW x, txn' = [txn EXCEPT ![t] = x],
         HandleOK(x), TrackedRecord(txn[t]), ~TrackedRecord(x),
         source' = completeTransaction(txn[t].index)
  PROVE  CountInv'
<1> DEFINE j == txn[t].index
<1>1. \A u \in Txn : txn'[u] = IF u = t THEN x ELSE txn[u]
  BY DEF TypeInv, CodeTypeOK
<1>2. source \in [Index -> Nat] /\ j \in Index
  BY DEF TypeInv, CodeTypeOK, TxnRecord
<1>3. ASSUME NEW i \in Index PROVE source'[i] = Cardinality(Open(i)')
  <2>1. source[i] = Cardinality(Open(i)) /\ IsFiniteSet(Open(i))
    BY OpenCount DEF CountInv
  <2>2. CASE i = j
    <3>1. t \in Open(i) /\ Open(i)' = Open(i) \ {t}
      BY <1>1, <2>2 DEF Open
    <3>2. Cardinality(Open(i)') = Cardinality(Open(i)) - 1
      BY <2>1, <3>1, FS_RemoveElement
    <3>3. Cardinality(Open(i)) # 0
      BY <2>1, <3>1, FS_EmptySet
    <3>4. source'[i] = source[i] - 1
      BY <1>2, <2>1, <2>2, <3>3 DEF completeTransaction
    <3> QED BY <2>1, <3>2, <3>4
  <2>3. CASE i # j
    <3>1. Open(i)' = Open(i)
      BY <1>1, <2>3 DEF Open
    <3>2. source'[i] = source[i]
      BY <1>2, <2>3 DEF completeTransaction
    <3> QED BY <2>1, <3>1, <3>2
  <2> QED BY <2>2, <2>3
<1>4. SourceCounts'
  BY <1>3, OpenCountPrime
<1> QED BY <1>1, <1>4 DEF CountInv

\* A handle becomes tracked.
LEMMA OneMore ==
  ASSUME TypeInv, CountInv, NEW t \in Txn, NEW x, txn' = [txn EXCEPT ![t] = x],
         HandleOK(x), ~TrackedRecord(txn[t]), TrackedRecord(x), x.index = txn[t].index,
         source' = trackTransaction(txn[t].index)
  PROVE  CountInv'
<1> DEFINE j == txn[t].index
<1>1. \A u \in Txn : txn'[u] = IF u = t THEN x ELSE txn[u]
  BY DEF TypeInv, CodeTypeOK
<1>2. source \in [Index -> Nat] /\ j \in Index
  BY DEF TypeInv, CodeTypeOK, TxnRecord
<1>3. ASSUME NEW i \in Index PROVE source'[i] = Cardinality(Open(i)')
  <2>1. source[i] = Cardinality(Open(i)) /\ IsFiniteSet(Open(i))
    BY OpenCount DEF CountInv
  <2>2. CASE i = j
    <3>1. t \notin Open(i) /\ Open(i)' = Open(i) \cup {t}
      BY <1>1, <2>2 DEF Open
    <3>2. Cardinality(Open(i)') = Cardinality(Open(i)) + 1
      BY <2>1, <3>1, FS_AddElement
    <3>3. source'[i] = source[i] + 1
      BY <1>2, <2>2 DEF trackTransaction
    <3> QED BY <2>1, <3>2, <3>3
  <2>3. CASE i # j
    <3>1. Open(i)' = Open(i)
      BY <1>1, <2>3 DEF Open
    <3>2. source'[i] = source[i]
      BY <1>2, <2>3 DEF trackTransaction
    <3> QED BY <2>1, <3>1, <3>2
  <2> QED BY <2>2, <2>3
<1>4. SourceCounts'
  BY <1>3, OpenCountPrime
<1> QED BY <1>1, <1>4 DEF CountInv

\* The handle is finished: Commit and Rollback complete what is tracked.
LEMMA CompletedCounts ==
  ASSUME TypeInv, CountInv, NEW t \in Txn, txn[t].pc \in {"active", "committing", "waiting"},
         txn' = Finished(t), source' = CompletedSource(t)
  PROVE  CountInv'
<1>1. txn' = [txn EXCEPT ![t] = DoneTxn] /\ HandleOK(DoneTxn) /\ ~TrackedRecord(DoneTxn)
  BY NoUpdates DEF Finished, HandleOK, TrackedRecord
<1>2. CASE txn[t].writable
  BY <1>1, <1>2, OneLess DEF TrackedRecord, CompletedSource
<1>3. CASE ~txn[t].writable
  BY <1>1, <1>3, SameCounts DEF TrackedRecord, CompletedSource
<1> QED BY <1>2, <1>3

\* A step that leaves the handles and sourceIndexMap alone.
LEMMA OtherCounts == ASSUME CountInv, UNCHANGED <<txn, source>> PROVE CountInv'
BY DEF CountInv, SourceCounts, Tracked

\* No transaction is open at first.
LEMMA InitCounts == Init => CountInv
<1> SUFFICES ASSUME Init PROVE CountInv OBVIOUS
<1>1. \A t \in Txn : HandleOK(txn[t]) /\ ~TrackedRecord(txn[t])
  BY NoUpdates DEF Init, HandleOK, TrackedRecord
<1>2. \A i \in Index : Open(i) = {} /\ source[i] = 0
  BY <1>1 DEF Open, Init
<1> QED BY <1>1, <1>2, OpenCount, FS_EmptySet DEF CountInv

\* Every action keeps the counts, one step for each action of a handle.
LEMMA CountStep == TypeInv /\ CountInv /\ [Step]_codeVars => CountInv'
<1> SUFFICES ASSUME TypeInv, CountInv, [Step]_codeVars PROVE CountInv' OBVIOUS
<1>0. \A t \in Txn : txn[t] \in TxnRecord /\ HandleOK(txn[t])
  BY DEF TypeInv, CodeTypeOK, CountInv
<1>1. ASSUME NEW t \in Txn, NEW writable \in BOOLEAN, BeginTx(t, writable) PROVE CountInv'
  <2> DEFINE x == [txn[t] EXCEPT !.pc = "begun", !.writable = writable, !.index = AppliedIndex]
  <2>1. x.pc = "begun" /\ x.updates = txn[t].updates
    BY <1>0 DEF TxnRecord
  <2>2. txn[t].pc = "idle" /\ txn' = [txn EXCEPT ![t] = x] /\ UNCHANGED source
    BY <1>1 DEF BeginTx
  <2> HIDE DEF x
  <2>3. HandleOK(x) /\ ~TrackedRecord(x) /\ ~TrackedRecord(txn[t])
    BY <1>0, <2>1, <2>2 DEF HandleOK, TrackedRecord
  <2> QED BY <2>2, <2>3, SameCounts
<1>2. ASSUME NEW t \in Txn, OpenSnapshot(t) PROVE CountInv'
  <2> DEFINE x == [txn[t] EXCEPT !.pc = IF txn[t].writable THEN "opened" ELSE "active",
                                 !.snap = db[Leader], !.at = cursor[Leader]]
  <2>1. /\ x.pc = IF txn[t].writable THEN "opened" ELSE "active"
        /\ x.updates = txn[t].updates /\ x.writable = txn[t].writable
    BY <1>0 DEF TxnRecord
  <2>2. txn[t].pc = "begun" /\ txn' = [txn EXCEPT ![t] = x] /\ UNCHANGED source
    BY <1>2 DEF OpenSnapshot
  <2> HIDE DEF x
  <2>3. HandleOK(x) /\ ~TrackedRecord(x) /\ ~TrackedRecord(txn[t])
    BY <1>0, <2>1, <2>2 DEF HandleOK, TrackedRecord
  <2> QED BY <2>2, <2>3, SameCounts
<1>3. ASSUME NEW t \in Txn, OpenSnapshotFails(t) PROVE CountInv'
  <2> DEFINE x == [NewTxn EXCEPT !.pc = "leaked"]
  <2>1. x.pc = "leaked" /\ x.updates = NewTxn.updates
    BY DEF NewTxn
  <2>2. txn[t].pc = "begun" /\ txn' = [txn EXCEPT ![t] = x] /\ UNCHANGED source
    BY <1>3 DEF OpenSnapshotFails
  <2> HIDE DEF x
  <2>3. HandleOK(x) /\ ~TrackedRecord(x) /\ ~TrackedRecord(txn[t])
    BY <2>1, <2>2, NoUpdates DEF HandleOK, TrackedRecord
  <2> QED BY <2>2, <2>3, SameCounts
<1>4. ASSUME NEW t \in Txn, TrackTransaction(t) PROVE CountInv'
  <2> DEFINE x == [txn[t] EXCEPT !.pc = "active"]
  <2>1. /\ x.pc = "active" /\ x.updates = txn[t].updates
        /\ x.writable = txn[t].writable /\ x.index = txn[t].index
    BY <1>0 DEF TxnRecord
  <2>2. /\ txn[t].pc = "opened" /\ txn' = [txn EXCEPT ![t] = x]
        /\ source' = trackTransaction(txn[t].index)
    BY <1>4 DEF TrackTransaction
  <2> HIDE DEF x
  <2>3. HandleOK(x) /\ TrackedRecord(x) /\ ~TrackedRecord(txn[t])
    BY <1>0, <2>1, <2>2 DEF HandleOK, TrackedRecord
  <2> QED BY <2>1, <2>2, <2>3, OneMore
<1>5. ASSUME NEW t \in Txn, NEW k \in Key, Get(t, k) PROVE CountInv'
  <2> DEFINE x == [txn[t] EXCEPT !.reads = txn[t].reads \cup {k}]
  <2>1. /\ x.pc = txn[t].pc /\ x.updates = txn[t].updates
        /\ x.writable = txn[t].writable /\ x.index = txn[t].index
    BY <1>0 DEF TxnRecord
  <2>2. txn' = [txn EXCEPT ![t] = x] /\ UNCHANGED source
    BY <1>5 DEF Get
  <2> HIDE DEF x
  <2>3. HandleOK(x) /\ (TrackedRecord(x) <=> TrackedRecord(txn[t]))
    BY <1>0, <2>1 DEF HandleOK, TrackedRecord
  <2> QED BY <2>1, <2>2, <2>3, SameCounts
<1>6. ASSUME NEW t \in Txn, NEW k \in Key, NEW content \in Content, Update(t, k, content)
      PROVE  CountInv'
  <2> DEFINE updates == [txn[t].updates EXCEPT ![k] = content]
             reads == IF txn[t].updates[k] = Unset THEN txn[t].reads \cup {k} ELSE txn[t].reads
             x == [txn[t] EXCEPT !.updates = updates, !.reads = reads]
  <2>1. x.pc = txn[t].pc /\ x.writable = txn[t].writable /\ x.index = txn[t].index
    BY <1>0 DEF TxnRecord
  <2>2. /\ txn[t].pc = "active" /\ txn[t].writable
        /\ txn' = [txn EXCEPT ![t] = x] /\ UNCHANGED source
    BY <1>6 DEF Update
  <2> HIDE DEF x
  <2>3. HandleOK(x) /\ (TrackedRecord(x) <=> TrackedRecord(txn[t]))
    BY <2>1, <2>2 DEF HandleOK, TrackedRecord
  <2> QED BY <2>1, <2>2, <2>3, SameCounts
<1>7. ASSUME NEW t \in Txn, NEW q \in Query, List(t, q) PROVE CountInv'
  <2> DEFINE x == [txn[t] EXCEPT !.lists = ListChecks(txn[t], q)]
  <2>1. /\ x.pc = txn[t].pc /\ x.updates = txn[t].updates
        /\ x.writable = txn[t].writable /\ x.index = txn[t].index
    BY <1>0 DEF TxnRecord
  <2>2. txn' = [txn EXCEPT ![t] = x] /\ UNCHANGED source
    BY <1>7 DEF List
  <2> HIDE DEF x
  <2>3. HandleOK(x) /\ (TrackedRecord(x) <=> TrackedRecord(txn[t]))
    BY <1>0, <2>1 DEF HandleOK, TrackedRecord
  <2> QED BY <2>1, <2>2, <2>3, SameCounts
<1>8. ASSUME NEW t \in Txn, CommitUnwritten(t) PROVE CountInv'
  BY <1>8, CompletedCounts DEF CommitUnwritten
<1>9. ASSUME NEW t \in Txn, Commit(t) PROVE CountInv'
  <2>1. PICK lowest \in Index \cup {Infinite} :
           txn' = [txn EXCEPT ![t] = [@ EXCEPT !.pc = "committing", !.lowest = lowest]]
    BY <1>9 DEF Commit
  <2> DEFINE x == [txn[t] EXCEPT !.pc = "committing", !.lowest = lowest]
  <2>2. /\ x.pc = "committing" /\ x.updates = txn[t].updates
        /\ x.writable = txn[t].writable /\ x.index = txn[t].index
    BY <1>0 DEF TxnRecord
  <2> HIDE DEF x
  <2>3. /\ txn[t].pc = "active" /\ KeysOf(txn[t].updates) # {}
        /\ txn' = [txn EXCEPT ![t] = x] /\ UNCHANGED source
    BY <1>9, <2>1 DEF Commit, x
  <2>4. HandleOK(x) /\ TrackedRecord(x) /\ TrackedRecord(txn[t])
    BY <1>0, <2>2, <2>3 DEF HandleOK, TrackedRecord
  <2> QED BY <2>2, <2>3, <2>4, SameCounts
<1>10. ASSUME NEW t \in Txn, CommitApplyLog(t) PROVE CountInv'
  <2> DEFINE x == [NewTxn EXCEPT !.pc = "waiting", !.writable = TRUE, !.index = txn[t].index,
                                 !.entry = Len(log) + 1]
  <2>1. /\ x.pc = "waiting" /\ x.updates = NewTxn.updates
        /\ x.writable = TRUE /\ x.index = txn[t].index
    BY DEF NewTxn
  <2>2. txn[t].pc = "committing" /\ txn' = [txn EXCEPT ![t] = x] /\ UNCHANGED source
    BY <1>10 DEF CommitApplyLog
  <2> HIDE DEF x
  <2>3. HandleOK(x) /\ TrackedRecord(x) /\ TrackedRecord(txn[t])
    BY <1>0, <2>1, <2>2, NoUpdates DEF HandleOK, TrackedRecord
  <2> QED BY <2>1, <2>2, <2>3, SameCounts
<1>11. ASSUME NEW t \in Txn, CommitFails(t) PROVE CountInv'
  BY <1>11, CompletedCounts DEF CommitFails
<1>12. ASSUME NEW t \in Txn, CommitReturns(t) PROVE CountInv'
  BY <1>12, CompletedCounts DEF CommitReturns
<1>13. ASSUME NEW t \in Txn, Rollback(t) PROVE CountInv'
  <2>1. PICK lowest \in Index \cup {Infinite} :
           txn' = [txn EXCEPT ![t] = [@ EXCEPT !.pc = "clearing", !.lowest = lowest]]
    BY <1>13 DEF Rollback
  <2> DEFINE x == [txn[t] EXCEPT !.pc = "clearing", !.lowest = lowest]
  <2>2. x.pc = "clearing" /\ x.updates = txn[t].updates /\ x.writable = txn[t].writable
    BY <1>0 DEF TxnRecord
  <2> HIDE DEF x
  <2>3. /\ txn[t].pc = "active" /\ txn[t].writable
        /\ txn' = [txn EXCEPT ![t] = x] /\ source' = completeTransaction(txn[t].index)
    BY <1>13, <2>1 DEF Rollback, x
  <2>4. HandleOK(x) /\ ~TrackedRecord(x) /\ TrackedRecord(txn[t])
    BY <2>2, <2>3 DEF HandleOK, TrackedRecord
  <2> QED BY <2>3, <2>4, OneLess
<1>14. ASSUME NEW t \in Txn, RollbackReadOnly(t) PROVE CountInv'
  <2>1. source' = CompletedSource(t)
    BY <1>14 DEF RollbackReadOnly, CompletedSource
  <2> QED BY <1>14, <2>1, CompletedCounts DEF RollbackReadOnly
<1>15. ASSUME NEW t \in Txn, RollbackClears(t) PROVE CountInv'
  <2>1. txn' = [txn EXCEPT ![t] = DoneTxn] /\ HandleOK(DoneTxn) /\ ~TrackedRecord(DoneTxn)
    BY <1>15, NoUpdates DEF RollbackClears, Finished, HandleOK, TrackedRecord
  <2> QED BY <1>15, <2>1, SameCounts DEF RollbackClears, TrackedRecord
<1>16. ASSUME NEW n \in Replica, Restart(n) PROVE CountInv'
  <2>1. CASE n = Leader
    <3>1. \A t \in Txn : HandleOK(txn'[t]) /\ ~TrackedRecord(txn'[t])
      BY <1>0, <1>16, <2>1, NoUpdates DEF Restart, HandleOK, TrackedRecord
    <3>2. \A i \in Index : Open(i)' = {} /\ source'[i] = 0
      BY <1>16, <2>1, <3>1 DEF Open, Restart
    <3> QED BY <3>1, <3>2, OpenCountPrime, FS_EmptySet DEF CountInv
  <2>2. CASE n # Leader
    BY <1>16, <2>2, OtherCounts DEF Restart
  <2> QED BY <2>1, <2>2
<1>17. ASSUME NEW t \in Txn, TxnStep(t) PROVE CountInv'
  BY <1>17, <1>1, <1>2, <1>3, <1>4, <1>5, <1>6, <1>7, <1>8, <1>9, <1>10, <1>11, <1>12,
     <1>13, <1>14, <1>15 DEF TxnStep
<1>18. ASSUME NEW w \in Writer, WriterStep(w) PROVE CountInv'
  BY <1>18, OtherCounts DEF WriterStep, Write, WriteApplyLog, WriteReturns
<1>19. ASSUME NEW n \in Replica, ReplicaStep(n) PROVE CountInv'
  BY <1>16, <1>19, OtherCounts DEF ReplicaStep, ApplyBatch, ApplyCommand, StoreBatch,
     ClearBatch, PublishBatch, TakeSnapshot, WriteSnapshotMeta, WitnessSnapshot
<1>20. CASE ConfigurationChange \/ Dispatch \/ UNCHANGED codeVars
  BY <1>20, OtherCounts DEF ConfigurationChange, Dispatch, codeVars
<1> QED BY <1>17, <1>18, <1>19, <1>20 DEF Step

\* sourceIndexMap counts the open write transactions whatever fails, restarts
\* and overlaps: no index stays behind to hold up clearOldEntries for ever, and
\* none goes missing while a transaction needs it.
THEOREM SourceCountsCorrect == Spec => []SourceCounts
<1>1. Init => TypeInv /\ CountInv
  BY InitTypeInv, InitCounts
<1>2. TypeInv /\ CountInv /\ [Next]_vars => (TypeInv /\ CountInv)'
  BY TypeStep, CountStep, StepOfNext
<1>3. TypeInv /\ CountInv => SourceCounts
  BY DEF CountInv
<1> QED BY <1>1, <1>2, <1>3, PTL DEF Spec

-------------------------------------------------------------------------------
(***************************************************************************)
(* Conflict detection, in two layers.                                      *)
(*                                                                         *)
(* The first layer (SoundInv) is about the checks that applyBatchTxOps     *)
(* skips.  ref has the verdict of full verification.  A replica skips a    *)
(* check if its tracker has no write after the start of the transaction;   *)
(* that is right if the tracker has all the writes since (Relied), for     *)
(* then the contents read are still there (Unwritten).  So a replica       *)
(* agrees with ref as long as intact holds, whatever overlaps, fails,      *)
(* restarts or is snapshotted.                                             *)
(*                                                                         *)
(* The second layer (CalmInv) is about clearOldEntries.  The tracker is    *)
(* cleared up to the LowestActiveIndex of an entry, so that index must not *)
(* be past the first entry after the start of a transaction which is open, *)
(* begins later, or is still to be applied (LogLowest).  It is not, as     *)
(* sourceIndexMap counts the open ones (SourceCounts), as long as nobody   *)
(* begins between its computation and its use and raft.AppliedIndex() caps *)
(* it, which is what calm says.  While calm holds, so does intact.         *)
(***************************************************************************)

\* A handle's snapshot is the state after the entries that it has.
SnapshotOf(x) ==
  x.pc \in {"opened", "active", "committing"} =>
     x.at <= Len(log) /\ x.snap = ref[x.at].store
Snapshots == \A t \in Txn : SnapshotOf(txn[t])

\* PassesAllChecks, of the entry at j when it was submitted.
PassesAt(j) ==
  /\ \A k \in KeysOf(log[j].reads) : ReadHolds(ref[j - 1].store, log[j], k)
  /\ \A c \in log[j].lists :
        ~Touched(log[j].start, j - 1, c.prefix) \/ ListHolds(ref[j - 1].store, c)

\* The contents an entry has read were there at or after its start.
ReadsSeen(j) ==
  \A k \in KeysOf(log[j].reads) :
     \E i \in log[j].start .. (j - 1) : log[j].reads[k] = Digest(ref[i].store[k])

\* Only a transaction has something to verify.
Verifiable(entry) == entry.kind = "txn" \/ (KeysOf(entry.reads) = {} /\ entry.lists = {})

\* ref is what its description says.
Judged ==
  \A j \in 1 .. Len(log) :
    /\ ref[j].ok <=> PassesAt(j)
    /\ ref[j].store = IF ref[j].ok THEN Overwrite(ref[j - 1].store, log[j].writes)
                      ELSE ref[j - 1].store
    /\ ReadsSeen(j)
    /\ Verifiable(log[j])

\* A key keeps its content where no entry that takes effect writes it.
WrittenIn(i, j, k) == \E m \in (i + 1) .. j : ref[m].ok /\ k \in KeysOf(log[m].writes)
Unwritten ==
  \A j \in 0 .. Len(log), i \in 0 .. Len(log), k \in Key :
     i <= j /\ ~WrittenIn(i, j, k) => ref[j].store[k] = ref[i].store[k]

\* The bucket, the update in progress and its conflicts are those of ref, and
\* the tracker has nothing else than writes that took effect.
Exact(n) ==
  /\ db[n] = ref[cursor[n]].store
  /\ batch[n].pc = "ops" => batch[n].work = ref[batch[n].next - 1].store
  /\ batch[n].pc # "idle" =>
        batch[n].conflicts = {i \in batch[n].first .. Applied(n) : ~ref[i].ok}
  /\ \A i \in Index : \A k \in modified[n][i] :
        i \in 1 .. Applied(n) /\ ref[i].ok /\ k \in KeysOf(log[i].writes)

\* The leader has applied what it has answered, and answers as ref does.
Answers ==
  \A i \in Index : verdict[i] # "none" =>
     i <= cursor[Leader] /\ (verdict[i] = "ok" <=> ref[i].ok)

\* The first layer, and what it needs of the state it starts from.
SoundInv == Snapshots /\ Judged /\ Unwritten /\ (\A n \in Replica : Exact(n)) /\ Answers
Relied   == TrackerCovers /\ \A n \in Replica : BaseIsCursor(n)

\* The index in the config bucket is not ahead of the bucket.
StoredInv == \A n \in Replica : stored[n] <= cursor[n]

-------------------------------------------------------------------------------
(* Types and positions, in the form the proofs below use.                   *)

\* Indices are numbers, and entries and records have their fields.
LEMMA Numbers ==
  ASSUME TypeInv
  PROVE  /\ Len(log) \in Nat /\ Len(log) <= MaxLog /\ MaxLog \in Nat
         /\ dispatched \in Nat /\ dispatched <= Len(log)
         /\ \A i \in 1 .. Len(log) :
              /\ i \in Index /\ log[i] \in Entry
              /\ log[i].lowest \in Nat /\ log[i].start \in Nat
         /\ \A n \in Replica :
              /\ cursor[n] \in Nat /\ cursor[n] <= Len(log) /\ latestIndex[n] \in Nat
              /\ batch[n] \in BatchRecord
              /\ batch[n].first \in Nat /\ batch[n].next \in Nat /\ batch[n].last \in Nat
              /\ batch[n].base \in Nat /\ batch[n].lowest \in Nat
         /\ \A t \in Txn : /\ txn[t] \in TxnRecord
                           /\ txn[t].index \in Nat /\ txn[t].at \in Nat
                           /\ txn[t].lowest \in Nat
         /\ \A w \in Writer : writer[w] \in WriterRecord /\ writer[w].lowest \in Nat
         /\ Leader \in Replica
<1>1. /\ Len(log) \in Nat /\ Len(log) <= MaxLog /\ MaxLog \in Nat
      /\ dispatched \in Nat /\ dispatched <= Len(log)
  BY BoundAssumption DEF TypeInv, CodeTypeOK, WithinLog, Index
<1>2. ASSUME NEW i \in 1 .. Len(log)
      PROVE  i \in Index /\ log[i] \in Entry /\ log[i].lowest \in Nat /\ log[i].start \in Nat
  <2>1. i \in Index /\ log[i] \in Entry
    BY <1>1 DEF TypeInv, CodeTypeOK, Index
  <2> QED BY <2>1, IndexType DEF Entry
<1>3. ASSUME NEW n \in Replica
      PROVE  /\ cursor[n] \in Nat /\ cursor[n] <= Len(log) /\ latestIndex[n] \in Nat
             /\ batch[n] \in BatchRecord
             /\ batch[n].first \in Nat /\ batch[n].next \in Nat /\ batch[n].last \in Nat
             /\ batch[n].base \in Nat /\ batch[n].lowest \in Nat
  <2>1. cursor[n] \in Index /\ latestIndex[n] \in Index /\ batch[n] \in BatchRecord
    BY DEF TypeInv, CodeTypeOK
  <2>2. cursor[n] <= Len(log)
    BY DEF TypeInv, WithinLog
  <2> QED BY <2>1, <2>2, IndexType DEF BatchRecord
<1>4. ASSUME NEW t \in Txn
      PROVE  /\ txn[t] \in TxnRecord /\ txn[t].index \in Nat /\ txn[t].at \in Nat
             /\ txn[t].lowest \in Nat
  <2>1. txn[t] \in TxnRecord
    BY DEF TypeInv, CodeTypeOK
  <2> QED BY <2>1, IndexType DEF TxnRecord
<1>5. ASSUME NEW w \in Writer PROVE writer[w] \in WriterRecord /\ writer[w].lowest \in Nat
  <2>1. writer[w] \in WriterRecord
    BY DEF TypeInv, CodeTypeOK
  <2> QED BY <2>1, IndexType DEF WriterRecord
<1> QED BY <1>1, <1>2, <1>3, <1>4, <1>5, ReplicaAssumption

\* A replica has applied part of the log.
LEMMA AppliedType ==
  ASSUME TypeInv, PositionInv, NEW n \in Replica
  PROVE  Applied(n) \in Nat /\ cursor[n] <= Applied(n) /\ Applied(n) <= Len(log)
<1>1. CASE batch[n].pc = "ops"
  <2>1. batch[n].first = cursor[n] + 1 /\ batch[n].first <= batch[n].next
        /\ batch[n].next <= batch[n].last + 1
    BY <1>1 DEF PositionInv, ReplicaPosition
  <2>2. batch[n].last <= Len(log)
    BY <1>1 DEF TypeInv, WithinLog
  <2>3. /\ batch[n].first \in Nat /\ batch[n].next \in Nat /\ batch[n].last \in Nat
        /\ cursor[n] \in Nat /\ Len(log) \in Nat
    BY Numbers
  <2>4. Applied(n) = batch[n].next - 1
    BY <1>1 DEF Applied
  <2> QED BY ONLY <2>1, <2>2, <2>3, <2>4
<1>2. CASE batch[n].pc # "ops"
  BY <1>2, Numbers DEF Applied
<1> QED BY <1>1, <1>2

\* A tracker that has the writes since an index has those since a later one.
LEMMA RemembersLater ==
  ASSUME TypeInv, NEW n \in Replica, NEW i \in Nat, NEW j \in Nat, i <= j, Remembers(n, i)
  PROVE  Remembers(n, j)
BY Numbers DEF Remembers, Applied

\* The parts of the invariant about the log alone.
LEMMA SameHistory ==
  ASSUME Judged, Unwritten, UNCHANGED <<log, ref>>
  PROVE  Judged' /\ Unwritten'
<1>1. Judged'
  <2>1. ASSUME NEW j \in 1 .. Len(log) PROVE PassesAt(j)' <=> PassesAt(j)
    BY DEF PassesAt, Touched, ReadHolds, ListHolds
  <2>2. ASSUME NEW j \in 1 .. Len(log)
        PROVE  (ReadsSeen(j)' <=> ReadsSeen(j)) /\ (Verifiable(log[j])' <=> Verifiable(log[j]))
    BY DEF ReadsSeen, Verifiable
  <2> QED BY <2>1, <2>2 DEF Judged
<1>2. Unwritten'
  BY DEF Unwritten, WrittenIn
<1> QED BY <1>1, <1>2

\* A replica whose bucket, batch and tracker a step leaves alone.
LEMMA SameExact ==
  ASSUME NEW n \in Replica, Exact(n), UNCHANGED <<log, ref>>, db'[n] = db[n],
         cursor'[n] = cursor[n], modified'[n] = modified[n], batch'[n] = batch[n]
  PROVE  Exact(n)'
<1>1. Applied(n)' = Applied(n)
  BY DEF Applied
<1> QED BY <1>1 DEF Exact

\* The config bucket never runs ahead of the bucket.
LEMMA StoredStep ==
  ASSUME TypeInv, TypeInv', PositionInv, StoredInv, [Step]_codeVars
  PROVE  StoredInv'
<1> SUFFICES ASSUME NEW n \in Replica PROVE stored'[n] <= cursor'[n]
  BY DEF StoredInv
<1>1. /\ stored[n] \in Nat /\ cursor[n] \in Nat /\ stored[n] <= cursor[n]
      /\ stored \in [Replica -> Index] /\ cursor \in [Replica -> Index]
      /\ batch[n].last \in Nat /\ ReplicaPosition(n)
  BY Numbers, IndexType DEF TypeInv, CodeTypeOK, StoredInv, PositionInv
<1>2. ASSUME NEW m \in Replica, StoreBatch(m) PROVE stored'[n] <= cursor'[n]
  <2>1. CASE m = n
    <3>1. /\ cursor'[n] = batch[n].last
          /\ stored'[n] = IF batch[n].base < batch[n].last THEN batch[n].last ELSE stored[n]
      BY <1>1, <1>2, <2>1 DEF StoreBatch, Advanced
    <3>2. cursor[n] <= batch[n].last
      BY <1>1, <1>2, <2>1, Numbers DEF StoreBatch, ReplicaPosition
    <3> QED BY <1>1, <3>1, <3>2
  <2>2. CASE m # n
    BY <1>1, <1>2, <2>2 DEF StoreBatch
  <2> QED BY <2>1, <2>2
<1>3. ASSUME NEW m \in Replica, WriteSnapshotMeta(m) PROVE stored'[n] <= cursor'[n]
  <2>1. CASE m = n
    BY <1>1, <1>3, <2>1 DEF WriteSnapshotMeta, ReplicaPosition
  <2>2. CASE m # n
    BY <1>1, <1>3, <2>2 DEF WriteSnapshotMeta
  <2> QED BY <2>1, <2>2
<1>4. ASSUME NEW m \in Replica, Restart(m) PROVE stored'[n] <= cursor'[n]
  <2>1. CASE m = n
    BY <1>1, <1>4, <2>1 DEF Restart
  <2>2. CASE m # n
    BY <1>1, <1>4, <2>2 DEF Restart
  <2> QED BY <2>1, <2>2
<1>5. CASE UNCHANGED <<cursor, stored>>
  BY <1>1, <1>5
<1>6. ASSUME NEW t \in Txn, TxnStep(t) PROVE UNCHANGED <<cursor, stored>>
  BY <1>6 DEF TxnStep, BeginTx, OpenSnapshot, OpenSnapshotFails, TrackTransaction, Get, Update,
     List, CommitUnwritten, Commit, CommitApplyLog, CommitFails, CommitReturns, Rollback,
     RollbackReadOnly, RollbackClears, fsmVars
<1>7. ASSUME NEW w \in Writer, WriterStep(w) PROVE UNCHANGED <<cursor, stored>>
  BY <1>7 DEF WriterStep, Write, WriteApplyLog, WriteReturns, fsmVars
<1>8. ASSUME NEW m \in Replica, ReplicaStep(m)
      PROVE  \/ UNCHANGED <<cursor, stored>>
             \/ StoreBatch(m) \/ WriteSnapshotMeta(m) \/ Restart(m)
  BY <1>8 DEF ReplicaStep, ApplyBatch, ApplyCommand, ClearBatch, PublishBatch, TakeSnapshot,
     WitnessSnapshot, fsmVars
<1>9. ConfigurationChange \/ Dispatch \/ UNCHANGED codeVars => UNCHANGED <<cursor, stored>>
  BY DEF ConfigurationChange, Dispatch, codeVars, fsmVars
<1> QED BY <1>2, <1>3, <1>4, <1>5, <1>6, <1>7, <1>8, <1>9 DEF Step

-------------------------------------------------------------------------------
(* The first layer: steps of handles and steps that append to the log.      *)

\* What a step that appends nothing must leave behind.
LEMMA SoundFrom ==
  ASSUME TypeInv, TypeInv', SoundInv, UNCHANGED <<log, ref>>,
         cursor[Leader] <= cursor'[Leader],
         \A n \in Replica : Exact(n)',
         \A u \in Txn : SnapshotOf(txn'[u]),
         \A i \in Index : \/ verdict'[i] = verdict[i]
                          \/ i <= cursor'[Leader] /\ (verdict'[i] = "ok" <=> ref[i].ok)
  PROVE  SoundInv'
<1>0. Judged /\ Unwritten /\ Answers
  BY DEF SoundInv
<1>1. Snapshots'
  BY DEF Snapshots, SnapshotOf
<1>2. Judged' /\ Unwritten'
  BY <1>0, SameHistory
<1>3. Answers'
  <2> SUFFICES ASSUME NEW i \in Index, verdict'[i] # "none"
               PROVE  i <= cursor'[Leader] /\ (verdict'[i] = "ok" <=> ref'[i].ok)
    BY DEF Answers
  <2>1. CASE verdict'[i] = verdict[i]
    <3>1. i <= cursor[Leader] /\ (verdict[i] = "ok" <=> ref[i].ok)
      BY <1>0, <2>1 DEF Answers
    <3>2. i \in Nat /\ cursor[Leader] \in Nat /\ cursor'[Leader] \in Nat
      BY IndexType, ReplicaAssumption DEF TypeInv, CodeTypeOK
    <3> QED BY <2>1, <3>1, <3>2
  <2>2. CASE verdict'[i] # verdict[i]
    BY <2>2
  <2> QED BY <2>1, <2>2
<1> QED BY <1>1, <1>2, <1>3 DEF SoundInv

\* A step that leaves the log and the replicas' contents alone.
LEMMA HandleSound ==
  ASSUME TypeInv, TypeInv', SoundInv,
         UNCHANGED <<log, ref, db, cursor, modified, batch, verdict>>,
         \A u \in Txn : SnapshotOf(txn'[u])
  PROVE  SoundInv'
<1>1. ASSUME NEW n \in Replica PROVE Exact(n)'
  BY SameExact DEF SoundInv
<1>2. cursor[Leader] <= cursor'[Leader]
  BY Numbers
<1> QED BY <1>1, <1>2, SoundFrom

\* The steps of a handle that leave the log and the tracker alone.
LEMMA TxnSound ==
  ASSUME TypeInv, TypeInv', SoundInv, NEW t \in Txn,
         \/ \E writable \in BOOLEAN : BeginTx(t, writable)
         \/ OpenSnapshot(t) \/ OpenSnapshotFails(t) \/ TrackTransaction(t)
         \/ \E k \in Key : Get(t, k)
         \/ \E k \in Key, content \in Content : Update(t, k, content)
         \/ \E q \in Query : List(t, q)
         \/ CommitUnwritten(t) \/ Commit(t) \/ CommitFails(t) \/ CommitReturns(t)
         \/ Rollback(t) \/ RollbackReadOnly(t)
  PROVE  SoundInv'
<1>0. /\ \A u \in Txn : SnapshotOf(txn[u])
      /\ txn[t] \in TxnRecord /\ DOMAIN txn = Txn
      /\ cursor[Leader] <= Len(log) /\ db[Leader] = ref[cursor[Leader]].store
  BY Numbers DEF SoundInv, Snapshots, Exact, TypeInv, CodeTypeOK
<1>1. UNCHANGED <<log, ref, db, cursor, modified, batch, verdict>>
  BY DEF BeginTx, OpenSnapshot, OpenSnapshotFails, TrackTransaction, Get, Update, List,
     CommitUnwritten, Commit, CommitFails, CommitReturns, Rollback, RollbackReadOnly,
     raftVars, fsmVars
<1>2. ASSUME NEW x, txn' = [txn EXCEPT ![t] = x], SnapshotOf(x) PROVE SoundInv'
  <2>1. \A u \in Txn : SnapshotOf(txn'[u])
    BY <1>0, <1>2
  <2> QED BY <1>1, <2>1, HandleSound
<1>3. ASSUME NEW writable \in BOOLEAN, BeginTx(t, writable) PROVE SoundInv'
  <2> DEFINE x == [txn[t] EXCEPT !.pc = "begun", !.writable = writable, !.index = AppliedIndex]
  <2>1. x.pc = "begun"
    BY <1>0 DEF TxnRecord
  <2>2. txn' = [txn EXCEPT ![t] = x]
    BY <1>3 DEF BeginTx
  <2> HIDE DEF x
  <2>3. SnapshotOf(x)
    BY <2>1 DEF SnapshotOf
  <2> QED BY <1>2, <2>2, <2>3
<1>4. CASE OpenSnapshot(t)
  <2> DEFINE x == [txn[t] EXCEPT !.pc = IF txn[t].writable THEN "opened" ELSE "active",
                                 !.snap = db[Leader], !.at = cursor[Leader]]
  <2>1. x.snap = db[Leader] /\ x.at = cursor[Leader]
    BY <1>0 DEF TxnRecord
  <2>2. txn' = [txn EXCEPT ![t] = x]
    BY <1>4 DEF OpenSnapshot
  <2> HIDE DEF x
  <2>3. SnapshotOf(x)
    BY <1>0, <2>1 DEF SnapshotOf
  <2> QED BY <1>2, <2>2, <2>3
<1>5. CASE OpenSnapshotFails(t)
  <2> DEFINE x == [NewTxn EXCEPT !.pc = "leaked"]
  <2>1. x.pc = "leaked"
    BY DEF NewTxn
  <2>2. txn' = [txn EXCEPT ![t] = x]
    BY <1>5 DEF OpenSnapshotFails
  <2> HIDE DEF x
  <2>3. SnapshotOf(x)
    BY <2>1 DEF SnapshotOf
  <2> QED BY <1>2, <2>2, <2>3
<1>6. ASSUME txn[t].pc \in {"opened", "active"}, NEW x, x.snap = txn[t].snap,
             x.at = txn[t].at, txn' = [txn EXCEPT ![t] = x]
      PROVE  SoundInv'
  <2>1. SnapshotOf(x)
    BY <1>0, <1>6 DEF SnapshotOf
  <2> QED BY <1>2, <1>6, <2>1
<1>7. CASE TrackTransaction(t)
  <2> DEFINE x == [txn[t] EXCEPT !.pc = "active"]
  <2>1. x.snap = txn[t].snap /\ x.at = txn[t].at
    BY <1>0 DEF TxnRecord
  <2>2. txn[t].pc = "opened" /\ txn' = [txn EXCEPT ![t] = x]
    BY <1>7 DEF TrackTransaction
  <2> HIDE DEF x
  <2> QED BY <1>6, <2>1, <2>2
<1>8. ASSUME NEW k \in Key, Get(t, k) PROVE SoundInv'
  <2> DEFINE x == [txn[t] EXCEPT !.reads = txn[t].reads \cup {k}]
  <2>1. x.snap = txn[t].snap /\ x.at = txn[t].at
    BY <1>0 DEF TxnRecord
  <2>2. txn[t].pc = "active" /\ txn' = [txn EXCEPT ![t] = x]
    BY <1>8 DEF Get
  <2> HIDE DEF x
  <2> QED BY <1>6, <2>1, <2>2
<1>9. ASSUME NEW k \in Key, NEW content \in Content, Update(t, k, content) PROVE SoundInv'
  <2> DEFINE updates == [txn[t].updates EXCEPT ![k] = content]
             reads == IF txn[t].updates[k] = Unset THEN txn[t].reads \cup {k} ELSE txn[t].reads
             x == [txn[t] EXCEPT !.updates = updates, !.reads = reads]
  <2>1. x.snap = txn[t].snap /\ x.at = txn[t].at
    BY <1>0 DEF TxnRecord
  <2>2. txn[t].pc = "active" /\ txn' = [txn EXCEPT ![t] = x]
    BY <1>9 DEF Update
  <2> HIDE DEF x
  <2> QED BY <1>6, <2>1, <2>2
<1>10. ASSUME NEW q \in Query, List(t, q) PROVE SoundInv'
  <2> DEFINE x == [txn[t] EXCEPT !.lists = ListChecks(txn[t], q)]
  <2>1. x.snap = txn[t].snap /\ x.at = txn[t].at
    BY <1>0 DEF TxnRecord
  <2>2. txn[t].pc = "active" /\ txn' = [txn EXCEPT ![t] = x]
    BY <1>10 DEF List
  <2> HIDE DEF x
  <2> QED BY <1>6, <2>1, <2>2
<1>11. CASE CommitUnwritten(t) \/ CommitFails(t) \/ CommitReturns(t) \/ RollbackReadOnly(t)
  <2>1. txn' = [txn EXCEPT ![t] = DoneTxn]
    BY <1>11 DEF CommitUnwritten, CommitFails, CommitReturns, RollbackReadOnly, Finished
  <2>2. SnapshotOf(DoneTxn)
    BY DEF SnapshotOf, DoneTxn, NewTxn
  <2> QED BY <1>2, <2>1, <2>2
<1>12. CASE Commit(t)
  <2>1. PICK lowest \in Index \cup {Infinite} :
           txn' = [txn EXCEPT ![t] = [@ EXCEPT !.pc = "committing", !.lowest = lowest]]
    BY <1>12 DEF Commit
  <2> DEFINE x == [txn[t] EXCEPT !.pc = "committing", !.lowest = lowest]
  <2>2. x.snap = txn[t].snap /\ x.at = txn[t].at
    BY <1>0 DEF TxnRecord
  <2>3. txn[t].pc = "active" /\ txn' = [txn EXCEPT ![t] = x]
    BY <1>12, <2>1 DEF Commit
  <2> HIDE DEF x
  <2> QED BY <1>6, <2>2, <2>3
<1>13. CASE Rollback(t)
  <2>1. PICK lowest \in Index \cup {Infinite} :
           txn' = [txn EXCEPT ![t] = [@ EXCEPT !.pc = "clearing", !.lowest = lowest]]
    BY <1>13 DEF Rollback
  <2> DEFINE x == [txn[t] EXCEPT !.pc = "clearing", !.lowest = lowest]
  <2>2. x.snap = txn[t].snap /\ x.at = txn[t].at
    BY <1>0 DEF TxnRecord
  <2>3. txn[t].pc = "active" /\ txn' = [txn EXCEPT ![t] = x]
    BY <1>13, <2>1 DEF Rollback
  <2> HIDE DEF x
  <2> QED BY <1>6, <2>2, <2>3
<1> QED BY <1>3, <1>4, <1>5, <1>7, <1>8, <1>9, <1>10, <1>11, <1>12, <1>13

\* Submit leaves what is in the log and its history alone.
LEMMA Appended ==
  ASSUME TypeInv, NEW entry \in Entry, Submit(entry)
  PROVE  /\ Len(log') = Len(log) + 1 /\ Len(log) + 1 \in Index
         /\ \A i \in 1 .. Len(log) : log'[i] = log[i]
         /\ log'[Len(log) + 1] = entry
         /\ \A i \in 0 .. Len(log) : ref'[i] = ref[i]
         /\ ref'[Len(log) + 1].ok = PassesAllChecks(entry)
         /\ ref'[Len(log) + 1].store =
               IF PassesAllChecks(entry) THEN Overwrite(ref[Len(log)].store, entry.writes)
               ELSE ref[Len(log)].store
<1>1. Len(log) \in Nat /\ Len(log) < MaxLog /\ MaxLog \in Nat
  BY Numbers DEF Submit
<1>2. Len(log) + 1 \in Index /\ \A i \in 0 .. Len(log) : i \in Index /\ i # Len(log) + 1
  BY <1>1 DEF Index
<1>3. log \in Seq(Entry) /\ ref \in [Index -> [store : Store, ok : BOOLEAN]]
  BY DEF TypeInv, CodeTypeOK
<1>4. /\ Len(log') = Len(log) + 1 /\ log'[Len(log) + 1] = entry
      /\ \A i \in 1 .. Len(log) : log'[i] = log[i]
  BY <1>3 DEF Submit
<1>5. /\ \A i \in 0 .. Len(log) : ref'[i] = ref[i]
      /\ ref'[Len(log) + 1] =
            [store |-> IF PassesAllChecks(entry) THEN Overwrite(ref[Len(log)].store, entry.writes)
                       ELSE ref[Len(log)].store,
             ok |-> PassesAllChecks(entry)]
  BY <1>2, <1>3 DEF Submit
<1> QED BY <1>2, <1>4, <1>5

\* The history after Submit is that of full verification.
LEMMA SubmitJudged ==
  ASSUME TypeInv, Judged, NEW entry \in Entry, Submit(entry), Verifiable(entry),
         \A k \in KeysOf(entry.reads) : \E i \in entry.start .. Len(log) :
            entry.reads[k] = Digest(ref[i].store[k])
  PROVE  Judged'
<1>a. PICK last \in Nat : last = Len(log) + 1
  BY Numbers
<1>0. /\ Len(log) \in Nat /\ last - 1 = Len(log)
      /\ last \in 1 .. last /\ \A j \in 1 .. last : j \in 1 .. Len(log) \/ j = last
  BY <1>a, Numbers
<1>1. /\ Len(log') = last
      /\ \A i \in 1 .. Len(log) : log'[i] = log[i]
      /\ log'[last] = entry
      /\ \A i \in 0 .. Len(log) : ref'[i] = ref[i]
      /\ ref'[last].ok = PassesAllChecks(entry)
      /\ ref'[last].store = IF PassesAllChecks(entry)
                            THEN Overwrite(ref[Len(log)].store, entry.writes)
                            ELSE ref[Len(log)].store
  BY <1>a, Appended
<1>2. ASSUME NEW j \in 1 .. last, NEW start \in Nat, NEW prefix
      PROVE  Touched(start, j - 1, prefix)' <=> Touched(start, j - 1, prefix)
  <2>1. \A i \in (start + 1) .. (j - 1) : i \in 1 .. Len(log) /\ i \in 0 .. Len(log)
    BY <1>0
  <2> QED BY <1>1, <2>1 DEF Touched
<1>3. ASSUME NEW j \in 1 .. Len(log)
      PROVE  /\ ref'[j].ok <=> PassesAt(j)'
             /\ ref'[j].store = IF ref'[j].ok THEN Overwrite(ref'[j - 1].store, log'[j].writes)
                                ELSE ref'[j - 1].store
             /\ ReadsSeen(j)' /\ Verifiable(log[j])'
  <2>1. /\ log'[j] = log[j] /\ ref'[j] = ref[j] /\ ref'[j - 1] = ref[j - 1]
        /\ \A i \in log[j].start .. (j - 1) : ref'[i] = ref[i]
    <3>1. j \in 0 .. Len(log) /\ j - 1 \in 0 .. Len(log)
          /\ \A i \in log[j].start .. (j - 1) : i \in 0 .. Len(log)
      BY <1>0, Numbers
    <3> QED BY <1>1, <3>1
  <2>2. /\ ref[j].ok <=> PassesAt(j)
        /\ ref[j].store = IF ref[j].ok THEN Overwrite(ref[j - 1].store, log[j].writes)
                          ELSE ref[j - 1].store
        /\ ReadsSeen(j) /\ Verifiable(log[j])
    BY DEF Judged
  <2>3. \A prefix : Touched(log[j].start, j - 1, prefix)'
                       <=> Touched(log[j].start, j - 1, prefix)
    <3>1. j \in 1 .. last /\ log[j].start \in Nat
      BY <1>0, Numbers
    <3> QED BY <1>2, <2>1, <3>1
  <2>4. PassesAt(j)' <=> PassesAt(j)
    BY <2>1, <2>3 DEF PassesAt, ReadHolds, ListHolds
  <2>5. ReadsSeen(j)'
    BY <2>1, <2>2 DEF ReadsSeen
  <2>6. Verifiable(log[j])'
    BY <2>1, <2>2 DEF Verifiable, KeysOf
  <2> QED BY <2>1, <2>2, <2>4, <2>5, <2>6
<1>4. /\ ref'[last].ok <=> PassesAt(last)'
      /\ ref'[last].store = IF ref'[last].ok
                            THEN Overwrite(ref'[last - 1].store, log'[last].writes)
                            ELSE ref'[last - 1].store
      /\ ReadsSeen(last)' /\ Verifiable(log[last])'
  <2>1. entry.start \in Nat
    BY IndexType DEF Entry
  <2>2. ref'[last - 1] = ref[Len(log)] /\ \A i \in entry.start .. Len(log) : ref'[i] = ref[i]
    <3>1. Len(log) \in 0 .. Len(log) /\ \A i \in entry.start .. Len(log) : i \in 0 .. Len(log)
      BY <1>0, <2>1
    <3> QED BY <1>0, <1>1, <3>1
  <2>3. \A prefix : Touched(entry.start, last - 1, prefix)'
                       <=> Touched(entry.start, Len(log), prefix)
    BY <1>0, <1>2, <2>1
  <2>4. PassesAt(last)' <=> PassesAllChecks(entry)
    BY <1>1, <2>2, <2>3 DEF PassesAt, PassesAllChecks, ReadHolds, ListHolds
  <2>5. ReadsSeen(last)'
    BY <1>0, <1>1, <2>2 DEF ReadsSeen
  <2>6. Verifiable(log[last])'
    BY <1>1 DEF Verifiable, KeysOf
  <2> QED BY <1>1, <2>2, <2>4, <2>5, <2>6
<1> QED BY <1>0, <1>1, <1>3, <1>4 DEF Judged

\* A key that the new entry does not write, or does not get to write, is as it was.
LEMMA SubmitUnwritten ==
  ASSUME TypeInv, Unwritten, NEW entry \in Entry, Submit(entry)
  PROVE  Unwritten'
<1> DEFINE last == Len(log) + 1
<1>0. last \in Nat /\ Len(log) \in Nat
  BY Numbers
<1>1. /\ Len(log') = last
      /\ \A i \in 1 .. Len(log) : log'[i] = log[i]
      /\ log'[last] = entry
      /\ \A i \in 0 .. Len(log) : ref'[i] = ref[i]
      /\ ref'[last].ok = PassesAllChecks(entry)
      /\ ref'[last].store = IF PassesAllChecks(entry)
                            THEN Overwrite(ref[Len(log)].store, entry.writes)
                            ELSE ref[Len(log)].store
  BY Appended
<1> SUFFICES ASSUME NEW j \in 0 .. last, NEW i \in 0 .. last, NEW k \in Key,
                    i <= j, ~WrittenIn(i, j, k)'
             PROVE  ref'[j].store[k] = ref'[i].store[k]
  BY <1>1 DEF Unwritten
<1>2. ASSUME NEW m \in 0 .. Len(log), i <= m, m <= j PROVE ref[m].store[k] = ref[i].store[k]
  <2>1. ~WrittenIn(i, m, k)
    <3>1. ASSUME NEW p \in (i + 1) .. m PROVE ~(ref[p].ok /\ k \in KeysOf(log[p].writes))
      <4>1. p \in 1 .. Len(log) /\ p \in 0 .. Len(log) /\ p \in (i + 1) .. j
        BY <1>0, <1>2
      <4> QED BY <1>1, <4>1 DEF WrittenIn
    <3> QED BY <3>1 DEF WrittenIn
  <2>2. i \in 0 .. Len(log)
    BY <1>0, <1>2
  <2> QED BY <1>2, <2>1, <2>2 DEF Unwritten
<1>3. CASE j # last
  <2>1. j \in 0 .. Len(log) /\ i \in 0 .. Len(log) /\ j <= j
    BY <1>0, <1>3 DEF last
  <2> QED BY <1>1, <1>2, <2>1
<1>4. CASE j = last /\ i = last
  BY <1>4
<1>5. CASE j = last /\ i # last
  <2>1. i \in 0 .. Len(log) /\ Len(log) \in 0 .. Len(log) /\ i <= Len(log) /\ Len(log) <= j
        /\ last \in (i + 1) .. j
    BY <1>0, <1>5 DEF last
  <2>2. ref[Len(log)].store[k] = ref[i].store[k]
    BY <1>2, <2>1
  <2>3. ~(ref'[last].ok /\ k \in KeysOf(entry.writes))
    BY <1>1, <2>1 DEF WrittenIn
  <2>4. ref'[last].store[k] = ref[Len(log)].store[k]
    BY <1>1, <2>3 DEF Overwrite, KeysOf
  <2> QED BY <1>1, <1>5, <2>1, <2>2, <2>4
<1> QED BY <1>3, <1>4, <1>5

\* A replica does not look at the new entry.
LEMMA SubmitExact ==
  ASSUME TypeInv, PositionInv, NEW n \in Replica, Exact(n),
         NEW entry \in Entry, Submit(entry), UNCHANGED fsmVars
  PROVE  Exact(n)'
<1>1. /\ \A i \in 1 .. Len(log) : log'[i] = log[i]
      /\ \A i \in 0 .. Len(log) : ref'[i] = ref[i]
  BY Appended
<1>2. /\ db' = db /\ cursor' = cursor /\ modified' = modified
      /\ batch' = batch /\ Applied(n)' = Applied(n)
  BY DEF fsmVars, Applied
<1>3. /\ Applied(n) \in Nat /\ Applied(n) <= Len(log) /\ Len(log) \in Nat
      /\ cursor[n] \in 0 .. Len(log) /\ batch[n].first \in Nat
      /\ batch[n].pc = "ops" => batch[n].next - 1 = Applied(n)
  BY AppliedType, Numbers DEF Applied
<1>4. /\ \A i \in 1 .. Applied(n) : i \in 1 .. Len(log) /\ i \in 0 .. Len(log)
      /\ \A i \in batch[n].first .. Applied(n) : i \in 0 .. Len(log)
      /\ Applied(n) \in 0 .. Len(log)
  BY <1>3
<1>5. db'[n] = ref'[cursor'[n]].store
  BY <1>1, <1>2, <1>3 DEF Exact
<1>6. batch'[n].pc = "ops" => batch'[n].work = ref'[batch'[n].next - 1].store
  BY <1>1, <1>2, <1>3, <1>4 DEF Exact
<1>7. batch'[n].pc # "idle" =>
         batch'[n].conflicts = {i \in batch'[n].first .. Applied(n)' : ~ref'[i].ok}
  BY <1>1, <1>2, <1>4 DEF Exact
<1>8. \A i \in Index : \A k \in modified'[n][i] :
         i \in 1 .. Applied(n)' /\ ref'[i].ok /\ k \in KeysOf(log'[i].writes)
  BY <1>1, <1>2, <1>4 DEF Exact
<1> QED BY <1>5, <1>6, <1>7, <1>8 DEF Exact, KeysOf

\* What the reads of a new entry must have seen.
Seen(entry) ==
  \A k \in KeysOf(entry.reads) : \E i \in entry.start .. Len(log) :
     entry.reads[k] = Digest(ref[i].store[k])

\* An entry is appended.
LEMMA SubmitSound ==
  ASSUME TypeInv, TypeInv', PositionInv, SoundInv, NEW entry \in Entry, Submit(entry),
         UNCHANGED <<fsmVars, verdict>>, Verifiable(entry), Seen(entry),
         \A u \in Txn : txn'[u].pc \in {"opened", "active", "committing"} => txn'[u] = txn[u]
  PROVE  SoundInv'
<1>0. Snapshots /\ Judged /\ Unwritten /\ Answers /\ \A n \in Replica : Exact(n)
  BY DEF SoundInv
<1>1. Judged' /\ Unwritten'
  BY <1>0, SubmitJudged, SubmitUnwritten DEF Seen
<1>2. ASSUME NEW n \in Replica PROVE Exact(n)'
  BY <1>0, SubmitExact
<1>3. Len(log') = Len(log) + 1 /\ \A i \in 0 .. Len(log) : ref'[i] = ref[i]
  BY Appended
<1>4. Snapshots'
  <2>1. ASSUME NEW u \in Txn, txn'[u].pc \in {"opened", "active", "committing"}
        PROVE  txn'[u].at <= Len(log') /\ txn'[u].snap = ref'[txn'[u].at].store
    <3>1. txn'[u] = txn[u] /\ txn[u].at <= Len(log) /\ txn[u].snap = ref[txn[u].at].store
      BY <1>0, <2>1 DEF Snapshots, SnapshotOf
    <3>2. txn[u].at \in 0 .. Len(log) /\ Len(log) \in Nat
      BY <3>1, Numbers
    <3> QED BY <1>3, <3>1, <3>2
  <2> QED BY <2>1 DEF Snapshots, SnapshotOf
<1>5. Answers'
  <2>1. cursor' = cursor /\ verdict' = verdict
    BY DEF fsmVars
  <2>2. ASSUME NEW i \in Index, verdict[i] # "none"
        PROVE  i <= cursor[Leader] /\ (verdict[i] = "ok" <=> ref'[i].ok)
    <3>1. i <= cursor[Leader] /\ (verdict[i] = "ok" <=> ref[i].ok)
      BY <1>0, <2>2 DEF Answers
    <3>2. i \in 0 .. Len(log)
      BY <3>1, Numbers, IndexType
    <3> QED BY <1>3, <3>1, <3>2
  <2> QED BY <2>1, <2>2 DEF Answers
<1> QED BY <1>1, <1>2, <1>4, <1>5 DEF SoundInv

\* The entry of a transaction.
LEMMA TxnEntryFacts ==
  ASSUME TypeInv, NEW t \in Txn
  PROVE  /\ TxnEntry(t) \in Entry
         /\ TxnEntry(t).start = txn[t].index /\ TxnEntry(t).kind = "txn"
         /\ Verifiable(TxnEntry(t))
         /\ TxnEntry(t).lowest <= dispatched /\ TxnEntry(t).lowest <= txn[t].lowest
<1>1. txn[t] \in TxnRecord
  BY Numbers
<1>2. /\ Capped(txn[t].lowest) \in Index /\ Capped(txn[t].lowest) <= txn[t].lowest
      /\ Capped(txn[t].lowest) <= dispatched
  BY <1>1, CappedType DEF TxnRecord
<1>3. [k \in Key |-> IF k \in txn[t].reads THEN Digest(txn[t].snap[k]) ELSE Unset]
         \in [Key -> Content \cup {Unset}]
  BY <1>1 DEF TxnRecord, Store, Content, Digest
<1>4. TxnEntry(t).lowest = Capped(txn[t].lowest) /\ TxnEntry(t).start = txn[t].index
      /\ TxnEntry(t).kind = "txn"
  BY DEF TxnEntry
<1>5. TxnEntry(t) \in Entry
  BY <1>1, <1>2, <1>3 DEF TxnRecord, Entry, TxnEntry
<1>6. Verifiable(TxnEntry(t))
  BY <1>4 DEF Verifiable
<1> QED BY <1>2, <1>4, <1>5, <1>6

\* Commit hands its entry to raft.
LEMMA CommitApplyLogSound ==
  ASSUME TypeInv, TypeInv', PositionInv, SoundInv, NEW t \in Txn, CommitApplyLog(t)
  PROVE  SoundInv'
<1> DEFINE x == [NewTxn EXCEPT !.pc = "waiting", !.writable = TRUE, !.index = txn[t].index,
                               !.entry = Len(log) + 1]
<1>1. /\ txn[t].pc = "committing" /\ Submit(TxnEntry(t)) /\ txn' = [txn EXCEPT ![t] = x]
      /\ UNCHANGED <<fsmVars, verdict>>
  BY DEF CommitApplyLog
<1>2. x.pc = "waiting"
  BY DEF NewTxn
<1> HIDE DEF x
<1>3. \A u \in Txn : txn'[u].pc \in {"opened", "active", "committing"} => txn'[u] = txn[u]
  BY <1>1, <1>2 DEF TypeInv, CodeTypeOK
<1>4. Seen(TxnEntry(t))
  <2> SUFFICES ASSUME NEW k \in KeysOf(TxnEntry(t).reads)
               PROVE  \E i \in txn[t].index .. Len(log) :
                         TxnEntry(t).reads[k] = Digest(ref[i].store[k])
    BY TxnEntryFacts DEF Seen
  <2>1. k \in Key /\ TxnEntry(t).reads[k] = Digest(txn[t].snap[k])
    BY DEF KeysOf, TxnEntry
  <2>2. txn[t].snap = ref[txn[t].at].store /\ txn[t].at <= Len(log)
    BY <1>1 DEF SoundInv, Snapshots, SnapshotOf
  <2>3. txn[t].index <= txn[t].at
    BY <1>1 DEF PositionInv, TxnPosition
  <2>4. txn[t].at \in txn[t].index .. Len(log)
    BY <2>2, <2>3, Numbers
  <2> QED BY <2>1, <2>2, <2>4
<1> QED BY <1>1, <1>3, <1>4, TxnEntryFacts, SubmitSound

\* The entry of a plain write.
LEMMA PlainEntryFacts ==
  ASSUME TypeInv, NEW w \in Writer
  PROVE  LET x     == writer[w]
             entry == PlainEntry(x.key, x.content, Capped(x.lowest))
         IN  x.pc = "lowest" /\ Submit(entry) =>
               /\ entry \in Entry /\ entry.kind = "write"
               /\ Verifiable(entry) /\ Seen(entry)
               /\ entry.lowest <= dispatched /\ entry.lowest <= x.lowest
<1> DEFINE x == writer[w]
           entry == PlainEntry(x.key, x.content, Capped(x.lowest))
<1>2. /\ Capped(x.lowest) \in Index /\ Capped(x.lowest) <= x.lowest
      /\ Capped(x.lowest) <= dispatched
  BY Numbers, CappedType DEF WriterRecord
<1>3. entry \in Entry
  <2>1. [NoKeys EXCEPT ![x.key] = x.content] \in [Key -> Content \cup {Unset}]
    BY Numbers, StoreType DEF WriterRecord
  <2> QED BY <1>2, <2>1, StoreType, IndexType DEF PlainEntry, Entry
<1>4. /\ entry.lowest = Capped(x.lowest) /\ entry.kind = "write"
      /\ KeysOf(entry.reads) = {} /\ Verifiable(entry)
  BY DEF PlainEntry, KeysOf, NoKeys, Verifiable
<1> HIDE DEF entry
<1>5. Seen(entry)
  BY <1>4 DEF Seen
<1> QED BY <1>2, <1>3, <1>4, <1>5 DEF entry

\* The entry of a membership change.
LEMMA ConfigEntryFacts ==
  /\ ConfigEntry \in Entry /\ ConfigEntry.lowest = 0 /\ ConfigEntry.kind = "config"
  /\ KeysOf(ConfigEntry.reads) = {} /\ Verifiable(ConfigEntry) /\ Seen(ConfigEntry)
<1>1. /\ ConfigEntry \in Entry /\ ConfigEntry.lowest = 0 /\ ConfigEntry.kind = "config"
      /\ KeysOf(ConfigEntry.reads) = {} /\ Verifiable(ConfigEntry)
  BY StoreType, IndexType DEF ConfigEntry, Entry, KeysOf, NoKeys, Verifiable
<1> QED BY <1>1 DEF Seen

-------------------------------------------------------------------------------
(* The first layer: steps of a replica.                                     *)

\* The heart of the matter: applyBatchTxOps, with the checks it skips, comes to
\* the verdict of full verification.
LEMMA VerifiedIsTrue ==
  ASSUME TypeInv, PositionInv, Relied, SoundInv, NEW n \in Replica, batch[n].pc = "ops",
         batch[n].next <= batch[n].last
  PROVE  Verified(modified[n], batch[n], log[batch[n].next]) <=> ref[batch[n].next].ok
<1> DEFINE b == batch[n]
           j == batch[n].next
           e == log[batch[n].next]
<1>0. Judged /\ Unwritten /\ Exact(n) /\ TrackerCovers /\ BaseIsCursor(n)
  BY DEF SoundInv, Relied
<1>1. /\ j \in 1 .. Len(log) /\ cursor[n] \in Nat /\ b.first = cursor[n] + 1 /\ b.first <= j
      /\ Applied(n) = j - 1 /\ b.base = cursor[n]
      /\ j \in (cursor[n] + 1) .. Len(log) /\ Len(log) \in Nat
  <2>1. b.first = cursor[n] + 1 /\ b.first <= j
    BY DEF PositionInv, ReplicaPosition
  <2>2. b.last <= Len(log)
    BY DEF TypeInv, WithinLog
  <2>3. Applied(n) = j - 1 /\ b.base = cursor[n]
    BY <1>0 DEF Applied, BaseIsCursor
  <2>4. j \in Nat /\ b.last \in Nat /\ cursor[n] \in Nat /\ Len(log) \in Nat
    BY Numbers
  <2>5. j <= b.last
    OBVIOUS
  <2> HIDE DEF b, j
  <2> QED BY <2>1, <2>2, <2>3, <2>4, <2>5
<1>2. e.start \in Nat /\ e \in Entry
  BY <1>1, Numbers
<1>3. /\ ref[j].ok <=> PassesAt(j)
      /\ ReadsSeen(j) /\ b.work = ref[j - 1].store /\ Verifiable(e)
  BY <1>0, <1>1 DEF Judged, Exact
<1>4. e.kind = "txn" => Remembers(n, e.start)
  <2>1. j \in (Applied(n) + 1) .. Len(log)
    BY <1>1
  <2> QED BY <1>0, <2>1 DEF TrackerCovers
<1>5. canFastWrite(b, e) => e.start = j - 1
  BY <1>1 DEF canFastWrite
<1>6. /\ \A i \in Index : \A k \in modified[n][i] :
            i \in 1 .. (j - 1) /\ ref[i].ok /\ k \in KeysOf(log[i].writes)
      /\ DOMAIN modified[n] = Index
      /\ \A i \in 1 .. Len(log) : i \in Index
  BY <1>0, <1>1, Numbers DEF Exact, TypeInv, CodeTypeOK
<1>7. ASSUME e.kind = "txn"
      PROVE  \A i \in (e.start + 1) .. (j - 1) :
                /\ i \in Index /\ i > e.start
                /\ ref[i].ok => KeysOf(log[i].writes) \subseteq modified[n][i]
  <2>1. \A i \in (e.start + 1) .. (j - 1) : i \in 1 .. Len(log) /\ i > e.start
    BY <1>1, <1>2
  <2> QED BY <1>1, <1>4, <1>6, <1>7, <2>1 DEF Remembers
<1>8. log[j] = e
  OBVIOUS
<1>9. j \in Nat /\ j - 1 \in 0 .. Len(log) /\ \A i \in e.start .. (j - 1) : i \in 0 .. Len(log)
  BY <1>1, <1>2
<1>a. Verified(modified[n], b, e) <=>
         /\ \A k \in KeysOf(e.reads) : doVerifyRead(modified[n], b, e, k)
         /\ \A c \in e.lists : doVerifyList(modified[n], b, e, c)
  BY DEF Verified
<1> HIDE DEF b, j, e
<1>10. ASSUME NEW k \in KeysOf(e.reads)
       PROVE  doVerifyRead(modified[n], b, e, k) <=> ReadHolds(ref[j - 1].store, e, k)
  <2>1. k \in Key /\ e.kind = "txn"
    BY <1>3, <1>10 DEF KeysOf, Verifiable
  <2>2. PICK i \in e.start .. (j - 1) : e.reads[k] = Digest(ref[i].store[k])
    BY <1>3, <1>8 DEF ReadsSeen
  <2>3. ASSUME ~WrittenIn(e.start, j - 1, k) PROVE ReadHolds(ref[j - 1].store, e, k)
    <3>1. ~WrittenIn(i, j - 1, k)
      <4>1. \A m \in (i + 1) .. (j - 1) : m \in (e.start + 1) .. (j - 1)
        BY <1>2, <1>9
      <4> QED BY <2>3, <4>1 DEF WrittenIn
    <3>2. ref[j - 1].store[k] = ref[i].store[k]
      BY <1>0, <1>9, <2>1, <3>1 DEF Unwritten
    <3> QED BY <2>2, <3>2 DEF ReadHolds
  <2>4. ASSUME WrittenIn(e.start, j - 1, k) PROVE hasModifiedEntry(modified[n], e.start, k)
    <3>1. PICK m \in (e.start + 1) .. (j - 1) : ref[m].ok /\ k \in KeysOf(log[m].writes)
      BY <2>4 DEF WrittenIn
    <3>2. m \in Index /\ m > e.start /\ k \in modified[n][m]
      BY <1>7, <2>1, <3>1
    <3> QED BY <1>6, <3>2 DEF hasModifiedEntry
  <2>5. canFastWrite(b, e) => ~WrittenIn(e.start, j - 1, k)
    BY <1>5, <1>9 DEF WrittenIn
  <2> QED BY <1>3, <2>3, <2>4, <2>5 DEF doVerifyRead
<1>11. ASSUME NEW c \in e.lists
       PROVE  doVerifyList(modified[n], b, e, c) <=>
                 ~Touched(e.start, j - 1, c.prefix) \/ ListHolds(ref[j - 1].store, c)
  <2>1. e.kind = "txn"
    BY <1>3, <1>11 DEF Verifiable
  <2>2. ASSUME Touched(e.start, j - 1, c.prefix)
        PROVE  hasModifiedListEntry(modified[n], e.start, c.prefix)
    <3>1. PICK m \in (e.start + 1) .. (j - 1) :
             ref[m].ok /\ \E k \in KeysOf(log[m].writes) : Covers(c.prefix, k)
      BY <2>2 DEF Touched
    <3>2. m \in Index /\ m > e.start /\ KeysOf(log[m].writes) \subseteq modified[n][m]
      BY <1>7, <2>1, <3>1
    <3> QED BY <1>6, <3>1, <3>2 DEF hasModifiedListEntry
  <2>3. ASSUME hasModifiedListEntry(modified[n], e.start, c.prefix)
        PROVE  Touched(e.start, j - 1, c.prefix)
    <3>1. PICK m \in Index : m > e.start /\ \E k \in modified[n][m] : Covers(c.prefix, k)
      BY <1>6, <2>3 DEF hasModifiedListEntry
    <3>2. PICK k \in modified[n][m] : Covers(c.prefix, k)
      BY <3>1
    <3>3. m \in 1 .. (j - 1) /\ ref[m].ok /\ k \in KeysOf(log[m].writes)
      BY <1>6, <3>2
    <3>4. m \in (e.start + 1) .. (j - 1)
      BY <1>2, <1>9, <3>1, <3>3
    <3> QED BY <3>2, <3>3, <3>4 DEF Touched
  <2>4. canFastWrite(b, e) => ~Touched(e.start, j - 1, c.prefix)
    BY <1>5, <1>9 DEF Touched
  <2> QED BY <1>3, <2>2, <2>3, <2>4 DEF doVerifyList
<1>12. Verified(modified[n], b, e) <=> PassesAt(j)
  BY <1>a, <1>8, <1>10, <1>11 DEF PassesAt
<1> QED BY <1>3, <1>12 DEF b, j, e

\* A step of one replica, with what is answered.
LEMMA ReplicaSound ==
  ASSUME TypeInv, TypeInv', SoundInv, NEW n \in Replica, UNCHANGED <<log, ref>>,
         \A m \in Replica : m # n =>
            /\ db'[m] = db[m] /\ cursor'[m] = cursor[m]
            /\ modified'[m] = modified[m] /\ batch'[m] = batch[m],
         \A u \in Txn : txn'[u].pc \in {"opened", "active", "committing"} => txn'[u] = txn[u],
         cursor[n] <= cursor'[n], Exact(n)',
         \A i \in Index : \/ verdict'[i] = verdict[i]
                          \/ i <= cursor'[Leader] /\ (verdict'[i] = "ok" <=> ref[i].ok)
  PROVE  SoundInv'
<1>1. ASSUME NEW m \in Replica PROVE Exact(m)'
  <2>1. CASE m # n
    BY <2>1, SameExact DEF SoundInv
  <2> QED BY <2>1
<1>2. cursor[Leader] <= cursor'[Leader]
  <2>1. CASE n = Leader
    BY <2>1
  <2>2. CASE n # Leader
    <3>1. cursor'[Leader] = cursor[Leader] /\ cursor[Leader] \in Nat
      BY <2>2, Numbers
    <3> QED BY <3>1
  <2> QED BY <2>1, <2>2
<1>3. \A u \in Txn : SnapshotOf(txn'[u])
  BY DEF SoundInv, Snapshots, SnapshotOf
<1> QED BY <1>1, <1>2, <1>3, SoundFrom

\* What ApplyBatch, up to the loop over commands, leaves.
LEMMA ApplyBatchFields ==
  ASSUME TypeInv, NEW n \in Replica, ApplyBatch(n)
  PROVE  /\ batch[n].pc = "idle"
         /\ UNCHANGED <<raftVars, db, cursor, latestIndex, modified, snapshot, verdict, txn,
                        writer, ref>>
         /\ UNCHANGED <<log, dispatched>>
         /\ batch'[n].pc = "ops" /\ batch'[n].first = cursor[n] + 1
         /\ batch'[n].next = cursor[n] + 1 /\ batch'[n].base = latestIndex[n]
         /\ batch'[n].work = db[n] /\ batch'[n].lowest = 0 /\ batch'[n].conflicts = {}
         /\ \A m \in Replica : m # n => batch'[m] = batch[m]
         /\ Applied(n)' = cursor[n] /\ Applied(n) = cursor[n] /\ cursor[n] \in Nat
<1>1. PICK last \in (cursor[n] + 1) .. Queued(n) :
         batch' = [batch EXCEPT ![n] =
                     [NoBatch EXCEPT !.pc = "ops", !.first = cursor[n] + 1,
                        !.next = cursor[n] + 1, !.last = last,
                        !.base = latestIndex[n], !.work = db[n]]]
  BY DEF ApplyBatch
<1>2. /\ batch[n].pc = "idle"
      /\ UNCHANGED <<raftVars, db, cursor, latestIndex, modified, snapshot, verdict, txn,
                     writer, ref>>
      /\ UNCHANGED <<log, dispatched>>
  BY DEF ApplyBatch, snapshotVars, raftVars
<1>3. /\ batch'[n].pc = "ops" /\ batch'[n].first = cursor[n] + 1
      /\ batch'[n].next = cursor[n] + 1 /\ batch'[n].base = latestIndex[n]
      /\ batch'[n].work = db[n] /\ batch'[n].lowest = 0 /\ batch'[n].conflicts = {}
      /\ \A m \in Replica : m # n => batch'[m] = batch[m]
  <2>1. n \in DOMAIN batch /\ DOMAIN batch = Replica
    BY DEF TypeInv, CodeTypeOK
  <2> QED BY <1>1, <2>1 DEF NoBatch
<1>4. cursor[n] \in Nat
  BY Numbers
<1>5. Applied(n)' = cursor[n] /\ Applied(n) = cursor[n]
  BY <1>2, <1>3, <1>4 DEF Applied
<1> QED BY <1>2, <1>3, <1>4, <1>5

\* ApplyBatch starts from the bucket.
LEMMA ApplyBatchSound ==
  ASSUME TypeInv, TypeInv', SoundInv, NEW n \in Replica, ApplyBatch(n)
  PROVE  SoundInv'
<1>1. /\ UNCHANGED <<log, ref, db, cursor, modified, txn, verdict>>
      /\ batch'[n].pc = "ops" /\ batch'[n].first = cursor[n] + 1
      /\ batch'[n].next = cursor[n] + 1
      /\ batch'[n].work = db[n] /\ batch'[n].conflicts = {}
      /\ \A m \in Replica : m # n => batch'[m] = batch[m]
      /\ Applied(n)' = cursor[n] /\ Applied(n) = cursor[n] /\ cursor[n] \in Nat
  BY ApplyBatchFields
<1>2. Exact(n)'
  <2>1. /\ db[n] = ref[cursor[n]].store
        /\ \A i \in Index : \A k \in modified[n][i] :
              i \in 1 .. cursor[n] /\ ref[i].ok /\ k \in KeysOf(log[i].writes)
    BY <1>1 DEF SoundInv, Exact
  <2>2. batch'[n].next - 1 = cursor[n] /\ \A i \in batch'[n].first .. cursor[n] : FALSE
    BY <1>1
  <2> QED BY <1>1, <2>1, <2>2 DEF Exact
<1> QED BY <1>1, <1>2, ReplicaSound

\* What one iteration of the loop over commands leaves.
LEMMA ApplyCommandFields ==
  ASSUME TypeInv, PositionInv, NEW n \in Replica, ApplyCommand(n)
  PROVE  LET b  == batch[n]
             e  == log[b.next]
             ok == Verified(modified[n], b, e)
         IN  /\ b.pc = "ops" /\ b.next <= b.last
             /\ UNCHANGED <<raftVars, db, cursor, latestIndex, snapshot, verdict, txn, writer,
                            ref>>
             /\ UNCHANGED <<log, dispatched>>
             /\ b.next \in 1 .. Len(log) /\ b.next \in Index /\ Applied(n) = b.next - 1
             /\ b.first <= b.next /\ b.first \in Nat /\ b.next \in Nat
             /\ batch'[n].pc = "ops" /\ batch'[n].next = b.next + 1
             /\ batch'[n].first = b.first /\ batch'[n].base = b.base
             /\ batch'[n].work = IF ok THEN Overwrite(b.work, e.writes) ELSE b.work
             /\ batch'[n].lowest = IF e.kind = "config" THEN b.lowest ELSE e.lowest
             /\ batch'[n].conflicts = IF ok THEN b.conflicts ELSE b.conflicts \cup {b.next}
             /\ \A m \in Replica : m # n => batch'[m] = batch[m] /\ modified'[m] = modified[m]
             /\ \A i \in Index : i # b.next => modified'[n][i] = modified[n][i]
             /\ modified'[n][b.next] = IF ok THEN KeysOf(e.writes) ELSE modified[n][b.next]
             /\ Applied(n)' = b.next
<1> DEFINE b  == batch[n]
           e  == log[b.next]
           ok == Verified(modified[n], b, e)
<1>1. /\ b.pc = "ops" /\ b.next <= b.last
      /\ UNCHANGED <<raftVars, db, cursor, latestIndex, snapshot, verdict, txn, writer, ref>>
      /\ UNCHANGED <<log, dispatched>>
  BY DEF ApplyCommand, snapshotVars, raftVars
<1>3. /\ ReplicaPosition(n) /\ cursor[n] \in Nat /\ Len(log) \in Nat /\ b \in BatchRecord
      /\ b.first \in Nat /\ b.next \in Nat /\ b.last \in Nat
      /\ DOMAIN modified = Replica /\ modified[n] \in [Index -> SUBSET Key]
  BY Numbers DEF PositionInv, TypeInv, CodeTypeOK
<1>4. /\ b.next \in 1 .. Len(log) /\ b.next \in Index /\ Applied(n) = b.next - 1
      /\ b.first <= b.next
  <2>1. b.last <= Len(log)
    BY <1>1 DEF TypeInv, WithinLog
  <2>2. b.first = cursor[n] + 1 /\ b.first <= b.next
    BY <1>1, <1>3 DEF ReplicaPosition
  <2>3. Applied(n) = b.next - 1
    BY <1>1 DEF Applied
  <2>4. b.next \in 1 .. Len(log)
    <3> HIDE DEF b
    <3> QED BY <1>1, <1>3, <2>1, <2>2
  <2> QED BY <2>2, <2>3, <2>4, Numbers
<1>5. /\ batch'[n].pc = "ops" /\ batch'[n].next = b.next + 1 /\ batch'[n].first = b.first
      /\ batch'[n].base = b.base
      /\ batch'[n].work = IF ok THEN Overwrite(b.work, e.writes) ELSE b.work
      /\ batch'[n].lowest = IF e.kind = "config" THEN b.lowest ELSE e.lowest
      /\ batch'[n].conflicts = IF ok THEN b.conflicts ELSE b.conflicts \cup {b.next}
      /\ \A m \in Replica : m # n => batch'[m] = batch[m]
  <2> DEFINE work == IF ok THEN Overwrite(b.work, e.writes) ELSE b.work
             lowest == IF e.kind = "config" THEN b.lowest ELSE e.lowest
             conflicts == IF ok THEN b.conflicts ELSE b.conflicts \cup {b.next}
  <2>1. n \in DOMAIN batch /\ DOMAIN batch = Replica
    BY DEF TypeInv, CodeTypeOK
  <2>2. batch' = [batch EXCEPT ![n] = [b EXCEPT !.next = b.next + 1, !.work = work,
                                       !.lowest = lowest, !.conflicts = conflicts]]
    BY DEF ApplyCommand
  <2> HIDE DEF b, e, ok, work, lowest, conflicts
  <2>3. /\ batch'[n].pc = b.pc /\ batch'[n].next = b.next + 1 /\ batch'[n].first = b.first
        /\ batch'[n].base = b.base /\ batch'[n].work = work /\ batch'[n].lowest = lowest
        /\ batch'[n].conflicts = conflicts
        /\ \A m \in Replica : m # n => batch'[m] = batch[m]
    BY <1>3, <2>1, <2>2 DEF BatchRecord
  <2> QED BY <1>1, <2>3 DEF work, lowest, conflicts
<1>6. /\ \A m \in Replica : m # n => modified'[m] = modified[m]
      /\ \A i \in Index : i # b.next => modified'[n][i] = modified[n][i]
      /\ modified'[n][b.next] = IF ok THEN KeysOf(e.writes) ELSE modified[n][b.next]
  BY <1>3, <1>4 DEF ApplyCommand
<1>8. Applied(n)' = b.next
  BY <1>3, <1>5 DEF Applied
<1> HIDE DEF ok
<1> QED BY <1>1, <1>3, <1>4, <1>5, <1>6, <1>8 DEF ok

\* One iteration of the loop over commands: the verdict is that of ref.
LEMMA ApplyCommandSound ==
  ASSUME TypeInv, TypeInv', PositionInv, Relied, SoundInv, NEW n \in Replica, ApplyCommand(n)
  PROVE  SoundInv'
<1> DEFINE b == batch[n]
           e == log[b.next]
           ok == Verified(modified[n], b, e)
<1>1. /\ b.pc = "ops" /\ b.next <= b.last
      /\ UNCHANGED <<log, ref, db, cursor, txn, verdict>>
      /\ b.next \in 1 .. Len(log) /\ b.next \in Index /\ Applied(n) = b.next - 1
      /\ b.first <= b.next /\ b.first \in Nat /\ b.next \in Nat
      /\ batch'[n].pc = "ops" /\ batch'[n].next = b.next + 1 /\ batch'[n].first = b.first
      /\ batch'[n].work = IF ok THEN Overwrite(b.work, e.writes) ELSE b.work
      /\ batch'[n].conflicts = IF ok THEN b.conflicts ELSE b.conflicts \cup {b.next}
      /\ \A m \in Replica : m # n => batch'[m] = batch[m] /\ modified'[m] = modified[m]
      /\ \A i \in Index : i # b.next => modified'[n][i] = modified[n][i]
      /\ modified'[n][b.next] = IF ok THEN KeysOf(e.writes) ELSE modified[n][b.next]
      /\ Applied(n)' = b.next
  BY ApplyCommandFields
<1>2. ok <=> ref[b.next].ok
  BY <1>1, VerifiedIsTrue
<1>3. Judged /\ Exact(n) /\ cursor[n] \in Nat
  BY Numbers DEF SoundInv
<1>7. /\ ref[b.next].store = IF ok THEN Overwrite(ref[b.next - 1].store, e.writes)
                             ELSE ref[b.next - 1].store
      /\ b.work = ref[b.next - 1].store
      /\ b.conflicts = {i \in b.first .. (b.next - 1) : ~ref[i].ok}
      /\ \A i \in Index : \A k \in modified[n][i] :
            i \in 1 .. (b.next - 1) /\ ref[i].ok /\ k \in KeysOf(log[i].writes)
      /\ db[n] = ref[cursor[n]].store
  BY <1>1, <1>2, <1>3 DEF Judged, Exact
<1>10. Exact(n)'
  <2>1. batch'[n].work = ref[b.next].store /\ batch'[n].next - 1 = b.next
    BY <1>1, <1>7
  <2>2. batch'[n].conflicts = {i \in b.first .. b.next : ~ref[i].ok}
    <3> HIDE DEF b, ok
    <3>1. b.first .. b.next = (b.first .. (b.next - 1)) \cup {b.next}
      BY <1>1
    <3> QED BY <1>1, <1>2, <1>7, <3>1
  <2>3. ASSUME NEW i \in Index, NEW k \in modified'[n][i]
        PROVE  i \in 1 .. b.next /\ ref[i].ok /\ k \in KeysOf(log[i].writes)
    <3>1. CASE i # b.next
      <4>1. i \in 1 .. (b.next - 1) /\ ref[i].ok /\ k \in KeysOf(log[i].writes)
        BY <1>1, <1>7, <3>1
      <4> QED BY <1>1, <4>1
    <3>2. CASE i = b.next
      <4>1. ok
        <5>1. ASSUME ~ok PROVE FALSE
          <6>1. k \in modified[n][b.next]
            BY <1>1, <3>2, <5>1
          <6>2. b.next \in 1 .. (b.next - 1)
            BY <1>1, <1>7, <6>1
          <6> QED BY <1>1, <6>2
        <5> QED BY <5>1
      <4> QED BY <1>1, <1>2, <3>2, <4>1
    <3> QED BY <3>1, <3>2
  <2>4. db'[n] = ref[cursor[n]].store
    BY <1>1, <1>7
  <2> HIDE DEF b
  <2> QED BY <1>1, <2>1, <2>2, <2>3, <2>4 DEF Exact, KeysOf
<1> QED BY <1>1, <1>3, <1>10, ReplicaSound

\* What the commit of bbolt leaves.
LEMMA StoreBatchFields ==
  ASSUME TypeInv, PositionInv, NEW n \in Replica, StoreBatch(n)
  PROVE  LET b == batch[n]
         IN  /\ b.pc = "ops"
             /\ UNCHANGED <<raftVars, latestIndex, modified, snapshot, verdict, txn, writer, ref>>
             /\ UNCHANGED <<log, dispatched>>
             /\ b.next - 1 = b.last /\ cursor[n] < b.last /\ b.last \in Nat /\ cursor[n] \in Nat
             /\ db'[n] = b.work /\ cursor'[n] = b.last
             /\ \A m \in Replica : m # n =>
                   db'[m] = db[m] /\ cursor'[m] = cursor[m] /\ batch'[m] = batch[m]
             /\ batch'[n].pc = "clear" /\ batch'[n].first = b.first /\ batch'[n].last = b.last
             /\ batch'[n].base = b.base /\ batch'[n].lowest = b.lowest
             /\ batch'[n].conflicts = b.conflicts
             /\ Applied(n)' = b.last /\ Applied(n) = b.last
<1> DEFINE b == batch[n]
<1>1. /\ b.pc = "ops" /\ b.next > b.last
      /\ UNCHANGED <<raftVars, latestIndex, modified, snapshot, verdict, txn, writer, ref>>
      /\ UNCHANGED <<log, dispatched>>
  BY DEF StoreBatch, snapshotVars, raftVars
<1>2. /\ ReplicaPosition(n) /\ cursor[n] \in Nat /\ b \in BatchRecord
      /\ b.first \in Nat /\ b.next \in Nat /\ b.last \in Nat
  BY Numbers DEF PositionInv
<1>3. b.next - 1 = b.last /\ cursor[n] < b.last
  <2>1. b.first = cursor[n] + 1 /\ b.first <= b.last /\ b.next <= b.last + 1
    BY <1>1, <1>2 DEF ReplicaPosition
  <2> HIDE DEF b
  <2> QED BY <1>1, <1>2, <2>1
<1>4. /\ db'[n] = b.work /\ cursor'[n] = b.last
      /\ batch'[n] = [b EXCEPT !.pc = "clear"]
      /\ \A m \in Replica : m # n =>
            db'[m] = db[m] /\ cursor'[m] = cursor[m] /\ batch'[m] = batch[m]
  BY DEF StoreBatch, TypeInv, CodeTypeOK
<1>5. /\ batch'[n].pc = "clear" /\ batch'[n].first = b.first /\ batch'[n].last = b.last
      /\ batch'[n].base = b.base /\ batch'[n].lowest = b.lowest
      /\ batch'[n].conflicts = b.conflicts
  <2> HIDE DEF b
  <2> QED BY <1>2, <1>4 DEF BatchRecord
<1>6. Applied(n)' = b.last /\ Applied(n) = b.last
  BY <1>1, <1>3, <1>4, <1>5 DEF Applied
<1> QED BY <1>1, <1>2, <1>3, <1>4, <1>5, <1>6

\* bbolt commits the update: the bucket is that of ref after the batch.
LEMMA StoreBatchSound ==
  ASSUME TypeInv, TypeInv', PositionInv, SoundInv, NEW n \in Replica, StoreBatch(n)
  PROVE  SoundInv'
<1> DEFINE b == batch[n]
<1>1. /\ b.pc = "ops" /\ UNCHANGED <<log, ref, modified, txn, verdict>>
      /\ b.next - 1 = b.last /\ cursor[n] < b.last /\ b.last \in Nat /\ cursor[n] \in Nat
      /\ db'[n] = b.work /\ cursor'[n] = b.last
      /\ \A m \in Replica : m # n =>
            db'[m] = db[m] /\ cursor'[m] = cursor[m] /\ batch'[m] = batch[m]
      /\ batch'[n].pc = "clear" /\ batch'[n].first = b.first
      /\ batch'[n].conflicts = b.conflicts
      /\ Applied(n)' = b.last /\ Applied(n) = b.last
  BY StoreBatchFields
<1>2. Exact(n)'
  <2>1. /\ b.work = ref[b.last].store
        /\ b.conflicts = {i \in b.first .. b.last : ~ref[i].ok}
        /\ \A i \in Index : \A k \in modified[n][i] :
              i \in 1 .. b.last /\ ref[i].ok /\ k \in KeysOf(log[i].writes)
    BY <1>1 DEF SoundInv, Exact
  <2> HIDE DEF b
  <2> QED BY <1>1, <2>1 DEF Exact
<1>3. cursor[n] <= cursor'[n]
  BY <1>1
<1> QED BY <1>1, <1>2, <1>3, ReplicaSound

\* What the end of ApplyBatch leaves.
LEMMA PublishBatchFields ==
  ASSUME TypeInv, PositionInv, NEW n \in Replica, PublishBatch(n)
  PROVE  LET b == batch[n]
         IN  /\ b.pc = "publish"
             /\ UNCHANGED <<raftVars, db, cursor, modified, snapshot, txn, writer, ref>>
             /\ UNCHANGED <<log, dispatched>>
             /\ b.last = cursor[n] /\ latestIndex[n] <= cursor[n] /\ cursor[n] \in Nat
             /\ latestIndex'[n] = IF b.base < b.last THEN cursor[n] ELSE latestIndex[n]
             /\ batch'[n].pc = "idle" /\ batch'[n].lowest = 0
             /\ \A m \in Replica : m # n =>
                   latestIndex'[m] = latestIndex[m] /\ batch'[m] = batch[m]
             /\ Applied(n)' = cursor[n] /\ Applied(n) = cursor[n]
             /\ \A i \in Index : verdict'[i] = IF n = Leader /\ i \in b.first .. b.last
                                               THEN Response(b, i) ELSE verdict[i]
<1> DEFINE b == batch[n]
<1>1. /\ b.pc = "publish"
      /\ UNCHANGED <<raftVars, db, cursor, modified, snapshot, txn, writer, ref>>
      /\ UNCHANGED <<log, dispatched>>
  BY DEF PublishBatch, snapshotVars, raftVars
<1>2. ReplicaPosition(n) /\ cursor[n] \in Nat
  BY Numbers DEF PositionInv
<1>3. b.last = cursor[n] /\ latestIndex[n] <= cursor[n]
  BY <1>1, <1>2 DEF ReplicaPosition
<1>4. /\ latestIndex'[n] = IF b.base < b.last THEN b.last ELSE latestIndex[n]
      /\ batch'[n] = NoBatch
      /\ \A m \in Replica : m # n => latestIndex'[m] = latestIndex[m] /\ batch'[m] = batch[m]
  BY DEF PublishBatch, Advanced, TypeInv, CodeTypeOK
<1>5. batch'[n].pc = "idle" /\ batch'[n].lowest = 0
  BY <1>4 DEF NoBatch
<1>6. Applied(n)' = cursor[n] /\ Applied(n) = cursor[n]
  BY <1>1, <1>5 DEF Applied
<1>7. \A i \in Index : verdict'[i] = IF n = Leader /\ i \in b.first .. b.last
                                     THEN Response(b, i) ELSE verdict[i]
  BY DEF PublishBatch
<1> QED BY <1>1, <1>2, <1>3, <1>4, <1>5, <1>6, <1>7

\* Every caller gets the verdict of ref.
LEMMA PublishBatchSound ==
  ASSUME TypeInv, TypeInv', PositionInv, SoundInv, NEW n \in Replica, PublishBatch(n)
  PROVE  SoundInv'
<1> DEFINE b == batch[n]
<1>1. /\ b.pc = "publish" /\ UNCHANGED <<log, ref, db, cursor, modified, txn>>
      /\ b.last = cursor[n] /\ cursor[n] \in Nat
      /\ batch'[n].pc = "idle" /\ \A m \in Replica : m # n => batch'[m] = batch[m]
      /\ Applied(n)' = cursor[n] /\ Applied(n) = cursor[n]
      /\ \A i \in Index : verdict'[i] = IF n = Leader /\ i \in b.first .. b.last
                                        THEN Response(b, i) ELSE verdict[i]
  BY PublishBatchFields
<1>2. Exact(n) /\ b.first \in Nat
  BY Numbers DEF SoundInv
<1>3. Exact(n)'
  <2>1. /\ db[n] = ref[cursor[n]].store
        /\ \A i \in Index : \A k \in modified[n][i] :
              i \in 1 .. cursor[n] /\ ref[i].ok /\ k \in KeysOf(log[i].writes)
    BY <1>1, <1>2 DEF Exact
  <2> QED BY <1>1, <2>1 DEF Exact
<1>4. ASSUME NEW i \in Index
      PROVE  \/ verdict'[i] = verdict[i]
             \/ i <= cursor'[Leader] /\ (verdict'[i] = "ok" <=> ref[i].ok)
  <2>1. CASE n = Leader /\ i \in b.first .. b.last
    <3>1. i \in b.conflicts <=> ~ref[i].ok
      BY <1>1, <1>2, <2>1 DEF Exact
    <3>2. i <= cursor'[Leader]
      <4> HIDE DEF b
      <4> QED BY <1>1, <1>2, <2>1
    <3> QED BY <1>1, <2>1, <3>1, <3>2 DEF Response
  <2>2. CASE ~(n = Leader /\ i \in b.first .. b.last)
    BY <1>1, <2>2
  <2> QED BY <2>1, <2>2
<1>5. cursor[n] <= cursor'[n]
  BY <1>1
<1> QED BY <1>1, <1>3, <1>4, <1>5, ReplicaSound

\* A replica forgets entries of its tracker.
LEMMA ClearedFacts ==
  ASSUME TypeInv, NEW n \in Replica, NEW low \in Nat, Exact(n),
         Applied(n)' = Applied(n), UNCHANGED <<log, ref>>, Applied(n) <= Len(log),
         modified'[n] = clearOldEntries(modified[n], low)
  PROVE  /\ \A i \in Index : \A k \in modified'[n][i] :
               i \in 1 .. Applied(n) /\ ref[i].ok /\ k \in KeysOf(log[i].writes)
         /\ \A s \in Nat : low <= s + 1 /\ Remembers(n, s) => Remembers(n, s)'
<1>1. \A i \in Index : modified'[n][i] = IF i < low THEN {} ELSE modified[n][i]
  BY DEF clearOldEntries, TypeInv, CodeTypeOK
<1>2. ASSUME NEW i \in Index, NEW k \in modified'[n][i]
      PROVE  i \in 1 .. Applied(n) /\ ref[i].ok /\ k \in KeysOf(log[i].writes)
  BY <1>1, <1>2 DEF Exact
<1>3. ASSUME NEW s \in Nat, low <= s + 1, Remembers(n, s) PROVE Remembers(n, s)'
  <2>1. ASSUME NEW i \in (s + 1) .. Applied(n), ref[i].ok
        PROVE  KeysOf(log[i].writes) \subseteq modified'[n][i]
    <3>1. i \in 1 .. Len(log) /\ ~(i < low)
      BY <1>3, Numbers DEF Applied
    <3>2. KeysOf(log[i].writes) \subseteq modified[n][i]
      BY <1>3, <2>1 DEF Remembers
    <3> QED BY <1>1, <3>1, <3>2, Numbers
  <2> QED BY <2>1 DEF Remembers, KeysOf
<1> QED BY <1>2, <1>3

\* What clearOldEntries at the end of a batch leaves.
LEMMA ClearBatchFields ==
  ASSUME TypeInv, NEW n \in Replica, ClearBatch(n)
  PROVE  LET b == batch[n]
         IN  /\ b.pc = "clear" /\ b.lowest \in Nat
             /\ UNCHANGED <<raftVars, db, cursor, latestIndex, snapshot, verdict, txn, writer,
                            ref>>
             /\ UNCHANGED <<log, dispatched>>
             /\ modified'[n] = clearOldEntries(modified[n], b.lowest)
             /\ \A m \in Replica : m # n => modified'[m] = modified[m] /\ batch'[m] = batch[m]
             /\ batch'[n].pc = "publish" /\ batch'[n].first = b.first
             /\ batch'[n].last = b.last /\ batch'[n].base = b.base
             /\ batch'[n].lowest = b.lowest /\ batch'[n].conflicts = b.conflicts
             /\ Applied(n)' = cursor[n] /\ Applied(n) = cursor[n]
             /\ cursor[n] \in Nat /\ cursor[n] <= Len(log)
<1> DEFINE b == batch[n]
<1>1. /\ b.pc = "clear"
      /\ UNCHANGED <<raftVars, db, cursor, latestIndex, snapshot, verdict, txn, writer, ref>>
      /\ UNCHANGED <<log, dispatched>>
  BY DEF ClearBatch, snapshotVars, raftVars
<1>2. b \in BatchRecord /\ b.lowest \in Nat /\ cursor[n] \in Nat /\ cursor[n] <= Len(log)
  BY Numbers
<1>3. /\ batch'[n] = [b EXCEPT !.pc = "publish"]
      /\ modified'[n] = clearOldEntries(modified[n], b.lowest)
      /\ \A m \in Replica : m # n => modified'[m] = modified[m] /\ batch'[m] = batch[m]
  BY DEF ClearBatch, TypeInv, CodeTypeOK
<1>4. /\ batch'[n].pc = "publish" /\ batch'[n].first = b.first /\ batch'[n].last = b.last
      /\ batch'[n].base = b.base /\ batch'[n].lowest = b.lowest
      /\ batch'[n].conflicts = b.conflicts
  <2> HIDE DEF b
  <2> QED BY <1>2, <1>3 DEF BatchRecord
<1>5. Applied(n)' = cursor[n] /\ Applied(n) = cursor[n]
  BY <1>1, <1>4 DEF Applied
<1> QED BY <1>1, <1>2, <1>3, <1>4, <1>5

\* clearOldEntries adds nothing.
LEMMA ClearBatchSound ==
  ASSUME TypeInv, TypeInv', SoundInv, NEW n \in Replica, ClearBatch(n)
  PROVE  SoundInv'
<1> DEFINE b == batch[n]
<1>1. /\ b.pc = "clear" /\ b.lowest \in Nat
      /\ UNCHANGED <<log, ref, db, cursor, txn, verdict>>
      /\ modified'[n] = clearOldEntries(modified[n], b.lowest)
      /\ \A m \in Replica : m # n => modified'[m] = modified[m] /\ batch'[m] = batch[m]
      /\ batch'[n].pc = "publish" /\ batch'[n].first = b.first
      /\ batch'[n].conflicts = b.conflicts
      /\ Applied(n)' = cursor[n] /\ Applied(n) = cursor[n]
      /\ cursor[n] \in Nat /\ cursor[n] <= Len(log)
  BY ClearBatchFields
<1>2. Exact(n)
  BY DEF SoundInv
<1>3. \A i \in Index : \A k \in modified'[n][i] :
         i \in 1 .. Applied(n) /\ ref[i].ok /\ k \in KeysOf(log[i].writes)
  <2>1. Applied(n)' = Applied(n) /\ Applied(n) <= Len(log)
    BY <1>1
  <2> HIDE DEF b
  <2> QED BY <1>1, <1>2, <2>1, ClearedFacts
<1>4. Exact(n)'
  <2>1. /\ db[n] = ref[cursor[n]].store
        /\ b.conflicts = {i \in b.first .. cursor[n] : ~ref[i].ok}
    BY <1>1, <1>2 DEF Exact
  <2> HIDE DEF b
  <2> QED BY <1>1, <1>3, <2>1 DEF Exact
<1>5. cursor[n] <= cursor'[n]
  BY <1>1
<1> QED BY <1>1, <1>4, <1>5, ReplicaSound

\* What the end of Rollback leaves.
LEMMA RollbackClearsFields ==
  ASSUME TypeInv, PositionInv, NEW t \in Txn, RollbackClears(t)
  PROVE  LET low == Capped(txn[t].lowest)
         IN  /\ txn[t].pc = "clearing" /\ DoneTxn.pc = "done" /\ low \in Nat
             /\ low <= txn[t].lowest /\ low <= dispatched
             /\ UNCHANGED <<raftVars, db, cursor, latestIndex, batch, snapshot, verdict, writer,
                            ref>>
             /\ UNCHANGED <<log, dispatched>>
             /\ \A u \in Txn : txn'[u] = IF u = t THEN DoneTxn ELSE txn[u]
             /\ modified'[Leader] = clearOldEntries(modified[Leader], low)
             /\ \A m \in Replica : m # Leader => modified'[m] = modified[m]
             /\ Applied(Leader)' = Applied(Leader) /\ Applied(Leader) <= Len(log)
             /\ cursor[Leader] \in Nat
<1>1. /\ txn[t].pc = "clearing" /\ txn' = [txn EXCEPT ![t] = DoneTxn]
      /\ UNCHANGED <<raftVars, db, cursor, latestIndex, batch, snapshot, verdict, writer, ref>>
      /\ UNCHANGED <<log, dispatched>>
  BY DEF RollbackClears, Finished, snapshotVars, raftVars
<1>2. DoneTxn.pc = "done"
  BY DEF DoneTxn, NewTxn
<1>3. \A u \in Txn : txn'[u] = IF u = t THEN DoneTxn ELSE txn[u]
  BY <1>1 DEF TypeInv, CodeTypeOK
<1>4. /\ modified'[Leader] = clearOldEntries(modified[Leader], Capped(txn[t].lowest))
      /\ \A m \in Replica : m # Leader => modified'[m] = modified[m]
  BY ReplicaAssumption DEF RollbackClears, TypeInv, CodeTypeOK
<1>5. /\ Capped(txn[t].lowest) \in Nat /\ Capped(txn[t].lowest) <= txn[t].lowest
      /\ Capped(txn[t].lowest) <= dispatched
  <2>1. txn[t] \in TxnRecord
    BY Numbers
  <2> QED BY <2>1, CappedType, IndexType DEF TxnRecord
<1>6. Applied(Leader)' = Applied(Leader)
  BY <1>1 DEF Applied
<1>7. Applied(Leader) <= Len(log) /\ cursor[Leader] \in Nat
  BY AppliedType, Numbers, ReplicaAssumption
<1> QED BY <1>1, <1>2, <1>3, <1>4, <1>5, <1>6, <1>7

\* Rollback clears the leader's tracker.
LEMMA RollbackClearsSound ==
  ASSUME TypeInv, TypeInv', PositionInv, SoundInv, NEW t \in Txn, RollbackClears(t)
  PROVE  SoundInv'
<1> DEFINE low == Capped(txn[t].lowest)
<1>1. /\ DoneTxn.pc = "done" /\ low \in Nat
      /\ UNCHANGED <<log, ref, db, cursor, batch, verdict>>
      /\ \A u \in Txn : txn'[u] = IF u = t THEN DoneTxn ELSE txn[u]
      /\ modified'[Leader] = clearOldEntries(modified[Leader], low)
      /\ \A m \in Replica : m # Leader => modified'[m] = modified[m]
      /\ Applied(Leader)' = Applied(Leader) /\ Applied(Leader) <= Len(log)
      /\ cursor[Leader] \in Nat
  BY RollbackClearsFields
<1> HIDE DEF low
<1>2. Leader \in Replica /\ Exact(Leader)
  BY ReplicaAssumption DEF SoundInv
<1>3. \A i \in Index : \A k \in modified'[Leader][i] :
         i \in 1 .. Applied(Leader) /\ ref[i].ok /\ k \in KeysOf(log[i].writes)
  BY <1>1, <1>2, ClearedFacts
<1>4. Exact(Leader)'
  BY <1>1, <1>2, <1>3 DEF Exact
<1>5. /\ cursor[Leader] <= cursor'[Leader]
      /\ \A u \in Txn : txn'[u].pc \in {"opened", "active", "committing"} => txn'[u] = txn[u]
  BY <1>1
<1> QED BY <1>1, <1>2, <1>4, <1>5, ReplicaSound

\* A restart that does not put the replica back: its bucket is what it was, its
\* tracker is empty, and the calls that the leader had open are gone.
LEMMA RestartSound ==
  ASSUME TypeInv, TypeInv', StoredInv, SoundInv, NEW n \in Replica, Restart(n),
         cursor[n] <= cursor'[n]
  PROVE  SoundInv'
<1>1. /\ UNCHANGED <<log, ref, db, verdict>> /\ cursor'[n] = stored[n]
      /\ batch'[n] = NoBatch /\ \A i \in Index : modified'[n][i] = {}
      /\ \A m \in Replica : m # n =>
            cursor'[m] = cursor[m] /\ modified'[m] = modified[m] /\ batch'[m] = batch[m]
  BY DEF Restart, NewFSM, TypeInv, CodeTypeOK
<1>2. cursor'[n] = cursor[n]
  <2>1. stored[n] <= cursor[n] /\ stored[n] \in Nat /\ cursor[n] \in Nat
    BY IndexType DEF StoredInv, TypeInv, CodeTypeOK
  <2> QED BY <1>1, <2>1
<1>3. batch'[n].pc = "idle"
  BY <1>1 DEF NoBatch
<1>4. Exact(n)'
  BY <1>1, <1>2, <1>3 DEF SoundInv, Exact
<1>5. \A u \in Txn : txn'[u].pc \in {"opened", "active", "committing"} => txn'[u] = txn[u]
  <2>1. DoneTxn.pc = "done"
    BY DEF DoneTxn, NewTxn
  <2> QED BY <2>1 DEF Restart
<1> QED BY <1>1, <1>4, <1>5, ReplicaSound

\* Every step keeps the first layer, as long as it puts no replica back.
LEMMA SoundStep ==
  ASSUME TypeInv, TypeInv', PositionInv, StoredInv, Relied, SoundInv, [Step]_codeVars,
         \A n \in Replica : cursor[n] <= cursor'[n]
  PROVE  SoundInv'
<1>0. \A u \in Txn : SnapshotOf(txn[u])
  BY DEF SoundInv, Snapshots
<1>1. ASSUME NEW t \in Txn, TxnStep(t) PROVE SoundInv'
  <2>1. CASE CommitApplyLog(t)
    BY <2>1, CommitApplyLogSound
  <2>2. CASE RollbackClears(t)
    BY <2>2, RollbackClearsSound
  <2>3. CASE ~CommitApplyLog(t) /\ ~RollbackClears(t)
    BY <1>1, <2>3, TxnSound DEF TxnStep
  <2> QED BY <2>1, <2>2, <2>3
<1>2. ASSUME NEW w \in Writer, WriterStep(w) PROVE SoundInv'
  <2>1. CASE WriteApplyLog(w)
    <3> DEFINE entry == PlainEntry(writer[w].key, writer[w].content, Capped(writer[w].lowest))
    <3>1. /\ writer[w].pc = "lowest" /\ Submit(entry)
          /\ UNCHANGED <<fsmVars, verdict>> /\ txn' = txn
      BY <2>1 DEF WriteApplyLog
    <3>2. entry \in Entry /\ Verifiable(entry) /\ Seen(entry)
      BY <3>1, PlainEntryFacts
    <3> HIDE DEF entry
    <3> QED BY <3>1, <3>2, SubmitSound
  <2>2. CASE ~WriteApplyLog(w)
    <3>1. UNCHANGED <<log, ref, db, cursor, modified, batch, verdict, txn>>
      BY <1>2, <2>2 DEF WriterStep, Write, WriteReturns, raftVars, fsmVars
    <3> QED BY <1>0, <3>1, HandleSound
  <2> QED BY <2>1, <2>2
<1>3. ASSUME NEW n \in Replica, ReplicaStep(n) PROVE SoundInv'
  <2>1. CASE TakeSnapshot(n) \/ WriteSnapshotMeta(n) \/ WitnessSnapshot(n)
    <3>1. UNCHANGED <<log, ref, db, cursor, modified, batch, verdict, txn>>
      BY <2>1 DEF TakeSnapshot, WriteSnapshotMeta, WitnessSnapshot, raftVars, fsmVars
    <3> QED BY <1>0, <3>1, HandleSound
  <2>2. CASE Restart(n)
    BY <2>2, RestartSound
  <2> QED BY <1>3, <2>1, <2>2, ApplyBatchSound, ApplyCommandSound, StoreBatchSound,
             ClearBatchSound, PublishBatchSound DEF ReplicaStep
<1>4. CASE ConfigurationChange
  <2>1. /\ Submit(ConfigEntry) /\ UNCHANGED <<fsmVars, verdict>> /\ txn' = txn
    BY <1>4 DEF ConfigurationChange
  <2> QED BY <2>1, ConfigEntryFacts, SubmitSound
<1>5. CASE Dispatch \/ UNCHANGED codeVars
  <2>1. UNCHANGED <<log, ref, db, cursor, modified, batch, verdict, txn>>
    BY <1>5 DEF Dispatch, codeVars, raftVars, fsmVars
  <2> QED BY <1>0, <2>1, HandleSound
<1> QED BY <1>1, <1>2, <1>3, <1>4, <1>5 DEF Step

-------------------------------------------------------------------------------
(* The second layer: what is cleared is no longer needed.                   *)

\* A lowestActiveIndex that is held in a window is up to date: no other open
\* write transaction started before it.
LowestHeld ==
  /\ \A t, u \in Txn :
        txn[t].pc \in {"committing", "clearing"} /\ u # t /\ TrackedRecord(txn[u])
           => txn[t].lowest <= txn[u].index
  /\ \A w \in Writer, u \in Txn :
        InWriterWindow(w) /\ TrackedRecord(txn[u]) => writer[w].lowest <= txn[u].index

\* The LowestActiveIndex of an entry is no later than the first index after the
\* start of a transaction that is open, or that comes after it in the log.
LogLowest ==
  \A i \in 1 .. Len(log) :
    /\ log[i].lowest <= dispatched
    /\ \A t \in Txn : Verifies(txn[t]) => log[i].lowest <= txn[t].index + 1
    /\ \A j \in (i + 1) .. Len(log) :
          log[j].kind = "txn" => log[i].lowest <= log[j].start + 1

\* A transaction in the log is tracked until the leader has applied it.
Pending ==
  \A j \in (cursor[Leader] + 1) .. Len(log) :
     log[j].kind = "txn" =>
        \E t \in Txn : /\ txn[t].pc = "waiting" /\ txn[t].writable
                       /\ txn[t].entry = j /\ txn[t].index = log[j].start

\* Without snapshots and restarts latestIndex is behind only while a batch ends.
Steady(n) ==
  /\ snapshot[n] = Infinite
  /\ batch[n].pc \in {"idle", "ops"} => latestIndex[n] = cursor[n]
  /\ batch[n].pc = "ops" => batch[n].base = cursor[n]
  /\ batch[n].pc \in {"clear", "publish"} => batch[n].base < batch[n].last

\* clearOldEntries is called with the index of an entry that is applied.
ClearsFor(n) ==
  batch[n].lowest = 0 \/ \E i \in 1 .. Applied(n) : batch[n].lowest = log[i].lowest

\* A replica's tracker has what an open transaction, one that begins now, and
\* one that the replica has yet to apply, need.
Covered(n) ==
  /\ Remembers(n, latestIndex[Leader])
  /\ \A t \in Txn : Verifies(txn[t]) => Remembers(n, txn[t].index)
  /\ \A j \in (cursor[n] + 1) .. Len(log) :
        log[j].kind = "txn" => Remembers(n, log[j].start)

\* The second layer.
CalmInv ==
  /\ Alone /\ LowestHeld /\ LogLowest /\ Pending /\ Lag
  /\ \A n \in Replica : Steady(n) /\ ClearsFor(n) /\ Covered(n)

\* A replica that is left alone, while handles and the leader's index change.
LEMMA SameCalm ==
  ASSUME NEW n \in Replica, Steady(n), ClearsFor(n), UNCHANGED <<log, ref>>,
         cursor'[n] = cursor[n], latestIndex'[n] = latestIndex[n],
         modified'[n] = modified[n], batch'[n] = batch[n], snapshot'[n] = snapshot[n]
  PROVE  /\ Steady(n)' /\ ClearsFor(n)'
         /\ \A i : Remembers(n, i)' <=> Remembers(n, i)
<1>1. Applied(n)' = Applied(n)
  BY DEF Applied
<1>2. Steady(n)'
  BY DEF Steady
<1>3. ClearsFor(n)'
  BY <1>1 DEF ClearsFor
<1>4. \A i : Remembers(n, i)' <=> Remembers(n, i)
  BY <1>1 DEF Remembers
<1> QED BY <1>2, <1>3, <1>4

\* One handle changes: what its new record must satisfy.
LEMMA HandleCalm ==
  ASSUME TypeInv, CalmInv, NEW t \in Txn, NEW x, txn' = [txn EXCEPT ![t] = x],
         UNCHANGED <<raftVars, fsmVars, snapshot, verdict, writer, ref>>,
         Alone', Answers,
         x.pc \in {"committing", "clearing"} =>
            \A u \in Txn : u # t /\ TrackedRecord(txn[u]) => x.lowest <= txn[u].index,
         TrackedRecord(x) => \/ InTxnWindow(txn[t])
                             \/ TrackedRecord(txn[t]) /\ x.index = txn[t].index,
         Verifies(x) => \/ x.index = latestIndex[Leader]
                        \/ Verifies(txn[t]) /\ x.index = txn[t].index,
         txn[t].pc = "waiting" => Answered(txn[t].entry)
  PROVE  CalmInv'
<1>0. /\ Alone /\ LowestHeld /\ LogLowest /\ Pending /\ Lag
      /\ \A n \in Replica : Steady(n) /\ ClearsFor(n) /\ Covered(n)
  BY DEF CalmInv
<1>1. \A u \in Txn : txn'[u] = IF u = t THEN x ELSE txn[u]
  BY DEF TypeInv, CodeTypeOK
<1>2. UNCHANGED <<log, dispatched, db, cursor, latestIndex, modified, batch, snapshot,
                  verdict, writer, ref>>
  BY DEF raftVars, fsmVars
<1>4. LowestHeld'
  <2>1. ASSUME NEW u \in Txn, NEW v \in Txn, txn'[u].pc \in {"committing", "clearing"},
               v # u, TrackedRecord(txn'[v])
        PROVE  txn'[u].lowest <= txn'[v].index
    <3>1. CASE u = t
      BY <1>1, <2>1, <3>1
    <3>2. CASE u # t /\ v # t
      BY <1>0, <1>1, <2>1, <3>2 DEF LowestHeld
    <3>3. CASE u # t /\ v = t
      <4>1. ~InTxnWindow(txn[t])
        BY <1>0, <1>1, <2>1, <3>3 DEF Alone, InTxnWindow
      <4> QED BY <1>0, <1>1, <2>1, <3>3, <4>1 DEF LowestHeld
    <3> QED BY <3>1, <3>2, <3>3
  <2>2. ASSUME NEW w \in Writer, NEW v \in Txn, InWriterWindow(w), TrackedRecord(txn'[v])
        PROVE  writer[w].lowest <= txn'[v].index
    <3>1. ~InTxnWindow(txn[t])
      BY <1>0, <2>2 DEF Alone
    <3> QED BY <1>0, <1>1, <2>2, <3>1 DEF LowestHeld
  <2> QED BY <1>2, <2>1, <2>2 DEF LowestHeld, InWriterWindow, TrackedRecord
<1>7. LogLowest'
  <2>1. ASSUME NEW i \in 1 .. Len(log), NEW u \in Txn, Verifies(txn'[u])
        PROVE  log[i].lowest <= txn'[u].index + 1
    <3>1. log[i].lowest <= dispatched /\ dispatched <= latestIndex[Leader] + 1
      BY <1>0 DEF LogLowest, Lag
    <3>2. log[i].lowest <= latestIndex[Leader] + 1
      BY <3>1, Numbers
    <3> QED BY <1>0, <1>1, <2>1, <3>2 DEF LogLowest
  <2> QED BY <1>0, <1>2, <2>1 DEF LogLowest, Verifies
<1>8. Pending'
  <2>1. ASSUME NEW j \in (cursor[Leader] + 1) .. Len(log), log[j].kind = "txn"
        PROVE  \E u \in Txn : /\ txn'[u].pc = "waiting" /\ txn'[u].writable
                              /\ txn'[u].entry = j /\ txn'[u].index = log[j].start
    <3>1. PICK u \in Txn : /\ txn[u].pc = "waiting" /\ txn[u].writable
                           /\ txn[u].entry = j /\ txn[u].index = log[j].start
      BY <1>0, <2>1 DEF Pending
    <3>2. j \in Index /\ ~(j <= cursor[Leader])
      BY Numbers DEF Index
    <3>3. verdict[j] = "none"
      BY <3>2, Numbers DEF Answers
    <3>4. u # t
      BY <3>1, <3>3 DEF Answered
    <3> QED BY <1>1, <3>1, <3>4
  <2> QED BY <1>0, <1>2, <2>1 DEF Pending
<1>9. ASSUME NEW n \in Replica PROVE Steady(n)' /\ ClearsFor(n)' /\ Covered(n)'
  <2>1. Steady(n)' /\ ClearsFor(n)' /\ \A i : Remembers(n, i)' <=> Remembers(n, i)
    BY <1>0, <1>2, SameCalm
  <2>2. ASSUME NEW u \in Txn, Verifies(txn'[u]) PROVE Remembers(n, txn'[u].index)
    BY <1>0, <1>1, <2>2 DEF Covered
  <2>3. Covered(n)'
    <3>1. Remembers(n, latestIndex[Leader])'
      BY <1>0, <1>2, <2>1 DEF Covered
    <3>2. \A u \in Txn : Verifies(txn[u])' => Remembers(n, txn[u].index)'
      BY <2>1, <2>2 DEF Verifies
    <3>3. \A j \in (cursor[n] + 1) .. Len(log) : log[j].kind = "txn" => Remembers(n, log[j].start)'
      BY <1>0, <1>2, <2>1 DEF Covered
    <3> QED BY <1>2, <3>1, <3>2, <3>3 DEF Covered
  <2> QED BY <2>1, <2>3
<1>10. Lag'
  BY <1>0, <1>2 DEF Lag
<1> QED BY <1>4, <1>7, <1>8, <1>9, <1>10 DEF CalmInv

\* A writer enters its window or returns.
LEMMA WriterCalm ==
  ASSUME TypeInv, CalmInv, NEW w \in Writer, NEW x, writer' = [writer EXCEPT ![w] = x],
         UNCHANGED <<raftVars, fsmVars, snapshot, verdict, txn, ref>>,
         Alone',
         x.pc = "lowest" => \A u \in Txn : TrackedRecord(txn[u]) => x.lowest <= txn[u].index
  PROVE  CalmInv'
<1>0. /\ Alone /\ LowestHeld /\ LogLowest /\ Pending /\ Lag
      /\ \A n \in Replica : Steady(n) /\ ClearsFor(n) /\ Covered(n)
  BY DEF CalmInv
<1>1. \A v \in Writer : writer'[v] = IF v = w THEN x ELSE writer[v]
  BY DEF TypeInv, CodeTypeOK
<1>2. UNCHANGED <<log, dispatched, db, cursor, latestIndex, modified, batch, snapshot,
                  verdict, txn, ref>>
  BY DEF raftVars, fsmVars
<1>4. LowestHeld'
  <2>1. ASSUME NEW v \in Writer, NEW u \in Txn, writer'[v].pc = "lowest", TrackedRecord(txn[u])
        PROVE  writer'[v].lowest <= txn[u].index
    BY <1>0, <1>1, <2>1 DEF LowestHeld, InWriterWindow
  <2> QED BY <1>0, <1>2, <2>1 DEF LowestHeld, InWriterWindow, TrackedRecord
<1>5. Pending' /\ Lag'
  BY <1>0, <1>2 DEF Pending, Lag
<1>7. LogLowest'
  BY <1>0, <1>2 DEF LogLowest, Verifies
<1>8. ASSUME NEW n \in Replica PROVE Steady(n)' /\ ClearsFor(n)' /\ Covered(n)'
  <2>1. Steady(n)' /\ ClearsFor(n)' /\ \A i : Remembers(n, i)' <=> Remembers(n, i)
    BY <1>0, <1>2, SameCalm
  <2>2. Covered(n)'
    BY <1>0, <1>2, <2>1 DEF Covered, Verifies
  <2> QED BY <2>1, <2>2
<1> QED BY <1>4, <1>5, <1>7, <1>8 DEF CalmInv

\* What lowestActiveIndexAfterCommit and lowestActiveIndex return is no later
\* than the start of any other transaction, at the same index too: then
\* sourceIndexMap counts two.
LEMMA LowestOfOthers ==
  ASSUME TypeInv, CountInv, NEW t \in Txn, TrackedRecord(txn[t]),
         NEW lowest \in Index \cup {Infinite}, IsLowestAfterCommit(lowest, txn[t].index)
  PROVE  \A u \in Txn : u # t /\ TrackedRecord(txn[u]) => lowest <= txn[u].index
<1> SUFFICES ASSUME NEW u \in Txn, u # t, TrackedRecord(txn[u]) PROVE lowest <= txn[u].index
  OBVIOUS
<1> DEFINE i == txn[u].index
<1>1. i \in Index
  BY Numbers DEF TxnRecord
<1>2. source[i] = Cardinality(Open(i)) /\ IsFiniteSet(Open(i)) /\ Cardinality(Open(i)) \in Nat
  BY <1>1, OpenCount DEF CountInv
<1>3. u \in Open(i)
  BY DEF Open
<1>4. source[i] > 0
  <2>1. Cardinality(Open(i)) # 0
    BY <1>2, <1>3, FS_EmptySet
  <2> QED BY <1>2, <2>1
<1>5. i = txn[t].index => source[i] # 1
  <2> SUFFICES ASSUME i = txn[t].index PROVE Cardinality(Open(i)) # 1
    BY <1>2
  <2>1. t \in Open(i) /\ u \in Open(i) /\ u # t
    BY <1>3 DEF Open
  <2>2. Cardinality(Open(i) \ {u}) = Cardinality(Open(i)) - 1 /\ IsFiniteSet(Open(i) \ {u})
    BY <1>2, <2>1, FS_RemoveElement
  <2>3. Cardinality(Open(i) \ {u}) # 0
    BY <2>1, <2>2, FS_EmptySet
  <2> QED BY <1>2, <2>2, <2>3
<1>6. i \in ActiveIndices(txn[t].index)
  BY <1>1, <1>4, <1>5 DEF ActiveIndices
<1> QED BY <1>6 DEF IsLowestAfterCommit

\* The same when the caller has no transaction, or has completed it.
LEMMA LowestOfAll ==
  ASSUME TypeInv, CountInv, NEW lowest, IsLowest(lowest)
  PROVE  \A u \in Txn : TrackedRecord(txn[u]) => lowest <= txn[u].index
<1> SUFFICES ASSUME NEW u \in Txn, TrackedRecord(txn[u]) PROVE lowest <= txn[u].index
  OBVIOUS
<1> DEFINE i == txn[u].index
<1>1. i \in Index /\ i # Infinite
  BY Numbers, IndexType DEF TxnRecord
<1>2. source[i] = Cardinality(Open(i)) /\ IsFiniteSet(Open(i)) /\ Cardinality(Open(i)) \in Nat
  BY <1>1, OpenCount DEF CountInv
<1>3. u \in Open(i)
  BY DEF Open
<1>4. source[i] > 0
  <2>1. Cardinality(Open(i)) # 0
    BY <1>2, <1>3, FS_EmptySet
  <2> QED BY <1>2, <2>1
<1>5. i \in ActiveIndices(Infinite)
  BY <1>1, <1>4 DEF ActiveIndices
<1> QED BY <1>5 DEF IsLowest, IsLowestAfterCommit

\* LowestOfAll of the state after Rollback has completed its transaction.
LEMMA LowestOfRest ==
  ASSUME TypeInv', CountInv', NEW lowest, IsLowest(lowest)'
  PROVE  \A u \in Txn : TrackedRecord(txn'[u]) => lowest <= txn'[u].index
<1> SUFFICES ASSUME NEW u \in Txn, TrackedRecord(txn'[u]) PROVE lowest <= txn'[u].index
  OBVIOUS
<1>0. txn'[u].index \in Index
  BY DEF TypeInv, CodeTypeOK, TxnRecord
<1>1. PICK i \in Index : i = txn'[u].index /\ i # Infinite
  BY <1>0, IndexType
<1>2. /\ source'[i] = Cardinality(Open(i)')
      /\ IsFiniteSet(Open(i)') /\ Cardinality(Open(i)') \in Nat
  <2>1. source'[i] = Cardinality(Open(i)')
    BY <1>1, OpenCountPrime DEF CountInv
  <2>2. Open(i)' \subseteq Txn
    BY DEF Open
  <2> QED BY <2>1, <2>2, FiniteAssumption, FS_Subset, FS_CardinalityType
<1>3. u \in Open(i)'
  BY <1>1 DEF Open, TrackedRecord
<1>4. source'[i] > 0
  <2>1. Cardinality(Open(i)') # 0
    BY <1>2, <1>3, FS_EmptySet
  <2> QED BY <1>2, <2>1
<1>5. i \in ActiveIndices(Infinite)'
  BY <1>1, <1>4 DEF ActiveIndices
<1> QED BY <1>1, <1>5 DEF IsLowest, IsLowestAfterCommit

\* A finished handle needs nothing.
LEMMA FinishedCalm ==
  ASSUME TypeInv, Answers, CalmInv, Alone', NEW t \in Txn, txn' = Finished(t),
         txn[t].pc = "waiting" => Answered(txn[t].entry),
         UNCHANGED <<raftVars, fsmVars, snapshot, verdict, writer, ref>>
  PROVE  CalmInv'
<1>1. DoneTxn.pc = "done"
  BY DEF DoneTxn, NewTxn
<1>2. ~TrackedRecord(DoneTxn) /\ ~Verifies(DoneTxn)
      /\ DoneTxn.pc \notin {"committing", "clearing"}
  BY <1>1 DEF TrackedRecord, Verifies
<1> QED BY <1>2, HandleCalm DEF Finished

\* The steps of a handle that leave the log and the replicas alone.
LEMMA TxnCalm ==
  ASSUME TypeInv, TypeInv', CountInv, CountInv', Answers, CalmInv, Alone', NEW t \in Txn,
         \/ \E writable \in BOOLEAN : BeginTx(t, writable)
         \/ OpenSnapshot(t) \/ OpenSnapshotFails(t) \/ TrackTransaction(t)
         \/ \E k \in Key : Get(t, k)
         \/ \E k \in Key, content \in Content : Update(t, k, content)
         \/ \E q \in Query : List(t, q)
         \/ CommitUnwritten(t) \/ Commit(t) \/ CommitFails(t) \/ CommitReturns(t)
         \/ Rollback(t) \/ RollbackReadOnly(t)
  PROVE  CalmInv'
<1>0. txn[t] \in TxnRecord
  BY Numbers
<1>1. ASSUME NEW writable \in BOOLEAN, BeginTx(t, writable) PROVE CalmInv'
  <2> DEFINE x == [txn[t] EXCEPT !.pc = "begun", !.writable = writable, !.index = AppliedIndex]
  <2>1. x.pc = "begun" /\ x.index = latestIndex[Leader]
    BY <1>0 DEF TxnRecord, AppliedIndex
  <2>2. /\ txn[t].pc = "idle" /\ txn' = [txn EXCEPT ![t] = x]
        /\ UNCHANGED <<raftVars, fsmVars, snapshot, verdict, writer, ref>>
    BY <1>1 DEF BeginTx, snapshotVars
  <2> HIDE DEF x
  <2>3. ~TrackedRecord(x) /\ x.pc \notin {"committing", "clearing"}
    BY <2>1 DEF TrackedRecord
  <2> QED BY <2>1, <2>2, <2>3, HandleCalm
<1>2. CASE OpenSnapshot(t)
  <2> DEFINE x == [txn[t] EXCEPT !.pc = IF txn[t].writable THEN "opened" ELSE "active",
                                 !.snap = db[Leader], !.at = cursor[Leader]]
  <2>1. /\ x.pc = IF txn[t].writable THEN "opened" ELSE "active"
        /\ x.writable = txn[t].writable /\ x.index = txn[t].index
    BY <1>0 DEF TxnRecord
  <2>2. /\ txn[t].pc = "begun" /\ txn' = [txn EXCEPT ![t] = x]
        /\ UNCHANGED <<raftVars, fsmVars, snapshot, verdict, writer, ref>>
    BY <1>2 DEF OpenSnapshot, snapshotVars
  <2> HIDE DEF x
  <2>3. InTxnWindow(txn[t]) /\ ~TrackedRecord(x) /\ x.pc \notin {"committing", "clearing"}
    BY <2>1, <2>2 DEF InTxnWindow, TrackedRecord
  <2>5. Verifies(x) => Verifies(txn[t])
    BY <2>1, <2>2 DEF Verifies
  <2> QED BY <2>1, <2>2, <2>3, <2>5, HandleCalm
<1>3. CASE OpenSnapshotFails(t)
  <2> DEFINE x == [NewTxn EXCEPT !.pc = "leaked"]
  <2>1. x.pc = "leaked"
    BY DEF NewTxn
  <2>2. /\ txn[t].pc = "begun" /\ txn' = [txn EXCEPT ![t] = x]
        /\ UNCHANGED <<raftVars, fsmVars, snapshot, verdict, writer, ref>>
    BY <1>3 DEF OpenSnapshotFails, snapshotVars
  <2> HIDE DEF x
  <2>3. ~TrackedRecord(x) /\ ~Verifies(x) /\ x.pc \notin {"committing", "clearing"}
    BY <2>1 DEF TrackedRecord, Verifies
  <2> QED BY <2>1, <2>2, <2>3, HandleCalm
<1>4. CASE TrackTransaction(t)
  <2> DEFINE x == [txn[t] EXCEPT !.pc = "active"]
  <2>1. /\ x.pc = "active" /\ x.writable = txn[t].writable /\ x.index = txn[t].index
    BY <1>0 DEF TxnRecord
  <2>2. /\ txn[t].pc = "opened" /\ txn' = [txn EXCEPT ![t] = x]
        /\ UNCHANGED <<raftVars, fsmVars, snapshot, verdict, writer, ref>>
    BY <1>4 DEF TrackTransaction, snapshotVars
  <2> HIDE DEF x
  <2>3. InTxnWindow(txn[t]) /\ (Verifies(x) => Verifies(txn[t]))
    BY <2>1, <2>2 DEF InTxnWindow, Verifies
  <2> QED BY <2>1, <2>2, <2>3, HandleCalm
<1>5. ASSUME txn[t].pc = "active", NEW x, x.pc = "active", x.writable = txn[t].writable,
             x.index = txn[t].index,
             txn' = [txn EXCEPT ![t] = x],
             UNCHANGED <<raftVars, fsmVars, snapshot, verdict, writer, ref>>
      PROVE  CalmInv'
  <2>2. /\ Verifies(x) => Verifies(txn[t])
        /\ TrackedRecord(x) => TrackedRecord(txn[t])
    BY <1>5 DEF Verifies, TrackedRecord
  <2> QED BY <1>5, <2>2, HandleCalm
<1>6. ASSUME NEW k \in Key, Get(t, k) PROVE CalmInv'
  <2> DEFINE x == [txn[t] EXCEPT !.reads = txn[t].reads \cup {k}]
  <2>1. /\ x.pc = txn[t].pc /\ x.writable = txn[t].writable /\ x.index = txn[t].index
    BY <1>0 DEF TxnRecord
  <2>2. /\ txn[t].pc = "active" /\ txn' = [txn EXCEPT ![t] = x]
        /\ UNCHANGED <<raftVars, fsmVars, snapshot, verdict, writer, ref>>
    BY <1>6 DEF Get, snapshotVars
  <2> HIDE DEF x
  <2> QED BY <1>5, <2>1, <2>2
<1>7. ASSUME NEW k \in Key, NEW content \in Content, Update(t, k, content) PROVE CalmInv'
  <2> DEFINE updates == [txn[t].updates EXCEPT ![k] = content]
             reads == IF txn[t].updates[k] = Unset THEN txn[t].reads \cup {k} ELSE txn[t].reads
             x == [txn[t] EXCEPT !.updates = updates, !.reads = reads]
  <2>1. /\ x.pc = txn[t].pc /\ x.writable = txn[t].writable /\ x.index = txn[t].index
    BY <1>0 DEF TxnRecord
  <2>2. /\ txn[t].pc = "active" /\ txn' = [txn EXCEPT ![t] = x]
        /\ UNCHANGED <<raftVars, fsmVars, snapshot, verdict, writer, ref>>
    BY <1>7 DEF Update, snapshotVars
  <2> HIDE DEF x
  <2> QED BY <1>5, <2>1, <2>2
<1>8. ASSUME NEW q \in Query, List(t, q) PROVE CalmInv'
  <2> DEFINE x == [txn[t] EXCEPT !.lists = ListChecks(txn[t], q)]
  <2>1. /\ x.pc = txn[t].pc /\ x.writable = txn[t].writable /\ x.index = txn[t].index
    BY <1>0 DEF TxnRecord
  <2>2. /\ txn[t].pc = "active" /\ txn' = [txn EXCEPT ![t] = x]
        /\ UNCHANGED <<raftVars, fsmVars, snapshot, verdict, writer, ref>>
    BY <1>8 DEF List, snapshotVars
  <2> HIDE DEF x
  <2> QED BY <1>5, <2>1, <2>2
<1>9. CASE CommitUnwritten(t) \/ CommitFails(t) \/ CommitReturns(t) \/ RollbackReadOnly(t)
  <2>1. /\ txn' = Finished(t) /\ (txn[t].pc = "waiting" => Answered(txn[t].entry))
        /\ UNCHANGED <<raftVars, fsmVars, snapshot, verdict, writer, ref>>
    BY <1>9 DEF CommitUnwritten, CommitFails, CommitReturns, RollbackReadOnly, snapshotVars
  <2> QED BY <2>1, FinishedCalm
<1>10. CASE Commit(t)
  <2>1. PICK lowest \in Index \cup {Infinite} :
           /\ IsLowestAfterCommit(lowest, txn[t].index)
           /\ txn' = [txn EXCEPT ![t] = [@ EXCEPT !.pc = "committing", !.lowest = lowest]]
    BY <1>10 DEF Commit
  <2> DEFINE x == [txn[t] EXCEPT !.pc = "committing", !.lowest = lowest]
  <2>2. /\ x.pc = "committing" /\ x.writable = txn[t].writable /\ x.index = txn[t].index
        /\ x.lowest = lowest
    BY <1>0 DEF TxnRecord
  <2>3. /\ txn[t].pc = "active" /\ txn' = [txn EXCEPT ![t] = x]
        /\ UNCHANGED <<raftVars, fsmVars, snapshot, verdict, writer, ref>>
        /\ KeysOf(txn[t].updates) # {}
    BY <1>10, <2>1 DEF Commit, snapshotVars
  <2> HIDE DEF x
  <2>4. TrackedRecord(txn[t]) /\ Verifies(txn[t])
    BY <2>3 DEF CountInv, HandleOK, TrackedRecord, Verifies
  <2>5. \A u \in Txn : u # t /\ TrackedRecord(txn[u]) => x.lowest <= txn[u].index
    BY <2>1, <2>2, <2>4, LowestOfOthers
  <2> QED BY <2>2, <2>3, <2>4, <2>5, HandleCalm
<1>11. CASE Rollback(t)
  <2>1. PICK lowest \in Index \cup {Infinite} :
           /\ IsLowest(lowest)'
           /\ txn' = [txn EXCEPT ![t] = [@ EXCEPT !.pc = "clearing", !.lowest = lowest]]
    BY <1>11 DEF Rollback
  <2> DEFINE x == [txn[t] EXCEPT !.pc = "clearing", !.lowest = lowest]
  <2>2. x.pc = "clearing" /\ x.lowest = lowest
    BY <1>0 DEF TxnRecord
  <2>3. /\ txn[t].pc = "active" /\ txn' = [txn EXCEPT ![t] = x]
        /\ UNCHANGED <<raftVars, fsmVars, snapshot, verdict, writer, ref>>
    BY <1>11, <2>1 DEF Rollback, snapshotVars
  <2> HIDE DEF x
  <2>4. \A u \in Txn : u # t => txn'[u] = txn[u]
    BY <2>3
  <2>5. \A u \in Txn : u # t /\ TrackedRecord(txn[u]) => x.lowest <= txn[u].index
    BY <2>1, <2>2, <2>4, LowestOfRest
  <2>6. ~TrackedRecord(x) /\ ~Verifies(x)
    BY <2>2 DEF TrackedRecord, Verifies
  <2> QED BY <2>2, <2>3, <2>5, <2>6, HandleCalm
<1> QED BY <1>1, <1>2, <1>3, <1>4, <1>6, <1>7, <1>8, <1>9, <1>10, <1>11

\* The steps of a writer that leave the log alone.
LEMMA WriteCalm ==
  ASSUME TypeInv, CountInv, CalmInv, Alone', NEW w \in Writer,
         \/ \E k \in Key, content \in Content : Write(w, k, content)
         \/ WriteReturns(w)
  PROVE  CalmInv'
<1>1. ASSUME NEW k \in Key, NEW content \in Content, Write(w, k, content) PROVE CalmInv'
  <2>1. PICK lowest \in Index \cup {Infinite} :
           /\ IsLowest(lowest)
           /\ writer' = [writer EXCEPT ![w] = [pc |-> "lowest", key |-> k,
                           content |-> content, lowest |-> lowest, entry |-> 0]]
    BY <1>1 DEF Write
  <2>2. /\ \A u \in Txn : TrackedRecord(txn[u]) => lowest <= txn[u].index
        /\ UNCHANGED <<raftVars, fsmVars, snapshot, verdict, txn, ref>>
    BY <1>1, <2>1, LowestOfAll DEF Write, snapshotVars
  <2> QED BY <2>1, <2>2, WriterCalm
<1>2. CASE WriteReturns(w)
  BY <1>2, WriterCalm DEF WriteReturns, snapshotVars, IdleWriter
<1> QED BY <1>1, <1>2


\* An entry is appended: a replica that is left alone.
LEMMA SubmitReplica ==
  ASSUME TypeInv, PositionInv, NEW n \in Replica, Steady(n), ClearsFor(n),
         NEW entry \in Entry, Submit(entry), UNCHANGED <<fsmVars, snapshot>>
  PROVE  /\ Steady(n)' /\ ClearsFor(n)'
         /\ \A s \in Nat : Remembers(n, s)' <=> Remembers(n, s)
<1>1. /\ \A i \in 1 .. Len(log) : log'[i] = log[i]
      /\ \A i \in 0 .. Len(log) : ref'[i] = ref[i]
  BY Appended
<1>2. /\ cursor' = cursor /\ latestIndex' = latestIndex /\ modified' = modified
      /\ batch' = batch /\ snapshot' = snapshot /\ Applied(n)' = Applied(n)
  BY DEF fsmVars, Applied
<1>3. Applied(n) \in Nat /\ Applied(n) <= Len(log) /\ Len(log) \in Nat
  BY AppliedType, Numbers
<1>4. /\ \A i \in 1 .. Applied(n) : i \in 1 .. Len(log) /\ i \in 0 .. Len(log)
      /\ \A s \in Nat : \A i \in (s + 1) .. Applied(n) : i \in 1 .. Applied(n)
  BY <1>3
<1>5. Steady(n)'
  BY <1>2 DEF Steady
<1>6. ClearsFor(n)'
  BY <1>1, <1>2, <1>4 DEF ClearsFor
<1>7. \A s \in Nat : Remembers(n, s)' <=> Remembers(n, s)
  BY <1>1, <1>2, <1>4 DEF Remembers, KeysOf
<1> QED BY <1>5, <1>6, <1>7

\* An entry is appended: what it must satisfy.
LEMMA SubmitCalm ==
  ASSUME TypeInv, TypeInv', PositionInv, CalmInv, NEW entry \in Entry, Submit(entry),
         UNCHANGED <<dispatched, fsmVars, snapshot>>, Alone', LowestHeld',
         entry.lowest <= dispatched,
         \A u \in Txn : Verifies(txn'[u]) =>
            txn'[u] = txn[u] /\ entry.lowest <= txn[u].index + 1,
         \A u \in Txn : txn[u].pc = "waiting" => txn'[u] = txn[u],
         entry.kind = "txn" =>
            /\ \A i \in 1 .. Len(log) : log[i].lowest <= entry.start + 1
            /\ \A n \in Replica : Remembers(n, entry.start)
            /\ \E u \in Txn : /\ txn'[u].pc = "waiting" /\ txn'[u].writable
                              /\ txn'[u].entry = Len(log) + 1 /\ txn'[u].index = entry.start
  PROVE  CalmInv'
<1>0. /\ LogLowest /\ Pending /\ Lag
      /\ \A n \in Replica : Steady(n) /\ ClearsFor(n) /\ Covered(n)
  BY DEF CalmInv
<1>1. PICK last \in Nat : last = Len(log) + 1
  BY Numbers
<1>2. /\ Len(log') = last
      /\ \A i \in 1 .. Len(log) : log'[i] = log[i]
      /\ log'[last] = entry
      /\ last \in Index
  BY <1>1, Appended
<1>3. dispatched' = dispatched /\ cursor' = cursor /\ latestIndex' = latestIndex
  BY DEF fsmVars
<1>4. /\ Len(log) \in Nat /\ entry.start \in Nat /\ entry.lowest \in Nat
      /\ \A j \in 1 .. last : j \in 1 .. Len(log) \/ j = last
      /\ \A j \in 1 .. Len(log) : j \in 1 .. last /\ j < last
  <2>1. entry.start \in Nat /\ entry.lowest \in Nat
    BY IndexType DEF Entry
  <2>2. Len(log) \in Nat
    BY Numbers
  <2> QED BY <1>1, <2>1, <2>2
<1>7. LogLowest'
  <2>1. ASSUME NEW i \in 1 .. last
        PROVE  /\ log'[i].lowest <= dispatched
               /\ \A u \in Txn : Verifies(txn'[u]) => log'[i].lowest <= txn'[u].index + 1
    <3>1. CASE i \in 1 .. Len(log)
      BY <1>0, <1>2, <3>1 DEF LogLowest
    <3>2. CASE i = last
      BY <1>2, <3>2
    <3> QED BY <1>4, <3>1, <3>2
  <2>2. ASSUME NEW i \in 1 .. last, NEW j \in (i + 1) .. last, log'[j].kind = "txn"
        PROVE  log'[i].lowest <= log'[j].start + 1
    <3>1. i \in 1 .. Len(log) /\ log'[i] = log[i]
      BY <1>1, <1>2, <1>4
    <3>2. CASE j = last
      BY <1>2, <2>2, <3>1, <3>2
    <3>3. CASE j # last
      <4>1. j \in (i + 1) .. Len(log) /\ j \in 1 .. Len(log)
        BY <1>1, <1>4, <3>3
      <4> QED BY <1>0, <1>2, <2>2, <3>1, <4>1 DEF LogLowest
    <3> QED BY <3>2, <3>3
  <2> QED BY <1>2, <1>3, <2>1, <2>2 DEF LogLowest, Verifies
<1>8. Pending'
  <2>1. ASSUME NEW j \in (cursor[Leader] + 1) .. last, log'[j].kind = "txn"
        PROVE  \E u \in Txn : /\ txn'[u].pc = "waiting" /\ txn'[u].writable
                              /\ txn'[u].entry = j /\ txn'[u].index = log'[j].start
    <3>1. CASE j = last
      BY <1>1, <1>2, <2>1, <3>1
    <3>2. CASE j # last
      <4>1. j \in (cursor[Leader] + 1) .. Len(log) /\ j \in 1 .. Len(log)
        BY <1>1, <1>4, <3>2, Numbers
      <4> QED BY <1>0, <1>2, <2>1, <4>1 DEF Pending
    <3> QED BY <3>1, <3>2
  <2> QED BY <1>0, <1>2, <1>3, <2>1 DEF Pending
<1>9. ASSUME NEW n \in Replica PROVE Steady(n)' /\ ClearsFor(n)' /\ Covered(n)'
  <2>1. /\ Steady(n)' /\ ClearsFor(n)'
        /\ \A s \in Nat : Remembers(n, s)' <=> Remembers(n, s)
    BY <1>0, SubmitReplica
  <2>2. Remembers(n, latestIndex[Leader])'
    BY <1>0, <1>3, <2>1, Numbers DEF Covered
  <2>3. \A u \in Txn : Verifies(txn'[u]) => Remembers(n, txn[u].index)'
    <3>1. ASSUME NEW u \in Txn, Verifies(txn'[u]) PROVE Remembers(n, txn[u].index)'
      <4>1. txn'[u] = txn[u] /\ Verifies(txn[u]) /\ txn[u].index \in Nat
        BY <3>1, Numbers DEF Verifies
      <4>2. Remembers(n, txn[u].index)
        BY <1>0, <4>1 DEF Covered
      <4> QED BY <2>1, <4>1, <4>2
    <3> QED BY <3>1
  <2>4. ASSUME NEW j \in (cursor[n] + 1) .. last, log'[j].kind = "txn"
        PROVE  Remembers(n, log[j].start)'
    <3>1. CASE j = last
      BY <1>2, <1>4, <2>1, <2>4, <3>1
    <3>2. CASE j # last
      <4>1. j \in (cursor[n] + 1) .. Len(log) /\ j \in 1 .. Len(log) /\ log'[j] = log[j]
        BY <1>1, <1>2, <1>4, <3>2, Numbers
      <4>2. Remembers(n, log[j].start) /\ log[j].start \in Nat
        BY <1>0, <2>4, <4>1, Numbers DEF Covered
      <4> QED BY <2>1, <4>1, <4>2
    <3> QED BY <3>1, <3>2
  <2>5. Covered(n)'
    BY <1>2, <1>3, <2>2, <2>3, <2>4 DEF Covered, Verifies
  <2> QED BY <2>1, <2>5
<1>10. Lag'
  BY <1>0, <1>3 DEF Lag
<1> QED BY <1>7, <1>8, <1>9, <1>10 DEF CalmInv

\* While one stretch of code is in its window, the write transactions of the
\* others are active, so lowestActiveIndex has seen them.
LEMMA OthersActive ==
  ASSUME Alone, NEW u \in Txn, Verifies(txn[u]),
         \/ \E t \in Txn : InTxnWindow(txn[t]) /\ u # t
         \/ \E w \in Writer : InWriterWindow(w)
  PROVE  TrackedRecord(txn[u])
<1>1. ~InTxnWindow(txn[u])
  BY DEF Alone
<1> QED BY <1>1 DEF Verifies, InTxnWindow, TrackedRecord

\* Commit hands its entry to raft.
LEMMA CommitApplyLogCalm ==
  ASSUME TypeInv, TypeInv', PositionInv, CountInv, CalmInv, NEW t \in Txn, CommitApplyLog(t)
  PROVE  CalmInv'
<1> DEFINE x == [NewTxn EXCEPT !.pc = "waiting", !.writable = TRUE, !.index = txn[t].index,
                               !.entry = Len(log) + 1]
<1>0. Alone /\ LowestHeld /\ LogLowest /\ \A n \in Replica : Covered(n)
  BY DEF CalmInv
<1>1. /\ txn[t].pc = "committing" /\ Submit(TxnEntry(t)) /\ txn' = [txn EXCEPT ![t] = x]
      /\ UNCHANGED <<dispatched, fsmVars, snapshot, writer>>
  BY DEF CommitApplyLog, snapshotVars
<1>2. /\ x.pc = "waiting" /\ x.writable /\ x.index = txn[t].index /\ x.entry = Len(log) + 1
  BY DEF NewTxn
<1> HIDE DEF x
<1>3. \A u \in Txn : txn'[u] = IF u = t THEN x ELSE txn[u]
  BY <1>1 DEF TypeInv, CodeTypeOK
<1>4. txn[t].writable /\ Verifies(txn[t]) /\ InTxnWindow(txn[t])
  BY <1>1 DEF CountInv, HandleOK, Verifies, InTxnWindow
<1>5. /\ TxnEntry(t) \in Entry
      /\ TxnEntry(t).start = txn[t].index /\ TxnEntry(t).kind = "txn"
      /\ TxnEntry(t).lowest <= dispatched /\ TxnEntry(t).lowest <= txn[t].lowest
  BY TxnEntryFacts
<1>8. ASSUME NEW u \in Txn, Verifies(txn'[u])
      PROVE  txn'[u] = txn[u] /\ TxnEntry(t).lowest <= txn[u].index + 1
  <2>1. u # t /\ txn'[u] = txn[u]
    BY <1>2, <1>3, <1>8 DEF Verifies
  <2>2. TrackedRecord(txn[u])
    BY <1>0, <1>4, <1>8, <2>1, OthersActive
  <2>3. txn[t].lowest <= txn[u].index
    BY <1>0, <1>1, <2>1, <2>2 DEF LowestHeld
  <2>4. TxnEntry(t).lowest \in Nat
    BY <1>5, IndexType DEF Entry
  <2> QED BY <1>5, <2>1, <2>3, <2>4, Numbers
<1>9. /\ \A i \in 1 .. Len(log) : log[i].lowest <= txn[t].index + 1
      /\ \A n \in Replica : Remembers(n, txn[t].index)
  BY <1>0, <1>4 DEF LogLowest, Covered
<1>10. \A u \in Txn : txn[u].pc = "waiting" => txn'[u] = txn[u]
  BY <1>1, <1>3
<1>11. \E u \in Txn : /\ txn'[u].pc = "waiting" /\ txn'[u].writable
                      /\ txn'[u].entry = Len(log) + 1 /\ txn'[u].index = txn[t].index
  BY <1>2, <1>3
<1>13. /\ \A u \in Txn : ~InTxnWindow(txn'[u])
       /\ \A w \in Writer : writer'[w].pc # "lowest"
  <2>1. ASSUME NEW u \in Txn PROVE ~InTxnWindow(txn'[u])
    BY <1>0, <1>2, <1>3, <1>4 DEF Alone, InTxnWindow
  <2>2. ASSUME NEW w \in Writer PROVE writer'[w].pc # "lowest"
    BY <1>0, <1>1, <1>4 DEF Alone, InWriterWindow
  <2> QED BY <2>1, <2>2
<1>14. Alone' /\ LowestHeld'
  BY <1>13 DEF Alone, LowestHeld, InTxnWindow, InWriterWindow
<1> QED BY <1>1, <1>5, <1>8, <1>9, <1>10, <1>11, <1>14, SubmitCalm

\* A plain write is handed to raft.
LEMMA WriteApplyLogCalm ==
  ASSUME TypeInv, TypeInv', PositionInv, CalmInv, NEW w \in Writer, WriteApplyLog(w)
  PROVE  CalmInv'
<1> DEFINE x == writer[w]
           entry == PlainEntry(x.key, x.content, Capped(x.lowest))
<1>0. Alone /\ LowestHeld
  BY DEF CalmInv
<1>1. /\ x.pc = "lowest" /\ Submit(entry) /\ txn' = txn
      /\ UNCHANGED <<dispatched, fsmVars, snapshot>>
  BY DEF WriteApplyLog, snapshotVars
<1>2. /\ entry \in Entry /\ entry.kind = "write"
      /\ entry.lowest <= dispatched /\ entry.lowest <= x.lowest
  BY <1>1, PlainEntryFacts
<1>3. x.lowest \in Nat /\ entry.lowest \in Nat
  BY <1>2, Numbers, IndexType DEF Entry
<1>5. ASSUME NEW u \in Txn, Verifies(txn[u]) PROVE entry.lowest <= txn[u].index + 1
  <2>1. TrackedRecord(txn[u])
    BY <1>0, <1>1, <1>5, OthersActive DEF InWriterWindow
  <2>2. x.lowest <= txn[u].index
    BY <1>0, <1>1, <2>1 DEF LowestHeld, InWriterWindow
  <2> HIDE DEF x, entry
  <2> QED BY <1>2, <1>3, <2>2, Numbers
<1> HIDE DEF entry
<1>7. /\ \A u \in Txn : ~InTxnWindow(txn'[u])
      /\ \A v \in Writer : writer'[v].pc # "lowest"
  <2>1. ASSUME NEW u \in Txn PROVE ~InTxnWindow(txn'[u])
    BY <1>0, <1>1 DEF Alone, InTxnWindow, InWriterWindow
  <2>2. ASSUME NEW v \in Writer PROVE writer'[v].pc # "lowest"
    <3>1. CASE v = w
      BY <3>1 DEF WriteApplyLog, IdleWriter, TypeInv, CodeTypeOK
    <3>2. CASE v # w
      BY <1>0, <1>1, <3>2 DEF WriteApplyLog, TypeInv, CodeTypeOK, Alone, InWriterWindow
    <3> QED BY <3>1, <3>2
  <2> QED BY <2>1, <2>2
<1>8. Alone' /\ LowestHeld'
  BY <1>7 DEF Alone, LowestHeld, InTxnWindow, InWriterWindow
<1>9. \A u \in Txn : Verifies(txn'[u]) => txn'[u] = txn[u] /\ entry.lowest <= txn[u].index + 1
  BY <1>1, <1>5
<1> QED BY <1>1, <1>2, <1>8, <1>9, SubmitCalm

\* A membership change carries no index to clear up to.
LEMMA ConfigurationCalm ==
  ASSUME TypeInv, TypeInv', PositionInv, CalmInv, ConfigurationChange
  PROVE  CalmInv'
<1>1. /\ Submit(ConfigEntry) /\ txn' = txn /\ writer' = writer
      /\ UNCHANGED <<dispatched, fsmVars, snapshot>>
  BY DEF ConfigurationChange, snapshotVars
<1>2. ConfigEntry \in Entry /\ ConfigEntry.lowest = 0 /\ ConfigEntry.kind = "config"
  BY ConfigEntryFacts
<1>3. 0 <= dispatched /\ \A u \in Txn : 0 <= txn[u].index + 1
  BY Numbers
<1>4. Alone' /\ LowestHeld'
  BY <1>1 DEF CalmInv, Alone, LowestHeld, InTxnWindow, InWriterWindow, TrackedRecord
<1> QED BY <1>1, <1>2, <1>3, <1>4, SubmitCalm

-------------------------------------------------------------------------------
(* The second layer: steps of a replica.                                    *)

\* A step of one replica: what its new state must satisfy.  Entries of the
\* tracker before the index low may be gone.
LEMMA ReplicaCalm ==
  ASSUME TypeInv, TypeInv', CalmInv, NEW n \in Replica, NEW low \in Nat,
         UNCHANGED <<log, dispatched, ref>>, Alone', LowestHeld',
         \A m \in Replica : m # n =>
            /\ cursor'[m] = cursor[m] /\ latestIndex'[m] = latestIndex[m]
            /\ modified'[m] = modified[m] /\ batch'[m] = batch[m] /\ snapshot'[m] = snapshot[m],
         cursor[n] <= cursor'[n], latestIndex[n] <= latestIndex'[n],
         \A u \in Txn : Verifies(txn'[u]) \/ txn[u].pc = "waiting" => txn'[u] = txn[u],
         Steady(n)', ClearsFor(n)',
         \A s \in Nat : low <= s + 1 /\ Remembers(n, s) => Remembers(n, s)',
         low <= latestIndex[Leader] + 1,
         \A u \in Txn : Verifies(txn'[u]) => low <= txn[u].index + 1,
         \A j \in (cursor'[n] + 1) .. Len(log) :
            log[j].kind = "txn" => low <= log[j].start + 1
  PROVE  CalmInv'
<1>0. /\ LogLowest /\ Pending /\ Lag
      /\ \A m \in Replica : Steady(m) /\ ClearsFor(m) /\ Covered(m)
  BY DEF CalmInv
<1>2. /\ \A m \in Replica : cursor[m] <= cursor'[m] /\ latestIndex[m] <= latestIndex'[m]
      /\ \A m \in Replica : cursor'[m] \in Nat /\ latestIndex'[m] \in Nat
  <2>1. ASSUME NEW m \in Replica
        PROVE  cursor[m] <= cursor'[m] /\ latestIndex[m] <= latestIndex'[m]
    <3>1. cursor[m] \in Nat /\ latestIndex[m] \in Nat
      BY Numbers
    <3>2. CASE m = n
      BY <3>2
    <3>3. CASE m # n
      <4>1. cursor'[m] = cursor[m] /\ latestIndex'[m] = latestIndex[m]
        BY <3>3
      <4> QED BY <3>1, <4>1
    <3> QED BY <3>2, <3>3
  <2>2. ASSUME NEW m \in Replica PROVE cursor'[m] \in Nat /\ latestIndex'[m] \in Nat
    BY IndexType DEF TypeInv, CodeTypeOK
  <2> QED BY <2>1, <2>2
<1>4. LogLowest'
  <2>1. \A u \in Txn : Verifies(txn'[u]) => txn'[u] = txn[u] /\ Verifies(txn[u])
    BY DEF Verifies
  <2> QED BY <1>0, <2>1 DEF LogLowest, Verifies
<1>5. Pending'
  <2>1. ASSUME NEW j \in (cursor'[Leader] + 1) .. Len(log), log[j].kind = "txn"
        PROVE  \E u \in Txn : /\ txn'[u].pc = "waiting" /\ txn'[u].writable
                              /\ txn'[u].entry = j /\ txn'[u].index = log[j].start
    <3>0. /\ cursor[Leader] <= cursor'[Leader] /\ cursor[Leader] \in Nat
          /\ cursor'[Leader] \in Nat /\ Len(log) \in Nat
      BY <1>2, Numbers
    <3>1. j \in (cursor[Leader] + 1) .. Len(log)
      BY ONLY <3>0, j \in (cursor'[Leader] + 1) .. Len(log)
    <3> QED BY <1>0, <2>1, <3>1 DEF Pending
  <2> QED BY <2>1 DEF Pending
<1>6. ASSUME NEW m \in Replica PROVE Steady(m)' /\ ClearsFor(m)' /\ Covered(m)'
  <2>1. /\ Steady(m)' /\ ClearsFor(m)'
        /\ \A s \in Nat : (m = n => low <= s + 1) /\ Remembers(m, s) => Remembers(m, s)'
    <3>1. CASE m = n
      BY <3>1
    <3>2. CASE m # n
      BY <1>0, <3>2, SameCalm
    <3> QED BY <3>1, <3>2
  <2>2. Remembers(m, latestIndex'[Leader])
    BY <1>0, <1>2, Numbers, RemembersLater DEF Covered
  <2>3. ASSUME NEW s \in Nat, s = latestIndex'[Leader] PROVE Remembers(m, s)'
    <3>1. low <= s + 1
      BY <1>2, <2>3, Numbers
    <3> QED BY <2>1, <2>2, <2>3, <3>1
  <2>4. ASSUME NEW u \in Txn, Verifies(txn'[u]) PROVE Remembers(m, txn[u].index)'
    <3>1. txn'[u] = txn[u] /\ Verifies(txn[u]) /\ txn[u].index \in Nat
      BY <2>4, Numbers DEF Verifies
    <3>2. Remembers(m, txn[u].index) /\ low <= txn[u].index + 1
      BY <1>0, <2>4, <3>1 DEF Covered
    <3> QED BY <2>1, <3>1, <3>2
  <2>5. ASSUME NEW j \in (cursor'[m] + 1) .. Len(log), log[j].kind = "txn"
        PROVE  Remembers(m, log[j].start)'
    <3>0. /\ cursor[m] <= cursor'[m] /\ cursor[m] \in Nat
          /\ cursor'[m] \in Nat /\ Len(log) \in Nat
      BY <1>2, Numbers
    <3>1. j \in (cursor[m] + 1) .. Len(log) /\ j \in 1 .. Len(log)
      BY ONLY <3>0, j \in (cursor'[m] + 1) .. Len(log)
    <3>2. Remembers(m, log[j].start) /\ log[j].start \in Nat
      BY <1>0, <2>5, <3>1, Numbers DEF Covered
    <3>3. m = n => low <= log[j].start + 1
      BY <2>5
    <3> QED BY <2>1, <3>2, <3>3
  <2>6. Covered(m)'
    BY <1>2, <2>3, <2>4, <2>5, Numbers DEF Covered, Verifies
  <2> QED BY <2>1, <2>6
<1>7. Lag'
  BY <1>0, <1>2, Numbers DEF Lag
<1> QED BY <1>4, <1>5, <1>6, <1>7 DEF CalmInv

\* A step that leaves the handles and the writers alone.
LEMMA SameWindows ==
  ASSUME CalmInv, UNCHANGED <<txn, writer>>
  PROVE  Alone' /\ LowestHeld'
BY DEF CalmInv, Alone, LowestHeld, InTxnWindow, InWriterWindow, TrackedRecord

\* A step of one replica that clears nothing.
LEMMA UnclearedCalm ==
  ASSUME TypeInv, TypeInv', CalmInv, NEW n \in Replica,
         UNCHANGED <<log, dispatched, txn, writer, ref>>,
         \A m \in Replica : m # n =>
            /\ cursor'[m] = cursor[m] /\ latestIndex'[m] = latestIndex[m]
            /\ modified'[m] = modified[m] /\ batch'[m] = batch[m] /\ snapshot'[m] = snapshot[m],
         cursor[n] <= cursor'[n], latestIndex[n] <= latestIndex'[n],
         Steady(n)', ClearsFor(n)',
         \A s \in Nat : Remembers(n, s) => Remembers(n, s)'
  PROVE  CalmInv'
<1>1. cursor'[n] \in Nat
  BY IndexType DEF TypeInv, CodeTypeOK
<1>2. 0 \in Nat /\ 0 <= latestIndex[Leader] + 1
  BY Numbers
<1>3. \A u \in Txn : 0 <= txn[u].index + 1
  BY Numbers
<1>4. ASSUME NEW j \in (cursor'[n] + 1) .. Len(log) PROVE 0 <= log[j].start + 1
  <2>1. j \in 1 .. Len(log)
    BY <1>1, Numbers
  <2>2. log[j].start \in Nat
    BY <2>1, Numbers
  <2> QED BY <2>2
<1>5. Alone' /\ LowestHeld'
  BY SameWindows
<1> QED BY <1>2, <1>3, <1>4, <1>5, ReplicaCalm

\* What the lemmas on the actions of a replica start from.
LEMMA ReplicaFacts ==
  ASSUME TypeInv, PositionInv, CalmInv, NEW n \in Replica
  PROVE  /\ LogLowest /\ Lag /\ Steady(n) /\ ClearsFor(n) /\ Covered(n)
         /\ cursor[n] \in Nat /\ latestIndex[n] \in Nat /\ Len(log) \in Nat
         /\ Applied(n) \in Nat /\ Applied(n) <= Len(log)
<1>1. LogLowest /\ Lag /\ Steady(n) /\ ClearsFor(n) /\ Covered(n)
  BY DEF CalmInv
<1> QED BY <1>1, Numbers, AppliedType

\* ApplyBatch starts from the bucket.
LEMMA ApplyBatchCalm ==
  ASSUME TypeInv, TypeInv', PositionInv, CalmInv, NEW n \in Replica, ApplyBatch(n)
  PROVE  CalmInv'
<1>1. /\ batch[n].pc = "idle"
      /\ UNCHANGED <<log, dispatched, cursor, latestIndex, modified, snapshot, txn, writer, ref>>
      /\ batch'[n].pc = "ops" /\ batch'[n].base = latestIndex[n] /\ batch'[n].lowest = 0
      /\ \A m \in Replica : m # n => batch'[m] = batch[m]
      /\ Applied(n)' = cursor[n] /\ Applied(n) = cursor[n]
  BY ApplyBatchFields
<1>2. Steady(n) /\ cursor[n] \in Nat /\ latestIndex[n] \in Nat
  BY ReplicaFacts
<1>3. Steady(n)' /\ ClearsFor(n)'
  BY <1>1, <1>2 DEF Steady, ClearsFor
<1>4. \A s \in Nat : Remembers(n, s) => Remembers(n, s)'
  BY <1>1 DEF Remembers
<1>5. cursor[n] <= cursor'[n] /\ latestIndex[n] <= latestIndex'[n]
  BY <1>1, <1>2
<1> QED BY <1>1, <1>3, <1>4, <1>5, UnclearedCalm

\* One iteration of the loop over commands: what took effect is remembered.
LEMMA ApplyCommandCalm ==
  ASSUME TypeInv, TypeInv', PositionInv, Relied, SoundInv, CalmInv, NEW n \in Replica,
         ApplyCommand(n)
  PROVE  CalmInv'
<1> DEFINE b == batch[n]
           e == log[b.next]
           ok == Verified(modified[n], b, e)
<1>1. /\ b.pc = "ops" /\ b.next <= b.last
      /\ UNCHANGED <<log, dispatched, cursor, latestIndex, snapshot, txn, writer, ref>>
      /\ b.next \in 1 .. Len(log) /\ b.next \in Index /\ Applied(n) = b.next - 1
      /\ b.next \in Nat
      /\ batch'[n].pc = "ops" /\ batch'[n].base = b.base
      /\ batch'[n].lowest = IF e.kind = "config" THEN b.lowest ELSE e.lowest
      /\ \A m \in Replica : m # n => batch'[m] = batch[m] /\ modified'[m] = modified[m]
      /\ \A i \in Index : i # b.next => modified'[n][i] = modified[n][i]
      /\ modified'[n][b.next] = IF ok THEN KeysOf(e.writes) ELSE modified[n][b.next]
      /\ Applied(n)' = b.next
  BY ApplyCommandFields
<1>2. ok <=> ref[b.next].ok
  BY <1>1, VerifiedIsTrue
<1>3. Steady(n) /\ ClearsFor(n) /\ cursor[n] \in Nat /\ latestIndex[n] \in Nat /\ Len(log) \in Nat
  BY ReplicaFacts
<1>4. Steady(n)'
  BY <1>1, <1>3 DEF Steady
<1>5. ClearsFor(n)'
  <2>1. CASE e.kind = "config"
    <3>1. \A i \in 1 .. Applied(n) : i \in 1 .. b.next
      BY <1>1
    <3> QED BY <1>1, <1>3, <2>1, <3>1 DEF ClearsFor
  <2>2. CASE e.kind # "config"
    <3>1. b.next \in 1 .. b.next
      BY <1>1
    <3> QED BY <1>1, <2>2, <3>1 DEF ClearsFor
  <2> QED BY <2>1, <2>2
<1>6. ASSUME NEW s \in Nat, Remembers(n, s) PROVE Remembers(n, s)'
  <2>1. ASSUME NEW i \in (s + 1) .. b.next, ref[i].ok
        PROVE  KeysOf(log[i].writes) \subseteq modified'[n][i]
    <3>1. CASE i = b.next
      BY <1>1, <1>2, <2>1, <3>1
    <3>2. CASE i # b.next
      <4>1. i \in (s + 1) .. Applied(n) /\ i \in 1 .. Len(log)
        BY <1>1, <1>3, <3>2
      <4>2. i \in Index
        BY <4>1, Numbers
      <4> QED BY <1>1, <1>6, <2>1, <3>2, <4>1, <4>2 DEF Remembers
    <3> QED BY <3>1, <3>2
  <2> QED BY <1>1, <2>1 DEF Remembers, KeysOf
<1>7. cursor[n] <= cursor'[n] /\ latestIndex[n] <= latestIndex'[n]
  BY <1>1, <1>3
<1> QED BY <1>1, <1>4, <1>5, <1>6, <1>7, UnclearedCalm

\* bbolt commits the update.
LEMMA StoreBatchCalm ==
  ASSUME TypeInv, TypeInv', PositionInv, CalmInv, NEW n \in Replica, StoreBatch(n)
  PROVE  CalmInv'
<1> DEFINE b == batch[n]
<1>1. /\ b.pc = "ops"
      /\ UNCHANGED <<log, dispatched, latestIndex, modified, snapshot, txn, writer, ref>>
      /\ cursor[n] < b.last /\ b.last \in Nat /\ cursor'[n] = b.last
      /\ \A m \in Replica : m # n => cursor'[m] = cursor[m] /\ batch'[m] = batch[m]
      /\ batch'[n].pc = "clear" /\ batch'[n].last = b.last
      /\ batch'[n].base = b.base /\ batch'[n].lowest = b.lowest
      /\ Applied(n)' = b.last /\ Applied(n) = b.last
  BY StoreBatchFields
<1>2. Steady(n) /\ ClearsFor(n) /\ cursor[n] \in Nat /\ latestIndex[n] \in Nat
  BY ReplicaFacts
<1> HIDE DEF b
<1>3. Steady(n)'
  BY <1>1, <1>2 DEF Steady, b
<1>4. ClearsFor(n)'
  BY <1>1, <1>2 DEF ClearsFor, b
<1>5. \A s \in Nat : Remembers(n, s) => Remembers(n, s)'
  BY <1>1 DEF Remembers
<1>6. cursor[n] <= cursor'[n] /\ latestIndex[n] <= latestIndex'[n]
  BY <1>1, <1>2
<1> QED BY <1>1, <1>3, <1>4, <1>5, <1>6, UnclearedCalm

\* The index advances to the last entry of the batch.
LEMMA PublishBatchCalm ==
  ASSUME TypeInv, TypeInv', PositionInv, CalmInv, NEW n \in Replica, PublishBatch(n)
  PROVE  CalmInv'
<1>1. /\ batch[n].pc = "publish"
      /\ UNCHANGED <<log, dispatched, cursor, modified, snapshot, txn, writer, ref>>
      /\ latestIndex[n] <= cursor[n]
      /\ latestIndex'[n] = IF batch[n].base < batch[n].last THEN cursor[n] ELSE latestIndex[n]
      /\ batch'[n].pc = "idle" /\ batch'[n].lowest = 0
      /\ \A m \in Replica : m # n => latestIndex'[m] = latestIndex[m] /\ batch'[m] = batch[m]
      /\ Applied(n)' = cursor[n] /\ Applied(n) = cursor[n]
  BY PublishBatchFields
<1>2. Steady(n) /\ cursor[n] \in Nat /\ latestIndex[n] \in Nat
  BY ReplicaFacts
<1>3. latestIndex'[n] = cursor[n]
  BY <1>1, <1>2 DEF Steady
<1>4. Steady(n)' /\ ClearsFor(n)'
  BY <1>1, <1>2, <1>3 DEF Steady, ClearsFor
<1>5. \A s \in Nat : Remembers(n, s) => Remembers(n, s)'
  BY <1>1 DEF Remembers
<1>6. cursor[n] <= cursor'[n] /\ latestIndex[n] <= latestIndex'[n]
  BY <1>1, <1>2, <1>3
<1> QED BY <1>1, <1>4, <1>5, <1>6, UnclearedCalm

\* clearOldEntries at the end of a batch.
LEMMA ClearBatchCalm ==
  ASSUME TypeInv, TypeInv', PositionInv, SoundInv, CalmInv, NEW n \in Replica, ClearBatch(n)
  PROVE  CalmInv'
<1> DEFINE b == batch[n]
<1>1. /\ b.pc = "clear" /\ b.lowest \in Nat
      /\ UNCHANGED <<log, dispatched, cursor, latestIndex, snapshot, txn, writer, ref>>
      /\ modified'[n] = clearOldEntries(modified[n], b.lowest)
      /\ \A m \in Replica : m # n => modified'[m] = modified[m] /\ batch'[m] = batch[m]
      /\ batch'[n].pc = "publish" /\ batch'[n].last = b.last /\ batch'[n].base = b.base
      /\ batch'[n].lowest = b.lowest
      /\ Applied(n)' = cursor[n] /\ Applied(n) = cursor[n] /\ cursor[n] <= Len(log)
  BY ClearBatchFields
<1>2. /\ LogLowest /\ Lag /\ Steady(n) /\ ClearsFor(n)
      /\ cursor[n] \in Nat /\ latestIndex[n] \in Nat /\ Len(log) \in Nat
  BY ReplicaFacts
<1>3. \A s \in Nat : b.lowest <= s + 1 /\ Remembers(n, s) => Remembers(n, s)'
  BY <1>1, ClearedFacts DEF SoundInv
<1>4. Steady(n)' /\ ClearsFor(n)'
  BY <1>1, <1>2 DEF Steady, ClearsFor
<1>5. /\ b.lowest <= latestIndex[Leader] + 1
      /\ \A u \in Txn : Verifies(txn[u]) => b.lowest <= txn[u].index + 1
      /\ \A j \in (cursor[n] + 1) .. Len(log) :
            log[j].kind = "txn" => b.lowest <= log[j].start + 1
  <2>1. CASE b.lowest = 0
    <3>1. ASSUME NEW j \in (cursor[n] + 1) .. Len(log) PROVE 0 <= log[j].start + 1
      <4>1. j \in 1 .. Len(log)
        BY <1>2
      <4>2. log[j].start \in Nat
        BY <4>1, Numbers
      <4> QED BY <4>2
    <3>2. 0 <= latestIndex[Leader] + 1 /\ \A u \in Txn : 0 <= txn[u].index + 1
      BY Numbers
    <3> QED BY <2>1, <3>1, <3>2
  <2>2. CASE b.lowest # 0
    <3>1. PICK i \in 1 .. cursor[n] : b.lowest = log[i].lowest
      BY <1>1, <1>2, <2>2 DEF ClearsFor
    <3>2. i \in 1 .. Len(log)
      BY <1>1, <1>2
    <3>3. \A j \in (cursor[n] + 1) .. Len(log) : j \in (i + 1) .. Len(log)
      BY <1>2
    <3>4. log[i].lowest <= dispatched /\ log[i].lowest \in Nat /\ dispatched \in Nat
      BY <1>2, <3>2, Numbers DEF LogLowest
    <3>5. dispatched <= latestIndex[Leader] + 1 /\ latestIndex[Leader] \in Nat
      BY <1>2, Numbers DEF Lag
    <3>6. log[i].lowest <= latestIndex[Leader] + 1
      BY <3>4, <3>5
    <3> QED BY <1>2, <3>1, <3>2, <3>3, <3>6 DEF LogLowest
  <2> QED BY <2>1, <2>2
<1>6. cursor[n] <= cursor'[n] /\ latestIndex[n] <= latestIndex'[n]
  BY <1>1, <1>2
<1>7. Alone' /\ LowestHeld'
  BY <1>1, SameWindows
<1> HIDE DEF b
<1> QED BY <1>1, <1>3, <1>4, <1>5, <1>6, <1>7, ReplicaCalm

\* Rollback clears the leader's tracker, up to an index that it computed before.
LEMMA RollbackClearsCalm ==
  ASSUME TypeInv, TypeInv', PositionInv, SoundInv, CalmInv, NEW t \in Txn, RollbackClears(t)
  PROVE  CalmInv'
<1> DEFINE low == Capped(txn[t].lowest)
<1>0. Alone /\ LowestHeld /\ Pending
  BY DEF CalmInv
<1>1. /\ txn[t].pc = "clearing" /\ DoneTxn.pc = "done"
      /\ UNCHANGED <<log, dispatched, cursor, latestIndex, batch, snapshot, writer, ref>>
      /\ \A u \in Txn : txn'[u] = IF u = t THEN DoneTxn ELSE txn[u]
      /\ modified'[Leader] = clearOldEntries(modified[Leader], low)
      /\ \A m \in Replica : m # Leader => modified'[m] = modified[m]
      /\ low \in Nat /\ low <= txn[t].lowest /\ low <= dispatched
      /\ Applied(Leader)' = Applied(Leader) /\ Applied(Leader) <= Len(log)
  BY RollbackClearsFields
<1>2. /\ Leader \in Replica /\ Lag /\ Steady(Leader) /\ ClearsFor(Leader) /\ Exact(Leader)
      /\ cursor[Leader] \in Nat /\ latestIndex[Leader] \in Nat /\ Len(log) \in Nat
  BY ReplicaAssumption, ReplicaFacts DEF SoundInv
<1> HIDE DEF low
<1>3. \A s \in Nat : low <= s + 1 /\ Remembers(Leader, s) => Remembers(Leader, s)'
  BY <1>1, <1>2, ClearedFacts
<1>4. Steady(Leader)' /\ ClearsFor(Leader)'
  BY <1>1, <1>2 DEF Steady, ClearsFor
<1>5. low <= latestIndex[Leader] + 1
  <2>1. dispatched <= latestIndex[Leader] + 1 /\ dispatched \in Nat
    BY <1>2, Numbers DEF Lag
  <2> QED BY <1>1, <1>2, <2>1
<1>6. ASSUME NEW u \in Txn, u # t, TrackedRecord(txn[u]) PROVE low <= txn[u].index + 1
  <2>1. txn[t].lowest <= txn[u].index
    BY <1>0, <1>1, <1>6 DEF LowestHeld
  <2>2. txn[t].lowest \in Nat /\ txn[u].index \in Nat
    BY Numbers
  <2> QED BY <1>1, <2>1, <2>2
<1>7. ASSUME NEW u \in Txn, Verifies(txn'[u]) PROVE txn'[u] = txn[u] /\ low <= txn[u].index + 1
  <2>1. u # t /\ txn'[u] = txn[u]
    BY <1>1, <1>7 DEF Verifies
  <2>2. TrackedRecord(txn[u])
    BY <1>0, <1>1, <1>7, <2>1, OthersActive DEF InTxnWindow
  <2> QED BY <1>6, <2>1, <2>2
<1>8. ASSUME NEW j \in (cursor'[Leader] + 1) .. Len(log), log[j].kind = "txn"
      PROVE  low <= log[j].start + 1
  <2>1. PICK u \in Txn : /\ txn[u].pc = "waiting" /\ txn[u].writable
                         /\ txn[u].entry = j /\ txn[u].index = log[j].start
    BY <1>0, <1>1, <1>8 DEF Pending
  <2>2. u # t /\ TrackedRecord(txn[u])
    BY <1>1, <2>1 DEF TrackedRecord
  <2> QED BY <1>6, <2>1, <2>2
<1>9. \A u \in Txn : Verifies(txn'[u]) \/ txn[u].pc = "waiting" => txn'[u] = txn[u]
  BY <1>1, <1>7
<1>10. cursor[Leader] <= cursor'[Leader] /\ latestIndex[Leader] <= latestIndex'[Leader]
  BY <1>1, <1>2
<1>11. /\ \A u \in Txn : ~InTxnWindow(txn'[u])
       /\ \A w \in Writer : writer'[w].pc # "lowest"
  <2>1. ASSUME NEW u \in Txn PROVE ~InTxnWindow(txn'[u])
    BY <1>0, <1>1 DEF Alone, InTxnWindow
  <2>2. ASSUME NEW w \in Writer PROVE writer'[w].pc # "lowest"
    BY <1>0, <1>1 DEF Alone, InTxnWindow, InWriterWindow
  <2> QED BY <2>1, <2>2
<1>12. Alone' /\ LowestHeld'
  BY <1>11 DEF Alone, LowestHeld, InTxnWindow, InWriterWindow
<1> QED BY <1>1, <1>2, <1>3, <1>4, <1>5, <1>7, <1>8, <1>9, <1>10, <1>12, ReplicaCalm

\* The library counts one entry as applied before the FSM has applied it.
LEMMA DispatchCalm ==
  ASSUME TypeInv, TypeInv', CalmInv, Lag', Dispatch
  PROVE  CalmInv'
<1>0. LogLowest /\ Pending /\ \A n \in Replica : Steady(n) /\ ClearsFor(n) /\ Covered(n)
  BY DEF CalmInv
<1>1. /\ UNCHANGED <<log, cursor, latestIndex, modified, batch, snapshot, txn, writer, ref>>
      /\ dispatched' = dispatched + 1
  BY DEF Dispatch, fsmVars, snapshotVars
<1>2. Alone' /\ LowestHeld'
  BY <1>1, SameWindows
<1>3. LogLowest'
  <2>1. ASSUME NEW i \in 1 .. Len(log) PROVE log[i].lowest <= dispatched'
    <3>1. log[i].lowest <= dispatched /\ log[i].lowest \in Nat /\ dispatched \in Nat
      BY <1>0, Numbers DEF LogLowest
    <3> QED BY <1>1, <3>1
  <2> QED BY <1>0, <1>1, <2>1 DEF LogLowest, Verifies
<1>4. Pending'
  BY <1>0, <1>1 DEF Pending
<1>5. ASSUME NEW n \in Replica PROVE Steady(n)' /\ ClearsFor(n)' /\ Covered(n)'
  <2>1. Steady(n)' /\ ClearsFor(n)' /\ \A i : Remembers(n, i)' <=> Remembers(n, i)
    BY <1>0, <1>1, SameCalm
  <2>2. Covered(n)'
    BY <1>0, <1>1, <2>1 DEF Covered, Verifies
  <2> QED BY <2>1, <2>2
<1> QED BY <1>2, <1>3, <1>4, <1>5 DEF CalmInv

-------------------------------------------------------------------------------
(* The whole system.                                                        *)

\* A new cluster satisfies both layers.
LEMMA InitAgrees == Init => SoundInv /\ CalmInv /\ StoredInv
<1> SUFFICES ASSUME Init PROVE SoundInv /\ CalmInv /\ StoredInv
  OBVIOUS
<1>1. /\ Len(log) = 0 /\ dispatched = 0
      /\ \A t \in Txn : txn[t].pc = "idle"
      /\ \A w \in Writer : writer[w].pc = "idle"
      /\ \A n \in Replica : /\ cursor[n] = 0 /\ latestIndex[n] = 0 /\ snapshot[n] = Infinite
                            /\ batch[n].pc = "idle" /\ batch[n].lowest = 0 /\ stored[n] = 0
                            /\ db[n] = Nothing /\ \A i \in Index : modified[n][i] = {}
      /\ \A i \in Index : verdict[i] = "none" /\ ref[i].store = Nothing
      /\ 0 \in Index /\ Leader \in Replica
  BY IndexType, ReplicaAssumption DEF Init, NewTxn, IdleWriter, NoBatch
<1>2. \A i : i \notin 1 .. 0
  OBVIOUS
<1>3. Alone /\ LowestHeld /\ Snapshots
  BY <1>1 DEF Alone, LowestHeld, Snapshots, SnapshotOf, InTxnWindow, InWriterWindow
<1>4. Judged /\ LogLowest
  BY <1>1, <1>2 DEF Judged, LogLowest
<1>5. Unwritten
  <2>1. \A i \in 0 .. 0 : i = 0
    OBVIOUS
  <2> QED BY <1>1, <2>1 DEF Unwritten
<1>6. Pending /\ Answers
  BY <1>1, <1>2 DEF Pending, Answers
<1>7. Lag /\ StoredInv
  BY <1>1 DEF Lag, StoredInv
<1>8. ASSUME NEW n \in Replica PROVE Steady(n) /\ Exact(n) /\ ClearsFor(n) /\ Covered(n)
  <2>1. Steady(n)
    BY <1>1 DEF Steady
  <2>2. Exact(n) /\ ClearsFor(n)
    BY <1>1 DEF Exact, ClearsFor
  <2>3. \A t \in Txn : ~Verifies(txn[t])
    BY <1>1 DEF Verifies
  <2>4. Remembers(n, 0)
    BY <1>1, <1>2 DEF Remembers, Applied
  <2> QED BY <1>1, <1>2, <2>1, <2>2, <2>3, <2>4 DEF Covered
<1> QED BY <1>3, <1>4, <1>5, <1>6, <1>7, <1>8 DEF SoundInv, CalmInv

\* What calm promises is what the first layer needs.
LEMMA CalmIsRelied == TypeInv /\ PositionInv /\ CalmInv => Relied
<1> SUFFICES ASSUME TypeInv, PositionInv, CalmInv PROVE Relied
  OBVIOUS
<1>1. ASSUME NEW n \in Replica
      PROVE  /\ BaseIsCursor(n)
             /\ \A t \in Txn : Verifies(txn[t]) => Remembers(n, txn[t].index)
  BY DEF CalmInv, Steady, BaseIsCursor, Covered
<1>2. ASSUME NEW n \in Replica, NEW j \in (Applied(n) + 1) .. Len(log), log[j].kind = "txn"
      PROVE  Remembers(n, log[j].start)
  <2>1. j \in (cursor[n] + 1) .. Len(log)
    BY AppliedType, Numbers
  <2> QED BY <1>2, <2>1 DEF CalmInv, Covered
<1> QED BY <1>1, <1>2 DEF Relied, TrackerCovers

\* Without a restart no step puts a replica back.
LEMMA CursorAdvances ==
  ASSUME TypeInv, PositionInv, NEW n \in Replica, StoreBatch(n), NEW m \in Replica
  PROVE  cursor[m] <= cursor'[m]
<1>1. /\ cursor[n] < batch[n].last /\ cursor'[n] = batch[n].last
      /\ m # n => cursor'[m] = cursor[m]
  BY StoreBatchFields
<1>2. cursor[m] \in Nat /\ cursor[n] \in Nat /\ batch[n].last \in Nat
  BY Numbers
<1>3. CASE m = n
  BY <1>1, <1>2, <1>3
<1>4. CASE m # n
  BY <1>1, <1>2, <1>4
<1> QED BY <1>3, <1>4

\* Every step keeps the second layer, as long as calm holds.
LEMMA CalmStep ==
  ASSUME TypeInv, TypeInv', PositionInv, CountInv, CountInv', Relied, SoundInv, CalmInv, Step,
         Alone', Lag', restarts' = 0, snapshots' = 0
  PROVE  CalmInv' /\ \A n \in Replica : cursor[n] <= cursor'[n]
<1>0. Answers /\ \A n \in Replica : cursor[n] \in Nat
  BY Numbers DEF SoundInv
<1>2. ASSUME NEW t \in Txn, TxnStep(t)
      PROVE  CalmInv' /\ \A n \in Replica : cursor[n] <= cursor'[n]
  <2>1. CASE CommitApplyLog(t)
    <3>1. CalmInv'
      BY <2>1, CommitApplyLogCalm
    <3>2. cursor' = cursor
      BY <2>1 DEF CommitApplyLog, fsmVars
    <3> QED BY <1>0, <3>1, <3>2
  <2>2. CASE RollbackClears(t)
    <3>1. CalmInv'
      BY <2>2, RollbackClearsCalm
    <3>2. cursor' = cursor
      BY <2>2 DEF RollbackClears
    <3> QED BY <1>0, <3>1, <3>2
  <2>3. CASE \/ \E writable \in BOOLEAN : BeginTx(t, writable)
             \/ OpenSnapshot(t) \/ OpenSnapshotFails(t) \/ TrackTransaction(t)
             \/ \E k \in Key : Get(t, k)
             \/ \E k \in Key, content \in Content : Update(t, k, content)
             \/ \E q \in Query : List(t, q)
             \/ CommitUnwritten(t) \/ Commit(t) \/ CommitFails(t) \/ CommitReturns(t)
             \/ Rollback(t) \/ RollbackReadOnly(t)
    <3>1. CalmInv'
      BY <1>0, <2>3, TxnCalm
    <3>2. cursor' = cursor
      BY <2>3 DEF BeginTx, OpenSnapshot, OpenSnapshotFails, TrackTransaction, Get, Update, List,
         CommitUnwritten, Commit, CommitFails, CommitReturns, Rollback, RollbackReadOnly, fsmVars
    <3> QED BY <1>0, <3>1, <3>2
  <2> QED BY <1>2, <2>1, <2>2, <2>3 DEF TxnStep
<1>3. ASSUME NEW w \in Writer, WriterStep(w)
      PROVE  CalmInv' /\ \A n \in Replica : cursor[n] <= cursor'[n]
  <2>1. CalmInv'
    BY <1>3, WriteCalm, WriteApplyLogCalm DEF WriterStep
  <2>2. cursor' = cursor
    BY <1>3 DEF WriterStep, Write, WriteApplyLog, WriteReturns, fsmVars
  <2> QED BY <1>0, <2>1, <2>2
<1>4. ASSUME NEW n \in Replica, ReplicaStep(n)
      PROVE  CalmInv' /\ \A m \in Replica : cursor[m] <= cursor'[m]
  <2>1. snapshot[n] = Infinite /\ snapshots \in Nat /\ restarts \in Nat
    BY ReplicaFacts DEF Steady, TypeInv, CodeTypeOK
  <2>2. ~WriteSnapshotMeta(n) /\ ~WitnessSnapshot(n)
    BY <2>1 DEF WriteSnapshotMeta, WitnessSnapshot
  <2>3. ~TakeSnapshot(n) /\ ~Restart(n)
    <3>1. snapshots' # snapshots + 1 /\ restarts' # restarts + 1
      BY <2>1
    <3> QED BY <3>1 DEF TakeSnapshot, Restart
  <2>4. CASE StoreBatch(n)
    BY <2>4, StoreBatchCalm, CursorAdvances
  <2>5. CASE ApplyBatch(n) \/ ApplyCommand(n) \/ ClearBatch(n) \/ PublishBatch(n)
    <3>1. CalmInv'
      BY <2>5, ApplyBatchCalm, ApplyCommandCalm, ClearBatchCalm, PublishBatchCalm
    <3>2. cursor' = cursor
      BY <2>5 DEF ApplyBatch, ApplyCommand, ClearBatch, PublishBatch
    <3> QED BY <1>0, <3>1, <3>2
  <2> QED BY <1>4, <2>2, <2>3, <2>4, <2>5 DEF ReplicaStep
<1>5. CASE ConfigurationChange
  <2>1. CalmInv'
    BY <1>5, ConfigurationCalm
  <2>2. cursor' = cursor
    BY <1>5 DEF ConfigurationChange, fsmVars
  <2> QED BY <1>0, <2>1, <2>2
<1>6. CASE Dispatch
  <2>1. CalmInv'
    BY <1>6, DispatchCalm
  <2>2. cursor' = cursor
    BY <1>6 DEF Dispatch, fsmVars
  <2> QED BY <1>0, <2>1, <2>2
<1> QED BY <1>2, <1>3, <1>4, <1>5, <1>6 DEF Step

\* A step that changes nothing.
LEMMA StutterCalm == ASSUME TypeInv, TypeInv', CalmInv, UNCHANGED codeVars PROVE CalmInv'
<1>1. UNCHANGED <<log, dispatched, cursor, latestIndex, modified, batch, snapshot, txn, writer,
                  ref>>
  BY DEF codeVars, raftVars, fsmVars, snapshotVars
<1>2. /\ Leader \in Replica /\ Steady(Leader) /\ ClearsFor(Leader)
      /\ cursor[Leader] \in Nat /\ latestIndex[Leader] \in Nat
  BY Numbers, ReplicaAssumption DEF CalmInv
<1>3. /\ Steady(Leader)' /\ ClearsFor(Leader)'
      /\ \A i : Remembers(Leader, i)' <=> Remembers(Leader, i)
  BY <1>1, <1>2, SameCalm
<1>4. cursor[Leader] <= cursor'[Leader] /\ latestIndex[Leader] <= latestIndex'[Leader]
  BY <1>1, <1>2
<1> QED BY <1>1, <1>2, <1>3, <1>4, UnclearedCalm

LEMMA StutterRelied == ASSUME Relied, UNCHANGED codeVars PROVE Relied'
<1>1. UNCHANGED <<log, cursor, modified, batch, txn, ref>>
  BY DEF codeVars, raftVars, fsmVars
<1> QED BY <1>1 DEF Relied, TrackerCovers, BaseIsCursor, Remembers, Applied, Verifies

\* The inductive invariant: the first layer while intact holds, the second while
\* calm does, and then intact holds too.
WholeInv ==
  /\ TypeInv /\ PositionInv /\ CountInv /\ StoredInv
  /\ intact => Relied /\ SoundInv
  /\ calm => intact /\ CalmInv

\* It holds in every state.
LEMMA Agreement == Spec => []WholeInv
<1>1. Init => WholeInv
  BY InitTypeInv, InitPosition, InitCounts, InitAgrees, CalmIsRelied DEF WholeInv, Init
<1>2. WholeInv /\ [Next]_vars => WholeInv'
  <2>0. (TypeInv /\ PositionInv /\ CalmInv => Relied)'
    BY CalmIsRelied, PTL
  <2> SUFFICES ASSUME WholeInv, [Next]_vars PROVE WholeInv'
    OBVIOUS
  <2>1. TypeInv /\ PositionInv /\ CountInv /\ StoredInv /\ [Step]_codeVars
    BY StepOfNext DEF WholeInv
  <2>2. TypeInv'
    BY <2>1, TypeStep
  <2>3. PositionInv' /\ CountInv' /\ StoredInv'
    BY <2>1, <2>2, PositionStep, CountStep, StoredStep
  <2>4. CASE UNCHANGED vars
    <3>1. UNCHANGED codeVars /\ intact' = intact /\ calm' = calm
      BY <2>4 DEF vars
    <3>2. ASSUME intact PROVE Relied' /\ SoundInv'
      <4>1. Relied /\ SoundInv
        BY <3>2 DEF WholeInv
      <4>2. \A n \in Replica : cursor[n] <= cursor'[n]
        BY <2>1, <3>1, Numbers DEF codeVars, fsmVars
      <4> QED BY <2>1, <2>2, <3>1, <4>1, <4>2, StutterRelied, SoundStep
    <3>3. ASSUME calm PROVE intact /\ CalmInv'
      BY <2>1, <2>2, <3>1, <3>3, StutterCalm DEF WholeInv
    <3> QED BY <2>2, <2>3, <3>1, <3>2, <3>3 DEF WholeInv
  <2>5. CASE Next
    <3>1. Step /\ intact' = StaysIntact /\ calm' = StaysCalm
      BY <2>5 DEF Next
    <3>2. ASSUME intact' PROVE Relied' /\ SoundInv'
      <4>1. /\ intact /\ TrackerCovers'
            /\ \A n \in Replica : BaseIsCursor(n)' /\ cursor[n] <= cursor'[n]
        BY <3>1, <3>2 DEF StaysIntact
      <4>2. Relied /\ SoundInv
        BY <4>1 DEF WholeInv
      <4>3. Relied'
        BY <4>1 DEF Relied
      <4> QED BY <2>1, <2>2, <4>1, <4>2, <4>3, SoundStep
    <3>3. ASSUME calm' PROVE intact' /\ CalmInv'
      <4>1. calm /\ Alone' /\ Lag' /\ restarts' = 0 /\ snapshots' = 0
        BY <3>1, <3>3 DEF StaysCalm
      <4>2. intact /\ CalmInv /\ Relied /\ SoundInv
        BY <4>1 DEF WholeInv
      <4>3. CalmInv' /\ \A n \in Replica : cursor[n] <= cursor'[n]
        BY <2>1, <2>2, <2>3, <3>1, <4>1, <4>2, CalmStep
      <4>4. Relied'
        BY <2>0, <2>2, <2>3, <4>3
      <4>5. StaysIntact
        BY <4>2, <4>3, <4>4 DEF StaysIntact, Relied
      <4> QED BY <3>1, <4>3, <4>5
    <3> QED BY <2>2, <2>3, <3>2, <3>3 DEF WholeInv
  <2> QED BY <2>4, <2>5
<1> QED BY <1>1, <1>2, PTL DEF Spec

\* Whatever overlaps, fails, restarts or is snapshotted: the bucket of every
\* replica is what full verification of the log gives, until a tracker forgets
\* what a transaction needs or an index is put back.
THEOREM ReplicasAgree == Spec => []AgreesWhileIntact
<1>1. WholeInv => AgreesWhileIntact
  BY DEF WholeInv, SoundInv, Exact, AgreesWhileIntact, StateMachineSafety
<1> QED BY <1>1, Agreement, PTL

\* Commit is answered with success only if what it read is there, and with a
\* conflict only if something it read or listed has changed.
THEOREM CommitIsTruthful == Spec => []VerdictsAreTrue
<1>1. WholeInv => VerdictsAreTrue
  <2> SUFFICES ASSUME WholeInv, intact, NEW i \in 1 .. Len(log)
               PROVE  LET e         == log[i]
                          unchanged == \A k \in KeysOf(e.reads) : ReadHolds(ref[i - 1].store, e, k)
                          touched   == {c \in e.lists : Touched(e.start, i - 1, c.prefix)}
                      IN  /\ verdict[i] = "ok" =>
                                unchanged /\ \A c \in touched : ListHolds(ref[i - 1].store, c)
                          /\ verdict[i] = "conflict" => ~unchanged \/ touched # {}
    BY DEF VerdictsAreTrue
  <2>1. TypeInv /\ Judged /\ Answers
    BY DEF WholeInv, SoundInv
  <2>2. i \in Index
    BY <2>1, Numbers
  <2>3. ref[i].ok <=> PassesAt(i)
    BY <2>1 DEF Judged
  <2>4. /\ verdict[i] = "ok" => PassesAt(i)
        /\ verdict[i] = "conflict" => ~PassesAt(i)
    BY <2>1, <2>2, <2>3 DEF Answers
  <2> QED BY <2>4 DEF PassesAt
<1> QED BY <1>1, Agreement, PTL

\* clearOldEntries, with the index that the leader computes from sourceIndexMap,
\* forgets no modification that a transaction still needs, on any replica, until
\* one of the events that calm names.
THEOREM NothingNeededIsForgotten == Spec => []RemembersWhileCalm
<1>1. WholeInv => RemembersWhileCalm
  BY CalmIsRelied DEF WholeInv, Relied, RemembersWhileCalm
<1> QED BY <1>1, Agreement, PTL
===============================================================================
