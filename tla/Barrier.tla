------------------------------ MODULE Barrier ------------------------------
(***************************************************************************)
(* The keyring of the root barrier in a highly available cluster:          *)
(* internal/vault/barrier/aes_gcm.go and keyring.go, the rotations of      *)
(* rotate.go and the takeover of ha.go.                                    *)
(*                                                                         *)
(* The active node encrypts with the newest key of its keyring.  Rotate    *)
(* makes a new key: it writes the keyring (under the root key), then the   *)
(* root key (under the new key), and only then uses the new keyring; an    *)
(* upgrade entry (under the previous key) lets the standbys follow, for a  *)
(* grace period.  A node that becomes active follows the upgrades, reads   *)
(* the root key, reads the keyring, and shuts down when one of them fails. *)
(*                                                                         *)
(* Keys and root keys are numbered in the order they are generated; 0 is   *)
(* the key of a term that has none.  A write that fails may have landed.   *)
(* Storage is the one of raft: a node that is not active cannot write.     *)
(***************************************************************************)
EXTENDS Integers

CONSTANTS
  Node,         \* the nodes of the cluster
  MaxTerm,      \* bound: terms of the keyring
  MaxKeys,      \* bound: keys generated
  MaxRoots,     \* bound: root keys generated
  MaxFaults,    \* bound: rotations and saves cut short by a crash or an error
  MaxRestarts   \* bound: restarts of a node that is not in the middle of one

ASSUME BarrierAssumption ==
  /\ MaxTerm \in Nat \ {0} /\ MaxKeys \in Nat \ {0} /\ MaxRoots \in Nat \ {0}
  /\ MaxFaults \in Nat /\ MaxRestarts \in Nat

VARIABLES
  stored,     \* the root key that the seal stores (StoredBarrierKeysPath)
  disk,       \* the keyring at KeyringPath: its root key opens it
  rootEntry,  \* the entry at RootKeyPath: a root key under the key of a term
  upgrades,   \* the entries under KeyringUpgradePrefix
  entries,    \* the keys that the other entries in storage are under
  mode,       \* what the node is
  mem,        \* the keyring of the node's barrier
  op,         \* the persistKeyring in progress, which holds the barrier's lock
  rekey,      \* the root key that is stored and not yet the barrier's, or 0
  owed,       \* the terms whose CreateUpgrade is to come
  put,        \* the Put that has its key and is not yet in storage
  keys,       \* keys generated so far
  roots,      \* root keys generated so far
  faults,     \* rotations and saves cut short so far
  rootCut,    \* whether one of them was a rotation of the root key
  restarts    \* restarts so far

storage  == <<stored, disk, rootEntry, upgrades, entries>>
counters == <<keys, roots, faults, rootCut, restarts>>
vars == <<storage, mode, mem, op, rekey, owed, put, counters>>

Term == 1..MaxTerm
Keyring == [root : 1..MaxRoots, keys : [Term -> 0..MaxKeys], activeTerm : Term]
Ciphertext == [term : Term, key : 1..MaxKeys]

FirstKeyring ==
  [root |-> 1, keys |-> [t \in Term |-> IF t = 1 THEN 1 ELSE 0], activeTerm |-> 1]
Idle == [kind |-> "idle", step |-> "none", new |-> FirstKeyring]
NoPut == [term |-> 1, key |-> 0]

Kinds == {"idle", "rotate", "root", "save"}
Steps == {"none", "keyring", "rootkey", "legacy"}
Modes == {"sealed", "standby", "leading", "rooted", "active", "shutdown"}

-----------------------------------------------------------------------------

ActiveKey(kr) == [term |-> kr.activeTerm, key |-> kr.keys[kr.activeTerm]]

(* aeadForTerm and decrypt: the keyring has the key of the term, and it is *)
(* the one that the entry was written with.                                *)
Opens(kr, e) == kr.keys[e.term] = e.key

AddKey(kr, t, k) ==
  [root |-> kr.root,
   keys |-> [kr.keys EXCEPT ![t] = k],
   activeTerm |-> IF t > kr.activeTerm THEN t ELSE kr.activeTerm]
SetRootKey(kr, r) == [kr EXCEPT !.root = r]

(* The entry at the upgrade path of the keyring's active term.             *)
UpgradeOf(kr) == {u \in upgrades : u.from = kr.activeTerm}

Unlocked(n) == op[n] = Idle
Busy(n) == op[n] # Idle \/ owed[n] # {} \/ rekey[n] # 0
RootBusy(n) == op[n].kind = "root" \/ rekey[n] # 0
Leads(n) == mode[n] \in {"leading", "rooted", "active"}

-----------------------------------------------------------------------------

Init ==
  /\ stored = 1
  /\ disk = FirstKeyring
  /\ rootEntry = [root |-> 1, at |-> [term |-> 1, key |-> 1]]
  /\ upgrades = {}
  /\ entries = {}
  /\ mode = [n \in Node |-> "sealed"]
  /\ mem = [n \in Node |-> FirstKeyring]
  /\ op = [n \in Node |-> Idle]
  /\ rekey = [n \in Node |-> 0]
  /\ owed = [n \in Node |-> {}]
  /\ put = [n \in Node |-> NoPut]
  /\ keys = 1
  /\ roots = 1
  /\ faults = 0
  /\ rootCut = FALSE
  /\ restarts = 0

-----------------------------------------------------------------------------
(* Becoming active *)

(* Unseal with the stored root key; when it does not open the keyring the  *)
(* node stays sealed.                                                      *)
Unseal(n) ==
  /\ mode[n] = "sealed"
  /\ disk.root = stored
  /\ mem' = [mem EXCEPT ![n] = disk]
  /\ mode' = [mode EXCEPT ![n] = "standby"]
  /\ UNCHANGED <<storage, op, rekey, owed, put, counters>>

(* waitForLeadership has the lock.                                         *)
TakeLock(n) ==
  /\ mode[n] = "standby"
  /\ \A m \in Node : ~Leads(m)
  /\ mode' = [mode EXCEPT ![n] = "leading"]
  /\ UNCHANGED <<storage, mem, op, rekey, owed, put, counters>>

(* One iteration of checkKeyringUpgrade, in the periodic check of a        *)
(* standby, in its invalidation, or in performKeyUpgrades.                 *)
CheckUpgrade(n) ==
  /\ mode[n] \in {"standby", "leading"}
  /\ \E u \in UpgradeOf(mem[n]) :
       /\ Opens(mem[n], [term |-> u.from, key |-> u.under])
       /\ mem' = [mem EXCEPT ![n] = AddKey(mem[n], u.from + 1, u.key)]
  /\ UNCHANGED <<storage, mode, op, rekey, owed, put, counters>>

Shutdown(n) ==
  /\ mode' = [mode EXCEPT ![n] = "shutdown"]
  /\ UNCHANGED <<storage, mem, op, rekey, owed, put, counters>>

CheckUpgradeFails(n) ==
  /\ mode[n] = "leading"
  /\ \E u \in UpgradeOf(mem[n]) :
       ~Opens(mem[n], [term |-> u.from, key |-> u.under])
  /\ Shutdown(n)

(* Mutant of ReloadRootKey: the root key is not read again. *)
ReloadRootKeySkipped(n) ==
  /\ mode[n] = "leading"
  /\ UpgradeOf(mem[n]) = {}
  /\ mode' = [mode EXCEPT ![n] = "rooted"]
  /\ UNCHANGED <<storage, mem, op, rekey, owed, put, counters>>

ReloadRootKey(n) ==
  /\ mode[n] = "leading"
  /\ UpgradeOf(mem[n]) = {}
  /\ Opens(mem[n], rootEntry.at)
  /\ mem' = [mem EXCEPT ![n] = SetRootKey(mem[n], rootEntry.root)]
  /\ mode' = [mode EXCEPT ![n] = "rooted"]
  /\ UNCHANGED <<storage, op, rekey, owed, put, counters>>

ReloadRootKeyFails(n) ==
  /\ mode[n] = "leading"
  /\ UpgradeOf(mem[n]) = {}
  /\ ~Opens(mem[n], rootEntry.at)
  /\ Shutdown(n)

(* After ReloadKeyring the node is active.                                 *)
ReloadKeyring(n) ==
  /\ mode[n] = "rooted"
  /\ disk.root = mem[n].root
  /\ mem' = [mem EXCEPT ![n] = disk]
  /\ mode' = [mode EXCEPT ![n] = "active"]
  /\ UNCHANGED <<storage, op, rekey, owed, put, counters>>

ReloadKeyringFails(n) ==
  /\ mode[n] = "rooted"
  /\ disk.root # mem[n].root
  /\ Shutdown(n)

StepDown(n) ==
  /\ mode[n] = "active"
  /\ ~Busy(n)
  /\ put[n] = NoPut
  /\ mode' = [mode EXCEPT ![n] = "standby"]
  /\ UNCHANGED <<storage, mem, op, rekey, owed, put, counters>>

-----------------------------------------------------------------------------
(* What the active node writes *)

Begin(n, kind, new) ==
  op' = [op EXCEPT ![n] = [kind |-> kind, step |-> "keyring", new |-> new]]

(* Mutant of Rotate: the new key is used before it is stored. *)
RotateAtOnce(n) ==
  /\ mode[n] = "active"
  /\ Unlocked(n)
  /\ rekey[n] = 0
  /\ mem[n].activeTerm < MaxTerm
  /\ keys < MaxKeys
  /\ keys' = keys + 1
  /\ Begin(n, "rotate", AddKey(mem[n], mem[n].activeTerm + 1, keys + 1))
  /\ mem' = [mem EXCEPT ![n] = AddKey(mem[n], mem[n].activeTerm + 1, keys + 1)]
  /\ UNCHANGED <<storage, mode, rekey, owed, put, roots, faults, rootCut, restarts>>

(* RotateBarrierKey and Rotate: a new key for the next term.  The seal     *)
(* manager's lock keeps it apart from a rotation of the root key.          *)
Rotate(n) ==
  /\ mode[n] = "active"
  /\ Unlocked(n)
  /\ rekey[n] = 0
  /\ mem[n].activeTerm < MaxTerm
  /\ keys < MaxKeys
  /\ keys' = keys + 1
  /\ Begin(n, "rotate", AddKey(mem[n], mem[n].activeTerm + 1, keys + 1))
  /\ UNCHANGED <<storage, mode, mem, rekey, owed, put, roots, faults, rootCut, restarts>>

(* persistEncryptions and SetRotationConfig: the keyring is written again. *)
Save(n) ==
  /\ mode[n] = "active"
  /\ Unlocked(n)
  /\ Begin(n, "save", mem[n])
  /\ UNCHANGED <<storage, mode, mem, rekey, owed, put, counters>>

(* RotateBarrierRootKey: SetStoredKeys ...                                 *)
RootStores(n) ==
  /\ mode[n] = "active"
  /\ op[n].kind # "rotate"
  /\ owed[n] = {}
  /\ rekey[n] = 0
  /\ roots < MaxRoots
  /\ roots' = roots + 1
  /\ stored' = roots + 1
  /\ rekey' = [rekey EXCEPT ![n] = roots + 1]
  /\ UNCHANGED <<disk, rootEntry, upgrades, entries, mode, mem, op, owed, put, keys, faults, rootCut, restarts>>

(* ... and RotateRootKey.                                                  *)
RotateRootKey(n) ==
  /\ mode[n] = "active"
  /\ Unlocked(n)
  /\ rekey[n] # 0
  /\ Begin(n, "root", SetRootKey(mem[n], rekey[n]))
  /\ UNCHANGED <<storage, mode, mem, rekey, owed, put, counters>>

(* persistKeyring: the keyring, ...                                        *)
PutKeyring(n) ==
  /\ op[n].step = "keyring"
  /\ disk' = op[n].new
  /\ op' = [op EXCEPT ![n].step = "rootkey"]
  /\ UNCHANGED <<stored, rootEntry, upgrades, entries, mode, mem, rekey, owed, put, counters>>

(* ... the root key under the new active key, ...                          *)
PutRootKey(n) ==
  /\ op[n].step = "rootkey"
  /\ rootEntry' = [root |-> op[n].new.root, at |-> ActiveKey(op[n].new)]
  /\ op' = [op EXCEPT ![n].step = "legacy"]
  /\ UNCHANGED <<stored, disk, upgrades, entries, mode, mem, rekey, owed, put, counters>>

(* ... the legacy entry is deleted, and the keyring takes effect.          *)
SwapKeyring(n) ==
  /\ op[n].step = "legacy"
  /\ mem' = [mem EXCEPT ![n] = op[n].new]
  /\ rekey' = IF op[n].kind = "root" THEN [rekey EXCEPT ![n] = 0] ELSE rekey
  /\ owed' = IF op[n].kind = "rotate"
             THEN [owed EXCEPT ![n] = @ \cup {op[n].new.activeTerm}]
             ELSE owed
  /\ op' = [op EXCEPT ![n] = Idle]
  /\ UNCHANGED <<storage, mode, put, counters>>

(* Mutant of CreateUpgrade: one term too far. *)
CreateUpgradeOfNext(n) ==
  /\ Unlocked(n)
  /\ \E t \in owed[n] :
       /\ upgrades' = upgrades \cup {[from |-> t, under |-> mem[n].keys[t], key |-> mem[n].keys[IF t < MaxTerm THEN t + 1 ELSE t]]}
       /\ owed' = [owed EXCEPT ![n] = @ \ {t}]
  /\ UNCHANGED <<stored, disk, rootEntry, entries, mode, mem, op, rekey, put, counters>>

(* Mutant of CreateUpgrade: the entry holds the old key. *)
CreateUpgradeOfPrevious(n) ==
  /\ Unlocked(n)
  /\ \E t \in owed[n] :
       /\ upgrades' = upgrades \cup {[from |-> t - 1, under |-> mem[n].keys[t - 1], key |-> mem[n].keys[t - 1]]}
       /\ owed' = [owed EXCEPT ![n] = @ \ {t}]
  /\ UNCHANGED <<stored, disk, rootEntry, entries, mode, mem, op, rekey, put, counters>>

(* Mutant of CreateUpgrade: no entry is written. *)
CreateUpgradeForgotten(n) ==
  /\ Unlocked(n)
  /\ \E t \in owed[n] :
       /\ upgrades' = upgrades
       /\ owed' = [owed EXCEPT ![n] = @ \ {t}]
  /\ UNCHANGED <<stored, disk, rootEntry, entries, mode, mem, op, rekey, put, counters>>

(* CreateUpgrade: the key of the term under the one before it.             *)
CreateUpgrade(n) ==
  /\ Unlocked(n)
  /\ \E t \in owed[n] :
       /\ upgrades' = {u \in upgrades : u.from # t - 1}
                        \cup {[from |-> t - 1, under |-> mem[n].keys[t - 1], key |-> mem[n].keys[t]]}
       /\ owed' = [owed EXCEPT ![n] = @ \ {t}]
  /\ UNCHANGED <<stored, disk, rootEntry, entries, mode, mem, op, rekey, put, counters>>

(* The grace period is over: RotateBarrierKey starts it, and               *)
(* scheduleUpgradeCleanup for the upgrades that a new active node finds.   *)
(* It is twelve times the interval of the standbys' check: they have       *)
(* followed by then.                                                       *)
DestroyUpgrade(n) ==
  /\ mode[n] = "active"
  /\ \E u \in upgrades :
       /\ \A m \in Node : mode[m] = "standby" => mem[m].activeTerm > u.from
       /\ upgrades' = upgrades \ {u}
  /\ UNCHANGED <<stored, disk, rootEntry, entries, mode, mem, op, rekey, owed, put, counters>>

(* Put takes the active key under the lock and writes after it.            *)
PutBegins(n) ==
  /\ mode[n] = "active"
  /\ Unlocked(n)
  /\ put[n] = NoPut
  /\ put' = [put EXCEPT ![n] = ActiveKey(mem[n])]
  /\ UNCHANGED <<storage, mode, mem, op, rekey, owed, counters>>

PutLands(n) ==
  /\ put[n] # NoPut
  /\ entries' = entries \cup {put[n]}
  /\ put' = [put EXCEPT ![n] = NoPut]
  /\ UNCHANGED <<stored, disk, rootEntry, upgrades, mode, mem, op, rekey, owed, counters>>

PutFails(n) ==
  /\ put[n] # NoPut
  /\ put' = [put EXCEPT ![n] = NoPut]
  /\ UNCHANGED <<storage, mode, mem, op, rekey, owed, counters>>

-----------------------------------------------------------------------------
(* Faults *)

Fault(n) ==
  /\ faults < MaxFaults
  /\ faults' = faults + 1
  /\ rootCut' = (rootCut \/ RootBusy(n))

(* A write of persistKeyring, or the deletion after it, returns an error,  *)
(* and has landed or not: the node keeps the keyring it has.  The cause    *)
(* may be that it is no longer the leader.                                 *)
PersistFails(n) ==
  /\ op[n] # Idle
  /\ Fault(n)
  /\ disk' \in IF op[n].step = "keyring" THEN {disk, op[n].new} ELSE {disk}
  /\ rootEntry' \in IF op[n].step = "rootkey"
                    THEN {rootEntry, [root |-> op[n].new.root, at |-> ActiveKey(op[n].new)]}
                    ELSE {rootEntry}
  /\ op' = [op EXCEPT ![n] = Idle]
  /\ \/ /\ rekey' = IF op[n].kind = "root" THEN [rekey EXCEPT ![n] = 0] ELSE rekey
        /\ UNCHANGED <<mode, owed, put>>
     \/ /\ mode' = [mode EXCEPT ![n] = "standby"]
        /\ rekey' = [rekey EXCEPT ![n] = 0]
        /\ owed' = [owed EXCEPT ![n] = {}]
        /\ put' = [put EXCEPT ![n] = NoPut]
  /\ UNCHANGED <<stored, upgrades, entries, mem, keys, roots, restarts>>

(* The error of CreateUpgrade is only logged.                              *)
CreateUpgradeFails(n) ==
  /\ Fault(n)
  /\ \E t \in owed[n] :
       /\ owed' = [owed EXCEPT ![n] = @ \ {t}]
  /\ UNCHANGED <<storage, mode, mem, op, rekey, put, keys, roots, restarts>>

(* The process ends, and the memory of the barrier with it.                *)
Ends(n) ==
  /\ mode' = [mode EXCEPT ![n] = "sealed"]
  /\ mem' = [mem EXCEPT ![n] = FirstKeyring]
  /\ op' = [op EXCEPT ![n] = Idle]
  /\ rekey' = [rekey EXCEPT ![n] = 0]
  /\ owed' = [owed EXCEPT ![n] = {}]
  /\ put' = [put EXCEPT ![n] = NoPut]
  /\ UNCHANGED <<storage, keys, roots>>

Crash(n) ==
  /\ mode[n] \notin {"sealed", "shutdown"}
  /\ \/ /\ Busy(n)
        /\ Fault(n)
        /\ UNCHANGED restarts
     \/ /\ ~Busy(n)
        /\ restarts < MaxRestarts
        /\ restarts' = restarts + 1
        /\ UNCHANGED <<faults, rootCut>>
  /\ Ends(n)

(* The node that has shut down is started again.                           *)
Restart(n) ==
  /\ mode[n] = "shutdown"
  /\ Ends(n)
  /\ UNCHANGED <<faults, rootCut, restarts>>

-----------------------------------------------------------------------------

Follows(n) ==
  \/ CheckUpgrade(n) \/ CheckUpgradeFails(n)
  \/ ReloadRootKey(n) \/ ReloadRootKeyFails(n)
  \/ ReloadKeyring(n) \/ ReloadKeyringFails(n)

(* Mutant of Persists: the root key is written before the keyring. *)
PersistsRootKeyFirst(n) ==
  \/ /\ op[n].step = "keyring"
     /\ rootEntry' = [root |-> op[n].new.root, at |-> ActiveKey(op[n].new)]
     /\ op' = [op EXCEPT ![n].step = "rootkey"]
     /\ UNCHANGED <<stored, disk, upgrades, entries, mode, mem, rekey, owed, put, counters>>
  \/ /\ op[n].step = "rootkey"
     /\ disk' = op[n].new
     /\ op' = [op EXCEPT ![n].step = "legacy"]
     /\ UNCHANGED <<stored, rootEntry, upgrades, entries, mode, mem, rekey, owed, put, counters>>
  \/ SwapKeyring(n)

(* The steps of persistKeyring, in their order.                            *)
Persists(n) == PutKeyring(n) \/ PutRootKey(n) \/ SwapKeyring(n)

Next ==
  \E n \in Node :
    \/ Unseal(n) \/ TakeLock(n) \/ StepDown(n)
    \/ Follows(n)
    \/ Rotate(n) \/ Save(n) \/ RootStores(n) \/ RotateRootKey(n)
    \/ Persists(n) \/ CreateUpgrade(n) \/ DestroyUpgrade(n)
    \/ PutBegins(n) \/ PutLands(n) \/ PutFails(n)
    \/ PersistFails(n) \/ CreateUpgradeFails(n) \/ Crash(n) \/ Restart(n)

Spec == Init /\ [][Next]_vars

(* A node that can go on does: it is unsealed and started again, one of    *)
(* the standbys gets the lock, a call that has begun ends.  One that waits *)
(* for the barrier's lock gets it in its turn: Go's RWMutex is fair.       *)
FairSpec ==
  /\ Spec
  /\ WF_vars(\E n \in Node : TakeLock(n))
  /\ \A n \in Node :
       /\ WF_vars(Unseal(n))
       /\ WF_vars(Follows(n))
       /\ WF_vars(Restart(n))
       /\ WF_vars(Persists(n))
       /\ SF_vars(CreateUpgrade(n))

-----------------------------------------------------------------------------

TypeOK ==
  /\ stored \in 1..MaxRoots
  /\ disk \in Keyring
  /\ rootEntry \in [root : 1..MaxRoots, at : Ciphertext]
  /\ upgrades \subseteq [from : Term, under : 1..MaxKeys, key : 1..MaxKeys]
  /\ entries \subseteq Ciphertext
  /\ mode \in [Node -> Modes]
  /\ mem \in [Node -> Keyring]
  /\ op \in [Node -> [kind : Kinds, step : Steps, new : Keyring]]
  /\ rekey \in [Node -> 0..MaxRoots]
  /\ owed \in [Node -> SUBSET Term]
  /\ put \in [Node -> Ciphertext \cup {NoPut}]
  /\ keys \in 1..MaxKeys
  /\ roots \in 1..MaxRoots
  /\ faults \in 0..MaxFaults
  /\ rootCut \in BOOLEAN
  /\ restarts \in 0..MaxRestarts

(* "old values should still be decryptable" (Rotate): the keyring in       *)
(* storage and the one of the active node have the key of every entry      *)
(* that was ever written, whatever was cut short.                          *)
EntriesReadable ==
  \A e \in entries :
    /\ Opens(disk, e)
    /\ \A n \in Node : mode[n] = "active" => Opens(mem[n], e)

(* As long as no rotation was cut short, two nodes never have different    *)
(* keys for one term (AddKey: "conflicting key for term").                 *)
AgreeOnKeys ==
  faults = 0 =>
    \A m, n \in Node : \A t \in Term :
      LET a == mem[m].keys[t]
          b == mem[n].keys[t]
      IN  a # 0 /\ b # 0 => a = b

(* As long as no rotation was cut short, a standby that wins the election  *)
(* gets the keys and does not shut down, whatever was rotated meanwhile.   *)
TakeoverWorks ==
  \A n \in Node : mode[n] = "shutdown" => faults > 0

(* Some node is active again and again: no rotation or save that was cut   *)
(* short leaves a storage that no node can become active with, except for  *)
(* a rotation of the root key.                                             *)
SomeoneLeads == []<>(rootCut \/ \E n \in Node : mode[n] = "active")

(* A standby whose term is behind follows, unless a write has failed.      *)
StandbysFollow ==
  \A n \in Node :
    (mode[n] = "standby" /\ mem[n].activeTerm < disk.activeTerm)
      ~> (mem[n].activeTerm = disk.activeTerm \/ mode[n] # "standby" \/ faults > 0)

=============================================================================
