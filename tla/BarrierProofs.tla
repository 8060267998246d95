--------------------------- MODULE BarrierProofs ---------------------------
(***************************************************************************)
(* Proofs about Barrier, for any number of nodes, terms, keys, faults and  *)
(* restarts: its types; that no entry ever becomes unreadable; and, as     *)
(* long as no rotation is cut short, that the nodes agree on the keys and  *)
(* that a node which wins the election can take over.                      *)
(***************************************************************************)
EXTENDS Barrier, TLAPS

USE BarrierAssumption DEF BarrierAssumption

(* A keyring has the keys of the terms up to its active one and no other.  *)
Dense(kr) == \A t \in Term : kr.keys[t] # 0 <=> t <= kr.activeTerm

WellFormed == {kr \in Keyring : Dense(kr)}

(* The keyring a has all that b has.                                       *)
Covers(a, b) == \A t \in Term : b.keys[t] # 0 => a.keys[t] = b.keys[t]

Keyrings ==
  /\ disk \in WellFormed
  /\ \A n \in Node : mem[n] \in WellFormed /\ op[n].new \in WellFormed

(* An upgrade leads to a term that exists, and one that is owed to terms   *)
(* that the node has.                                                      *)
UpgradesInRange ==
  /\ \A u \in upgrades : u.from < MaxTerm
  /\ \A n \in Node : \A t \in owed[n] : 1 < t /\ t <= mem[n].activeTerm

(* What is being written has no lower term than what is in use.            *)
OpsGrow ==
  \A n \in Node : op[n] # Idle =>
    /\ mem[n].activeTerm <= op[n].new.activeTerm
    /\ op[n].kind = "rotate" => mem[n].activeTerm < op[n].new.activeTerm

Shape == TypeOK /\ Keyrings /\ UpgradesInRange

OneLeader == \A m, n \in Node : Leads(m) /\ Leads(n) => m = n

OnlyTheActiveWrites ==
  \A n \in Node :
    (op[n] # Idle \/ put[n] # NoPut \/ owed[n] # {}) => mode[n] = "active"

Roles == OneLeader /\ OnlyTheActiveWrites /\ OpsGrow

Inv1 == Shape /\ Roles

(* The keyring in storage has the active node's keys, and the one being    *)
(* written has them, too.                                                  *)
StorageCovers ==
  \A n \in Node : mode[n] = "active" =>
    /\ Covers(disk, mem[n])
    /\ op[n] # Idle => Covers(op[n].new, mem[n])
    /\ op[n].step \in {"rootkey", "legacy"} => disk = op[n].new

PutOpens ==
  \A n \in Node : put[n] # NoPut => Opens(mem[n], put[n])

Safe == StorageCovers /\ PutOpens /\ EntriesReadable

(* Two keyrings with the same keys; their root keys may differ.            *)
Matches(a, b) == a.keys = b.keys /\ a.activeTerm = b.activeTerm

(* The keyring in storage has the keys of every node.                      *)
Behind == Covers(disk, FirstKeyring) /\ \A n \in Node : Covers(disk, mem[n])

(* The active node has the keys in storage, except between persistKeyring's *)
(* write of the keyring and its end.                                       *)
UpToDate ==
  \A n \in Node : mode[n] = "active" /\ op[n].step \in {"none", "keyring"} => Matches(mem[n], disk)

(* What is being written is the keyring in use, with one more term in a    *)
(* rotation of the key.                                                    *)
OneTermMore ==
  \A n \in Node : op[n] # Idle =>
    /\ op[n].step \in {"keyring", "rootkey", "legacy"}
    /\ op[n].kind = "rotate" => op[n].new.activeTerm = mem[n].activeTerm + 1
    /\ op[n].kind # "rotate" => Matches(op[n].new, mem[n])

(* An upgrade leads from one key in storage to the next.                   *)
UpgradesTrue ==
  \A u \in upgrades :
    /\ u.from < disk.activeTerm
    /\ u.under = disk.keys[u.from]
    /\ u.key = disk.keys[u.from + 1]

(* The upgrade to the term is still to be created.                         *)
Due(t) ==
  \E m \in Node :
    \/ t \in owed[m]
    \/ /\ op[m].kind = "rotate" /\ op[m].step \in {"rootkey", "legacy"}
       /\ op[m].new.activeTerm = t

(* From the term of a node that is to follow, the upgrades lead to the     *)
(* term in storage, or will when the rotation in progress is over.         *)
Trail ==
  \A n \in Node : mode[n] \in {"standby", "leading"} =>
    \A t \in Term : mem[n].activeTerm <= t /\ t < disk.activeTerm =>
      (\E u \in upgrades : u.from = t) \/ Due(t + 1)

(* The root key in storage opens the keyring in storage, and is under one  *)
(* of its keys.                                                            *)
RootKnown ==
  /\ Opens(disk, rootEntry.at)
  /\ rootEntry.root = disk.root \/ \E m \in Node : op[m].step = "rootkey"
  /\ \A n \in Node : mode[n] = "rooted" => mem[n].root = disk.root

NoneShutDown == \A n \in Node : mode[n] # "shutdown"

(* What holds as long as nothing was cut short.                            *)
Smooth == Behind /\ UpToDate /\ OneTermMore /\ UpgradesTrue /\ Trail /\ RootKnown /\ NoneShutDown

-----------------------------------------------------------------------------
(* Keyrings *)

(* The keyring that Initialize makes, which is also the one of Idle.       *)
LEMMA FirstWellFormed ==
  /\ FirstKeyring \in WellFormed
  /\ Idle \in [kind : Kinds, step : Steps, new : Keyring]
  /\ Idle.new = FirstKeyring /\ Idle.step = "none" /\ Idle.kind = "idle"
  /\ FirstKeyring.activeTerm = 1
BY DEF FirstKeyring, WellFormed, Keyring, Dense, Term, Idle, Kinds, Steps

(* AddKey of the next term, as Rotate and CheckUpgrade use it.             *)
LEMMA AddKeyWellFormed ==
  ASSUME NEW kr \in WellFormed, kr.activeTerm < MaxTerm, NEW k \in 1..MaxKeys
  PROVE  LET new == AddKey(kr, kr.activeTerm + 1, k)
         IN  /\ new \in WellFormed
             /\ new.activeTerm = kr.activeTerm + 1
             /\ new.root = kr.root
             /\ Covers(new, kr)
<1> DEFINE u == kr.activeTerm + 1
           new == AddKey(kr, u, k)
<1>1. kr \in Keyring /\ Dense(kr) /\ u \in Term
  BY DEF WellFormed, Keyring, Term
<1>2. /\ new.root = kr.root
      /\ new.keys = [kr.keys EXCEPT ![u] = k]
      /\ new.activeTerm = u
  BY <1>1 DEF AddKey, Keyring, Term
<1>3. new \in Keyring
  <2>1. [kr.keys EXCEPT ![u] = k] \in [Term -> 0..MaxKeys]
    BY <1>1 DEF Keyring
  <2> QED
    BY <1>1, <2>1 DEF AddKey, Keyring, Term
<1>4. \A t \in Term : new.keys[t] = IF t = u THEN k ELSE kr.keys[t]
  BY <1>1, <1>2 DEF Keyring
<1>5. Dense(new)
  BY <1>1, <1>2, <1>4 DEF Dense, Keyring, Term
<1>6. kr.keys[u] = 0
  BY <1>1 DEF Dense, Keyring, Term
<1>7. Covers(new, kr)
  BY <1>4, <1>6 DEF Covers
<1> QED
  BY <1>2, <1>3, <1>5, <1>7 DEF WellFormed

(* SetRootKey changes no key.                                              *)
LEMMA SetRootKeyWellFormed ==
  ASSUME NEW kr \in WellFormed, NEW r \in 1..MaxRoots
  PROVE  /\ SetRootKey(kr, r) \in WellFormed
         /\ SetRootKey(kr, r).activeTerm = kr.activeTerm
         /\ SetRootKey(kr, r).keys = kr.keys
         /\ SetRootKey(kr, r).root = r
BY DEF SetRootKey, WellFormed, Keyring, Dense

(* A keyring has the keys up to its active term.                           *)
LEMMA KeysOfWellFormed ==
  ASSUME NEW kr \in WellFormed
  PROVE  /\ kr \in Keyring
         /\ kr.activeTerm \in Term
         /\ kr.root \in 1..MaxRoots
         /\ \A t \in Term : t <= kr.activeTerm => kr.keys[t] \in 1..MaxKeys
         /\ ActiveKey(kr) \in Ciphertext
         /\ ActiveKey(kr) # NoPut
         /\ Opens(kr, ActiveKey(kr))
         /\ Covers(kr, kr)
BY DEF WellFormed, Keyring, Dense, Term, ActiveKey, Ciphertext, NoPut, Opens, Covers

-----------------------------------------------------------------------------
(* Types and roles *)

(* They hold at the start. *)
LEMMA Inv1Init == Init => Inv1
<1> SUFFICES ASSUME Init PROVE Inv1
  OBVIOUS
<1>1. FirstKeyring \in Keyring /\ Idle.new \in WellFormed
  BY FirstWellFormed, KeysOfWellFormed
<1>2. TypeOK
  <2>1. rootEntry \in [root : 1..MaxRoots, at : Ciphertext]
    BY DEF Init, Ciphertext, Term
  <2>2. op \in [Node -> [kind : Kinds, step : Steps, new : Keyring]]
    BY FirstWellFormed DEF Init
  <2>3. put \in [Node -> Ciphertext \cup {NoPut}]
    BY DEF Init
  <2>4. mode \in [Node -> Modes] /\ mem \in [Node -> Keyring]
    BY <1>1 DEF Init, Modes
  <2>5. rootCut \in BOOLEAN
    BY DEF Init
  <2>6. rekey \in [Node -> 0..MaxRoots] /\ owed \in [Node -> SUBSET Term]
    BY DEF Init
  <2>7. stored \in 1..MaxRoots /\ keys \in 1..MaxKeys /\ roots \in 1..MaxRoots
    BY DEF Init
  <2>8. faults \in 0..MaxFaults /\ restarts \in 0..MaxRestarts
    BY DEF Init
  <2>9. disk \in Keyring /\ upgrades = {} /\ entries = {}
    BY <1>1 DEF Init
  <2> QED
    BY <2>1, <2>2, <2>3, <2>4, <2>5, <2>6, <2>7, <2>8, <2>9 DEF TypeOK
<1>3. Keyrings
  BY <1>1, FirstWellFormed DEF Init, Keyrings
<1> QED
  BY <1>2, <1>3 DEF Init, Inv1, Shape, UpgradesInRange, Roles, OneLeader, OnlyTheActiveWrites, OpsGrow, Leads

(* Unseal preserves types and roles. *)
LEMMA Inv1Unseal ==
  ASSUME Inv1, NEW n \in Node, Unseal(n)
  PROVE  Inv1'
<1>1. disk \in WellFormed /\ disk \in Keyring
  BY KeysOfWellFormed DEF Inv1, Shape, Keyrings
<1>2. owed[n] = {} /\ op[n] = Idle
  BY DEF Unseal, Inv1, Roles, OnlyTheActiveWrites
<1>3. TypeOK'
  BY <1>1, <1>2 DEF Unseal, Inv1, Shape, TypeOK, storage, counters, Modes, Kinds, Steps, NoPut, Unlocked
<1>4. Keyrings'
  BY <1>1, <1>2 DEF Unseal, Inv1, Shape, TypeOK, Keyrings, storage
<1>5. UpgradesInRange'
  BY <1>1, <1>2 DEF Unseal, Inv1, Shape, TypeOK, UpgradesInRange, storage, Term
<1>6. Roles'
  BY <1>1, <1>2 DEF Unseal, Inv1, Shape, TypeOK, Roles, OneLeader, OnlyTheActiveWrites, OpsGrow, Leads, Unlocked, Busy, Term
<1> QED
  BY <1>3, <1>4, <1>5, <1>6 DEF Inv1, Shape

(* TakeLock preserves types and roles. *)
LEMMA Inv1TakeLock ==
  ASSUME Inv1, NEW n \in Node, TakeLock(n)
  PROVE  Inv1'
<1>1. TypeOK'
  BY DEF TakeLock, Inv1, Shape, TypeOK, storage, counters, Modes, Kinds, Steps, NoPut, Unlocked
<1>2. Keyrings'
  BY DEF TakeLock, Inv1, Shape, TypeOK, Keyrings, storage
<1>3. UpgradesInRange'
  BY DEF TakeLock, Inv1, Shape, TypeOK, UpgradesInRange, storage, Term
<1>4. Roles'
  BY DEF TakeLock, Inv1, Shape, TypeOK, Roles, OneLeader, OnlyTheActiveWrites, OpsGrow, Leads, Unlocked, Busy, Term
<1> QED
  BY <1>1, <1>2, <1>3, <1>4 DEF Inv1, Shape

(* StepDown preserves types and roles. *)
LEMMA Inv1StepDown ==
  ASSUME Inv1, NEW n \in Node, StepDown(n)
  PROVE  Inv1'
<1>1. TypeOK'
  BY DEF StepDown, Inv1, Shape, TypeOK, storage, counters, Modes, Kinds, Steps, NoPut, Unlocked
<1>2. Keyrings'
  BY DEF StepDown, Inv1, Shape, TypeOK, Keyrings, storage
<1>3. UpgradesInRange'
  BY DEF StepDown, Inv1, Shape, TypeOK, UpgradesInRange, storage, Term
<1>4. Roles'
  BY DEF StepDown, Inv1, Shape, TypeOK, Roles, OneLeader, OnlyTheActiveWrites, OpsGrow, Leads, Unlocked, Busy, Term
<1> QED
  BY <1>1, <1>2, <1>3, <1>4 DEF Inv1, Shape

(* CheckUpgrade preserves types and roles. *)
LEMMA Inv1CheckUpgrade ==
  ASSUME Inv1, NEW n \in Node, CheckUpgrade(n)
  PROVE  Inv1'
<1>1. mem[n] \in WellFormed /\ mem[n] \in Keyring /\ mem[n].activeTerm \in Term
  BY KeysOfWellFormed DEF Inv1, Shape, Keyrings
<1>2. owed[n] = {} /\ op[n] = Idle
  BY DEF CheckUpgrade, Inv1, Roles, OnlyTheActiveWrites
<1>3. PICK u \in upgrades : u.from = mem[n].activeTerm /\ mem' = [mem EXCEPT ![n] = AddKey(mem[n], u.from + 1, u.key)]
  BY DEF CheckUpgrade, UpgradeOf
<1>4. u.from < MaxTerm /\ u.key \in 1..MaxKeys
  BY DEF Inv1, Shape, TypeOK, UpgradesInRange
<1>5. AddKey(mem[n], u.from + 1, u.key) \in WellFormed
  BY <1>1, <1>3, <1>4, AddKeyWellFormed
<1>6. AddKey(mem[n], u.from + 1, u.key) \in Keyring
  BY <1>5, KeysOfWellFormed
<1>7. TypeOK'
  BY <1>1, <1>2, <1>3, <1>4, <1>5, <1>6 DEF CheckUpgrade, Inv1, Shape, TypeOK, storage, counters, Modes, Kinds, Steps, NoPut, Unlocked
<1>8. Keyrings'
  BY <1>1, <1>2, <1>3, <1>4, <1>5, <1>6 DEF CheckUpgrade, Inv1, Shape, TypeOK, Keyrings, storage
<1>9. UpgradesInRange'
  BY <1>1, <1>2, <1>3, <1>4, <1>5, <1>6 DEF CheckUpgrade, Inv1, Shape, TypeOK, UpgradesInRange, storage, Term
<1>10. Roles'
  BY <1>1, <1>2, <1>3, <1>4, <1>5, <1>6 DEF CheckUpgrade, Inv1, Shape, TypeOK, Roles, OneLeader, OnlyTheActiveWrites, OpsGrow, Leads, Unlocked, Busy, Term
<1> QED
  BY <1>7, <1>8, <1>9, <1>10 DEF Inv1, Shape

(* CheckUpgradeFails preserves types and roles. *)
LEMMA Inv1CheckUpgradeFails ==
  ASSUME Inv1, NEW n \in Node, CheckUpgradeFails(n)
  PROVE  Inv1'
<1>1. TypeOK'
  BY DEF CheckUpgradeFails, Shutdown, Inv1, Shape, TypeOK, storage, counters, Modes, Kinds, Steps, NoPut, Unlocked
<1>2. Keyrings'
  BY DEF CheckUpgradeFails, Shutdown, Inv1, Shape, TypeOK, Keyrings, storage
<1>3. UpgradesInRange'
  BY DEF CheckUpgradeFails, Shutdown, Inv1, Shape, TypeOK, UpgradesInRange, storage, Term
<1>4. Roles'
  BY DEF CheckUpgradeFails, Shutdown, Inv1, Shape, TypeOK, Roles, OneLeader, OnlyTheActiveWrites, OpsGrow, Leads, Unlocked, Busy, Term
<1> QED
  BY <1>1, <1>2, <1>3, <1>4 DEF Inv1, Shape

(* ReloadRootKey preserves types and roles. *)
LEMMA Inv1ReloadRootKey ==
  ASSUME Inv1, NEW n \in Node, ReloadRootKey(n)
  PROVE  Inv1'
<1>1. mem[n] \in WellFormed /\ mem[n] \in Keyring /\ mem[n].activeTerm \in Term
  BY KeysOfWellFormed DEF Inv1, Shape, Keyrings
<1>2. owed[n] = {} /\ op[n] = Idle
  BY DEF ReloadRootKey, Inv1, Roles, OnlyTheActiveWrites
<1>3. rootEntry.root \in 1..MaxRoots
  BY DEF Inv1, Shape, TypeOK
<1>4. SetRootKey(mem[n], rootEntry.root) \in WellFormed
  BY <1>1, <1>3, SetRootKeyWellFormed
<1>5. SetRootKey(mem[n], rootEntry.root) \in Keyring
  BY <1>4, KeysOfWellFormed
<1>6. TypeOK'
  BY <1>1, <1>2, <1>3, <1>4, <1>5 DEF ReloadRootKey, Inv1, Shape, TypeOK, storage, counters, Modes, Kinds, Steps, NoPut, Unlocked
<1>7. Keyrings'
  BY <1>1, <1>2, <1>3, <1>4, <1>5 DEF ReloadRootKey, Inv1, Shape, TypeOK, Keyrings, storage
<1>8. UpgradesInRange'
  BY <1>1, <1>2, <1>3, <1>4, <1>5 DEF ReloadRootKey, Inv1, Shape, TypeOK, UpgradesInRange, storage, Term
<1>9. Roles'
  BY <1>1, <1>2, <1>3, <1>4, <1>5 DEF ReloadRootKey, Inv1, Shape, TypeOK, Roles, OneLeader, OnlyTheActiveWrites, OpsGrow, Leads, Unlocked, Busy, Term
<1> QED
  BY <1>6, <1>7, <1>8, <1>9 DEF Inv1, Shape

(* ReloadRootKeyFails preserves types and roles. *)
LEMMA Inv1ReloadRootKeyFails ==
  ASSUME Inv1, NEW n \in Node, ReloadRootKeyFails(n)
  PROVE  Inv1'
<1>1. TypeOK'
  BY DEF ReloadRootKeyFails, Shutdown, Inv1, Shape, TypeOK, storage, counters, Modes, Kinds, Steps, NoPut, Unlocked
<1>2. Keyrings'
  BY DEF ReloadRootKeyFails, Shutdown, Inv1, Shape, TypeOK, Keyrings, storage
<1>3. UpgradesInRange'
  BY DEF ReloadRootKeyFails, Shutdown, Inv1, Shape, TypeOK, UpgradesInRange, storage, Term
<1>4. Roles'
  BY DEF ReloadRootKeyFails, Shutdown, Inv1, Shape, TypeOK, Roles, OneLeader, OnlyTheActiveWrites, OpsGrow, Leads, Unlocked, Busy, Term
<1> QED
  BY <1>1, <1>2, <1>3, <1>4 DEF Inv1, Shape

(* ReloadKeyring preserves types and roles. *)
LEMMA Inv1ReloadKeyring ==
  ASSUME Inv1, NEW n \in Node, ReloadKeyring(n)
  PROVE  Inv1'
<1>1. disk \in WellFormed /\ disk \in Keyring
  BY KeysOfWellFormed DEF Inv1, Shape, Keyrings
<1>2. owed[n] = {} /\ op[n] = Idle
  BY DEF ReloadKeyring, Inv1, Roles, OnlyTheActiveWrites
<1>3. TypeOK'
  BY <1>1, <1>2 DEF ReloadKeyring, Inv1, Shape, TypeOK, storage, counters, Modes, Kinds, Steps, NoPut, Unlocked
<1>4. Keyrings'
  BY <1>1, <1>2 DEF ReloadKeyring, Inv1, Shape, TypeOK, Keyrings, storage
<1>5. UpgradesInRange'
  BY <1>1, <1>2 DEF ReloadKeyring, Inv1, Shape, TypeOK, UpgradesInRange, storage, Term
<1>6. Roles'
  BY <1>1, <1>2 DEF ReloadKeyring, Inv1, Shape, TypeOK, Roles, OneLeader, OnlyTheActiveWrites, OpsGrow, Leads, Unlocked, Busy, Term
<1> QED
  BY <1>3, <1>4, <1>5, <1>6 DEF Inv1, Shape

(* ReloadKeyringFails preserves types and roles. *)
LEMMA Inv1ReloadKeyringFails ==
  ASSUME Inv1, NEW n \in Node, ReloadKeyringFails(n)
  PROVE  Inv1'
<1>1. TypeOK'
  BY DEF ReloadKeyringFails, Shutdown, Inv1, Shape, TypeOK, storage, counters, Modes, Kinds, Steps, NoPut, Unlocked
<1>2. Keyrings'
  BY DEF ReloadKeyringFails, Shutdown, Inv1, Shape, TypeOK, Keyrings, storage
<1>3. UpgradesInRange'
  BY DEF ReloadKeyringFails, Shutdown, Inv1, Shape, TypeOK, UpgradesInRange, storage, Term
<1>4. Roles'
  BY DEF ReloadKeyringFails, Shutdown, Inv1, Shape, TypeOK, Roles, OneLeader, OnlyTheActiveWrites, OpsGrow, Leads, Unlocked, Busy, Term
<1> QED
  BY <1>1, <1>2, <1>3, <1>4 DEF Inv1, Shape

(* Rotate preserves types and roles. *)
LEMMA Inv1Rotate ==
  ASSUME Inv1, NEW n \in Node, Rotate(n)
  PROVE  Inv1'
<1>1. mem[n] \in WellFormed /\ mem[n] \in Keyring /\ mem[n].activeTerm \in Term
  BY KeysOfWellFormed DEF Inv1, Shape, Keyrings
<1>2. mem[n].activeTerm < MaxTerm /\ keys + 1 \in 1..MaxKeys
  BY DEF Rotate, Inv1, Shape, TypeOK
<1>3. /\ AddKey(mem[n], mem[n].activeTerm + 1, keys + 1) \in WellFormed
      /\ AddKey(mem[n], mem[n].activeTerm + 1, keys + 1).activeTerm = mem[n].activeTerm + 1
  BY <1>1, <1>2, AddKeyWellFormed
<1>4. AddKey(mem[n], mem[n].activeTerm + 1, keys + 1) \in Keyring
  BY <1>3, KeysOfWellFormed
<1>5. TypeOK'
  BY <1>1, <1>2, <1>3, <1>4 DEF Rotate, Begin, Inv1, Shape, TypeOK, storage, counters, Modes, Kinds, Steps, NoPut, Unlocked, Term
<1>6. Keyrings'
  BY <1>1, <1>2, <1>3, <1>4 DEF Rotate, Begin, Inv1, Shape, TypeOK, Keyrings, storage
<1>7. UpgradesInRange'
  BY <1>1, <1>2, <1>3, <1>4 DEF Rotate, Begin, Inv1, Shape, TypeOK, UpgradesInRange, storage, Term
<1>8. Roles'
  BY <1>1, <1>2, <1>3, <1>4 DEF Rotate, Begin, Inv1, Shape, TypeOK, Roles, OneLeader, OnlyTheActiveWrites, OpsGrow, Leads, Unlocked, Busy, Term
<1> QED
  BY <1>5, <1>6, <1>7, <1>8 DEF Inv1, Shape

(* Save preserves types and roles. *)
LEMMA Inv1Save ==
  ASSUME Inv1, NEW n \in Node, Save(n)
  PROVE  Inv1'
<1>1. mem[n] \in WellFormed /\ mem[n] \in Keyring /\ mem[n].activeTerm \in Term
  BY KeysOfWellFormed DEF Inv1, Shape, Keyrings
<1>2. TypeOK'
  BY <1>1 DEF Save, Begin, Inv1, Shape, TypeOK, storage, counters, Modes, Kinds, Steps, NoPut, Unlocked, Term
<1>3. Keyrings'
  BY <1>1 DEF Save, Begin, Inv1, Shape, TypeOK, Keyrings, storage
<1>4. UpgradesInRange'
  BY <1>1 DEF Save, Begin, Inv1, Shape, TypeOK, UpgradesInRange, storage, Term
<1>5. Roles'
  BY <1>1 DEF Save, Begin, Inv1, Shape, TypeOK, Roles, OneLeader, OnlyTheActiveWrites, OpsGrow, Leads, Unlocked, Busy, Term
<1> QED
  BY <1>2, <1>3, <1>4, <1>5 DEF Inv1, Shape

(* RootStores preserves types and roles. *)
LEMMA Inv1RootStores ==
  ASSUME Inv1, NEW n \in Node, RootStores(n)
  PROVE  Inv1'
<1>1. TypeOK'
  BY DEF RootStores, Inv1, Shape, TypeOK, storage, counters, Modes, Kinds, Steps, NoPut, Unlocked
<1>2. Keyrings'
  BY DEF RootStores, Inv1, Shape, TypeOK, Keyrings, storage
<1>3. UpgradesInRange'
  BY DEF RootStores, Inv1, Shape, TypeOK, UpgradesInRange, storage, Term
<1>4. Roles'
  BY DEF RootStores, Inv1, Shape, TypeOK, Roles, OneLeader, OnlyTheActiveWrites, OpsGrow, Leads, Unlocked, Busy, Term
<1> QED
  BY <1>1, <1>2, <1>3, <1>4 DEF Inv1, Shape

(* RotateRootKey preserves types and roles. *)
LEMMA Inv1RotateRootKey ==
  ASSUME Inv1, NEW n \in Node, RotateRootKey(n)
  PROVE  Inv1'
<1>1. mem[n] \in WellFormed /\ mem[n] \in Keyring /\ mem[n].activeTerm \in Term
  BY KeysOfWellFormed DEF Inv1, Shape, Keyrings
<1>2. rekey[n] \in 1..MaxRoots
  BY DEF RotateRootKey, Inv1, Shape, TypeOK
<1>3. /\ SetRootKey(mem[n], rekey[n]) \in WellFormed
      /\ SetRootKey(mem[n], rekey[n]).activeTerm = mem[n].activeTerm
  BY <1>1, <1>2, SetRootKeyWellFormed
<1>4. SetRootKey(mem[n], rekey[n]) \in Keyring
  BY <1>3, KeysOfWellFormed
<1>5. TypeOK'
  BY <1>1, <1>2, <1>3, <1>4 DEF RotateRootKey, Begin, Inv1, Shape, TypeOK, storage, counters, Modes, Kinds, Steps, NoPut, Unlocked
<1>6. Keyrings'
  BY <1>1, <1>2, <1>3, <1>4 DEF RotateRootKey, Begin, Inv1, Shape, TypeOK, Keyrings, storage
<1>7. UpgradesInRange'
  BY <1>1, <1>2, <1>3, <1>4 DEF RotateRootKey, Begin, Inv1, Shape, TypeOK, UpgradesInRange, storage, Term
<1>8. Roles'
  BY <1>1, <1>2, <1>3, <1>4 DEF RotateRootKey, Begin, Inv1, Shape, TypeOK, Roles, OneLeader, OnlyTheActiveWrites, OpsGrow, Leads, Unlocked, Busy, Term
<1> QED
  BY <1>5, <1>6, <1>7, <1>8 DEF Inv1, Shape

(* PutKeyring preserves types and roles. *)
LEMMA Inv1PutKeyring ==
  ASSUME Inv1, NEW n \in Node, PutKeyring(n)
  PROVE  Inv1'
<1>1. /\ op[n].new \in WellFormed /\ op[n].new \in Keyring
      /\ op[n].new.root \in 1..MaxRoots /\ op[n].new.activeTerm \in Term
      /\ ActiveKey(op[n].new) \in Ciphertext
  BY KeysOfWellFormed DEF Inv1, Shape, Keyrings
<1>2. TypeOK'
  BY <1>1, FirstWellFormed DEF PutKeyring, Inv1, Shape, TypeOK, storage, counters, Modes, Kinds, Steps, NoPut, Unlocked
<1>3. Keyrings'
  BY <1>1, FirstWellFormed DEF PutKeyring, Inv1, Shape, TypeOK, Keyrings, storage
<1>4. UpgradesInRange'
  BY <1>1, FirstWellFormed DEF PutKeyring, Inv1, Shape, TypeOK, UpgradesInRange, storage, Term
<1>5. Roles'
  BY <1>1, FirstWellFormed DEF PutKeyring, Inv1, Shape, TypeOK, Roles, OneLeader, OnlyTheActiveWrites, OpsGrow, Leads, Unlocked, Busy, Term
<1> QED
  BY <1>2, <1>3, <1>4, <1>5 DEF Inv1, Shape

(* PutRootKey preserves types and roles. *)
LEMMA Inv1PutRootKey ==
  ASSUME Inv1, NEW n \in Node, PutRootKey(n)
  PROVE  Inv1'
<1>1. /\ op[n].new \in WellFormed /\ op[n].new \in Keyring
      /\ op[n].new.root \in 1..MaxRoots /\ op[n].new.activeTerm \in Term
      /\ ActiveKey(op[n].new) \in Ciphertext
  BY KeysOfWellFormed DEF Inv1, Shape, Keyrings
<1>2. TypeOK'
  BY <1>1, FirstWellFormed DEF PutRootKey, Inv1, Shape, TypeOK, storage, counters, Modes, Kinds, Steps, NoPut, Unlocked
<1>3. Keyrings'
  BY <1>1, FirstWellFormed DEF PutRootKey, Inv1, Shape, TypeOK, Keyrings, storage
<1>4. UpgradesInRange'
  BY <1>1, FirstWellFormed DEF PutRootKey, Inv1, Shape, TypeOK, UpgradesInRange, storage, Term
<1>5. Roles'
  BY <1>1, FirstWellFormed DEF PutRootKey, Inv1, Shape, TypeOK, Roles, OneLeader, OnlyTheActiveWrites, OpsGrow, Leads, Unlocked, Busy, Term
<1> QED
  BY <1>2, <1>3, <1>4, <1>5 DEF Inv1, Shape

(* SwapKeyring preserves types and roles. *)
LEMMA Inv1SwapKeyring ==
  ASSUME Inv1, NEW n \in Node, SwapKeyring(n)
  PROVE  Inv1'
<1>1. mem[n] \in WellFormed /\ mem[n] \in Keyring /\ mem[n].activeTerm \in Term
  BY KeysOfWellFormed DEF Inv1, Shape, Keyrings
<1>2. /\ op[n].new \in WellFormed /\ op[n].new \in Keyring
      /\ op[n].new.root \in 1..MaxRoots /\ op[n].new.activeTerm \in Term
      /\ ActiveKey(op[n].new) \in Ciphertext
  BY KeysOfWellFormed DEF Inv1, Shape, Keyrings
<1>3. TypeOK'
  BY <1>1, <1>2, FirstWellFormed DEF SwapKeyring, Inv1, Shape, TypeOK, storage, counters, Modes, Kinds, Steps, NoPut, Unlocked
<1>4. Keyrings'
  BY <1>1, <1>2, FirstWellFormed DEF SwapKeyring, Inv1, Shape, TypeOK, Keyrings, storage
<1>5. UpgradesInRange'
  BY <1>1, <1>2, FirstWellFormed DEF SwapKeyring, Inv1, Shape, TypeOK, UpgradesInRange, storage, Term, Roles, OpsGrow, OnlyTheActiveWrites
<1>6. Roles'
  BY <1>1, <1>2, FirstWellFormed DEF SwapKeyring, Inv1, Shape, TypeOK, Roles, OneLeader, OnlyTheActiveWrites, OpsGrow, Leads, Unlocked, Busy, Term
<1> QED
  BY <1>3, <1>4, <1>5, <1>6 DEF Inv1, Shape

(* CreateUpgrade preserves types and roles. *)
LEMMA Inv1CreateUpgrade ==
  ASSUME Inv1, NEW n \in Node, CreateUpgrade(n)
  PROVE  Inv1'
<1>1. mem[n] \in WellFormed /\ mem[n] \in Keyring /\ mem[n].activeTerm \in Term
  BY KeysOfWellFormed DEF Inv1, Shape, Keyrings
<1>2. PICK t \in owed[n] :
        /\ upgrades' = {u \in upgrades : u.from # t - 1}
                         \cup {[from |-> t - 1, under |-> mem[n].keys[t - 1], key |-> mem[n].keys[t]]}
        /\ owed' = [owed EXCEPT ![n] = @ \ {t}]
  BY DEF CreateUpgrade
<1>3. t \in Term /\ t - 1 \in Term /\ t - 1 < MaxTerm /\ t <= mem[n].activeTerm
  BY <1>1 DEF Inv1, Shape, TypeOK, UpgradesInRange, Term
<1>4. mem[n].keys[t - 1] \in 1..MaxKeys /\ mem[n].keys[t] \in 1..MaxKeys
  BY <1>1, <1>3, KeysOfWellFormed DEF Term
<1>5. TypeOK'
  BY <1>1, <1>2, <1>3, <1>4 DEF CreateUpgrade, Inv1, Shape, TypeOK, storage, counters, Modes, Kinds, Steps, NoPut, Unlocked
<1>6. Keyrings'
  BY <1>1, <1>2, <1>3, <1>4 DEF CreateUpgrade, Inv1, Shape, TypeOK, Keyrings, storage
<1>7. UpgradesInRange'
  BY <1>1, <1>2, <1>3, <1>4 DEF CreateUpgrade, Inv1, Shape, TypeOK, UpgradesInRange, storage, Term
<1>8. Roles'
  BY <1>1, <1>2, <1>3, <1>4 DEF CreateUpgrade, Inv1, Shape, TypeOK, Roles, OneLeader, OnlyTheActiveWrites, OpsGrow, Leads, Unlocked, Busy, Term
<1> QED
  BY <1>5, <1>6, <1>7, <1>8 DEF Inv1, Shape

(* DestroyUpgrade preserves types and roles. *)
LEMMA Inv1DestroyUpgrade ==
  ASSUME Inv1, NEW n \in Node, DestroyUpgrade(n)
  PROVE  Inv1'
<1>1. TypeOK'
  BY DEF DestroyUpgrade, Inv1, Shape, TypeOK, storage, counters, Modes, Kinds, Steps, NoPut, Unlocked
<1>2. Keyrings'
  BY DEF DestroyUpgrade, Inv1, Shape, TypeOK, Keyrings, storage
<1>3. UpgradesInRange'
  BY DEF DestroyUpgrade, Inv1, Shape, TypeOK, UpgradesInRange, storage, Term
<1>4. Roles'
  BY DEF DestroyUpgrade, Inv1, Shape, TypeOK, Roles, OneLeader, OnlyTheActiveWrites, OpsGrow, Leads, Unlocked, Busy, Term
<1> QED
  BY <1>1, <1>2, <1>3, <1>4 DEF Inv1, Shape

(* PutBegins preserves types and roles. *)
LEMMA Inv1PutBegins ==
  ASSUME Inv1, NEW n \in Node, PutBegins(n)
  PROVE  Inv1'
<1>1. ActiveKey(mem[n]) \in Ciphertext
  BY KeysOfWellFormed DEF Inv1, Shape, Keyrings
<1>2. TypeOK'
  BY <1>1 DEF PutBegins, Inv1, Shape, TypeOK, storage, counters, Modes, Kinds, Steps, NoPut, Unlocked
<1>3. Keyrings'
  BY <1>1 DEF PutBegins, Inv1, Shape, TypeOK, Keyrings, storage
<1>4. UpgradesInRange'
  BY <1>1 DEF PutBegins, Inv1, Shape, TypeOK, UpgradesInRange, storage, Term
<1>5. Roles'
  BY <1>1 DEF PutBegins, Inv1, Shape, TypeOK, Roles, OneLeader, OnlyTheActiveWrites, OpsGrow, Leads, Unlocked, Busy, Term
<1> QED
  BY <1>2, <1>3, <1>4, <1>5 DEF Inv1, Shape

(* PutLands preserves types and roles. *)
LEMMA Inv1PutLands ==
  ASSUME Inv1, NEW n \in Node, PutLands(n)
  PROVE  Inv1'
<1>1. TypeOK'
  BY DEF PutLands, Inv1, Shape, TypeOK, storage, counters, Modes, Kinds, Steps, NoPut, Unlocked
<1>2. Keyrings'
  BY DEF PutLands, Inv1, Shape, TypeOK, Keyrings, storage
<1>3. UpgradesInRange'
  BY DEF PutLands, Inv1, Shape, TypeOK, UpgradesInRange, storage, Term
<1>4. Roles'
  BY DEF PutLands, Inv1, Shape, TypeOK, Roles, OneLeader, OnlyTheActiveWrites, OpsGrow, Leads, Unlocked, Busy, Term
<1> QED
  BY <1>1, <1>2, <1>3, <1>4 DEF Inv1, Shape

(* PutFails preserves types and roles. *)
LEMMA Inv1PutFails ==
  ASSUME Inv1, NEW n \in Node, PutFails(n)
  PROVE  Inv1'
<1>1. TypeOK'
  BY DEF PutFails, Inv1, Shape, TypeOK, storage, counters, Modes, Kinds, Steps, NoPut, Unlocked
<1>2. Keyrings'
  BY DEF PutFails, Inv1, Shape, TypeOK, Keyrings, storage
<1>3. UpgradesInRange'
  BY DEF PutFails, Inv1, Shape, TypeOK, UpgradesInRange, storage, Term
<1>4. Roles'
  BY DEF PutFails, Inv1, Shape, TypeOK, Roles, OneLeader, OnlyTheActiveWrites, OpsGrow, Leads, Unlocked, Busy, Term
<1> QED
  BY <1>1, <1>2, <1>3, <1>4 DEF Inv1, Shape

(* PersistFails preserves types and roles. *)
LEMMA Inv1PersistFails ==
  ASSUME Inv1, NEW n \in Node, PersistFails(n)
  PROVE  Inv1'
<1>1. /\ op[n].new \in WellFormed /\ op[n].new \in Keyring
      /\ op[n].new.root \in 1..MaxRoots /\ op[n].new.activeTerm \in Term
      /\ ActiveKey(op[n].new) \in Ciphertext
  BY KeysOfWellFormed DEF Inv1, Shape, Keyrings
<1>2. rootCut' \in BOOLEAN /\ faults' \in 0..MaxFaults
  BY DEF PersistFails, Fault, Inv1, Shape, TypeOK
<1>3. disk' \in Keyring /\ rootEntry' \in [root : 1..MaxRoots, at : Ciphertext]
  BY <1>1 DEF PersistFails, Inv1, Shape, TypeOK
<1>4. /\ mode' \in [Node -> Modes]
      /\ owed' \in [Node -> SUBSET Term] /\ rekey' \in [Node -> 0..MaxRoots]
  BY DEF PersistFails, Modes, Inv1, Shape, TypeOK
<1>5. put' \in [Node -> Ciphertext \cup {NoPut}]
  BY DEF PersistFails, Inv1, Shape, TypeOK
<1>6. op' \in [Node -> [kind : Kinds, step : Steps, new : Keyring]]
  BY FirstWellFormed DEF PersistFails, Inv1, Shape, TypeOK
<1>7. TypeOK'
  BY <1>1, <1>2, <1>3, <1>4, <1>5, <1>6, FirstWellFormed DEF PersistFails, Inv1, Shape, TypeOK
<1>8. Keyrings'
  BY <1>1, <1>2, <1>3, <1>4, <1>5, <1>6, FirstWellFormed DEF PersistFails, Fault, Inv1, Shape, TypeOK, Keyrings, storage
<1>9. UpgradesInRange'
  BY <1>1, <1>2, <1>3, <1>4, <1>5, <1>6, FirstWellFormed DEF PersistFails, Fault, Inv1, Shape, TypeOK, UpgradesInRange, storage, Term
<1>10. Roles'
  BY <1>1, <1>2, <1>3, <1>4, <1>5, <1>6, FirstWellFormed DEF PersistFails, Fault, Inv1, Shape, TypeOK, Roles, OneLeader, OnlyTheActiveWrites, OpsGrow, Leads, Unlocked, Busy, Term
<1> QED
  BY <1>7, <1>8, <1>9, <1>10 DEF Inv1, Shape

(* CreateUpgradeFails preserves types and roles. *)
LEMMA Inv1CreateUpgradeFails ==
  ASSUME Inv1, NEW n \in Node, CreateUpgradeFails(n)
  PROVE  Inv1'
<1>1. TypeOK'
  BY DEF CreateUpgradeFails, Fault, Inv1, Shape, TypeOK, storage, counters, Modes, Kinds, Steps, NoPut, Unlocked
<1>2. Keyrings'
  BY DEF CreateUpgradeFails, Fault, Inv1, Shape, TypeOK, Keyrings, storage
<1>3. UpgradesInRange'
  BY DEF CreateUpgradeFails, Fault, Inv1, Shape, TypeOK, UpgradesInRange, storage, Term
<1>4. Roles'
  BY DEF CreateUpgradeFails, Fault, Inv1, Shape, TypeOK, Roles, OneLeader, OnlyTheActiveWrites, OpsGrow, Leads, Unlocked, Busy, Term
<1> QED
  BY <1>1, <1>2, <1>3, <1>4 DEF Inv1, Shape

(* Crash preserves types and roles. *)
LEMMA Inv1Crash ==
  ASSUME Inv1, NEW n \in Node, Crash(n)
  PROVE  Inv1'
<1>1. FirstKeyring \in Keyring
  BY FirstWellFormed, KeysOfWellFormed
<1>2. rootCut' \in BOOLEAN
  BY DEF Crash, Fault, Inv1, Shape, TypeOK
<1>3. faults' \in 0..MaxFaults /\ restarts' \in 0..MaxRestarts
  BY DEF Crash, Fault, Inv1, Shape, TypeOK
<1>4. TypeOK'
  BY <1>1, <1>2, <1>3, FirstWellFormed DEF Crash, Ends, Fault, Inv1, Shape, TypeOK, storage, counters, Modes, Kinds, Steps, NoPut, Unlocked
<1>5. Keyrings'
  BY <1>1, <1>2, <1>3, FirstWellFormed DEF Crash, Ends, Fault, Inv1, Shape, TypeOK, Keyrings, storage
<1>6. UpgradesInRange'
  BY <1>1, <1>2, <1>3, FirstWellFormed DEF Crash, Ends, Fault, Inv1, Shape, TypeOK, UpgradesInRange, storage, Term
<1>7. Roles'
  BY <1>1, <1>2, <1>3, FirstWellFormed DEF Crash, Ends, Fault, Inv1, Shape, TypeOK, Roles, OneLeader, OnlyTheActiveWrites, OpsGrow, Leads, Unlocked, Busy, Term
<1> QED
  BY <1>4, <1>5, <1>6, <1>7 DEF Inv1, Shape

(* Restart preserves types and roles. *)
LEMMA Inv1Restart ==
  ASSUME Inv1, NEW n \in Node, Restart(n)
  PROVE  Inv1'
<1>1. FirstKeyring \in Keyring
  BY FirstWellFormed, KeysOfWellFormed
<1>2. TypeOK'
  BY <1>1, FirstWellFormed DEF Restart, Ends, Inv1, Shape, TypeOK, storage, counters, Modes, Kinds, Steps, NoPut, Unlocked
<1>3. Keyrings'
  BY <1>1, FirstWellFormed DEF Restart, Ends, Inv1, Shape, TypeOK, Keyrings, storage
<1>4. UpgradesInRange'
  BY <1>1, FirstWellFormed DEF Restart, Ends, Inv1, Shape, TypeOK, UpgradesInRange, storage, Term
<1>5. Roles'
  BY <1>1, FirstWellFormed DEF Restart, Ends, Inv1, Shape, TypeOK, Roles, OneLeader, OnlyTheActiveWrites, OpsGrow, Leads, Unlocked, Busy, Term
<1> QED
  BY <1>2, <1>3, <1>4, <1>5 DEF Inv1, Shape

-----------------------------------------------------------------------------
(* Entries *)

(* What a keyring opens, one that has all its keys opens, too.             *)
LEMMA CoversOpens ==
  ASSUME NEW a, NEW b, NEW e \in Ciphertext, Covers(a, b), Opens(b, e)
  PROVE  Opens(a, e)
BY DEF Covers, Opens, Ciphertext

(* At the start there is no entry.                                         *)
LEMMA SafeInit == Init => Safe
<1> SUFFICES ASSUME Init PROVE Safe
  OBVIOUS
<1> QED
  BY FirstWellFormed DEF Init, Safe, StorageCovers, PutOpens, EntriesReadable

(* Unseal leaves every entry readable. *)
LEMMA SafeUnseal ==
  ASSUME Inv1, Safe, NEW n \in Node, Unseal(n)
  PROVE  Safe'
<1>1. put[n] = NoPut
  BY DEF Unseal, Inv1, Roles, OnlyTheActiveWrites
<1>2. StorageCovers'
  BY <1>1, FirstWellFormed DEF Unseal, Inv1, Shape, TypeOK, Roles, OnlyTheActiveWrites, OneLeader, Leads, Unlocked, Busy, storage, Safe, StorageCovers
<1>3. PutOpens'
  BY <1>1, FirstWellFormed DEF Unseal, Inv1, Shape, TypeOK, Roles, OnlyTheActiveWrites, OneLeader, Leads, Unlocked, Busy, storage, Safe, PutOpens
<1>4. EntriesReadable'
  BY <1>1, FirstWellFormed DEF Unseal, Inv1, Shape, TypeOK, Roles, OnlyTheActiveWrites, OneLeader, Leads, Unlocked, Busy, storage, Safe, EntriesReadable
<1> QED
  BY <1>2, <1>3, <1>4 DEF Safe

(* TakeLock leaves every entry readable. *)
LEMMA SafeTakeLock ==
  ASSUME Inv1, Safe, NEW n \in Node, TakeLock(n)
  PROVE  Safe'
<1>1. StorageCovers'
  BY DEF TakeLock, Inv1, Shape, TypeOK, Roles, OnlyTheActiveWrites, OneLeader, Leads, Unlocked, Busy, storage, Safe, StorageCovers
<1>2. PutOpens'
  BY DEF TakeLock, Inv1, Shape, TypeOK, Roles, OnlyTheActiveWrites, OneLeader, Leads, Unlocked, Busy, storage, Safe, PutOpens
<1>3. EntriesReadable'
  BY DEF TakeLock, Inv1, Shape, TypeOK, Roles, OnlyTheActiveWrites, OneLeader, Leads, Unlocked, Busy, storage, Safe, EntriesReadable
<1> QED
  BY <1>1, <1>2, <1>3 DEF Safe

(* StepDown leaves every entry readable. *)
LEMMA SafeStepDown ==
  ASSUME Inv1, Safe, NEW n \in Node, StepDown(n)
  PROVE  Safe'
<1>1. StorageCovers'
  BY DEF StepDown, Inv1, Shape, TypeOK, Roles, OnlyTheActiveWrites, OneLeader, Leads, Unlocked, Busy, storage, Safe, StorageCovers
<1>2. PutOpens'
  BY DEF StepDown, Inv1, Shape, TypeOK, Roles, OnlyTheActiveWrites, OneLeader, Leads, Unlocked, Busy, storage, Safe, PutOpens
<1>3. EntriesReadable'
  BY DEF StepDown, Inv1, Shape, TypeOK, Roles, OnlyTheActiveWrites, OneLeader, Leads, Unlocked, Busy, storage, Safe, EntriesReadable
<1> QED
  BY <1>1, <1>2, <1>3 DEF Safe

(* CheckUpgrade leaves every entry readable. *)
LEMMA SafeCheckUpgrade ==
  ASSUME Inv1, Safe, NEW n \in Node, CheckUpgrade(n)
  PROVE  Safe'
<1>1. put[n] = NoPut
  BY DEF CheckUpgrade, Inv1, Roles, OnlyTheActiveWrites
<1>2. StorageCovers'
  BY <1>1, FirstWellFormed DEF CheckUpgrade, Inv1, Shape, TypeOK, Roles, OnlyTheActiveWrites, OneLeader, Leads, Unlocked, Busy, storage, Safe, StorageCovers
<1>3. PutOpens'
  BY <1>1, FirstWellFormed DEF CheckUpgrade, Inv1, Shape, TypeOK, Roles, OnlyTheActiveWrites, OneLeader, Leads, Unlocked, Busy, storage, Safe, PutOpens
<1>4. EntriesReadable'
  BY <1>1, FirstWellFormed DEF CheckUpgrade, Inv1, Shape, TypeOK, Roles, OnlyTheActiveWrites, OneLeader, Leads, Unlocked, Busy, storage, Safe, EntriesReadable
<1> QED
  BY <1>2, <1>3, <1>4 DEF Safe

(* CheckUpgradeFails leaves every entry readable. *)
LEMMA SafeCheckUpgradeFails ==
  ASSUME Inv1, Safe, NEW n \in Node, CheckUpgradeFails(n)
  PROVE  Safe'
<1>1. StorageCovers'
  BY DEF CheckUpgradeFails, Shutdown, Inv1, Shape, TypeOK, Roles, OnlyTheActiveWrites, OneLeader, Leads, Unlocked, Busy, storage, Safe, StorageCovers
<1>2. PutOpens'
  BY DEF CheckUpgradeFails, Shutdown, Inv1, Shape, TypeOK, Roles, OnlyTheActiveWrites, OneLeader, Leads, Unlocked, Busy, storage, Safe, PutOpens
<1>3. EntriesReadable'
  BY DEF CheckUpgradeFails, Shutdown, Inv1, Shape, TypeOK, Roles, OnlyTheActiveWrites, OneLeader, Leads, Unlocked, Busy, storage, Safe, EntriesReadable
<1> QED
  BY <1>1, <1>2, <1>3 DEF Safe

(* ReloadRootKey leaves every entry readable. *)
LEMMA SafeReloadRootKey ==
  ASSUME Inv1, Safe, NEW n \in Node, ReloadRootKey(n)
  PROVE  Safe'
<1>1. put[n] = NoPut
  BY DEF ReloadRootKey, Inv1, Roles, OnlyTheActiveWrites
<1>2. StorageCovers'
  BY <1>1, FirstWellFormed DEF ReloadRootKey, Inv1, Shape, TypeOK, Roles, OnlyTheActiveWrites, OneLeader, Leads, Unlocked, Busy, storage, Safe, StorageCovers
<1>3. PutOpens'
  BY <1>1, FirstWellFormed DEF ReloadRootKey, Inv1, Shape, TypeOK, Roles, OnlyTheActiveWrites, OneLeader, Leads, Unlocked, Busy, storage, Safe, PutOpens
<1>4. EntriesReadable'
  BY <1>1, FirstWellFormed DEF ReloadRootKey, Inv1, Shape, TypeOK, Roles, OnlyTheActiveWrites, OneLeader, Leads, Unlocked, Busy, storage, Safe, EntriesReadable
<1> QED
  BY <1>2, <1>3, <1>4 DEF Safe

(* ReloadRootKeyFails leaves every entry readable. *)
LEMMA SafeReloadRootKeyFails ==
  ASSUME Inv1, Safe, NEW n \in Node, ReloadRootKeyFails(n)
  PROVE  Safe'
<1>1. StorageCovers'
  BY DEF ReloadRootKeyFails, Shutdown, Inv1, Shape, TypeOK, Roles, OnlyTheActiveWrites, OneLeader, Leads, Unlocked, Busy, storage, Safe, StorageCovers
<1>2. PutOpens'
  BY DEF ReloadRootKeyFails, Shutdown, Inv1, Shape, TypeOK, Roles, OnlyTheActiveWrites, OneLeader, Leads, Unlocked, Busy, storage, Safe, PutOpens
<1>3. EntriesReadable'
  BY DEF ReloadRootKeyFails, Shutdown, Inv1, Shape, TypeOK, Roles, OnlyTheActiveWrites, OneLeader, Leads, Unlocked, Busy, storage, Safe, EntriesReadable
<1> QED
  BY <1>1, <1>2, <1>3 DEF Safe

(* ReloadKeyring leaves every entry readable. *)
LEMMA SafeReloadKeyring ==
  ASSUME Inv1, Safe, NEW n \in Node, ReloadKeyring(n)
  PROVE  Safe'
<1>1. Covers(disk, disk)
  BY KeysOfWellFormed DEF Inv1, Shape, Keyrings
<1>2. op[n] = Idle /\ put[n] = NoPut
  BY DEF ReloadKeyring, Inv1, Roles, OnlyTheActiveWrites
<1>3. StorageCovers'
  BY <1>1, <1>2, FirstWellFormed DEF ReloadKeyring, Inv1, Shape, TypeOK, Roles, OnlyTheActiveWrites, OneLeader, Leads, Unlocked, Busy, storage, Safe, StorageCovers
<1>4. PutOpens'
  BY <1>1, <1>2, FirstWellFormed DEF ReloadKeyring, Inv1, Shape, TypeOK, Roles, OnlyTheActiveWrites, OneLeader, Leads, Unlocked, Busy, storage, Safe, PutOpens
<1>5. EntriesReadable'
  BY <1>1, <1>2, FirstWellFormed DEF ReloadKeyring, Inv1, Shape, TypeOK, Roles, OnlyTheActiveWrites, OneLeader, Leads, Unlocked, Busy, storage, Safe, EntriesReadable
<1> QED
  BY <1>3, <1>4, <1>5 DEF Safe

(* ReloadKeyringFails leaves every entry readable. *)
LEMMA SafeReloadKeyringFails ==
  ASSUME Inv1, Safe, NEW n \in Node, ReloadKeyringFails(n)
  PROVE  Safe'
<1>1. StorageCovers'
  BY DEF ReloadKeyringFails, Shutdown, Inv1, Shape, TypeOK, Roles, OnlyTheActiveWrites, OneLeader, Leads, Unlocked, Busy, storage, Safe, StorageCovers
<1>2. PutOpens'
  BY DEF ReloadKeyringFails, Shutdown, Inv1, Shape, TypeOK, Roles, OnlyTheActiveWrites, OneLeader, Leads, Unlocked, Busy, storage, Safe, PutOpens
<1>3. EntriesReadable'
  BY DEF ReloadKeyringFails, Shutdown, Inv1, Shape, TypeOK, Roles, OnlyTheActiveWrites, OneLeader, Leads, Unlocked, Busy, storage, Safe, EntriesReadable
<1> QED
  BY <1>1, <1>2, <1>3 DEF Safe

(* Rotate leaves every entry readable. *)
LEMMA SafeRotate ==
  ASSUME Inv1, Safe, NEW n \in Node, Rotate(n)
  PROVE  Safe'
<1>1. mem[n] \in WellFormed /\ mem[n].activeTerm < MaxTerm /\ keys + 1 \in 1..MaxKeys
  BY DEF Rotate, Inv1, Shape, TypeOK, Keyrings
<1>2. Covers(AddKey(mem[n], mem[n].activeTerm + 1, keys + 1), mem[n])
  BY <1>1, AddKeyWellFormed
<1>3. StorageCovers'
  BY <1>1, <1>2 DEF Rotate, Begin, Inv1, Shape, TypeOK, Roles, OnlyTheActiveWrites, OneLeader, Leads, Unlocked, Busy, storage, Safe, StorageCovers
<1>4. PutOpens'
  BY <1>1, <1>2 DEF Rotate, Begin, Inv1, Shape, TypeOK, Roles, OnlyTheActiveWrites, OneLeader, Leads, Unlocked, Busy, storage, Safe, PutOpens
<1>5. EntriesReadable'
  BY <1>1, <1>2 DEF Rotate, Begin, Inv1, Shape, TypeOK, Roles, OnlyTheActiveWrites, OneLeader, Leads, Unlocked, Busy, storage, Safe, EntriesReadable
<1> QED
  BY <1>3, <1>4, <1>5 DEF Safe

(* Save leaves every entry readable. *)
LEMMA SafeSave ==
  ASSUME Inv1, Safe, NEW n \in Node, Save(n)
  PROVE  Safe'
<1>1. Covers(mem[n], mem[n])
  BY KeysOfWellFormed DEF Inv1, Shape, Keyrings
<1>2. StorageCovers'
  BY <1>1 DEF Save, Begin, Inv1, Shape, TypeOK, Roles, OnlyTheActiveWrites, OneLeader, Leads, Unlocked, Busy, storage, Safe, StorageCovers
<1>3. PutOpens'
  BY <1>1 DEF Save, Begin, Inv1, Shape, TypeOK, Roles, OnlyTheActiveWrites, OneLeader, Leads, Unlocked, Busy, storage, Safe, PutOpens
<1>4. EntriesReadable'
  BY <1>1 DEF Save, Begin, Inv1, Shape, TypeOK, Roles, OnlyTheActiveWrites, OneLeader, Leads, Unlocked, Busy, storage, Safe, EntriesReadable
<1> QED
  BY <1>2, <1>3, <1>4 DEF Safe

(* RootStores leaves every entry readable. *)
LEMMA SafeRootStores ==
  ASSUME Inv1, Safe, NEW n \in Node, RootStores(n)
  PROVE  Safe'
<1>1. StorageCovers'
  BY DEF RootStores, Inv1, Shape, TypeOK, Roles, OnlyTheActiveWrites, OneLeader, Leads, Unlocked, Busy, storage, Safe, StorageCovers
<1>2. PutOpens'
  BY DEF RootStores, Inv1, Shape, TypeOK, Roles, OnlyTheActiveWrites, OneLeader, Leads, Unlocked, Busy, storage, Safe, PutOpens
<1>3. EntriesReadable'
  BY DEF RootStores, Inv1, Shape, TypeOK, Roles, OnlyTheActiveWrites, OneLeader, Leads, Unlocked, Busy, storage, Safe, EntriesReadable
<1> QED
  BY <1>1, <1>2, <1>3 DEF Safe

(* RotateRootKey leaves every entry readable. *)
LEMMA SafeRotateRootKey ==
  ASSUME Inv1, Safe, NEW n \in Node, RotateRootKey(n)
  PROVE  Safe'
<1>1. mem[n] \in WellFormed /\ rekey[n] \in 1..MaxRoots
  BY DEF RotateRootKey, Inv1, Shape, TypeOK, Keyrings
<1>2. Covers(SetRootKey(mem[n], rekey[n]), mem[n])
  BY <1>1, SetRootKeyWellFormed DEF Covers
<1>3. StorageCovers'
  BY <1>1, <1>2 DEF RotateRootKey, Begin, Inv1, Shape, TypeOK, Roles, OnlyTheActiveWrites, OneLeader, Leads, Unlocked, Busy, storage, Safe, StorageCovers
<1>4. PutOpens'
  BY <1>1, <1>2 DEF RotateRootKey, Begin, Inv1, Shape, TypeOK, Roles, OnlyTheActiveWrites, OneLeader, Leads, Unlocked, Busy, storage, Safe, PutOpens
<1>5. EntriesReadable'
  BY <1>1, <1>2 DEF RotateRootKey, Begin, Inv1, Shape, TypeOK, Roles, OnlyTheActiveWrites, OneLeader, Leads, Unlocked, Busy, storage, Safe, EntriesReadable
<1> QED
  BY <1>3, <1>4, <1>5 DEF Safe

(* PutKeyring leaves every entry readable. *)
LEMMA SafePutKeyring ==
  ASSUME Inv1, Safe, NEW n \in Node, PutKeyring(n)
  PROVE  Safe'
<1>1. mode[n] = "active" /\ op[n] # Idle
  BY FirstWellFormed DEF PutKeyring, Inv1, Roles, OnlyTheActiveWrites
<1>2. Covers(op[n].new, mem[n]) /\ Covers(op[n].new, op[n].new)
  BY <1>1, KeysOfWellFormed DEF Safe, StorageCovers, Inv1, Shape, Keyrings
<1>3. \A e \in entries : Opens(op[n].new, e)
  BY <1>1, <1>2, CoversOpens DEF Safe, EntriesReadable, Inv1, Shape, TypeOK
<1>4. put[n] # NoPut => Opens(op[n].new, put[n])
  BY <1>1, <1>2, CoversOpens DEF Safe, PutOpens, Inv1, Shape, TypeOK
<1>5. StorageCovers'
  BY <1>1, <1>2, <1>3, <1>4, FirstWellFormed DEF PutKeyring, Inv1, Shape, TypeOK, Roles, OnlyTheActiveWrites, OneLeader, Leads, Unlocked, Busy, storage, Safe, StorageCovers
<1>6. PutOpens'
  BY <1>1, <1>2, <1>3, <1>4, FirstWellFormed DEF PutKeyring, Inv1, Shape, TypeOK, Roles, OnlyTheActiveWrites, OneLeader, Leads, Unlocked, Busy, storage, Safe, PutOpens
<1>7. EntriesReadable'
  BY <1>1, <1>2, <1>3, <1>4, FirstWellFormed DEF PutKeyring, Inv1, Shape, TypeOK, Roles, OnlyTheActiveWrites, OneLeader, Leads, Unlocked, Busy, storage, Safe, EntriesReadable
<1> QED
  BY <1>5, <1>6, <1>7 DEF Safe

(* PutRootKey leaves every entry readable. *)
LEMMA SafePutRootKey ==
  ASSUME Inv1, Safe, NEW n \in Node, PutRootKey(n)
  PROVE  Safe'
<1>1. mode[n] = "active" /\ op[n] # Idle
  BY FirstWellFormed DEF PutRootKey, Inv1, Roles, OnlyTheActiveWrites
<1>2. Covers(op[n].new, mem[n]) /\ Covers(op[n].new, op[n].new)
  BY <1>1, KeysOfWellFormed DEF Safe, StorageCovers, Inv1, Shape, Keyrings
<1>3. \A e \in entries : Opens(op[n].new, e)
  BY <1>1, <1>2, CoversOpens DEF Safe, EntriesReadable, Inv1, Shape, TypeOK
<1>4. put[n] # NoPut => Opens(op[n].new, put[n])
  BY <1>1, <1>2, CoversOpens DEF Safe, PutOpens, Inv1, Shape, TypeOK
<1>5. StorageCovers'
  BY <1>1, <1>2, <1>3, <1>4, FirstWellFormed DEF PutRootKey, Inv1, Shape, TypeOK, Roles, OnlyTheActiveWrites, OneLeader, Leads, Unlocked, Busy, storage, Safe, StorageCovers
<1>6. PutOpens'
  BY <1>1, <1>2, <1>3, <1>4, FirstWellFormed DEF PutRootKey, Inv1, Shape, TypeOK, Roles, OnlyTheActiveWrites, OneLeader, Leads, Unlocked, Busy, storage, Safe, PutOpens
<1>7. EntriesReadable'
  BY <1>1, <1>2, <1>3, <1>4, FirstWellFormed DEF PutRootKey, Inv1, Shape, TypeOK, Roles, OnlyTheActiveWrites, OneLeader, Leads, Unlocked, Busy, storage, Safe, EntriesReadable
<1> QED
  BY <1>5, <1>6, <1>7 DEF Safe

(* SwapKeyring leaves every entry readable. *)
LEMMA SafeSwapKeyring ==
  ASSUME Inv1, Safe, NEW n \in Node, SwapKeyring(n)
  PROVE  Safe'
<1>1. mode[n] = "active" /\ op[n] # Idle
  BY FirstWellFormed DEF SwapKeyring, Inv1, Roles, OnlyTheActiveWrites
<1>2. Covers(op[n].new, mem[n]) /\ Covers(op[n].new, op[n].new)
  BY <1>1, KeysOfWellFormed DEF Safe, StorageCovers, Inv1, Shape, Keyrings
<1>3. \A e \in entries : Opens(op[n].new, e)
  BY <1>1, <1>2, CoversOpens DEF Safe, EntriesReadable, Inv1, Shape, TypeOK
<1>4. put[n] # NoPut => Opens(op[n].new, put[n])
  BY <1>1, <1>2, CoversOpens DEF Safe, PutOpens, Inv1, Shape, TypeOK
<1>5. StorageCovers'
  BY <1>1, <1>2, <1>3, <1>4, FirstWellFormed DEF SwapKeyring, Inv1, Shape, TypeOK, Roles, OnlyTheActiveWrites, OneLeader, Leads, Unlocked, Busy, storage, Safe, StorageCovers
<1>6. PutOpens'
  BY <1>1, <1>2, <1>3, <1>4, FirstWellFormed DEF SwapKeyring, Inv1, Shape, TypeOK, Roles, OnlyTheActiveWrites, OneLeader, Leads, Unlocked, Busy, storage, Safe, PutOpens
<1>7. EntriesReadable'
  BY <1>1, <1>2, <1>3, <1>4, FirstWellFormed DEF SwapKeyring, Inv1, Shape, TypeOK, Roles, OnlyTheActiveWrites, OneLeader, Leads, Unlocked, Busy, storage, Safe, EntriesReadable
<1> QED
  BY <1>5, <1>6, <1>7 DEF Safe

(* CreateUpgrade leaves every entry readable. *)
LEMMA SafeCreateUpgrade ==
  ASSUME Inv1, Safe, NEW n \in Node, CreateUpgrade(n)
  PROVE  Safe'
<1>1. StorageCovers'
  BY DEF CreateUpgrade, Inv1, Shape, TypeOK, Roles, OnlyTheActiveWrites, OneLeader, Leads, Unlocked, Busy, storage, Safe, StorageCovers
<1>2. PutOpens'
  BY DEF CreateUpgrade, Inv1, Shape, TypeOK, Roles, OnlyTheActiveWrites, OneLeader, Leads, Unlocked, Busy, storage, Safe, PutOpens
<1>3. EntriesReadable'
  BY DEF CreateUpgrade, Inv1, Shape, TypeOK, Roles, OnlyTheActiveWrites, OneLeader, Leads, Unlocked, Busy, storage, Safe, EntriesReadable
<1> QED
  BY <1>1, <1>2, <1>3 DEF Safe

(* DestroyUpgrade leaves every entry readable. *)
LEMMA SafeDestroyUpgrade ==
  ASSUME Inv1, Safe, NEW n \in Node, DestroyUpgrade(n)
  PROVE  Safe'
<1>1. StorageCovers'
  BY DEF DestroyUpgrade, Inv1, Shape, TypeOK, Roles, OnlyTheActiveWrites, OneLeader, Leads, Unlocked, Busy, storage, Safe, StorageCovers
<1>2. PutOpens'
  BY DEF DestroyUpgrade, Inv1, Shape, TypeOK, Roles, OnlyTheActiveWrites, OneLeader, Leads, Unlocked, Busy, storage, Safe, PutOpens
<1>3. EntriesReadable'
  BY DEF DestroyUpgrade, Inv1, Shape, TypeOK, Roles, OnlyTheActiveWrites, OneLeader, Leads, Unlocked, Busy, storage, Safe, EntriesReadable
<1> QED
  BY <1>1, <1>2, <1>3 DEF Safe

(* PutBegins leaves every entry readable. *)
LEMMA SafePutBegins ==
  ASSUME Inv1, Safe, NEW n \in Node, PutBegins(n)
  PROVE  Safe'
<1>1. Opens(mem[n], ActiveKey(mem[n]))
  BY KeysOfWellFormed DEF Inv1, Shape, Keyrings
<1>2. StorageCovers'
  BY <1>1 DEF PutBegins, Inv1, Shape, TypeOK, Roles, OnlyTheActiveWrites, OneLeader, Leads, Unlocked, Busy, storage, Safe, StorageCovers
<1>3. PutOpens'
  BY <1>1 DEF PutBegins, Inv1, Shape, TypeOK, Roles, OnlyTheActiveWrites, OneLeader, Leads, Unlocked, Busy, storage, Safe, PutOpens
<1>4. EntriesReadable'
  BY <1>1 DEF PutBegins, Inv1, Shape, TypeOK, Roles, OnlyTheActiveWrites, OneLeader, Leads, Unlocked, Busy, storage, Safe, EntriesReadable
<1> QED
  BY <1>2, <1>3, <1>4 DEF Safe

(* PutLands leaves every entry readable. *)
LEMMA SafePutLands ==
  ASSUME Inv1, Safe, NEW n \in Node, PutLands(n)
  PROVE  Safe'
<1>1. mode[n] = "active"
  BY DEF PutLands, Inv1, Roles, OnlyTheActiveWrites
<1>2. Opens(mem[n], put[n])
  BY DEF PutLands, Safe, PutOpens
<1>3. Opens(disk, put[n])
  BY <1>1, <1>2, CoversOpens DEF PutLands, Safe, StorageCovers, Inv1, Shape, TypeOK
<1>4. StorageCovers'
  BY <1>1, <1>2, <1>3 DEF PutLands, Inv1, Shape, TypeOK, Roles, OnlyTheActiveWrites, OneLeader, Leads, Unlocked, Busy, storage, Safe, StorageCovers
<1>5. PutOpens'
  BY <1>1, <1>2, <1>3 DEF PutLands, Inv1, Shape, TypeOK, Roles, OnlyTheActiveWrites, OneLeader, Leads, Unlocked, Busy, storage, Safe, PutOpens
<1>6. EntriesReadable'
  BY <1>1, <1>2, <1>3 DEF PutLands, Inv1, Shape, TypeOK, Roles, OnlyTheActiveWrites, OneLeader, Leads, Unlocked, Busy, storage, Safe, EntriesReadable
<1> QED
  BY <1>4, <1>5, <1>6 DEF Safe

(* PutFails leaves every entry readable. *)
LEMMA SafePutFails ==
  ASSUME Inv1, Safe, NEW n \in Node, PutFails(n)
  PROVE  Safe'
<1>1. StorageCovers'
  BY DEF PutFails, Inv1, Shape, TypeOK, Roles, OnlyTheActiveWrites, OneLeader, Leads, Unlocked, Busy, storage, Safe, StorageCovers
<1>2. PutOpens'
  BY DEF PutFails, Inv1, Shape, TypeOK, Roles, OnlyTheActiveWrites, OneLeader, Leads, Unlocked, Busy, storage, Safe, PutOpens
<1>3. EntriesReadable'
  BY DEF PutFails, Inv1, Shape, TypeOK, Roles, OnlyTheActiveWrites, OneLeader, Leads, Unlocked, Busy, storage, Safe, EntriesReadable
<1> QED
  BY <1>1, <1>2, <1>3 DEF Safe

(* PersistFails leaves every entry readable. *)
LEMMA SafePersistFails ==
  ASSUME Inv1, Safe, NEW n \in Node, PersistFails(n)
  PROVE  Safe'
<1>1. mode[n] = "active" /\ op[n] # Idle
  BY FirstWellFormed DEF PersistFails, Inv1, Roles, OnlyTheActiveWrites
<1>2. Covers(op[n].new, mem[n]) /\ Covers(op[n].new, op[n].new)
  BY <1>1, KeysOfWellFormed DEF Safe, StorageCovers, Inv1, Shape, Keyrings
<1>3. \A e \in entries : Opens(op[n].new, e)
  BY <1>1, <1>2, CoversOpens DEF Safe, EntriesReadable, Inv1, Shape, TypeOK
<1>4. put[n] # NoPut => Opens(op[n].new, put[n])
  BY <1>1, <1>2, CoversOpens DEF Safe, PutOpens, Inv1, Shape, TypeOK
<1>5. StorageCovers'
  BY <1>1, <1>2, <1>3, <1>4, FirstWellFormed DEF PersistFails, Fault, Inv1, Shape, TypeOK, Roles, OnlyTheActiveWrites, OneLeader, Leads, Unlocked, Busy, storage, Safe, StorageCovers
<1>6. PutOpens'
  BY <1>1, <1>2, <1>3, <1>4, FirstWellFormed DEF PersistFails, Fault, Inv1, Shape, TypeOK, Roles, OnlyTheActiveWrites, OneLeader, Leads, Unlocked, Busy, storage, Safe, PutOpens
<1>7. EntriesReadable'
  BY <1>1, <1>2, <1>3, <1>4, FirstWellFormed DEF PersistFails, Fault, Inv1, Shape, TypeOK, Roles, OnlyTheActiveWrites, OneLeader, Leads, Unlocked, Busy, storage, Safe, EntriesReadable
<1> QED
  BY <1>5, <1>6, <1>7 DEF Safe

(* CreateUpgradeFails leaves every entry readable. *)
LEMMA SafeCreateUpgradeFails ==
  ASSUME Inv1, Safe, NEW n \in Node, CreateUpgradeFails(n)
  PROVE  Safe'
<1>1. StorageCovers'
  BY DEF CreateUpgradeFails, Fault, Inv1, Shape, TypeOK, Roles, OnlyTheActiveWrites, OneLeader, Leads, Unlocked, Busy, storage, Safe, StorageCovers
<1>2. PutOpens'
  BY DEF CreateUpgradeFails, Fault, Inv1, Shape, TypeOK, Roles, OnlyTheActiveWrites, OneLeader, Leads, Unlocked, Busy, storage, Safe, PutOpens
<1>3. EntriesReadable'
  BY DEF CreateUpgradeFails, Fault, Inv1, Shape, TypeOK, Roles, OnlyTheActiveWrites, OneLeader, Leads, Unlocked, Busy, storage, Safe, EntriesReadable
<1> QED
  BY <1>1, <1>2, <1>3 DEF Safe

(* Crash leaves every entry readable. *)
LEMMA SafeCrash ==
  ASSUME Inv1, Safe, NEW n \in Node, Crash(n)
  PROVE  Safe'
<1>1. StorageCovers'
  BY FirstWellFormed DEF Crash, Ends, Fault, Inv1, Shape, TypeOK, Roles, OnlyTheActiveWrites, OneLeader, Leads, Unlocked, Busy, storage, Safe, StorageCovers
<1>2. PutOpens'
  BY FirstWellFormed DEF Crash, Ends, Fault, Inv1, Shape, TypeOK, Roles, OnlyTheActiveWrites, OneLeader, Leads, Unlocked, Busy, storage, Safe, PutOpens
<1>3. EntriesReadable'
  BY FirstWellFormed DEF Crash, Ends, Fault, Inv1, Shape, TypeOK, Roles, OnlyTheActiveWrites, OneLeader, Leads, Unlocked, Busy, storage, Safe, EntriesReadable
<1> QED
  BY <1>1, <1>2, <1>3 DEF Safe

(* Restart leaves every entry readable. *)
LEMMA SafeRestart ==
  ASSUME Inv1, Safe, NEW n \in Node, Restart(n)
  PROVE  Safe'
<1>1. StorageCovers'
  BY FirstWellFormed DEF Restart, Ends, Inv1, Shape, TypeOK, Roles, OnlyTheActiveWrites, OneLeader, Leads, Unlocked, Busy, storage, Safe, StorageCovers
<1>2. PutOpens'
  BY FirstWellFormed DEF Restart, Ends, Inv1, Shape, TypeOK, Roles, OnlyTheActiveWrites, OneLeader, Leads, Unlocked, Busy, storage, Safe, PutOpens
<1>3. EntriesReadable'
  BY FirstWellFormed DEF Restart, Ends, Inv1, Shape, TypeOK, Roles, OnlyTheActiveWrites, OneLeader, Leads, Unlocked, Busy, storage, Safe, EntriesReadable
<1> QED
  BY <1>1, <1>2, <1>3 DEF Safe

-----------------------------------------------------------------------------

(* The two invariants hold in every state.                                 *)
LEMMA Inductive == Spec => [](Inv1 /\ Safe)
<1>1. Init => Inv1 /\ Safe
  BY Inv1Init, SafeInit
<1>2. Inv1 /\ Safe /\ [Next]_vars => (Inv1 /\ Safe)'
  <2> SUFFICES ASSUME Inv1, Safe, [Next]_vars PROVE (Inv1 /\ Safe)'
    OBVIOUS
  <2>1. CASE UNCHANGED vars
    <3>1. Inv1'
      BY <2>1 DEF Inv1, Shape, TypeOK, Keyrings, UpgradesInRange, Roles, OneLeader, OnlyTheActiveWrites, OpsGrow, Leads, vars, storage, counters
    <3>2. Safe'
      BY <2>1 DEF Safe, StorageCovers, PutOpens, EntriesReadable, vars, storage
    <3> QED
      BY <3>1, <3>2
  <2>2. ASSUME NEW n \in Node,
               \/ Unseal(n)
               \/ TakeLock(n)
               \/ StepDown(n)
               \/ CheckUpgrade(n)
               \/ CheckUpgradeFails(n)
               \/ ReloadRootKey(n)
               \/ ReloadRootKeyFails(n)
               \/ ReloadKeyring(n)
               \/ ReloadKeyringFails(n)
               \/ Rotate(n)
               \/ Save(n)
               \/ RootStores(n)
               \/ RotateRootKey(n)
               \/ PutKeyring(n)
               \/ PutRootKey(n)
               \/ SwapKeyring(n)
               \/ CreateUpgrade(n)
               \/ DestroyUpgrade(n)
               \/ PutBegins(n)
               \/ PutLands(n)
               \/ PutFails(n)
               \/ PersistFails(n)
               \/ CreateUpgradeFails(n)
               \/ Crash(n)
               \/ Restart(n)
        PROVE  (Inv1 /\ Safe)'
    <3>1. CASE Unseal(n)
      BY <3>1, Inv1Unseal, SafeUnseal
    <3>2. CASE TakeLock(n)
      BY <3>2, Inv1TakeLock, SafeTakeLock
    <3>3. CASE StepDown(n)
      BY <3>3, Inv1StepDown, SafeStepDown
    <3>4. CASE CheckUpgrade(n)
      BY <3>4, Inv1CheckUpgrade, SafeCheckUpgrade
    <3>5. CASE CheckUpgradeFails(n)
      BY <3>5, Inv1CheckUpgradeFails, SafeCheckUpgradeFails
    <3>6. CASE ReloadRootKey(n)
      BY <3>6, Inv1ReloadRootKey, SafeReloadRootKey
    <3>7. CASE ReloadRootKeyFails(n)
      BY <3>7, Inv1ReloadRootKeyFails, SafeReloadRootKeyFails
    <3>8. CASE ReloadKeyring(n)
      BY <3>8, Inv1ReloadKeyring, SafeReloadKeyring
    <3>9. CASE ReloadKeyringFails(n)
      BY <3>9, Inv1ReloadKeyringFails, SafeReloadKeyringFails
    <3>10. CASE Rotate(n)
      BY <3>10, Inv1Rotate, SafeRotate
    <3>11. CASE Save(n)
      BY <3>11, Inv1Save, SafeSave
    <3>12. CASE RootStores(n)
      BY <3>12, Inv1RootStores, SafeRootStores
    <3>13. CASE RotateRootKey(n)
      BY <3>13, Inv1RotateRootKey, SafeRotateRootKey
    <3>14. CASE PutKeyring(n)
      BY <3>14, Inv1PutKeyring, SafePutKeyring
    <3>15. CASE PutRootKey(n)
      BY <3>15, Inv1PutRootKey, SafePutRootKey
    <3>16. CASE SwapKeyring(n)
      BY <3>16, Inv1SwapKeyring, SafeSwapKeyring
    <3>17. CASE CreateUpgrade(n)
      BY <3>17, Inv1CreateUpgrade, SafeCreateUpgrade
    <3>18. CASE DestroyUpgrade(n)
      BY <3>18, Inv1DestroyUpgrade, SafeDestroyUpgrade
    <3>19. CASE PutBegins(n)
      BY <3>19, Inv1PutBegins, SafePutBegins
    <3>20. CASE PutLands(n)
      BY <3>20, Inv1PutLands, SafePutLands
    <3>21. CASE PutFails(n)
      BY <3>21, Inv1PutFails, SafePutFails
    <3>22. CASE PersistFails(n)
      BY <3>22, Inv1PersistFails, SafePersistFails
    <3>23. CASE CreateUpgradeFails(n)
      BY <3>23, Inv1CreateUpgradeFails, SafeCreateUpgradeFails
    <3>24. CASE Crash(n)
      BY <3>24, Inv1Crash, SafeCrash
    <3>25. CASE Restart(n)
      BY <3>25, Inv1Restart, SafeRestart
    <3> QED
      BY <2>2, <3>1, <3>2, <3>3, <3>4, <3>5, <3>6, <3>7, <3>8, <3>9, <3>10, <3>11, <3>12, <3>13, <3>14, <3>15, <3>16, <3>17, <3>18, <3>19, <3>20, <3>21, <3>22, <3>23, <3>24, <3>25
  <2> QED
    BY <2>1, <2>2 DEF Next, Follows, Persists
<1> QED
  BY <1>1, <1>2, PTL DEF Spec

(* The state always has its type: in particular, no upgrade or root key    *)
(* entry is written under a key that does not exist.                       *)
THEOREM TypeCorrect == Spec => []TypeOK
<1>1. Inv1 /\ Safe => TypeOK
  BY DEF Inv1, Shape
<1> QED
  BY <1>1, Inductive, PTL

(* Rotate's promise that "old values should still be decryptable": the     *)
(* keyring in storage and the active node's have the key of every entry,   *)
(* whatever writes fail and whichever nodes crash, however often.          *)
THEOREM EntriesStayReadable == Spec => []EntriesReadable
<1>1. Inv1 /\ Safe => EntriesReadable
  BY DEF Safe
<1> QED
  BY <1>1, Inductive, PTL

-----------------------------------------------------------------------------
(* As long as nothing is cut short *)

(* Covers is transitive. *)
LEMMA CoversTransitive ==
  ASSUME NEW a, NEW b, NEW c, Covers(a, b), Covers(b, c)
  PROVE  Covers(a, c)
BY DEF Covers

(* A keyring that another one covers and that is of its term has its keys. *)
LEMMA CoveredSameTerm ==
  ASSUME NEW a \in WellFormed, NEW b \in WellFormed, Covers(a, b), a.activeTerm = b.activeTerm
  PROVE  \A t \in Term : a.keys[t] = b.keys[t]
BY DEF Covers, WellFormed, Dense

(* A keyring covers only keyrings of lower terms. *)
LEMMA CoveredTerm ==
  ASSUME NEW a \in WellFormed, NEW b \in WellFormed, Covers(a, b)
  PROVE  b.activeTerm <= a.activeTerm
<1>1. b.activeTerm \in Term
  BY KeysOfWellFormed
<1>2. b.keys[b.activeTerm] # 0
  BY <1>1 DEF WellFormed, Dense, Term
<1>3. a.keys[b.activeTerm] # 0
  BY <1>1, <1>2 DEF Covers
<1> QED
  BY <1>1, <1>3 DEF WellFormed, Dense

(* They hold at the start. *)
LEMMA SmoothInit == Init => Smooth
<1> SUFFICES ASSUME Init PROVE Smooth
  OBVIOUS
<1>1. FirstKeyring \in WellFormed /\ Covers(FirstKeyring, FirstKeyring)
  BY FirstWellFormed, KeysOfWellFormed
<1>2. Behind /\ NoneShutDown
  BY <1>1 DEF Init, Behind, NoneShutDown
<1>3. UpToDate /\ OneTermMore /\ UpgradesTrue /\ Trail
  BY DEF Init, UpToDate, OneTermMore, UpgradesTrue, Trail
<1>4. RootKnown
  BY DEF Init, RootKnown, FirstKeyring, Opens, Term
<1> QED
  BY <1>2, <1>3, <1>4 DEF Smooth

(* A step that changes neither keyrings nor what is written keeps them. *)
LEMMA SmoothSame ==
  ASSUME Smooth, UNCHANGED <<disk, rootEntry, upgrades, mode, mem, op, owed>>
  PROVE  Smooth'
<1>1. Behind' /\ UpToDate' /\ OneTermMore' /\ UpgradesTrue'
  BY DEF Smooth, Behind, UpToDate, OneTermMore, UpgradesTrue
<1>2. Trail'
  BY DEF Smooth, Trail, Due
<1>3. RootKnown' /\ NoneShutDown'
  BY DEF Smooth, RootKnown, NoneShutDown
<1> QED
  BY <1>1, <1>2, <1>3 DEF Smooth

(* Unseal reads what is in storage. *)
LEMMA SmoothUnseal ==
  ASSUME Inv1, Smooth, NEW n \in Node, Unseal(n)
  PROVE  Smooth'
<1>1. /\ mem' = [mem EXCEPT ![n] = disk] /\ mode' = [mode EXCEPT ![n] = "standby"]
      /\ UNCHANGED <<disk, rootEntry, upgrades, op, owed>>
      /\ mem \in [Node -> Keyring] /\ mode \in [Node -> Modes]
  BY DEF Unseal, storage, Inv1, Shape, TypeOK
<1>2. op[n] = Idle /\ disk \in WellFormed /\ Covers(disk, disk) /\ disk.activeTerm \in Nat
  BY KeysOfWellFormed DEF Unseal, Inv1, Roles, OnlyTheActiveWrites, Shape, Keyrings, Term
<1>3. Behind'
  BY <1>1, <1>2 DEF Smooth, Behind
<1>4. UpToDate' /\ OneTermMore' /\ NoneShutDown'
  BY <1>1, <1>2 DEF Smooth, UpToDate, OneTermMore, NoneShutDown
<1>5. UpgradesTrue'
  BY <1>1 DEF Smooth, UpgradesTrue
<1>6. Trail'
  <2> SUFFICES ASSUME NEW m \in Node, mode'[m] \in {"standby", "leading"}, NEW t \in Term, mem'[m].activeTerm <= t, t < disk.activeTerm
      PROVE (\E u \in upgrades : u.from = t) \/ Due(t + 1)
    BY <1>1 DEF Trail, Due
  <2>1. m # n
    BY <1>1, <1>2 DEF Term
  <2> QED
    BY <1>1, <2>1 DEF Smooth, Trail
<1>7. RootKnown'
  BY <1>1 DEF Smooth, RootKnown
<1> QED
  BY <1>3, <1>4, <1>5, <1>6, <1>7 DEF Smooth

(* A node that takes the lock is to follow as before. *)
LEMMA SmoothTakeLock ==
  ASSUME Inv1, Smooth, NEW n \in Node, TakeLock(n)
  PROVE  Smooth'
<1>1. /\ mode' = [mode EXCEPT ![n] = "leading"] /\ mode[n] = "standby"
      /\ UNCHANGED <<disk, rootEntry, upgrades, mem, op, owed>>
      /\ mode \in [Node -> Modes]
  BY DEF TakeLock, storage, Inv1, Shape, TypeOK
<1>2. Behind' /\ UpToDate' /\ OneTermMore' /\ UpgradesTrue' /\ NoneShutDown'
  BY <1>1 DEF Smooth, Behind, UpToDate, OneTermMore, UpgradesTrue, NoneShutDown
<1>3. Trail'
  BY <1>1 DEF Smooth, Trail, Due
<1>4. RootKnown'
  BY <1>1 DEF Smooth, RootKnown
<1> QED
  BY <1>2, <1>3, <1>4 DEF Smooth

(* A node that steps down has the keys in storage. *)
LEMMA SmoothStepDown ==
  ASSUME Inv1, Smooth, NEW n \in Node, StepDown(n)
  PROVE  Smooth'
<1>1. /\ mode' = [mode EXCEPT ![n] = "standby"] /\ mode[n] = "active" /\ op[n] = Idle
      /\ UNCHANGED <<disk, rootEntry, upgrades, mem, op, owed>>
      /\ mode \in [Node -> Modes]
  BY DEF StepDown, Busy, storage, Inv1, Shape, TypeOK
<1>2. mem[n].activeTerm = disk.activeTerm /\ disk.activeTerm \in Nat
  BY <1>1, FirstWellFormed, KeysOfWellFormed DEF Smooth, UpToDate, Matches, Inv1, Shape, Keyrings, Term
<1>3. Behind' /\ UpToDate' /\ OneTermMore' /\ UpgradesTrue' /\ NoneShutDown'
  BY <1>1 DEF Smooth, Behind, UpToDate, OneTermMore, UpgradesTrue, NoneShutDown
<1>4. Trail'
  <2> SUFFICES ASSUME NEW m \in Node, mode'[m] \in {"standby", "leading"}, NEW t \in Term, mem[m].activeTerm <= t, t < disk.activeTerm
      PROVE (\E u \in upgrades : u.from = t) \/ Due(t + 1)
    BY <1>1 DEF Trail, Due
  <2>1. m # n
    BY <1>1, <1>2 DEF Term
  <2> QED
    BY <1>1, <2>1 DEF Smooth, Trail
<1>5. RootKnown'
  BY <1>1 DEF Smooth, RootKnown
<1> QED
  BY <1>3, <1>4, <1>5 DEF Smooth

(* An upgrade gives a node the next key in storage. *)
LEMMA SmoothCheckUpgrade ==
  ASSUME Inv1, Smooth, NEW n \in Node, CheckUpgrade(n)
  PROVE  Smooth'
<1>1. PICK u \in upgrades : u.from = mem[n].activeTerm /\ mem' = [mem EXCEPT ![n] = AddKey(mem[n], u.from + 1, u.key)]
  BY DEF CheckUpgrade, UpgradeOf
<1> DEFINE new == AddKey(mem[n], u.from + 1, u.key)
<1>2. /\ mode[n] \in {"standby", "leading"}
      /\ UNCHANGED <<disk, rootEntry, upgrades, mode, op, owed>>
      /\ mem \in [Node -> Keyring]
      /\ mem[n] \in WellFormed /\ mem[n] \in Keyring /\ mem[n].activeTerm \in Term
      /\ op[n] = Idle
  BY KeysOfWellFormed DEF CheckUpgrade, storage, Inv1, Shape, TypeOK, Keyrings, Roles, OnlyTheActiveWrites
<1>3. u.from < MaxTerm /\ u.key \in 1..MaxKeys /\ u.key = disk.keys[u.from + 1]
  BY DEF Inv1, Shape, TypeOK, UpgradesInRange, Smooth, UpgradesTrue
<1>4. new.activeTerm = mem[n].activeTerm + 1
  BY <1>1, <1>2, <1>3, AddKeyWellFormed
<1>5. Covers(disk, new)
  <2>1. new.keys = [mem[n].keys EXCEPT ![u.from + 1] = u.key]
    BY DEF AddKey
  <2>2. \A t \in Term : new.keys[t] = IF t = u.from + 1 THEN u.key ELSE mem[n].keys[t]
    BY <2>1, <1>2 DEF Keyring
  <2>3. Covers(disk, mem[n])
    BY DEF Smooth, Behind
  <2> QED
    BY <2>2, <2>3, <1>3 DEF Covers
<1>6. Behind'
  BY <1>1, <1>2, <1>5 DEF Smooth, Behind
<1>7. UpToDate' /\ OneTermMore' /\ UpgradesTrue' /\ NoneShutDown'
  BY <1>1, <1>2 DEF Smooth, UpToDate, OneTermMore, UpgradesTrue, NoneShutDown
<1>8. Trail'
  <2> SUFFICES ASSUME NEW m \in Node, mode[m] \in {"standby", "leading"}, NEW t \in Term, mem'[m].activeTerm <= t, t < disk.activeTerm
      PROVE (\E v \in upgrades : v.from = t) \/ Due(t + 1)
    BY <1>2 DEF Trail, Due
  <2>1. mem[m].activeTerm <= t
    BY <1>1, <1>2, <1>4 DEF Term
  <2> QED
    BY <2>1 DEF Smooth, Trail
<1>9. RootKnown'
  BY <1>1, <1>2 DEF Smooth, RootKnown
<1> QED
  BY <1>6, <1>7, <1>8, <1>9 DEF Smooth

(* checkKeyringUpgrade does not meet an upgrade that its key cannot open. *)
LEMMA SmoothCheckUpgradeFails ==
  ASSUME Inv1, Smooth, NEW n \in Node, CheckUpgradeFails(n)
  PROVE  FALSE
<1>1. PICK u \in upgrades : u.from = mem[n].activeTerm /\ ~Opens(mem[n], [term |-> u.from, key |-> u.under])
  BY DEF CheckUpgradeFails, UpgradeOf
<1>2. mem[n] \in WellFormed /\ Covers(disk, mem[n]) /\ u.under = disk.keys[u.from] /\ u.from \in Term
  BY DEF Inv1, Shape, TypeOK, Keyrings, Smooth, Behind, UpgradesTrue
<1>3. mem[n].keys[u.from] # 0
  BY <1>1, <1>2 DEF WellFormed, Dense, Term
<1> QED
  BY <1>1, <1>2, <1>3 DEF Opens, Covers

(* A node that leads and finds no upgrade has the keys in storage. *)
LEMMA LeadingIsCurrent ==
  ASSUME Inv1, Smooth, NEW n \in Node, mode[n] = "leading", UpgradeOf(mem[n]) = {}
  PROVE  /\ \A t \in Term : disk.keys[t] = mem[n].keys[t]
         /\ \A m \in Node : mode[m] # "active" /\ op[m] = Idle /\ owed[m] = {}
<1>1. \A m \in Node : mode[m] # "active" /\ op[m] = Idle /\ owed[m] = {}
  BY DEF Inv1, Roles, OneLeader, OnlyTheActiveWrites, Leads
<1>2. \A t : ~Due(t)
  BY <1>1, FirstWellFormed DEF Due
<1>3. mem[n] \in WellFormed /\ disk \in WellFormed /\ Covers(disk, mem[n])
  BY DEF Inv1, Shape, Keyrings, Smooth, Behind
<1>4. mem[n].activeTerm \in Term /\ disk.activeTerm \in Term
  BY <1>3, KeysOfWellFormed
<1>5. ~ (mem[n].activeTerm < disk.activeTerm)
  BY <1>2, <1>4 DEF Smooth, Trail, UpgradeOf, Term
<1>6. mem[n].activeTerm <= disk.activeTerm
  BY <1>3, CoveredTerm
<1>7. mem[n].activeTerm = disk.activeTerm
  BY <1>4, <1>5, <1>6 DEF Term
<1> QED
  BY <1>1, <1>3, <1>7, CoveredSameTerm

(* ReloadRootKey reads the root key of the keyring in storage. *)
LEMMA SmoothReloadRootKey ==
  ASSUME Inv1, Smooth, NEW n \in Node, ReloadRootKey(n)
  PROVE  Smooth'
<1> DEFINE new == SetRootKey(mem[n], rootEntry.root)
<1>1. /\ mode[n] = "leading" /\ UpgradeOf(mem[n]) = {}
      /\ mem' = [mem EXCEPT ![n] = new] /\ mode' = [mode EXCEPT ![n] = "rooted"]
      /\ UNCHANGED <<disk, rootEntry, upgrades, op, owed>>
      /\ mem \in [Node -> Keyring] /\ mode \in [Node -> Modes]
  BY DEF ReloadRootKey, storage, Inv1, Shape, TypeOK
<1>2. \A m \in Node : mode[m] # "active" /\ op[m] = Idle
  BY <1>1, LeadingIsCurrent
<1>3. new.keys = mem[n].keys /\ new.root = rootEntry.root
  BY SetRootKeyWellFormed DEF Inv1, Shape, TypeOK, Keyrings
<1>4. rootEntry.root = disk.root
  BY <1>2, FirstWellFormed DEF Smooth, RootKnown
<1>5. Behind'
  BY <1>1, <1>3 DEF Smooth, Behind, Covers
<1>6. UpToDate' /\ OneTermMore' /\ UpgradesTrue' /\ NoneShutDown'
  BY <1>1, <1>2 DEF Smooth, UpToDate, OneTermMore, UpgradesTrue, NoneShutDown
<1>7. Trail'
  BY <1>1 DEF Smooth, Trail, Due
<1>8. RootKnown'
  BY <1>1, <1>3, <1>4 DEF Smooth, RootKnown
<1> QED
  BY <1>5, <1>6, <1>7, <1>8 DEF Smooth

(* The root key is under a key that the node has. *)
LEMMA SmoothReloadRootKeyFails ==
  ASSUME Inv1, Smooth, NEW n \in Node, ReloadRootKeyFails(n)
  PROVE  FALSE
<1>1. \A t \in Term : disk.keys[t] = mem[n].keys[t]
  BY LeadingIsCurrent DEF ReloadRootKeyFails
<1>2. rootEntry.at.term \in Term
  BY DEF Inv1, Shape, TypeOK, Ciphertext
<1> QED
  BY <1>1, <1>2 DEF ReloadRootKeyFails, Smooth, RootKnown, Opens

(* ReloadKeyring reads what is in storage. *)
LEMMA SmoothReloadKeyring ==
  ASSUME Inv1, Smooth, NEW n \in Node, ReloadKeyring(n)
  PROVE  Smooth'
<1>1. /\ mode[n] = "rooted"
      /\ mem' = [mem EXCEPT ![n] = disk] /\ mode' = [mode EXCEPT ![n] = "active"]
      /\ UNCHANGED <<disk, rootEntry, upgrades, op, owed>>
      /\ mem \in [Node -> Keyring] /\ mode \in [Node -> Modes]
  BY DEF ReloadKeyring, storage, Inv1, Shape, TypeOK
<1>2. op[n] = Idle /\ Covers(disk, disk)
  BY <1>1, KeysOfWellFormed DEF Inv1, Roles, OnlyTheActiveWrites, Shape, Keyrings
<1>3. Behind'
  BY <1>1, <1>2 DEF Smooth, Behind
<1>4. UpToDate' /\ OneTermMore' /\ UpgradesTrue' /\ NoneShutDown'
  BY <1>1, <1>2 DEF Smooth, UpToDate, OneTermMore, UpgradesTrue, NoneShutDown, Matches
<1>5. Trail'
  BY <1>1 DEF Smooth, Trail, Due
<1>6. RootKnown'
  BY <1>1 DEF Smooth, RootKnown
<1> QED
  BY <1>3, <1>4, <1>5, <1>6 DEF Smooth

(* The root key that the node has read opens the keyring. *)
LEMMA SmoothReloadKeyringFails ==
  ASSUME Smooth, NEW n \in Node, ReloadKeyringFails(n)
  PROVE  FALSE
BY DEF ReloadKeyringFails, Smooth, RootKnown

(* A persistKeyring that begins changes nothing else. *)
LEMMA SmoothBegins ==
  ASSUME Inv1, Smooth, NEW n \in Node, NEW kind \in Kinds, NEW new,
         mode[n] = "active", op[n] = Idle,
         Begin(n, kind, new),
         UNCHANGED <<disk, rootEntry, upgrades, mode, mem, owed>>,
         kind = "rotate" => new.activeTerm = mem[n].activeTerm + 1,
         kind # "rotate" => Matches(new, mem[n])
  PROVE  Smooth'
<1> DEFINE o == [kind |-> kind, step |-> "keyring", new |-> new]
<1>1. /\ op' = [op EXCEPT ![n] = o] /\ op'[n] = o
      /\ \A m \in Node : m # n => op'[m] = op[m]
  BY DEF Begin, Inv1, Shape, TypeOK
<1>2. o.kind = kind /\ o.step = "keyring" /\ o.new = new
  OBVIOUS
<1>3. Matches(mem[n], disk)
  BY FirstWellFormed DEF Smooth, UpToDate
<1>4. Behind' /\ UpgradesTrue' /\ NoneShutDown'
  BY DEF Smooth, Behind, UpgradesTrue, NoneShutDown
<1>5. UpToDate'
  BY <1>1, <1>3 DEF Smooth, UpToDate, Matches
<1>6. OneTermMore'
  <2> SUFFICES ASSUME NEW m \in Node, op'[m] # Idle
      PROVE /\ op'[m].step \in {"keyring", "rootkey", "legacy"}
            /\ op'[m].kind = "rotate" => op'[m].new.activeTerm = mem[m].activeTerm + 1
            /\ op'[m].kind # "rotate" => Matches(op'[m].new, mem[m])
    BY DEF OneTermMore, Matches
  <2>1. CASE m = n
    BY <2>1, <1>1, <1>2
  <2>2. CASE m # n
    BY <2>2, <1>1 DEF Smooth, OneTermMore
  <2> QED
    BY <2>1, <2>2
<1>7. \A t : Due(t) => Due(t)'
  BY <1>1, FirstWellFormed DEF Due
<1>8. Trail'
  BY <1>7 DEF Smooth, Trail
<1>9. RootKnown'
  BY <1>1, FirstWellFormed DEF Smooth, RootKnown
<1> QED
  BY <1>4, <1>5, <1>6, <1>8, <1>9 DEF Smooth

(* Rotate begins one, with a key for the next term. *)
LEMMA SmoothRotate ==
  ASSUME Inv1, Smooth, NEW n \in Node, Rotate(n)
  PROVE  Smooth'
<1> DEFINE new == AddKey(mem[n], mem[n].activeTerm + 1, keys + 1)
<1>1. mem[n] \in WellFormed /\ mem[n].activeTerm < MaxTerm /\ keys + 1 \in 1..MaxKeys
  BY DEF Rotate, Inv1, Shape, TypeOK, Keyrings
<1>2. new.activeTerm = mem[n].activeTerm + 1
  BY <1>1, AddKeyWellFormed
<1>3. /\ mode[n] = "active" /\ op[n] = Idle /\ Begin(n, "rotate", new)
      /\ UNCHANGED <<disk, rootEntry, upgrades, mode, mem, owed>>
  BY DEF Rotate, Unlocked, storage
<1>4. "rotate" \in Kinds
  BY DEF Kinds
<1> HIDE DEF new
<1> QED
  BY <1>2, <1>3, <1>4, SmoothBegins

(* Save begins one, with the keyring in use. *)
LEMMA SmoothSave ==
  ASSUME Inv1, Smooth, NEW n \in Node, Save(n)
  PROVE  Smooth'
<1>1. /\ mode[n] = "active" /\ op[n] = Idle /\ Begin(n, "save", mem[n])
      /\ UNCHANGED <<disk, rootEntry, upgrades, mode, mem, owed>>
  BY DEF Save, Unlocked, storage
<1>2. "save" \in Kinds /\ Matches(mem[n], mem[n])
  BY DEF Kinds, Matches
<1> QED
  BY <1>1, <1>2, SmoothBegins

(* RotateRootKey begins one, with the root key that the seal stores. *)
LEMMA SmoothRotateRootKey ==
  ASSUME Inv1, Smooth, NEW n \in Node, RotateRootKey(n)
  PROVE  Smooth'
<1> DEFINE new == SetRootKey(mem[n], rekey[n])
<1>1. mem[n] \in WellFormed /\ rekey[n] \in 1..MaxRoots
  BY DEF RotateRootKey, Inv1, Shape, TypeOK, Keyrings
<1>2. "root" \in Kinds /\ Matches(new, mem[n])
  BY <1>1, SetRootKeyWellFormed DEF Kinds, Matches
<1>3. /\ mode[n] = "active" /\ op[n] = Idle /\ Begin(n, "root", new)
      /\ UNCHANGED <<disk, rootEntry, upgrades, mode, mem, owed>>
  BY DEF RotateRootKey, Unlocked, storage
<1> HIDE DEF new
<1> QED
  BY <1>2, <1>3, SmoothBegins

(* Of the nodes, only the one that writes is active. *)
LEMMA TheWriter ==
  ASSUME Inv1, Safe, Smooth, NEW n \in Node, op[n].step # "none"
  PROVE  /\ op[n] # Idle /\ mode[n] = "active"
         /\ \A m \in Node : m # n => op[m] = Idle /\ owed[m] = {} /\ mode[m] \notin {"active", "leading", "rooted"}
         /\ op[n].new \in WellFormed /\ disk \in WellFormed /\ mem[n] \in WellFormed
         /\ op[n].new.activeTerm \in Term /\ disk.activeTerm \in Term /\ mem[n].activeTerm \in Term
         /\ op[n].step = "keyring" => Covers(op[n].new, disk) /\ Matches(mem[n], disk)
         /\ op[n].step \in {"rootkey", "legacy"} => disk = op[n].new
<1>1. op[n] # Idle /\ mode[n] = "active"
  BY FirstWellFormed DEF Inv1, Roles, OnlyTheActiveWrites
<1>2. \A m \in Node : m # n => op[m] = Idle /\ owed[m] = {} /\ mode[m] \notin {"active", "leading", "rooted"}
  BY <1>1 DEF Inv1, Roles, OneLeader, OnlyTheActiveWrites, Leads
<1>3. op[n].new \in WellFormed /\ disk \in WellFormed /\ mem[n] \in WellFormed
  BY DEF Inv1, Shape, Keyrings
<1>4. op[n].new.activeTerm \in Term /\ disk.activeTerm \in Term /\ mem[n].activeTerm \in Term
  BY <1>3, KeysOfWellFormed
<1>5. Covers(op[n].new, mem[n]) /\ (op[n].step \in {"rootkey", "legacy"} => disk = op[n].new)
  BY <1>1 DEF Safe, StorageCovers
<1>6. op[n].step = "keyring" => Matches(mem[n], disk)
  BY <1>1 DEF Smooth, UpToDate
<1> QED
  BY <1>1, <1>2, <1>3, <1>4, <1>5, <1>6 DEF Covers, Matches

(* The keyring is written: storage is one term ahead in a rotation. *)
LEMMA SmoothPutKeyring ==
  ASSUME Inv1, Safe, Smooth, NEW n \in Node, PutKeyring(n)
  PROVE  Smooth'
<1> DEFINE new == op[n].new
<1>1. /\ op[n].step = "keyring" /\ disk' = new
      /\ UNCHANGED <<rootEntry, upgrades, mode, mem, owed>>
      /\ op'[n].step = "rootkey" /\ op'[n].kind = op[n].kind /\ op'[n].new = new
      /\ \A m \in Node : m # n => op'[m] = op[m]
  BY DEF PutKeyring, Inv1, Shape, TypeOK
<1>2. /\ op[n] # Idle /\ mode[n] = "active"
      /\ \A m \in Node : m # n => op[m] = Idle /\ owed[m] = {} /\ mode[m] \notin {"active", "leading", "rooted"}
      /\ new \in WellFormed /\ disk \in WellFormed /\ mem[n] \in WellFormed
      /\ new.activeTerm \in Term /\ disk.activeTerm \in Term /\ mem[n].activeTerm \in Term
      /\ Covers(new, disk) /\ Matches(mem[n], disk)
  BY <1>1, TheWriter
<1>3. disk.activeTerm <= new.activeTerm
  BY <1>2, CoveredTerm
<1>4. Behind'
  <2>1. Covers(new, FirstKeyring)
    BY <1>2, CoversTransitive DEF Smooth, Behind
  <2>2. \A m \in Node : Covers(new, mem[m])
    BY <1>2, CoversTransitive DEF Smooth, Behind
  <2> QED
    BY <1>1, <2>1, <2>2 DEF Behind
<1>5. UpToDate' /\ NoneShutDown'
  BY <1>1, <1>2 DEF UpToDate, Smooth, NoneShutDown
<1>6. OneTermMore'
  <2>1. \A m \in Node : op'[m].kind = op[m].kind /\ op'[m].new = op[m].new
    BY <1>1
  <2> QED
    BY <1>1, <1>2, <2>1 DEF Smooth, OneTermMore, Matches
<1>7. UpgradesTrue'
  <2> SUFFICES ASSUME NEW u \in upgrades
      PROVE u.from < new.activeTerm /\ u.under = new.keys[u.from] /\ u.key = new.keys[u.from + 1]
    BY <1>1 DEF UpgradesTrue
  <2>1. u.from < disk.activeTerm /\ u.under = disk.keys[u.from] /\ u.key = disk.keys[u.from + 1]
    BY DEF Smooth, UpgradesTrue
  <2>2. u.from \in Term /\ u.under # 0 /\ u.key # 0
    BY DEF Inv1, Shape, TypeOK
  <2>3. u.from + 1 \in Term
    BY <2>1, <2>2, <1>2 DEF Term
  <2> QED
    BY <1>2, <1>3, <2>1, <2>2, <2>3 DEF Covers, Term
<1>8. Trail'
  <2> SUFFICES ASSUME NEW m \in Node, mode[m] \in {"standby", "leading"}, NEW t \in Term, mem[m].activeTerm <= t, t < new.activeTerm
      PROVE (\E u \in upgrades : u.from = t) \/ Due(t + 1)'
    BY <1>1 DEF Trail
  <2>1. \A s : Due(s) => Due(s)'
    BY <1>1 DEF Due
  <2>2. CASE t < disk.activeTerm
    BY <2>1, <2>2 DEF Smooth, Trail
  <2>3. CASE ~ (t < disk.activeTerm)
    <3>1. op[n].kind = "rotate" /\ new.activeTerm = mem[n].activeTerm + 1
      BY <1>2, <2>3 DEF Smooth, OneTermMore, Matches
    <3>2. t + 1 = new.activeTerm
      BY <1>2, <2>3, <3>1 DEF Matches, Term
    <3> QED
      BY <1>1, <3>1, <3>2 DEF Due
  <2> QED
    BY <2>2, <2>3
<1>9. RootKnown'
  <2>1. Opens(new, rootEntry.at)
    BY <1>2 DEF Smooth, RootKnown, Covers, Opens, Inv1, Shape, TypeOK, Ciphertext
  <2> QED
    BY <1>1, <1>2, <2>1 DEF RootKnown
<1> QED
  BY <1>4, <1>5, <1>6, <1>7, <1>8, <1>9 DEF Smooth

(* The root key is written, under the key in storage. *)
LEMMA SmoothPutRootKey ==
  ASSUME Inv1, Safe, Smooth, NEW n \in Node, PutRootKey(n)
  PROVE  Smooth'
<1> DEFINE new == op[n].new
<1>1. /\ op[n].step = "rootkey" /\ rootEntry' = [root |-> new.root, at |-> ActiveKey(new)]
      /\ UNCHANGED <<disk, upgrades, mode, mem, owed>>
      /\ op'[n].step = "legacy" /\ op'[n].kind = op[n].kind /\ op'[n].new = new
      /\ \A m \in Node : m # n => op'[m] = op[m]
  BY DEF PutRootKey, Inv1, Shape, TypeOK
<1>2. /\ op[n] # Idle /\ mode[n] = "active" /\ disk = new /\ new \in WellFormed
      /\ \A m \in Node : m # n => op[m] = Idle /\ mode[m] \notin {"active", "leading", "rooted"}
  BY <1>1, TheWriter
<1>3. Behind' /\ UpgradesTrue' /\ NoneShutDown'
  BY <1>1 DEF Smooth, Behind, UpgradesTrue, NoneShutDown
<1>4. UpToDate'
  BY <1>1, <1>2 DEF UpToDate
<1>5. OneTermMore'
  <2>1. \A m \in Node : op'[m].kind = op[m].kind /\ op'[m].new = op[m].new
    BY <1>1
  <2> QED
    BY <1>1, <1>2, <2>1 DEF Smooth, OneTermMore, Matches
<1>6. Trail'
  <2>1. \A s : Due(s) => Due(s)'
    BY <1>1 DEF Due
  <2> QED
    BY <1>1, <2>1 DEF Smooth, Trail
<1>7. RootKnown'
  <2>1. Opens(new, ActiveKey(new))
    BY <1>2, KeysOfWellFormed
  <2>2. rootEntry'.at = ActiveKey(new) /\ rootEntry'.root = new.root
    BY <1>1
  <2> QED
    BY <1>1, <1>2, <2>1, <2>2 DEF Smooth, RootKnown
<1> QED
  BY <1>3, <1>4, <1>5, <1>6, <1>7 DEF Smooth

(* The new keyring takes effect: it is the one in storage. *)
LEMMA SmoothSwapKeyring ==
  ASSUME Inv1, Safe, Smooth, NEW n \in Node, SwapKeyring(n)
  PROVE  Smooth'
<1> DEFINE new == op[n].new
<1>1. /\ op[n].step = "legacy" /\ mem' = [mem EXCEPT ![n] = new]
      /\ UNCHANGED <<disk, rootEntry, upgrades, mode>>
      /\ op'[n] = Idle
      /\ \A m \in Node : m # n => op'[m] = op[m]
      /\ mem \in [Node -> Keyring] /\ owed \in [Node -> SUBSET Term]
      /\ \A m \in Node : owed[m] \subseteq owed'[m]
      /\ op[n].kind = "rotate" => new.activeTerm \in owed'[n]
  BY DEF SwapKeyring, storage, Inv1, Shape, TypeOK
<1>2. /\ op[n] # Idle /\ mode[n] = "active" /\ disk = new /\ new \in WellFormed
      /\ \A m \in Node : m # n => op[m] = Idle /\ mode[m] \notin {"active", "leading", "rooted"}
  BY <1>1, TheWriter
<1>3. Covers(disk, disk)
  BY <1>2, KeysOfWellFormed
<1>4. Behind'
  BY <1>1, <1>2, <1>3 DEF Smooth, Behind
<1>5. UpgradesTrue' /\ NoneShutDown'
  BY <1>1 DEF Smooth, UpgradesTrue, NoneShutDown
<1>6. UpToDate'
  BY <1>1, <1>2 DEF Smooth, UpToDate, Matches
<1>7. OneTermMore'
  BY <1>1, <1>2 DEF OneTermMore
<1>8. Trail'
  <2>1. \A s : Due(s) => Due(s)'
    BY <1>1, <1>2 DEF Due
  <2>2. \A m \in Node : mode[m] \in {"standby", "leading"} => mem'[m] = mem[m]
    BY <1>1, <1>2
  <2> QED
    BY <1>1, <2>1, <2>2 DEF Smooth, Trail
<1>9. RootKnown'
  <2>1. \A m \in Node : op[m].step # "rootkey"
    BY <1>1, <1>2, FirstWellFormed
  <2> QED
    BY <1>1, <1>2, <2>1 DEF Smooth, RootKnown
<1> QED
  BY <1>4, <1>5, <1>6, <1>7, <1>8, <1>9 DEF Smooth

(* The upgrade that was owed is there. *)
LEMMA SmoothCreateUpgrade ==
  ASSUME Inv1, Smooth, NEW n \in Node, CreateUpgrade(n)
  PROVE  Smooth'
<1>1. PICK t \in owed[n] :
        /\ upgrades' = {u \in upgrades : u.from # t - 1}
                         \cup {[from |-> t - 1, under |-> mem[n].keys[t - 1], key |-> mem[n].keys[t]]}
        /\ owed' = [owed EXCEPT ![n] = @ \ {t}]
  BY DEF CreateUpgrade
<1>2. /\ UNCHANGED <<disk, rootEntry, mode, mem, op>>
      /\ owed \in [Node -> SUBSET Term] /\ t \in Term
      /\ 1 < t /\ t <= mem[n].activeTerm
      /\ mem[n] \in WellFormed /\ disk \in WellFormed /\ Covers(disk, mem[n])
  BY <1>1 DEF CreateUpgrade, Inv1, Shape, TypeOK, UpgradesInRange, Keyrings, Smooth, Behind
<1>3. mem[n].activeTerm <= disk.activeTerm /\ mem[n].activeTerm \in Term /\ disk.activeTerm \in Term
  BY <1>2, CoveredTerm, KeysOfWellFormed
<1>4. t - 1 \in Term /\ t - 1 < disk.activeTerm /\ t - 1 + 1 = t
  BY <1>2, <1>3 DEF Term
<1>5. mem[n].keys[t - 1] = disk.keys[t - 1] /\ mem[n].keys[t] = disk.keys[t]
  <2>1. mem[n].keys[t - 1] # 0 /\ mem[n].keys[t] # 0
    BY <1>2, <1>3, <1>4 DEF WellFormed, Dense, Term
  <2> QED
    BY <2>1, <1>2, <1>4 DEF Covers
<1>6. Behind' /\ UpToDate' /\ OneTermMore' /\ NoneShutDown'
  BY <1>2 DEF Smooth, Behind, UpToDate, OneTermMore, NoneShutDown
<1>7. UpgradesTrue'
  BY <1>1, <1>2, <1>4, <1>5 DEF Smooth, UpgradesTrue
<1>8. Trail'
  <2> SUFFICES ASSUME NEW m \in Node, mode[m] \in {"standby", "leading"}, NEW s \in Term, mem[m].activeTerm <= s, s < disk.activeTerm
      PROVE (\E u \in upgrades' : u.from = s) \/ Due(s + 1)'
    BY <1>2 DEF Trail
  <2>1. CASE s = t - 1
    <3> DEFINE v == [from |-> t - 1, under |-> mem[n].keys[t - 1], key |-> mem[n].keys[t]]
    <3>1. v \in upgrades' /\ v.from = s
      BY <1>1, <2>1
    <3> QED
      BY <3>1
  <2>2. CASE s # t - 1
    <3>1. s + 1 # t
      BY <2>2, <1>2 DEF Term
    <3>2. Due(s + 1) => Due(s + 1)'
      BY <1>1, <1>2, <3>1 DEF Due
    <3>3. \A u \in upgrades : u.from = s => u \in upgrades'
      BY <1>1, <2>2
    <3> QED
      BY <3>2, <3>3 DEF Smooth, Trail
  <2> QED
    BY <2>1, <2>2
<1>9. RootKnown'
  BY <1>2 DEF Smooth, RootKnown
<1> QED
  BY <1>6, <1>7, <1>8, <1>9 DEF Smooth

(* Only an upgrade that every standby has followed is destroyed. *)
LEMMA SmoothDestroyUpgrade ==
  ASSUME Inv1, Smooth, NEW n \in Node, DestroyUpgrade(n)
  PROVE  Smooth'
<1>1. PICK u \in upgrades :
        /\ \A m \in Node : mode[m] = "standby" => mem[m].activeTerm > u.from
        /\ upgrades' = upgrades \ {u}
  BY DEF DestroyUpgrade
<1>2. UNCHANGED <<disk, rootEntry, mode, mem, op, owed>> /\ mode[n] = "active"
  BY DEF DestroyUpgrade
<1>3. \A m \in Node : mode[m] # "leading"
  BY <1>2 DEF Inv1, Roles, OneLeader, Leads
<1>4. Behind' /\ UpToDate' /\ OneTermMore' /\ NoneShutDown'
  BY <1>2 DEF Smooth, Behind, UpToDate, OneTermMore, NoneShutDown
<1>5. UpgradesTrue'
  BY <1>1, <1>2 DEF Smooth, UpgradesTrue
<1>6. Trail'
  <2> SUFFICES ASSUME NEW m \in Node, mode[m] \in {"standby", "leading"}, NEW t \in Term, mem[m].activeTerm <= t, t < disk.activeTerm
      PROVE (\E v \in upgrades' : v.from = t) \/ Due(t + 1)
    BY <1>2 DEF Trail, Due
  <2>1. u.from # t
    <3>1. mem[m].activeTerm > u.from
      BY <1>1, <1>3
    <3>2. mem[m].activeTerm \in Term /\ u.from \in Term
      BY KeysOfWellFormed DEF Inv1, Shape, TypeOK, Keyrings
    <3> QED
      BY <3>1, <3>2 DEF Term
  <2> QED
    BY <1>1, <2>1 DEF Smooth, Trail
<1>7. RootKnown'
  BY <1>2 DEF Smooth, RootKnown
<1> QED
  BY <1>4, <1>5, <1>6, <1>7 DEF Smooth

(* A node that ends in the middle of nothing leaves nothing undone. *)
LEMMA SmoothEnds ==
  ASSUME Inv1, Smooth, NEW n \in Node, Ends(n), ~Busy(n)
  PROVE  Smooth'
<1>1. /\ mode' = [mode EXCEPT ![n] = "sealed"] /\ mem' = [mem EXCEPT ![n] = FirstKeyring]
      /\ op' = [op EXCEPT ![n] = Idle] /\ owed' = [owed EXCEPT ![n] = {}]
      /\ UNCHANGED <<disk, rootEntry, upgrades>>
      /\ mem \in [Node -> Keyring] /\ mode \in [Node -> Modes] /\ owed \in [Node -> SUBSET Term]
      /\ DOMAIN op = Node
  BY DEF Ends, storage, Inv1, Shape, TypeOK
<1>2. op[n] = Idle /\ owed[n] = {}
  BY DEF Busy
<1>3. \A m \in Node : op'[m] = op[m] /\ owed'[m] = owed[m]
  BY <1>1, <1>2
<1>4. Behind'
  BY <1>1 DEF Smooth, Behind
<1>5. UpToDate' /\ NoneShutDown'
  BY <1>1, <1>3 DEF Smooth, UpToDate, NoneShutDown
<1>6. OneTermMore'
  <2>1. \A m \in Node : op[m] # Idle => mem'[m] = mem[m]
    BY <1>1, <1>2
  <2> QED
    BY <1>3, <2>1 DEF Smooth, OneTermMore, Matches
<1>7. UpgradesTrue'
  BY <1>1 DEF Smooth, UpgradesTrue
<1>8. Trail'
  <2>1. \A t : Due(t) => Due(t)'
    BY <1>3 DEF Due
  <2>2. \A m \in Node : mode'[m] \in {"standby", "leading"} => mode[m] \in {"standby", "leading"} /\ mem'[m] = mem[m]
    BY <1>1
  <2> QED
    BY <1>1, <2>1, <2>2 DEF Smooth, Trail
<1>9. RootKnown'
  BY <1>1, <1>3 DEF Smooth, RootKnown
<1> QED
  BY <1>4, <1>5, <1>6, <1>7, <1>8, <1>9 DEF Smooth

(* All three invariants hold in every state.                               *)
LEMMA InductiveSmooth == Spec => [](Inv1 /\ Safe /\ (faults = 0 => Smooth))
<1>1. Init => (faults = 0 => Smooth)
  BY SmoothInit
<1>2. Inv1 /\ Safe /\ (faults = 0 => Smooth) /\ [Next]_vars => (faults = 0 => Smooth)'
  <2> SUFFICES ASSUME Inv1, Safe, faults = 0 => Smooth, [Next]_vars, faults' = 0 PROVE Smooth'
    BY DEF Smooth
  <2>1. CASE UNCHANGED vars
    BY <2>1, SmoothSame DEF vars, storage, counters
  <2>2. ASSUME NEW n \in Node,
               \/ Unseal(n)
               \/ TakeLock(n)
               \/ StepDown(n)
               \/ CheckUpgrade(n)
               \/ CheckUpgradeFails(n)
               \/ ReloadRootKey(n)
               \/ ReloadRootKeyFails(n)
               \/ ReloadKeyring(n)
               \/ ReloadKeyringFails(n)
               \/ Rotate(n)
               \/ Save(n)
               \/ RotateRootKey(n)
               \/ PutKeyring(n)
               \/ PutRootKey(n)
               \/ SwapKeyring(n)
               \/ CreateUpgrade(n)
               \/ DestroyUpgrade(n)
               \/ RootStores(n)
               \/ PutBegins(n)
               \/ PutLands(n)
               \/ PutFails(n)
               \/ PersistFails(n)
               \/ CreateUpgradeFails(n)
               \/ Crash(n)
               \/ Restart(n)
        PROVE  Smooth'
    <3>1. CASE Unseal(n)
      BY <3>1, SmoothUnseal DEF Unseal, counters
    <3>2. CASE TakeLock(n)
      BY <3>2, SmoothTakeLock DEF TakeLock, counters
    <3>3. CASE StepDown(n)
      BY <3>3, SmoothStepDown DEF StepDown, counters
    <3>4. CASE CheckUpgrade(n)
      BY <3>4, SmoothCheckUpgrade DEF CheckUpgrade, counters
    <3>5. CASE CheckUpgradeFails(n)
      BY <3>5, SmoothCheckUpgradeFails DEF CheckUpgradeFails, Shutdown, counters
    <3>6. CASE ReloadRootKey(n)
      BY <3>6, SmoothReloadRootKey DEF ReloadRootKey, counters
    <3>7. CASE ReloadRootKeyFails(n)
      BY <3>7, SmoothReloadRootKeyFails DEF ReloadRootKeyFails, Shutdown, counters
    <3>8. CASE ReloadKeyring(n)
      BY <3>8, SmoothReloadKeyring DEF ReloadKeyring, counters
    <3>9. CASE ReloadKeyringFails(n)
      BY <3>9, SmoothReloadKeyringFails DEF ReloadKeyringFails, Shutdown, counters
    <3>10. CASE Rotate(n)
      BY <3>10, SmoothRotate DEF Rotate, counters
    <3>11. CASE Save(n)
      BY <3>11, SmoothSave DEF Save, counters
    <3>12. CASE RotateRootKey(n)
      BY <3>12, SmoothRotateRootKey DEF RotateRootKey, counters
    <3>13. CASE PutKeyring(n)
      BY <3>13, SmoothPutKeyring DEF PutKeyring, counters
    <3>14. CASE PutRootKey(n)
      BY <3>14, SmoothPutRootKey DEF PutRootKey, counters
    <3>15. CASE SwapKeyring(n)
      BY <3>15, SmoothSwapKeyring DEF SwapKeyring, counters
    <3>16. CASE CreateUpgrade(n)
      BY <3>16, SmoothCreateUpgrade DEF CreateUpgrade, counters
    <3>17. CASE DestroyUpgrade(n)
      BY <3>17, SmoothDestroyUpgrade DEF DestroyUpgrade, counters
    <3>18. CASE RootStores(n) \/ PutBegins(n) \/ PutLands(n) \/ PutFails(n)
      BY <3>18, SmoothSame DEF RootStores, PutBegins, PutLands, PutFails, storage, counters
    <3>19. CASE PersistFails(n) \/ CreateUpgradeFails(n)
      BY <3>19 DEF PersistFails, CreateUpgradeFails, Fault, Inv1, Shape, TypeOK
    <3>20. CASE Crash(n)
      <4>1. ~Busy(n) /\ faults' = faults /\ Ends(n)
        BY <3>20 DEF Crash, Fault, Inv1, Shape, TypeOK
      <4> QED
        BY <4>1, SmoothEnds
    <3>21. CASE Restart(n)
      BY <3>21 DEF Restart, Smooth, NoneShutDown
    <3> QED
      BY <2>2, <3>1, <3>2, <3>3, <3>4, <3>5, <3>6, <3>7, <3>8, <3>9, <3>10, <3>11, <3>12, <3>13, <3>14, <3>15, <3>16, <3>17, <3>18, <3>19, <3>20, <3>21
  <2> QED
    BY <2>1, <2>2 DEF Next, Follows, Persists
<1> QED
  BY <1>1, <1>2, Inductive, PTL DEF Spec

(* AddKey's "conflicting key for term" is never met: as long as nothing is *)
(* cut short, no two nodes have different keys for one term, whatever they *)
(* are doing.                                                              *)
THEOREM NodesAgreeOnKeys == Spec => []AgreeOnKeys
<1>1. (faults = 0 => Smooth) => AgreeOnKeys
  BY DEF AgreeOnKeys, Smooth, Behind, Covers
<1> QED
  BY <1>1, InductiveSmooth, PTL

(* performKeyUpgrades, ReloadRootKey and ReloadKeyring succeed for every   *)
(* node that wins the election, whatever was rotated while it was a        *)
(* standby, as long as nothing was cut short: no node shuts down.          *)
THEOREM TakeoversWork == Spec => []TakeoverWorks
<1>1. Inv1 /\ (faults = 0 => Smooth) => TakeoverWorks
  BY DEF TakeoverWorks, Smooth, NoneShutDown, Inv1, Shape, TypeOK
<1> QED
  BY <1>1, InductiveSmooth, PTL

=============================================================================
