------------------------- MODULE InvalidationProofs -------------------------
(***************************************************************************)
(* Proofs about Invalidation, for any set of keys, workers and bounds:     *)
(* nothing runs after Stop, and a standby lets a change go in the places   *)
(* that are named and in no other.                                         *)
(***************************************************************************)
EXTENDS Invalidation, SequenceTheorems, TLAPS

-----------------------------------------------------------------------------
(* The sequences of keys.                                                  *)

(* The empty sequence of keys.                                             *)
LEMMA InNoKeys == <<>> \in Seq(Key) /\ \A k : ~InSeq(k, <<>>)
  BY EmptySeq DEF InSeq

(* Append adds one key.                                                    *)
LEMMA AppendedSeq ==
  ASSUME NEW s \in Seq(Key), NEW x \in Key, NEW k \in Key
  PROVE  InSeq(k, Append(s, x)) <=> InSeq(k, s) \/ k = x
  BY DEF InSeq

(* A sequence has the keys of its head and its tail.                       *)
LEMMA HeadAndTail ==
  ASSUME NEW s \in Seq(Key), s # <<>>, NEW k \in Key
  PROVE  /\ Head(s) \in Key /\ Tail(s) \in Seq(Key)
         /\ InSeq(k, s) <=> k = Head(s) \/ InSeq(k, Tail(s))
<1>1. /\ Len(s) \in Nat /\ Len(s) # 0 /\ Head(s) = s[1] /\ s[1] \in Key
      /\ Tail(s) \in Seq(Key) /\ Len(Tail(s)) = Len(s) - 1
      /\ \A i \in 1 .. Len(Tail(s)) : Tail(s)[i] = s[i + 1]
  BY HeadTailProperties, ElementOfSeq, EmptySeq
<1>2. ASSUME InSeq(k, s), k # Head(s) PROVE InSeq(k, Tail(s))
  <2>1. PICK i \in 1 .. Len(s) : s[i] = k
    BY <1>2 DEF InSeq
  <2>2. i # 1 /\ i - 1 \in 1 .. Len(Tail(s)) /\ Tail(s)[i - 1] = k
    BY <1>1, <1>2, <2>1
  <2> QED BY <2>2 DEF InSeq
<1>3. ASSUME InSeq(k, Tail(s)) PROVE InSeq(k, s)
  <2>1. PICK i \in 1 .. Len(Tail(s)) : Tail(s)[i] = k
    BY <1>3 DEF InSeq
  <2>2. i + 1 \in 1 .. Len(s) /\ s[i + 1] = k
    BY <1>1, <2>1
  <2> QED BY <2>2 DEF InSeq
<1>4. ASSUME k = Head(s) PROVE InSeq(k, s)
  BY <1>1, <1>4 DEF InSeq
<1> QED BY <1>1, <1>2, <1>3, <1>4

(* The sequence without its i-th key, as JobTaken leaves it.               *)
Without(s, i) == SubSeq(s, 1, i - 1) \o SubSeq(s, i + 1, Len(s))

(* A queue has the key that is taken out and those that stay.              *)
LEMMA TakenOut ==
  ASSUME NEW s \in Seq(Key), NEW i \in 1 .. Len(s), NEW k \in Key
  PROVE  /\ Without(s, i) \in Seq(Key) /\ s[i] \in Key
         /\ InSeq(k, s) <=> k = s[i] \/ InSeq(k, Without(s, i))
<1> DEFINE t == Without(s, i)
           l == SubSeq(s, 1, i - 1)
           r == SubSeq(s, i + 1, Len(s))
<1>0. Len(s) \in Nat /\ i \in Nat /\ s[i] \in Key
  BY ElementOfSeq, LenProperties
<1>1. /\ l \in Seq(Key) /\ Len(l) = i - 1
      /\ \A j \in 1 .. i - 1 : l[j] = s[j]
  BY <1>0
<1>2. /\ r \in Seq(Key) /\ Len(r) = Len(s) - i
      /\ \A j \in 1 .. Len(s) - i : r[j] = s[i + j]
  BY <1>0
<1>t. t = l \o r
  BY DEF Without
<1> HIDE DEF t, l, r
<1>3. /\ t \in Seq(Key) /\ Len(t) = Len(s) - 1
      /\ \A j \in 1 .. Len(s) - 1 : t[j] = IF j < i THEN s[j] ELSE s[j + 1]
  <2>2. t \in Seq(Key) /\ Len(t) = Len(l) + Len(r)
    BY <1>t, <1>1, <1>2, ConcatProperties
  <2>3. \A j \in 1 .. Len(l) + Len(r) : t[j] = IF j <= Len(l) THEN l[j] ELSE r[j - Len(l)]
    BY <1>t, <1>1, <1>2, ConcatProperties
  <2>4. ASSUME NEW j \in 1 .. Len(s) - 1
        PROVE  t[j] = IF j < i THEN s[j] ELSE s[j + 1]
    <3>1. CASE j < i
      <4>1. Len(l) + Len(r) = Len(s) - 1
        BY <1>0, <1>1, <1>2
      <4>2. j \in 1 .. Len(l) + Len(r)
        BY <4>1
      <4>3. j \in 1 .. i - 1 /\ j <= Len(l)
        BY <1>0, <1>1, <3>1
      <4>4. t[j] = l[j]
        BY <2>3, <4>2, <4>3
      <4> QED BY <1>1, <4>3, <4>4, <3>1
    <3>2. CASE j >= i
      <4>1. t[j] = r[j - (i - 1)] /\ j - (i - 1) \in 1 .. Len(s) - i
        BY <1>0, <1>1, <1>2, <2>3, <3>2
      <4>2. i + (j - (i - 1)) = j + 1
        BY <1>0
      <4> QED BY <1>0, <1>2, <4>1, <4>2, <3>2
    <3> QED BY <1>0, <3>1, <3>2
  <2> QED BY <1>0, <1>1, <1>2, <2>2, <2>4
<1>4. ASSUME InSeq(k, s), k # s[i] PROVE InSeq(k, t)
  <2>1. PICK j \in 1 .. Len(s) : s[j] = k
    BY <1>4 DEF InSeq
  <2>2. CASE j < i
    <3>1. j \in 1 .. Len(t) /\ t[j] = k
      BY <1>0, <1>3, <2>1, <2>2
    <3> QED BY <3>1 DEF InSeq
  <2>3. CASE j > i
    <3>1. j - 1 \in 1 .. Len(t) /\ t[j - 1] = k
      BY <1>0, <1>3, <2>1, <2>3
    <3> QED BY <3>1 DEF InSeq
  <2> QED BY <1>0, <1>4, <2>1, <2>2, <2>3
<1>5. ASSUME InSeq(k, t) PROVE InSeq(k, s)
  <2>1. PICK j \in 1 .. Len(t) : t[j] = k
    BY <1>5 DEF InSeq
  <2>2. \/ j \in 1 .. Len(s) /\ s[j] = k
        \/ j + 1 \in 1 .. Len(s) /\ s[j + 1] = k
    BY <1>0, <1>3, <2>1
  <2> QED BY <2>2 DEF InSeq
<1>6. ASSUME k = s[i] PROVE InSeq(k, s)
  BY <1>6, <1>0 DEF InSeq
<1> QED BY <1>0, <1>3, <1>4, <1>5, <1>6 DEF t

(* The record of a job with the mounts S left.                             *)
LEMMA LeftShape ==
  ASSUME NEW S, NEW st
  PROVE  /\ Left(st, S).todo = S /\ Left(st, S).key = NoKey
         /\ Left(st, S).stage = IF S = {} THEN "idle" ELSE st
<1>1. CASE S = {}
  BY <1>1 DEF Left, Idle
<1>2. CASE S # {}
  BY <1>2 DEF Left
<1> QED BY <1>1, <1>2

(* An entry that was never written.                                        *)
LEMMA NoneIsEntry == None \in Entry /\ None.n = 0 /\ None.live = FALSE
  BY DEF None, Entry

(* The record of a worker without a job.                                   *)
LEMMA IdleIsDoing == Idle \in Doing
  BY NoneIsEntry DEF Idle, Doing

USE InvalidationAssumption DEF InvalidationAssumption

-----------------------------------------------------------------------------
(* The goroutines and the HA loop in step.                                 *)

HookShape == hook.stage # "idle" => hook.key \in Key

ShapeOf(r) ==
  /\ r.stage = "idle" => r = Idle
  /\ r.stage \in {"start", "locked"} => r.key \in Key /\ r.todo = {}
  /\ r.stage \in {"reload", "remove"} => r.key = NoKey
  /\ r.stage = "read" => r.key \in Split
  /\ r.todo \subseteq Split

JobShape == \A w \in Worker : ShapeOf(job[w])

(* The processor and the dispatcher live between Start and Stop, and jobs   *)
(* have the state lock only when the HA loop does not.                     *)
InStep ==
  /\ proc = "none" <=> ha \in {"down", "load", "active"}
  /\ proc # "busy" => batch = <<>>
  /\ dispatcher = "up" <=> ha \in {"serve", "wanted", "held", "stopping"}
  /\ dispatcher # "up" => \A w \in Worker : job[w] = Idle
  /\ ha \in {"down", "load", "active"} => queue = <<>>
  /\ \A w \in Worker : Reading(w) => ha \in {"serve", "wanted"}
  /\ ha \in {"load", "serve"} => accepting /\ ~cancelled

Running == TypeOK /\ HookShape /\ JobShape /\ InStep

-----------------------------------------------------------------------------
(* Every step keeps the goroutines in step.                                *)

(* A changed entry is an entry.                                            *)
LEMMA ChangesEntry ==
  ASSUME TypeOK, NEW k \in Key, NEW live \in BOOLEAN, Changes(k, live)
  PROVE  stored' \in [Key -> Entry] /\ writes' \in 0 .. MaxWrites /\ hook.stage = "idle"
<1>1. [n |-> stored[k].n + 1, live |-> live] \in Entry
  BY DEF TypeOK, Entry
<1> QED BY <1>1 DEF Changes, TypeOK

(* Apply keeps Running.                                                    *)
LEMMA ApplyRuns ==
  ASSUME Running, NEW k \in Key, NEW live \in BOOLEAN, Apply(k, live)
  PROVE  Running'
<1> USE DEF Running
<1>0. stored' \in [Key -> Entry] /\ writes' \in 0 .. MaxWrites
  BY ChangesEntry DEF Apply
<1>1. TypeOK'
  BY <1>0 DEF Apply, memory, manager, workers, node, TypeOK
<1>2. HookShape' /\ JobShape'
  BY DEF Apply, workers, HookShape, JobShape
<1>3. InStep'
  BY DEF Apply, manager, workers, node, InStep, Reading
<1> QED BY <1>1, <1>2, <1>3

(* InstallSnapshot keeps Running.                                          *)
LEMMA InstallSnapshotRuns ==
  ASSUME Running, NEW k \in Key, NEW live \in BOOLEAN, InstallSnapshot(k, live)
  PROVE  Running'
<1> USE DEF Running
<1>0. stored' \in [Key -> Entry] /\ writes' \in 0 .. MaxWrites
  BY ChangesEntry DEF InstallSnapshot
<1>1. TypeOK'
  BY <1>0 DEF InstallSnapshot, manager, workers, TypeOK
<1>2. HookShape' /\ JobShape'
  BY DEF InstallSnapshot, workers, HookShape, JobShape
<1>3. InStep'
  BY DEF InstallSnapshot, manager, workers, InStep, Reading
<1> QED BY <1>1, <1>2, <1>3

(* The steps of the restore callback keep Running.                         *)
LEMMA RestoreRuns ==
  ASSUME Running, RestoreWants \/ RestoreLocks \/ RestoreEnds
  PROVE  Running'
<1> USE DEF Running
<1>1. TypeOK'
  BY DEF RestoreWants, RestoreLocks, RestoreEnds, applier, memory, manager, workers, TypeOK
<1>2. HookShape' /\ JobShape'
  BY DEF RestoreWants, RestoreLocks, RestoreEnds, applier, workers, HookShape, JobShape
<1>3. InStep'
  BY DEF RestoreWants, RestoreLocks, RestoreEnds, manager, workers, InStep, Reading
<1> QED BY <1>1, <1>2, <1>3

(* AddPasses keeps Running.                                                *)
LEMMA AddPassesRuns ==
  ASSUME Running, AddPasses
  PROVE  Running'
<1> USE DEF Running
<1>1. TypeOK'
  BY DEF AddPasses, applier, memory, manager, workers, node, TypeOK, HookShape, JobShape
<1>2. HookShape' /\ JobShape'
  BY DEF AddPasses, applier, memory, manager, workers, node, TypeOK, HookShape, JobShape, Idle
<1>3. InStep'
  BY DEF AddPasses, applier, memory, manager, workers, node, TypeOK, JobShape, InStep, Reading, Idle
<1> QED BY <1>1, <1>2, <1>3

(* AddIgnores keeps Running.                                               *)
LEMMA AddIgnoresRuns ==
  ASSUME Running, AddIgnores
  PROVE  Running'
<1> USE DEF Running
<1>1. TypeOK'
  BY DEF AddIgnores, applier, memory, manager, workers, node, TypeOK, HookShape, JobShape
<1>2. HookShape' /\ JobShape'
  BY DEF AddIgnores, applier, memory, manager, workers, node, TypeOK, HookShape, JobShape, Idle
<1>3. InStep'
  BY DEF AddIgnores, applier, memory, manager, workers, node, TypeOK, JobShape, InStep, Reading,
     Idle
<1> QED BY <1>1, <1>2, <1>3

(* AddAppends keeps Running.                                               *)
LEMMA AddAppendsRuns ==
  ASSUME Running, AddAppends
  PROVE  Running'
<1> USE DEF Running
<1>0. pending' \in Seq(Key)
  BY AppendProperties DEF AddAppends, TypeOK, HookShape
<1>a. hook' \in [stage : {"idle", "applied", "passed", "notify"}, key : Key \cup {NoKey}]
  BY DEF AddAppends, TypeOK
<1>b. UNCHANGED <<stored, writes, memory, accepting, proc, batch, workers, node>>
  BY DEF AddAppends
<1>1. TypeOK'
  BY <1>0, <1>a, <1>b DEF memory, workers, node, TypeOK
<1>2. HookShape' /\ JobShape'
  BY <1>0 DEF AddAppends, applier, memory, manager, workers, node, TypeOK, HookShape, JobShape, Idle
<1>3. InStep'
  BY <1>0 DEF AddAppends, applier, memory, manager, workers, node, TypeOK, JobShape, InStep,
     Reading, Idle
<1> QED BY <1>1, <1>2, <1>3

(* AddNotifies keeps Running.                                              *)
LEMMA AddNotifiesRuns ==
  ASSUME Running, AddNotifies
  PROVE  Running'
<1> USE DEF Running
<1>1. TypeOK'
  BY DEF AddNotifies, applier, memory, manager, workers, node, TypeOK, HookShape, JobShape
<1>2. HookShape' /\ JobShape'
  BY DEF AddNotifies, applier, memory, manager, workers, node, TypeOK, HookShape, JobShape, Idle
<1>3. InStep'
  BY DEF AddNotifies, applier, memory, manager, workers, node, TypeOK, JobShape, InStep, Reading,
     Idle
<1> QED BY <1>1, <1>2, <1>3

(* ProcParks keeps Running.                                                *)
LEMMA ProcParksRuns ==
  ASSUME Running, ProcParks
  PROVE  Running'
<1> USE DEF Running
<1>1. TypeOK'
  BY DEF ProcParks, applier, memory, manager, workers, node, TypeOK, HookShape, JobShape
<1>2. HookShape' /\ JobShape'
  BY DEF ProcParks, applier, memory, manager, workers, node, TypeOK, HookShape, JobShape, Idle
<1>3. InStep'
  BY DEF ProcParks, applier, memory, manager, workers, node, TypeOK, JobShape, InStep, Reading, Idle
<1> QED BY <1>1, <1>2, <1>3

(* ProcQuits keeps Running.                                                *)
LEMMA ProcQuitsRuns ==
  ASSUME Running, ProcQuits
  PROVE  Running'
<1> USE DEF Running
<1>1. TypeOK'
  BY DEF ProcQuits, applier, memory, manager, workers, node, TypeOK, HookShape, JobShape
<1>2. HookShape' /\ JobShape'
  BY DEF ProcQuits, applier, memory, manager, workers, node, TypeOK, HookShape, JobShape, Idle
<1>3. InStep'
  BY DEF ProcQuits, applier, memory, manager, workers, node, TypeOK, JobShape, InStep, Reading, Idle
<1> QED BY <1>1, <1>2, <1>3

(* ProcTakes keeps Running.                                                *)
LEMMA ProcTakesRuns ==
  ASSUME Running, ProcTakes
  PROVE  Running'
<1> USE DEF Running
<1>1. TypeOK'
  BY DEF ProcTakes, applier, memory, manager, workers, node, TypeOK, HookShape, JobShape
<1>2. HookShape' /\ JobShape'
  BY DEF ProcTakes, applier, memory, manager, workers, node, TypeOK, HookShape, JobShape, Idle
<1>3. InStep'
  BY DEF ProcTakes, applier, memory, manager, workers, node, TypeOK, JobShape, InStep, Reading, Idle
<1> QED BY <1>1, <1>2, <1>3

(* ProcDispatches keeps Running.                                           *)
LEMMA ProcDispatchesRuns ==
  ASSUME Running, ProcDispatches
  PROVE  Running'
<1> USE DEF Running
<1>0. Head(batch) \in Key /\ Tail(batch) \in Seq(Key)
  BY HeadAndTail DEF ProcDispatches, TypeOK
<1>a. queue' \in Seq(Key) /\ batch' \in Seq(Key)
  BY <1>0, AppendProperties DEF ProcDispatches, TypeOK
<1>b. UNCHANGED <<applier, memory, accepting, pending, proc, dispatcher, job, node>>
  BY DEF ProcDispatches
<1>1. TypeOK'
  BY <1>a, <1>b DEF applier, memory, node, TypeOK
<1>2. HookShape' /\ JobShape'
  BY <1>0 DEF ProcDispatches, applier, memory, manager, workers, node, TypeOK, HookShape,
     JobShape, Idle
<1>3. InStep'
  BY <1>0 DEF ProcDispatches, applier, memory, manager, workers, node, TypeOK, JobShape, InStep,
     Reading, Idle
<1> QED BY <1>1, <1>2, <1>3

(* ProcLoops keeps Running.                                                *)
LEMMA ProcLoopsRuns ==
  ASSUME Running, ProcLoops
  PROVE  Running'
<1> USE DEF Running
<1>1. TypeOK'
  BY DEF ProcLoops, applier, memory, manager, workers, node, TypeOK, HookShape, JobShape
<1>2. HookShape' /\ JobShape'
  BY DEF ProcLoops, applier, memory, manager, workers, node, TypeOK, HookShape, JobShape, Idle
<1>3. InStep'
  BY DEF ProcLoops, applier, memory, manager, workers, node, TypeOK, JobShape, InStep, Reading, Idle
<1> QED BY <1>1, <1>2, <1>3

(* A step of one worker, which leaves it with the record r, keeps Running.  *)
LEMMA WorkerRuns ==
  ASSUME Running, NEW w \in Worker, NEW r \in Doing, ShapeOf(r),
         job' = [job EXCEPT ![w] = r], dispatcher = "up",
         r.stage \in {"locked", "reload", "read", "remove"} => ha = "serve" \/ Reading(w),
         view' \in [Key -> Entry], missed' \subseteq Key, restart' \in BOOLEAN,
         queue' \in Seq(Key), UNCHANGED <<applier, manager, dispatcher>>,
         UNCHANGED <<ha, quit, cancelled, loaded, writer>>
  PROVE  Running'
<1> USE DEF Running
<1>0. job \in [Worker -> Doing]
  BY DEF TypeOK
<1>1. job' \in [Worker -> Doing] /\ job'[w] = r /\ \A v \in Worker \ {w} : job'[v] = job[v]
  BY <1>0
<1>2. TypeOK'
  BY <1>1 DEF applier, manager, TypeOK
<1>3. HookShape' /\ JobShape'
  BY <1>1 DEF applier, HookShape, JobShape
<1>4. ASSUME NEW v \in Worker, Reading(v)' PROVE ha \in {"serve", "wanted"}
  <2>1. CASE v = w
    BY <1>1, <1>4, <2>1 DEF InStep, Reading
  <2>2. CASE v # w
    BY <1>1, <1>4, <2>2 DEF InStep, Reading
  <2> QED BY <2>1, <2>2
<1>5. InStep'
  BY <1>4 DEF applier, manager, InStep
<1> QED BY <1>2, <1>3, <1>5

(* A worker at work belongs to a dispatcher that is up.                     *)
LEMMA BusyIsUp ==
  ASSUME Running, NEW w \in Worker, job[w].stage # "idle"
  PROVE  dispatcher = "up"
  BY DEF Running, InStep, Idle

(* JobTaken keeps Running.                                                 *)
LEMMA JobTakenRuns ==
  ASSUME Running, NEW w \in Worker, NEW i \in 1 .. Len(queue), JobTaken(w, i)
  PROVE  Running'
<1> DEFINE r == [stage |-> "start", key |-> queue[i], value |-> None, todo |-> {}]
<1>0. queue \in Seq(Key) /\ queue' = Without(queue, i)
  BY DEF Running, JobTaken, TypeOK, Without
<1>1. queue[i] \in Key /\ queue' \in Seq(Key)
  <2>1. queue[i] \in Key
    BY <1>0, ElementOfSeq
  <2> QED BY <1>0, <2>1, TakenOut
<1>2. r \in Doing /\ ShapeOf(r) /\ r.stage = "start"
  BY <1>1, NoneIsEntry DEF Doing, ShapeOf
<1>3. view' \in [Key -> Entry] /\ missed' \subseteq Key /\ restart' \in BOOLEAN
  BY DEF Running, JobTaken, memory, node, TypeOK
<1>4. /\ job' = [job EXCEPT ![w] = r] /\ dispatcher = "up"
      /\ UNCHANGED <<applier, manager, dispatcher>>
      /\ UNCHANGED <<ha, quit, cancelled, loaded, writer>>
  BY DEF JobTaken, node
<1> HIDE DEF r
<1> QED BY <1>1, <1>2, <1>3, <1>4, WorkerRuns

(* JobLocks keeps Running.                                                 *)
LEMMA JobLocksRuns ==
  ASSUME Running, NEW w \in Worker, JobLocks(w)
  PROVE  Running'
<1> DEFINE r == [job[w] EXCEPT !.stage = "locked"]
<1>0. job[w] \in Doing /\ ShapeOf(job[w]) /\ job[w].stage = "start"
  BY DEF Running, TypeOK, JobShape, JobLocks
<1>1. dispatcher = "up"
  BY <1>0, BusyIsUp
<1>2. r \in Doing /\ ShapeOf(r) /\ r.stage = "locked"
  BY <1>0 DEF Doing, ShapeOf
<1>3. /\ view' \in [Key -> Entry] /\ missed' \subseteq Key /\ restart' \in BOOLEAN
      /\ queue' \in Seq(Key)
  BY DEF Running, JobLocks, memory, node, TypeOK
<1>4. /\ job' = [job EXCEPT ![w] = r] /\ ha = "serve"
      /\ UNCHANGED <<applier, manager, dispatcher>>
      /\ UNCHANGED <<ha, quit, cancelled, loaded, writer>>
  BY DEF JobLocks, node, Writing
<1> HIDE DEF r
<1> QED BY <1>1, <1>2, <1>3, <1>4, WorkerRuns

(* A worker that ends its job keeps Running.                               *)
LEMMA IdleRuns ==
  ASSUME Running, NEW w \in Worker, job[w].stage # "idle", job' = [job EXCEPT ![w] = Idle],
         view' \in [Key -> Entry], missed' \subseteq Key, restart' \in BOOLEAN,
         UNCHANGED <<applier, manager, dispatcher, queue>>,
         UNCHANGED <<ha, quit, cancelled, loaded, writer>>
  PROVE  Running'
<1>1. Idle \in Doing /\ ShapeOf(Idle) /\ Idle.stage = "idle"
  BY IdleIsDoing DEF Idle, ShapeOf
<1>2. dispatcher = "up" /\ queue' \in Seq(Key)
  BY BusyIsUp DEF Running, TypeOK
<1> QED BY <1>1, <1>2, WorkerRuns

(* JobGivesUp and JobIgnores keep Running.                                 *)
LEMMA JobEndsRuns ==
  ASSUME Running, NEW w \in Worker, JobGivesUp(w) \/ JobIgnores(w)
  PROVE  Running'
<1>0. job[w] \in Doing /\ ShapeOf(job[w]) /\ job[w].stage \in {"start", "locked"}
  BY DEF Running, TypeOK, JobShape, JobGivesUp, JobIgnores
<1>1. view' \in [Key -> Entry] /\ missed' \subseteq Key /\ restart' \in BOOLEAN
  <2>1. job[w].key \in Key
    BY <1>0 DEF ShapeOf
  <2> QED BY <2>1 DEF Running, JobGivesUp, JobIgnores, memory, node, TypeOK
<1>2. /\ job' = [job EXCEPT ![w] = Idle]
      /\ UNCHANGED <<applier, manager, dispatcher, queue>>
      /\ UNCHANGED <<ha, quit, cancelled, loaded, writer>>
  BY DEF JobGivesUp, JobIgnores, node
<1> QED BY <1>0, <1>1, <1>2, IdleRuns

(* JobFails keeps Running.                                                 *)
LEMMA JobFailsRuns ==
  ASSUME Running, NEW w \in Worker, JobFails(w)
  PROVE  Running'
<1>1. job[w].stage # "idle"
  BY DEF JobFails, Reading
<1>2. view' \in [Key -> Entry] /\ missed' \subseteq Key /\ restart' \in BOOLEAN
  BY DEF Running, JobFails, memory, TypeOK
<1>3. /\ job' = [job EXCEPT ![w] = Idle]
      /\ UNCHANGED <<applier, manager, dispatcher, queue>>
      /\ UNCHANGED <<ha, quit, cancelled, loaded, writer>>
  BY DEF JobFails
<1> QED BY <1>1, <1>2, <1>3, IdleRuns

(* A worker that goes on to the mounts S keeps Running.                    *)
LEMMA LeftRuns ==
  ASSUME Running, NEW w \in Worker, NEW st \in {"reload", "remove"}, NEW S \in SUBSET Split,
         Reading(w), job' = [job EXCEPT ![w] = Left(st, S)],
         view' \in [Key -> Entry], missed' \subseteq Key,
         UNCHANGED <<applier, manager, dispatcher, queue, node>>
  PROVE  Running'
<1>1. Left(st, S) \in Doing /\ ShapeOf(Left(st, S))
  <2>1. CASE S = {}
    BY <2>1, IdleIsDoing DEF Left, Idle, ShapeOf
  <2>2. CASE S # {}
    BY <2>2, NoneIsEntry DEF Left, Doing, ShapeOf
  <2> QED BY <2>1, <2>2
<1>2. job[w].stage # "idle"
  BY DEF Reading
<1>3. dispatcher = "up" /\ queue' \in Seq(Key) /\ restart' \in BOOLEAN
  BY <1>2, BusyIsUp DEF Running, TypeOK, node
<1>4. /\ UNCHANGED <<applier, manager, dispatcher>>
      /\ UNCHANGED <<ha, quit, cancelled, loaded, writer>>
  BY DEF node
<1> QED BY <1>1, <1>3, <1>4, WorkerRuns

(* JobRefreshes keeps Running.                                             *)
LEMMA JobRefreshesRuns ==
  ASSUME Running, NEW w \in Worker, JobRefreshes(w)
  PROVE  Running'
<1> DEFINE c == job[w].key
<1>0. ShapeOf(job[w]) /\ job[w].stage = "locked" /\ Reading(w)
  BY DEF Running, JobShape, JobRefreshes, Reading
<1>1. c \in Key
  BY <1>0 DEF ShapeOf
<1>2. view' \in [Key -> Entry] /\ missed' \subseteq Key
  <2>1. PassedOver(c) \subseteq Key
    BY DEF PassedOver
  <2>2. view' = [view EXCEPT ![c] = stored[c]] /\ missed' = (missed \ {c}) \cup PassedOver(c)
    BY DEF JobRefreshes
  <2>3. stored \in [Key -> Entry] /\ view \in [Key -> Entry] /\ missed \subseteq Key
    BY DEF Running, TypeOK
  <2> QED BY <1>1, <2>1, <2>2, <2>3
<1>3. UNCHANGED <<applier, manager, dispatcher, queue, node>>
  BY DEF JobRefreshes
<1>4. MountsIn(c, stored) \in SUBSET Split /\ MountsIn(c, view) \in SUBSET Split
  BY DEF MountsIn
<1>5. CASE stored[c].live
  <2>1. job' = [job EXCEPT ![w] = Left("reload", MountsIn(c, stored))]
    BY <1>5 DEF JobRefreshes
  <2> QED BY <1>0, <1>2, <1>3, <1>4, <2>1, LeftRuns
<1>6. CASE ~stored[c].live
  <2>1. job' = [job EXCEPT ![w] = Left("remove", MountsIn(c, view))]
    BY <1>6 DEF JobRefreshes
  <2> QED BY <1>0, <1>2, <1>3, <1>4, <2>1, LeftRuns
<1> QED BY <1>5, <1>6

(* JobReads keeps Running.                                                 *)
LEMMA JobReadsRuns ==
  ASSUME Running, NEW w \in Worker, NEW k \in Key, JobReads(w, k)
  PROVE  Running'
<1> DEFINE r == [stage |-> "read", key |-> k, value |-> stored[k], todo |-> job[w].todo \ {k}]
<1>0. job[w] \in Doing /\ ShapeOf(job[w]) /\ job[w].stage \in {"locked", "reload"}
  BY DEF Running, TypeOK, JobShape, JobReads
<1>1. k \in Split /\ stored[k] \in Entry
  BY <1>0 DEF JobReads, ShapeOf, Running, TypeOK
<1>2. r \in Doing /\ ShapeOf(r) /\ r.stage = "read"
  BY <1>0, <1>1 DEF Doing, ShapeOf
<1>3. dispatcher = "up" /\ Reading(w)
  BY <1>0, BusyIsUp DEF Reading
<1>4. /\ view' \in [Key -> Entry] /\ missed' \subseteq Key /\ restart' \in BOOLEAN
      /\ queue' \in Seq(Key)
  BY DEF Running, JobReads, memory, node, TypeOK
<1>5. /\ UNCHANGED <<applier, manager, dispatcher>>
      /\ UNCHANGED <<ha, quit, cancelled, loaded, writer>>
  BY DEF JobReads, node
<1>6. job' = [job EXCEPT ![w] = r]
  BY DEF JobReads, Running, TypeOK
<1> HIDE DEF r
<1> QED BY <1>2, <1>3, <1>4, <1>5, <1>6, WorkerRuns

(* JobInstalls keeps Running.                                              *)
LEMMA JobInstallsRuns ==
  ASSUME Running, NEW w \in Worker, JobInstalls(w)
  PROVE  Running'
<1>0. job[w] \in Doing /\ ShapeOf(job[w]) /\ job[w].stage = "read" /\ Reading(w)
  BY DEF Running, TypeOK, JobShape, JobInstalls, Reading
<1>1. job[w].key \in Split /\ job[w].value \in Entry /\ job[w].todo \in SUBSET Split
  BY <1>0 DEF ShapeOf, Doing
<1>2. view' \in [Key -> Entry] /\ missed' \subseteq Key
  BY <1>1 DEF JobInstalls, Running, TypeOK
<1>3. UNCHANGED <<applier, manager, dispatcher, queue, node>>
  BY DEF JobInstalls
<1>4. job' = [job EXCEPT ![w] = Left("reload", job[w].todo)]
  BY DEF JobInstalls, Running, TypeOK
<1> QED BY <1>0, <1>1, <1>2, <1>3, <1>4, LeftRuns

(* JobRemoves keeps Running.                                               *)
LEMMA JobRemovesRuns ==
  ASSUME Running, NEW w \in Worker, NEW k \in Key, JobRemoves(w, k)
  PROVE  Running'
<1>0. job[w] \in Doing /\ ShapeOf(job[w]) /\ job[w].stage = "remove" /\ Reading(w)
  BY DEF Running, TypeOK, JobShape, JobRemoves, Reading
<1>1. job[w].todo \ {k} \in SUBSET Split
  BY <1>0 DEF ShapeOf
<1>2. view' \in [Key -> Entry] /\ missed' \subseteq Key
  <2>1. view \in [Key -> Entry] /\ view' = [view EXCEPT ![k].live = FALSE]
    BY DEF JobRemoves, Running, TypeOK
  <2>2. [view[k] EXCEPT !.live = FALSE] \in Entry
    BY <2>1 DEF Entry
  <2>3. view' = [view EXCEPT ![k] = [view[k] EXCEPT !.live = FALSE]]
    BY <2>1
  <2>4. missed' \subseteq Key
    BY DEF JobRemoves, Running, TypeOK
  <2> QED BY <2>1, <2>2, <2>3, <2>4
<1>3. UNCHANGED <<applier, manager, dispatcher, queue, node>>
  BY DEF JobRemoves
<1>4. job' = [job EXCEPT ![w] = Left("remove", job[w].todo \ {k})]
  BY DEF JobRemoves, Running, TypeOK
<1>5. Reading(w) /\ "remove" \in {"reload", "remove"}
  BY <1>0
<1> QED BY ONLY Running, <1>1, <1>2, <1>3, <1>4, <1>5, LeftRuns

(* A step of the HA loop keeps the types.                                  *)
LEMMA HaTypes ==
  ASSUME TypeOK, UNCHANGED <<applier, proc, batch, workers, quit, writer>>,
         accepting' \in BOOLEAN, pending' \in Seq(Key),
         view' \in [Key -> Entry], missed' \subseteq Key, loaded' \subseteq Key,
         ha' \in {"down", "load", "wanted"},
         cancelled' \in BOOLEAN, restart' \in BOOLEAN
  PROVE  TypeOK'
  BY DEF TypeOK, applier, workers

(* HearRestart keeps Running.                                              *)
LEMMA HearRestartRuns ==
  ASSUME Running, HearRestart
  PROVE  Running'
<1> USE DEF Running
<1>1. TypeOK'
  <2>1. UNCHANGED <<applier, proc, batch, workers, quit, writer>>
    BY DEF HearRestart, manager
  <2>2. /\ view' \in [Key -> Entry] /\ missed' \subseteq Key /\ loaded' \subseteq Key
        /\ pending' \in Seq(Key) /\ ha' \in {"down", "load", "wanted"}
    BY DEF HearRestart, memory, manager, TypeOK
  <2>3. accepting' \in BOOLEAN /\ cancelled' \in BOOLEAN /\ restart' \in BOOLEAN
    BY DEF HearRestart, manager, TypeOK
  <2> QED BY <2>1, <2>2, <2>3, HaTypes
<1>2. HookShape' /\ JobShape'
  BY DEF HearRestart, applier, memory, manager, workers, node, TypeOK, HookShape, JobShape, Idle
<1>3. InStep'
  BY DEF HearRestart, applier, memory, manager, workers, node, TypeOK, JobShape, InStep, Reading,
     Idle
<1> QED BY <1>1, <1>2, <1>3

(* WinElection keeps Running.                                              *)
LEMMA WinElectionRuns ==
  ASSUME Running, WinElection
  PROVE  Running'
<1> USE DEF Running
<1>1. TypeOK'
  BY DEF WinElection, applier, memory, manager, workers, node, TypeOK, HookShape, JobShape
<1>2. HookShape' /\ JobShape'
  BY DEF WinElection, applier, memory, manager, workers, node, TypeOK, HookShape, JobShape, Idle
<1>3. InStep'
  BY DEF WinElection, applier, memory, manager, workers, node, TypeOK, JobShape, InStep, Reading,
     Idle
<1> QED BY <1>1, <1>2, <1>3

(* GrabStateLock keeps Running.                                            *)
LEMMA GrabStateLockRuns ==
  ASSUME Running, GrabStateLock
  PROVE  Running'
<1> USE DEF Running
<1>1. TypeOK'
  BY DEF GrabStateLock, applier, memory, manager, workers, node, TypeOK, HookShape, JobShape
<1>2. HookShape' /\ JobShape'
  BY DEF GrabStateLock, applier, memory, manager, workers, node, TypeOK, HookShape, JobShape, Idle
<1>3. InStep'
  BY DEF GrabStateLock, applier, memory, manager, workers, node, TypeOK, JobShape, InStep,
     Reading, Idle
<1> QED BY <1>1, <1>2, <1>3

(* StopAccepting keeps Running.                                            *)
LEMMA StopAcceptingRuns ==
  ASSUME Running, StopAccepting
  PROVE  Running'
<1> USE DEF Running
<1>1. TypeOK'
  <2>1. UNCHANGED <<applier, memory, pending, proc, batch, workers, cancelled, loaded, restart, writer>>
    BY DEF StopAccepting
  <2>2. accepting' \in BOOLEAN /\ quit' \in BOOLEAN /\ ha' = "stopping"
    BY DEF StopAccepting
  <2> QED BY <2>1, <2>2 DEF TypeOK, applier, memory, workers
<1>2. HookShape' /\ JobShape'
  BY DEF StopAccepting, applier, memory, manager, workers, node, TypeOK, HookShape, JobShape, Idle
<1>3. InStep'
  BY DEF StopAccepting, applier, memory, manager, workers, node, TypeOK, JobShape, InStep,
     Reading, Idle
<1> QED BY <1>1, <1>2, <1>3

(* StopDispatcher keeps Running.                                           *)
LEMMA StopDispatcherRuns ==
  ASSUME Running, StopDispatcher
  PROVE  Running'
<1> USE DEF Running
<1>1. TypeOK'
  BY DEF StopDispatcher, applier, memory, manager, workers, node, TypeOK, HookShape, JobShape
<1>2. HookShape' /\ JobShape'
  BY DEF StopDispatcher, applier, memory, manager, workers, node, TypeOK, HookShape, JobShape, Idle
<1>3. InStep'
  BY DEF StopDispatcher, applier, memory, manager, workers, node, TypeOK, JobShape, InStep,
     Reading, Idle
<1> QED BY <1>1, <1>2, <1>3

(* StopTimesOut keeps Running.                                             *)
LEMMA StopTimesOutRuns ==
  ASSUME Running, StopTimesOut
  PROVE  Running'
<1> USE DEF Running
<1>1. TypeOK'
  BY DEF StopTimesOut, applier, memory, manager, workers, node, TypeOK, HookShape, JobShape
<1>2. HookShape' /\ JobShape'
  BY DEF StopTimesOut, applier, memory, manager, workers, node, TypeOK, HookShape, JobShape, Idle
<1>3. InStep'
  BY DEF StopTimesOut, applier, memory, manager, workers, node, TypeOK, JobShape, InStep,
     Reading, Idle
<1> QED BY <1>1, <1>2, <1>3

(* StopClears keeps Running.                                               *)
LEMMA StopClearsRuns ==
  ASSUME Running, StopClears
  PROVE  Running'
<1> USE DEF Running
<1>1. TypeOK'
  BY InNoKeys DEF StopClears, applier, memory, manager, workers, node, TypeOK, HookShape, JobShape
<1>2. HookShape' /\ JobShape'
  BY InNoKeys DEF StopClears, applier, memory, manager, workers, node, TypeOK, HookShape,
     JobShape, Idle
<1>3. InStep'
  BY InNoKeys DEF StopClears, applier, memory, manager, workers, node, TypeOK, JobShape, InStep,
     Reading, Idle
<1> QED BY <1>1, <1>2, <1>3

(* Track keeps Running.                                                    *)
LEMMA TrackRuns ==
  ASSUME Running, Track
  PROVE  Running'
<1> USE DEF Running
<1>1. TypeOK'
  <2>1. UNCHANGED <<applier, proc, batch, workers, quit, writer>>
    BY DEF Track, manager
  <2>2. /\ view' \in [Key -> Entry] /\ missed' \subseteq Key /\ loaded' \subseteq Key
        /\ pending' \in Seq(Key) /\ ha' \in {"down", "load", "wanted"}
    BY InNoKeys, NoneIsEntry DEF Track, memory, manager, TypeOK
  <2>3. accepting' \in BOOLEAN /\ cancelled' \in BOOLEAN /\ restart' \in BOOLEAN
    BY DEF Track, manager, TypeOK
  <2> QED BY <2>1, <2>2, <2>3, HaTypes
<1>2. HookShape' /\ JobShape'
  BY InNoKeys DEF Track, applier, memory, manager, workers, node, TypeOK, HookShape, JobShape, Idle
<1>3. InStep'
  BY InNoKeys DEF Track, applier, memory, manager, workers, node, TypeOK, JobShape, InStep,
     Reading, Idle
<1> QED BY <1>1, <1>2, <1>3

(* Load keeps Running.                                                     *)
LEMMA LoadRuns ==
  ASSUME Running, NEW k \in Key, Load(k)
  PROVE  Running'
<1> USE DEF Running
<1>1. TypeOK'
  BY DEF Load, applier, memory, manager, workers, node, TypeOK, HookShape, JobShape
<1>2. HookShape' /\ JobShape'
  BY DEF Load, applier, memory, manager, workers, node, TypeOK, HookShape, JobShape, Idle
<1>3. InStep'
  BY DEF Load, applier, memory, manager, workers, node, TypeOK, JobShape, InStep, Reading, Idle
<1> QED BY <1>1, <1>2, <1>3

(* LoadFails keeps Running.                                                *)
LEMMA LoadFailsRuns ==
  ASSUME Running, LoadFails
  PROVE  Running'
<1> USE DEF Running
<1>1. TypeOK'
  <2>1. UNCHANGED <<applier, proc, batch, workers, quit, writer>>
    BY DEF LoadFails, manager
  <2>2. /\ view' \in [Key -> Entry] /\ missed' \subseteq Key /\ loaded' \subseteq Key
        /\ pending' \in Seq(Key) /\ ha' \in {"down", "load", "wanted"}
    BY InNoKeys DEF LoadFails, memory, manager, TypeOK
  <2>3. accepting' \in BOOLEAN /\ cancelled' \in BOOLEAN /\ restart' \in BOOLEAN
    BY DEF LoadFails, manager, TypeOK
  <2> QED BY <2>1, <2>2, <2>3, HaTypes
<1>2. HookShape' /\ JobShape'
  BY InNoKeys DEF LoadFails, applier, memory, manager, workers, node, TypeOK, HookShape,
     JobShape, Idle
<1>3. InStep'
  BY InNoKeys DEF LoadFails, applier, memory, manager, workers, node, TypeOK, JobShape, InStep,
     Reading, Idle
<1> QED BY <1>1, <1>2, <1>3

(* Start keeps Running.                                                    *)
LEMMA StartRuns ==
  ASSUME Running, Start
  PROVE  Running'
<1> USE DEF Running
<1>1. TypeOK'
  BY DEF Start, applier, memory, manager, workers, node, TypeOK, HookShape, JobShape
<1>2. HookShape' /\ JobShape'
  BY DEF Start, applier, memory, manager, workers, node, TypeOK, HookShape, JobShape, Idle
<1>3. InStep'
  BY DEF Start, applier, memory, manager, workers, node, TypeOK, JobShape, InStep, Reading, Idle
<1> QED BY <1>1, <1>2, <1>3

(* Promote keeps Running.                                                  *)
LEMMA PromoteRuns ==
  ASSUME Running, Promote
  PROVE  Running'
<1> USE DEF Running
<1>1. TypeOK'
  BY DEF Promote, applier, memory, manager, workers, node, TypeOK, HookShape, JobShape
<1>2. HookShape' /\ JobShape'
  BY DEF Promote, applier, memory, manager, workers, node, TypeOK, HookShape, JobShape, Idle
<1>3. InStep'
  BY DEF Promote, applier, memory, manager, workers, node, TypeOK, JobShape, InStep, Reading, Idle
<1> QED BY <1>1, <1>2, <1>3

(* Demote keeps Running.                                                   *)
LEMMA DemoteRuns ==
  ASSUME Running, Demote
  PROVE  Running'
<1> USE DEF Running
<1>1. TypeOK'
  <2>1. UNCHANGED <<applier, proc, batch, workers, quit, writer>>
    BY DEF Demote, manager
  <2>2. /\ view' \in [Key -> Entry] /\ missed' \subseteq Key /\ loaded' \subseteq Key
        /\ pending' \in Seq(Key) /\ ha' \in {"down", "load", "wanted"}
    BY InNoKeys DEF Demote, memory, manager, TypeOK
  <2>3. accepting' \in BOOLEAN /\ cancelled' \in BOOLEAN /\ restart' \in BOOLEAN
    BY DEF Demote, manager, TypeOK
  <2> QED BY <2>1, <2>2, <2>3, HaTypes
<1>2. HookShape' /\ JobShape'
  BY InNoKeys DEF Demote, applier, memory, manager, workers, node, TypeOK, HookShape, JobShape, Idle
<1>3. InStep'
  BY InNoKeys DEF Demote, applier, memory, manager, workers, node, TypeOK, JobShape, InStep,
     Reading, Idle
<1> QED BY <1>1, <1>2, <1>3

(* Every step keeps Running.                                               *)
LEMMA NextRuns == Running /\ [Next]_vars => Running'
<1> SUFFICES ASSUME Running, [Next]_vars PROVE Running'
  OBVIOUS
<1>0. CASE \/ \E k \in Key, live \in BOOLEAN : Apply(k, live) \/ InstallSnapshot(k, live)
           \/ RestoreWants \/ RestoreLocks \/ RestoreEnds
  BY <1>0, ApplyRuns, InstallSnapshotRuns, RestoreRuns
<1>1. CASE Adding
  BY <1>1, AddPassesRuns, AddIgnoresRuns, AddAppendsRuns, AddNotifiesRuns DEF Adding
<1>2. CASE Processing
  BY <1>2, ProcParksRuns, ProcQuitsRuns, ProcTakesRuns, ProcDispatchesRuns, ProcLoopsRuns
     DEF Processing
<1>3. CASE \E w \in Worker : Executing(w) \/ JobFails(w)
  BY <1>3, JobTakenRuns, JobLocksRuns, JobEndsRuns, JobRefreshesRuns, JobReadsRuns,
     JobInstallsRuns, JobRemovesRuns, JobFailsRuns DEF Executing
<1>4. CASE Stopping \/ StopTimesOut
  BY <1>4, GrabStateLockRuns, StopAcceptingRuns, StopDispatcherRuns, StopClearsRuns,
     StopTimesOutRuns DEF Stopping
<1>5. CASE Track \/ Loading \/ LoadFails
  BY <1>5, TrackRuns, LoadRuns, StartRuns, LoadFailsRuns DEF Loading
<1>6. CASE HearRestart \/ WinElection \/ Promote \/ Demote
  BY <1>6, HearRestartRuns, WinElectionRuns, PromoteRuns, DemoteRuns
<1>7. CASE UNCHANGED vars
  <2>1. TypeOK' /\ HookShape' /\ JobShape'
    BY <1>7 DEF vars, Running, TypeOK, HookShape, JobShape
  <2>2. InStep'
    BY <1>7 DEF vars, Running, InStep, Reading
  <2> QED BY <2>1, <2>2 DEF Running
<1> QED BY <1>0, <1>1, <1>2, <1>3, <1>4, <1>5, <1>6, <1>7 DEF Next

(* Running holds in every state.                                           *)
LEMMA Runs == Spec => []Running
<1>1. Init => Running
  <2> SUFFICES ASSUME Init PROVE Running
    OBVIOUS
  <2>1. TypeOK
    <3>1. stored \in [Key -> Entry] /\ view \in [Key -> Entry] /\ missed \subseteq Key
      BY NoneIsEntry DEF Init, Entry
    <3>2. hook \in [stage : {"idle", "applied", "passed", "notify"}, key : Key \cup {NoKey}]
      BY DEF Init
    <3>3. job \in [Worker -> Doing]
      <4>1. job = [w \in Worker |-> Idle]
        BY DEF Init
      <4> QED BY <4>1, IdleIsDoing
    <3>4. pending \in Seq(Key) /\ batch \in Seq(Key) /\ queue \in Seq(Key)
      BY InNoKeys DEF Init
    <3>5. writes \in 0 .. MaxWrites /\ writer = "none"
      BY DEF Init
    <3>6. /\ accepting \in BOOLEAN /\ quit \in BOOLEAN
          /\ cancelled \in BOOLEAN /\ restart \in BOOLEAN
      BY DEF Init
    <3>7. /\ proc = "none" /\ dispatcher = "none" /\ ha = "down" /\ loaded \subseteq Key
      BY DEF Init
    <3> QED BY <3>1, <3>2, <3>3, <3>4, <3>5, <3>6, <3>7 DEF TypeOK
  <2>2. HookShape /\ JobShape
    BY DEF Init, Idle, HookShape, JobShape, ShapeOf
  <2>3. InStep
    BY DEF Init, Idle, InStep, Reading
  <2> QED BY <2>1, <2>2, <2>3 DEF Running
<1> QED BY <1>1, NextRuns, PTL DEF Spec

(* The variables of the invalidation manager keep their types.             *)
THEOREM TypesHold == Spec => []TypeOK
<1>1. Running => TypeOK
  BY DEF Running
<1> QED BY <1>1, Runs, PTL

(* Once Stop has returned, and until Start, no processor, batch or job of  *)
(* an earlier run is left (invalidation.go, Stop).                         *)
THEOREM StopLeavesNothing == Spec => []QuietWhenStopped
<1>1. Running => QuietWhenStopped
  BY DEF Running, InStep, QuietWhenStopped
<1> QED BY <1>1, Runs, PTL

-----------------------------------------------------------------------------
(* What covers a stale object.                                             *)

(* An entry that was deleted, for good.                                    *)
Dead(k) == stored[k].n # 0 /\ ~stored[k].live

(* The namespace of k is gone, from the storage and from the view.         *)
Gone(k) == Parent[k] # Root /\ Dead(Parent[k]) /\ ~view[Parent[k]].live

AtHome(k) == Known(k) \/ Gone(k)

(* An object made from an entry, and an entry read earlier, against s.     *)
MadeFrom(e, s) == e.n <= s.n /\ (e.live => e.n # 0)

ReadFrom(v, s) ==
  /\ MadeFrom(v, s)
  /\ v.n = s.n => v = s
  /\ v.n # 0 /\ ~v.live => ~s.live

Versions ==
  /\ \A k \in Key : MadeFrom(view[k], stored[k]) /\ MadeFrom(stored[k], stored[k])
  /\ \A w \in Worker : job[w].stage = "read" => ReadFrom(job[w].value, stored[job[w].key])

(* What is in memory, was read or is to be reloaded lies in a namespace    *)
(* that is known or gone.                                                  *)
HomeOf(r) ==
  /\ r.stage = "read" => AtHome(r.key)
  /\ \A k \in r.todo : AtHome(k) /\ (r.stage = "remove" => Gone(k))

Homes ==
  /\ \A k \in Key : view[k].live => AtHome(k)
  /\ \A w \in Worker : HomeOf(job[w])

LoadedInOrder ==
  /\ ha = "serve" => loaded = Key
  /\ \A k \in loaded : Parent[k] \in loaded \cup {Root}

(* A worker is about to install an outdated entry of k.                    *)
Unsettled(w, k) ==
  /\ job[w].stage = "read" /\ job[w].key = k
  /\ job[w].value # stored[k] /\ job[w].value.live
  /\ view[k].n <= job[w].value.n

Trouble(k) == Stale(k) \/ \E w \in Worker : Unsettled(w, k)

Cover(k) == OnItsWay(k) \/ Waiting(k) \/ restart \/ k \in missed

Covered ==
  ha \in {"load", "serve"} => \A k \in loaded : Known(k) /\ Trouble(k) => Cover(k)

Covering == Versions /\ Homes /\ LoadedInOrder /\ Covered

-----------------------------------------------------------------------------
(* What is in memory is no later than the storage.                         *)

(* A step that leaves the storage alone keeps Versions when it makes       *)
(* objects, and reads entries, no later than the storage.                  *)
LEMMA VersionsStay ==
  ASSUME Running, Versions, stored' = stored,
         \A k \in Key : MadeFrom(view'[k], stored[k]),
         \A w \in Worker : job'[w].stage = "read" =>
             job'[w] = job[w] \/ ReadFrom(job'[w].value, stored[job'[w].key])
  PROVE  Versions'
<1>1. \A k \in Key : MadeFrom(view'[k], stored'[k]) /\ MadeFrom(stored'[k], stored'[k])
  BY DEF Versions
<1>2. ASSUME NEW w \in Worker, job'[w].stage = "read"
      PROVE  ReadFrom(job'[w].value, stored'[job'[w].key])
  BY <1>2 DEF Versions
<1> QED BY <1>1, <1>2 DEF Versions

(* An entry is no later than itself.                                       *)
LEMMA SameVersion ==
  ASSUME Running, Versions, NEW k \in Key
  PROVE  /\ MadeFrom(stored[k], stored[k]) /\ MadeFrom(view[k], stored[k])
         /\ MadeFrom(None, stored[k]) /\ ReadFrom(stored[k], stored[k])
<1>1. stored[k] \in Entry
  BY DEF Running, TypeOK
<1>2. MadeFrom(stored[k], stored[k]) /\ MadeFrom(view[k], stored[k])
  BY DEF Versions
<1>3. MadeFrom(None, stored[k])
  BY <1>1, NoneIsEntry DEF MadeFrom, Entry
<1>4. ReadFrom(stored[k], stored[k])
  BY <1>2 DEF ReadFrom
<1> QED BY <1>2, <1>3, <1>4

(* A later entry of k, which does not come back when it was deleted.       *)
LEMMA LaterVersion ==
  ASSUME NEW s \in Entry, NEW e \in Entry, NEW live \in BOOLEAN,
         live => s.live \/ s.n = 0
  PROVE  LET t == [n |-> s.n + 1, live |-> live]
         IN  /\ MadeFrom(t, t)
             /\ MadeFrom(e, s) => MadeFrom(e, t)
             /\ ReadFrom(e, s) => ReadFrom(e, t)
  BY DEF Entry, MadeFrom, ReadFrom

(* A change of the storage keeps Versions.                                 *)
LEMMA ChangesVersions ==
  ASSUME Running, Versions, NEW k \in Key, NEW live \in BOOLEAN, Changes(k, live),
         UNCHANGED <<view, job>>
  PROVE  Versions'
<1> DEFINE t == [n |-> stored[k].n + 1, live |-> live]
<1>0. /\ stored \in [Key -> Entry] /\ view \in [Key -> Entry]
      /\ job \in [Worker -> Doing] /\ JobShape
  BY DEF Running, TypeOK
<1>1. /\ live => stored[k].live \/ stored[k].n = 0
      /\ stored' = [stored EXCEPT ![k] = t]
  BY DEF Changes
<1>2. \A e \in Entry : /\ MadeFrom(t, t)
                       /\ MadeFrom(e, stored[k]) => MadeFrom(e, t)
                       /\ ReadFrom(e, stored[k]) => ReadFrom(e, t)
  BY <1>0, <1>1, LaterVersion
<1>3. stored'[k] = t /\ \A j \in Key \ {k} : stored'[j] = stored[j]
  BY <1>0, <1>1
<1> HIDE DEF t
<1>4. ASSUME NEW j \in Key
      PROVE  MadeFrom(view'[j], stored'[j]) /\ MadeFrom(stored'[j], stored'[j])
  <2>1. view[j] \in Entry /\ stored[j] \in Entry /\ view'[j] = view[j]
    BY <1>0
  <2>2. MadeFrom(view[j], stored[j]) /\ MadeFrom(stored[j], stored[j])
    BY DEF Versions
  <2> QED BY <1>2, <1>3, <2>1, <2>2
<1>5. ASSUME NEW w \in Worker, job'[w].stage = "read"
      PROVE  ReadFrom(job'[w].value, stored'[job'[w].key])
  <2>1. job'[w] = job[w] /\ job[w] \in Doing /\ ShapeOf(job[w])
    BY <1>0 DEF JobShape
  <2>2. job[w].value \in Entry /\ job[w].key \in Key
    BY <1>5, <2>1 DEF Doing, ShapeOf
  <2>3. ReadFrom(job[w].value, stored[job[w].key])
    BY <1>5, <2>1 DEF Versions
  <2> QED BY <1>2, <1>3, <2>1, <2>2, <2>3
<1> QED BY <1>4, <1>5 DEF Versions

(* The steps of a worker, as they touch the view: one key c of it gets the *)
(* object e.                                                               *)
LEMMA ViewVersions ==
  ASSUME Running, Versions, NEW c \in Key, NEW e \in Entry, MadeFrom(e, stored[c]),
         stored' = stored, view' = [view EXCEPT ![c] = e],
         \A w \in Worker : job'[w].stage = "read" => job'[w] = job[w]
  PROVE  Versions'
<1>1. view'[c] = e /\ \A k \in Key \ {c} : view'[k] = view[k]
  BY DEF Running, TypeOK
<1>2. \A k \in Key : MadeFrom(view'[k], stored[k])
  BY <1>1 DEF Versions
<1> QED BY <1>2, VersionsStay

(* After a step of the worker w that leaves it with Left, who reads did so *)
(* before.                                                                 *)
LEMMA LeftReads ==
  ASSUME Running, NEW w \in Worker, NEW st \in {"reload", "remove"}, NEW S,
         job' = [job EXCEPT ![w] = Left(st, S)]
  PROVE  \A v \in Worker : job'[v].stage = "read" => v # w /\ job'[v] = job[v]
<1>1. Left(st, S).stage # "read"
  BY LeftShape
<1>2. job'[w] = Left(st, S) /\ \A v \in Worker \ {w} : job'[v] = job[v]
  BY DEF Running, TypeOK
<1> QED BY <1>1, <1>2

(* Every step keeps Versions.                                              *)
LEMMA NextVersions == Running /\ Versions /\ [Next]_vars => Versions'
<1> SUFFICES ASSUME Running, Versions, [Next]_vars PROVE Versions'
  OBVIOUS
<1>e. /\ stored \in [Key -> Entry] /\ view \in [Key -> Entry]
      /\ job \in [Worker -> Doing] /\ JobShape
  BY DEF Running, TypeOK
<1>s. ASSUME UNCHANGED <<stored, view>>,
             \A w \in Worker : job'[w].stage = "read" => job'[w] = job[w]
      PROVE  Versions'
  BY <1>s, SameVersion, VersionsStay
<1>0. ASSUME NEW k \in Key, NEW live \in BOOLEAN, Apply(k, live) \/ InstallSnapshot(k, live)
      PROVE  Versions'
  <2>1. Changes(k, live) /\ UNCHANGED <<view, job>>
    BY <1>0 DEF Apply, InstallSnapshot, memory, workers
  <2> QED BY <2>1, ChangesVersions
<1>1. CASE \/ RestoreWants \/ RestoreLocks \/ RestoreEnds \/ Adding \/ Processing
           \/ HearRestart \/ WinElection \/ Promote \/ Demote
           \/ GrabStateLock \/ StopAccepting \/ StopDispatcher \/ StopClears
           \/ StopTimesOut \/ LoadFails \/ Start \/ UNCHANGED vars
  <2>1. UNCHANGED <<stored, view, job>>
    BY <1>1 DEF RestoreWants, RestoreLocks, RestoreEnds, Adding, AddPasses, AddIgnores,
       AddAppends, AddNotifies, Processing, ProcParks, ProcQuits, ProcTakes, ProcDispatches,
       ProcLoops, HearRestart, WinElection, Promote, Demote, GrabStateLock, StopAccepting,
       StopDispatcher, StopClears, StopTimesOut, LoadFails, Start, vars, applier, memory, workers
  <2> QED BY <1>s, <2>1
<1>2. CASE Track
  <2>1. stored' = stored /\ job' = job /\ \A k \in Key : view'[k] = None
    BY <1>2 DEF Track, applier, workers
  <2> QED BY <2>1, SameVersion, VersionsStay
<1>3. ASSUME NEW k \in Key, Load(k) PROVE Versions'
  <2>1. stored' = stored /\ job' = job
    BY <1>3 DEF Load, applier, workers
  <2>2. CASE Known(k)
    <3>1. view' = [view EXCEPT ![k] = stored[k]]
      BY <1>3, <2>2 DEF Load
    <3> QED BY <1>e, <2>1, <3>1, SameVersion, ViewVersions
  <2>3. CASE ~Known(k)
    <3>1. view' = view
      BY <1>3, <2>3 DEF Load, memory
    <3> QED BY <1>s, <2>1, <3>1
  <2> QED BY <2>2, <2>3
<1>4. ASSUME NEW w \in Worker, Executing(w) \/ JobFails(w) PROVE Versions'
  <2>0. job[w] \in Doing /\ ShapeOf(job[w])
    BY <1>e DEF JobShape
  <2>1. ASSUME NEW i \in 1 .. Len(queue), JobTaken(w, i) PROVE Versions'
    <3>1. UNCHANGED <<stored, view>> /\ \E r : r.stage = "start" /\ job' = [job EXCEPT ![w] = r]
      BY <2>1 DEF JobTaken, applier, memory
    <3> QED BY <1>e, <1>s, <3>1
  <2>2. CASE JobLocks(w)
    <3>1. UNCHANGED <<stored, view>> /\ job'[w].stage = "locked"
      BY <1>e, <2>2 DEF JobLocks, applier, memory, Doing
    <3>2. \A v \in Worker \ {w} : job'[v] = job[v]
      BY <1>e, <2>2 DEF JobLocks
    <3> QED BY <1>s, <3>1, <3>2
  <2>3. CASE JobGivesUp(w) \/ JobIgnores(w) \/ JobFails(w)
    <3>1. UNCHANGED <<stored, view>> /\ job' = [job EXCEPT ![w] = Idle]
      BY <2>3 DEF JobGivesUp, JobIgnores, JobFails, applier, memory
    <3> QED BY <1>e, <1>s, <3>1 DEF Idle
  <2>4. CASE JobRefreshes(w)
    <3>1. job[w].key \in Key
      BY <2>0, <2>4 DEF JobRefreshes, ShapeOf
    <3>2. stored' = stored /\ view' = [view EXCEPT ![job[w].key] = stored[job[w].key]]
      BY <2>4 DEF JobRefreshes, applier
    <3>3. \E st \in {"reload", "remove"}, S \in SUBSET Key : job' = [job EXCEPT ![w] = Left(st, S)]
      BY <2>4 DEF JobRefreshes, MountsIn
    <3>4. \A v \in Worker : job'[v].stage = "read" => job'[v] = job[v]
      BY <3>3, LeftReads
    <3>5. stored[job[w].key] \in Entry /\ MadeFrom(stored[job[w].key], stored[job[w].key])
      BY <1>e, <3>1, SameVersion
    <3> QED BY <3>1, <3>2, <3>4, <3>5, ViewVersions
  <2>5. ASSUME NEW k \in Key, JobReads(w, k) PROVE Versions'
    <3>1. /\ stored' = stored /\ view' = view
          /\ job'[w].value = stored[k] /\ job'[w].key = k
          /\ \A v \in Worker \ {w} : job'[v] = job[v]
      BY <1>e, <2>5 DEF JobReads, applier, memory
    <3> QED BY <3>1, SameVersion, VersionsStay
  <2>6. ASSUME NEW k \in Key, JobRemoves(w, k) PROVE Versions'
    <3> DEFINE e == [view[k] EXCEPT !.live = FALSE]
    <3>1. stored' = stored /\ view' = [view EXCEPT ![k] = e]
      BY <1>e, <2>6 DEF JobRemoves, applier
    <3>2. view[k] \in Entry /\ stored[k] \in Entry /\ MadeFrom(view[k], stored[k])
      BY <1>e, SameVersion
    <3>3. e \in Entry /\ MadeFrom(e, stored[k])
      BY <3>2 DEF Entry, MadeFrom
    <3>4. job' = [job EXCEPT ![w] = Left("remove", job[w].todo \ {k})]
      BY <1>e, <2>6 DEF JobRemoves
    <3>5. \A v \in Worker : job'[v].stage = "read" => job'[v] = job[v]
      BY <3>4, LeftReads
    <3> HIDE DEF e
    <3> QED BY <3>1, <3>3, <3>5, ViewVersions
  <2>7. CASE JobInstalls(w)
    <3>1. job[w].key \in Key /\ job[w].value \in Entry /\ job[w].stage = "read"
      BY <2>0, <2>7 DEF JobInstalls, ShapeOf, Doing
    <3>2. stored' = stored /\ view' = [view EXCEPT ![job[w].key] = job[w].value]
      BY <2>7 DEF JobInstalls, applier
    <3>3. job' = [job EXCEPT ![w] = Left("reload", job[w].todo)]
      BY <1>e, <2>7 DEF JobInstalls
    <3>4. \A v \in Worker : job'[v].stage = "read" => job'[v] = job[v]
      BY <3>3, LeftReads
    <3>5. MadeFrom(job[w].value, stored[job[w].key])
      BY <3>1 DEF Versions, ReadFrom
    <3> QED BY <3>1, <3>2, <3>4, <3>5, ViewVersions
  <2> QED BY <1>4, <2>1, <2>2, <2>3, <2>4, <2>5, <2>6, <2>7 DEF Executing
<1> QED BY <1>0, <1>1, <1>2, <1>3, <1>4 DEF Next, Stopping, Loading

-----------------------------------------------------------------------------
(* What is in memory has a namespace, or had one that is gone.             *)

(* What a step does to a namespace p: nothing brings back a deleted entry, *)
(* and the view of it changes to what the storage says.                    *)
Settles ==
  \A p \in Key \ Split :
     /\ Dead(p) => Dead(p)'
     /\ view'[p] = view[p] \/ (view'[p] = stored[p] /\ stored'[p] = stored[p])

(* A home is kept.                                                         *)
LEMMA HomeStays ==
  ASSUME Running, Versions, Settles, NEW k \in Key
  PROVE  (Gone(k) => Gone(k)') /\ (AtHome(k) => AtHome(k)')
<1>1. CASE Parent[k] = Root
  BY <1>1 DEF Gone, AtHome, Known, HasParent
<1>2. CASE Parent[k] # Root
  <2> DEFINE p == Parent[k]
  <2>1. p \in Key \ Split
    BY <1>2
  <2>2. view[p] \in Entry /\ stored[p] \in Entry /\ MadeFrom(view[p], stored[p])
    BY <2>1 DEF Running, TypeOK, Versions
  <2>3. Dead(p) => Dead(p)'
    BY <2>1 DEF Settles
  <2>4. view'[p] = view[p] \/ (view'[p] = stored[p] /\ stored'[p] = stored[p])
    BY <2>1 DEF Settles
  <2>5. (Gone(k) <=> Dead(p) /\ ~view[p].live) /\ (Gone(k)' <=> Dead(p)' /\ ~view'[p].live)
    BY <1>2 DEF Gone
  <2>6. /\ AtHome(k) <=> view[p].live \/ Gone(k)
        /\ AtHome(k)' <=> view'[p].live \/ Gone(k)'
    BY <1>2 DEF AtHome, Known, HasParent
  <2>7. Dead(p) => ~stored[p].live
    BY DEF Dead
  <2>8. ASSUME view'[p] = stored[p], stored'[p] = stored[p], view[p].live, ~view'[p].live
        PROVE  Dead(p)'
    BY <2>2, <2>8 DEF Dead, MadeFrom, Entry
  <2> QED BY <2>3, <2>4, <2>5, <2>6, <2>7, <2>8
<1> QED BY <1>1, <1>2

(* The record of a worker keeps its homes.                                 *)
LEMMA RecordStays ==
  ASSUME Running, Versions, Settles, NEW r \in Doing, ShapeOf(r), HomeOf(r)
  PROVE  HomeOf(r)'
<1>1. r.stage = "read" => r.key \in Key
  BY DEF ShapeOf
<1>2. r.todo \subseteq Key
  BY DEF Doing
<1>3. r.stage = "read" => AtHome(r.key)'
  BY <1>1, HomeStays DEF HomeOf
<1>4. \A k \in r.todo : AtHome(k)' /\ (r.stage = "remove" => Gone(k)')
  BY <1>2, HomeStays DEF HomeOf
<1> QED BY <1>3, <1>4 DEF HomeOf

(* A step keeps Homes when the objects and records it makes have theirs.   *)
LEMMA HomesStay ==
  ASSUME Running, Versions, Homes, Settles,
         \A k \in Key : view'[k].live => view[k].live \/ AtHome(k)',
         \A w \in Worker : job'[w] = job[w] \/ HomeOf(job[w])'
  PROVE  Homes'
<1>1. ASSUME NEW k \in Key, view'[k].live PROVE AtHome(k)'
  BY <1>1, HomeStays DEF Homes
<1>2. ASSUME NEW w \in Worker PROVE HomeOf(job[w])'
  <2>1. CASE job'[w] = job[w]
    <3> DEFINE r == job[w]
    <3>1. r \in Doing /\ ShapeOf(r) /\ HomeOf(r)
      BY DEF Running, TypeOK, JobShape, Homes
    <3>2. ASSUME NEW q \in Doing, ShapeOf(q), HomeOf(q) PROVE HomeOf(q)'
      BY <3>2, RecordStays
    <3>3. \A q \in Doing : ShapeOf(q) /\ HomeOf(q) => HomeOf(q)'
      BY <3>2
    <3>4. PICK q \in Doing : q = r
      BY <3>1
    <3>5. HomeOf(q)' /\ q = job'[w]
      BY <2>1, <3>1, <3>3, <3>4
    <3> QED BY <3>5 DEF HomeOf
  <2> QED BY <2>1
<1> QED BY <1>1, <1>2 DEF Homes

(* A worker that ends with the mounts S left keeps Homes.                  *)
LEMMA LeftHomes ==
  ASSUME Running, Versions, Homes, Settles, NEW w \in Worker,
         NEW st \in {"reload", "remove"}, NEW S \in SUBSET Key,
         job' = [job EXCEPT ![w] = Left(st, S)],
         \A k \in Key : view'[k].live => view[k].live \/ AtHome(k)',
         \A k \in S : AtHome(k)' /\ (st = "remove" => Gone(k)')
  PROVE  Homes'
<1>1. job'[w] = Left(st, S) /\ \A v \in Worker \ {w} : job'[v] = job[v]
  BY DEF Running, TypeOK
<1>2. job'[w].todo = S /\ job'[w].stage # "read" /\ (job'[w].stage = "remove" => st = "remove")
  BY <1>1, LeftShape
<1>3. HomeOf(job[w])'
  BY <1>2 DEF HomeOf
<1> QED BY <1>1, <1>3, HomesStay

(* A step that leaves the namespaces' entries and their view alone settles. *)
LEMMA QuietSettles ==
  ASSUME stored' = stored, \A p \in Key \ Split : view'[p] = view[p]
  PROVE  Settles
  BY DEF Settles, Dead

(* A key of the view that takes the entry of the storage settles.          *)
LEMMA RefreshSettles ==
  ASSUME Running, NEW c \in Key, stored' = stored, view' = [view EXCEPT ![c] = stored[c]]
  PROVE  Settles
<1>1. view'[c] = stored[c] /\ \A k \in Key \ {c} : view'[k] = view[k]
  BY DEF Running, TypeOK
<1> QED BY <1>1 DEF Settles, Dead

(* JobRefreshes keeps Homes.                                               *)
LEMMA JobRefreshesHomes ==
  ASSUME Running, Versions, Homes, NEW w \in Worker, JobRefreshes(w),
         NEW c, c = job[w].key
  PROVE  Homes'
<1>1. c \in Key \ Split /\ Known(c)
  BY DEF Running, JobShape, ShapeOf, JobRefreshes
<1>2. stored' = stored /\ view' = [view EXCEPT ![c] = stored[c]]
  BY DEF JobRefreshes, applier
<1>3. Settles
  BY <1>1, <1>2, RefreshSettles
<1>4. view'[c] = stored[c] /\ \A k \in Key \ {c} : view'[k] = view[k]
  BY <1>1, <1>2 DEF Running, TypeOK
<1>5. AtHome(c)'
  BY <1>1, <1>3, HomeStays DEF AtHome
<1>6. \A k \in Key : view'[k].live => view[k].live \/ AtHome(k)'
  BY <1>4, <1>5
<1>7. CASE stored[c].live
  <2>1. job' = [job EXCEPT ![w] = Left("reload", MountsIn(c, stored))]
    BY <1>7 DEF JobRefreshes
  <2>2. ASSUME NEW k \in MountsIn(c, stored) PROVE AtHome(k)'
    BY <1>4, <1>7 DEF MountsIn, AtHome, Known, HasParent
  <2>3. MountsIn(c, stored) \in SUBSET Key
    BY DEF MountsIn
  <2> QED BY <1>3, <1>6, <2>1, <2>2, <2>3, LeftHomes
<1>8. CASE ~stored[c].live
  <2>1. job' = [job EXCEPT ![w] = Left("remove", MountsIn(c, view))]
    BY <1>8 DEF JobRefreshes
  <2>2. ASSUME NEW k \in MountsIn(c, view) PROVE Gone(k)'
    <3>1. k \in Key /\ Parent[k] = c /\ view[k].live /\ Parent[k] # Root
      BY <1>1 DEF MountsIn
    <3>2. AtHome(k)'
      BY <1>3, <3>1, HomeStays DEF Homes
    <3>3. ~Known(k)'
      BY <1>4, <1>8, <3>1 DEF Known, HasParent
    <3> QED BY <3>2, <3>3 DEF AtHome
  <2>3. \A k \in MountsIn(c, view) : AtHome(k)'
    BY <2>2 DEF AtHome
  <2>4. MountsIn(c, view) \in SUBSET Key
    BY DEF MountsIn
  <2> QED BY <1>3, <1>6, <2>1, <2>2, <2>3, <2>4, LeftHomes
<1> QED BY <1>7, <1>8

(* A step of a worker on a mount c keeps Homes.                            *)
LEMMA MountSettles ==
  ASSUME Running, NEW c \in Split, NEW e, stored' = stored, view' = [view EXCEPT ![c] = e]
  PROVE  Settles /\ \A k \in Key : k # c => view'[k] = view[k]
<1>1. \A k \in Key : k # c => view'[k] = view[k]
  BY DEF Running, TypeOK
<1> QED BY <1>1, QuietSettles

(* JobInstalls keeps Homes.                                                *)
LEMMA JobInstallsHomes ==
  ASSUME Running, Versions, Homes, NEW w \in Worker, JobInstalls(w),
         NEW c, c = job[w].key
  PROVE  Homes'
<1>0. job[w] \in Doing /\ ShapeOf(job[w]) /\ HomeOf(job[w]) /\ job[w].stage = "read"
  BY DEF Running, TypeOK, JobShape, Homes, JobInstalls
<1>1. c \in Split /\ AtHome(c)
  BY <1>0 DEF ShapeOf, HomeOf
<1>2. /\ stored' = stored /\ view' = [view EXCEPT ![c] = job[w].value]
      /\ job' = [job EXCEPT ![w] = Left("reload", job[w].todo)]
  BY DEF JobInstalls, applier, Running, TypeOK
<1>3. Settles /\ \A k \in Key : k # c => view'[k] = view[k]
  BY <1>1, <1>2, MountSettles
<1>4. AtHome(c)'
  BY <1>1, <1>3, HomeStays
<1>5. \A k \in Key : view'[k].live => view[k].live \/ AtHome(k)'
  BY <1>3, <1>4
<1>6. job[w].todo \in SUBSET Key
  BY <1>0 DEF Doing
<1>7. \A k \in job[w].todo : AtHome(k)'
  BY <1>0, <1>3, <1>6, HomeStays DEF HomeOf
<1> QED BY <1>2, <1>3, <1>5, <1>6, <1>7, LeftHomes

(* JobRemoves keeps Homes.                                                 *)
LEMMA JobRemovesHomes ==
  ASSUME Running, Versions, Homes, NEW w \in Worker, NEW c \in Key, JobRemoves(w, c)
  PROVE  Homes'
<1> DEFINE e == [view[c] EXCEPT !.live = FALSE]
<1>0. job[w] \in Doing /\ ShapeOf(job[w]) /\ HomeOf(job[w]) /\ job[w].stage = "remove"
  BY DEF Running, TypeOK, JobShape, Homes, JobRemoves
<1>1. c \in Split
  BY <1>0 DEF ShapeOf, JobRemoves
<1>2. /\ stored' = stored /\ view' = [view EXCEPT ![c] = e]
      /\ job' = [job EXCEPT ![w] = Left("remove", job[w].todo \ {c})]
  BY DEF JobRemoves, applier, Running, TypeOK
<1>3. Settles /\ \A k \in Key : k # c => view'[k] = view[k]
  BY <1>1, <1>2, MountSettles
<1>4. ~view'[c].live
  <2>1. view \in [Key -> Entry]
    BY DEF Running, TypeOK
  <2>2. view'[c] = e /\ view[c] \in Entry
    BY <1>2, <2>1
  <2> QED BY <2>2 DEF Entry
<1>5. \A k \in Key : view'[k].live => view[k].live \/ AtHome(k)'
  BY <1>3, <1>4
<1>6. job[w].todo \in SUBSET Key
  BY <1>0 DEF Doing
<1>7. \A k \in job[w].todo : AtHome(k)' /\ Gone(k)'
  BY <1>0, <1>3, <1>6, HomeStays DEF HomeOf
<1>8. job[w].todo \ {c} \in SUBSET Key /\ \A k \in job[w].todo \ {c} : AtHome(k)' /\ Gone(k)'
  BY <1>6, <1>7
<1> HIDE DEF e
<1> QED BY <1>2, <1>3, <1>5, <1>8, LeftHomes

(* JobReads keeps Homes.                                                   *)
LEMMA JobReadsHomes ==
  ASSUME Running, Versions, Homes, NEW w \in Worker, NEW c \in Key, JobReads(w, c)
  PROVE  Homes'
<1>0. job[w] \in Doing /\ ShapeOf(job[w]) /\ HomeOf(job[w])
  BY DEF Running, TypeOK, JobShape, Homes
<1>1. AtHome(c)
  BY <1>0 DEF JobReads, HomeOf, AtHome
<1>2. stored' = stored /\ view' = view
  BY DEF JobReads, applier, memory
<1>3. Settles
  BY <1>2, QuietSettles
<1>4. /\ job'[w].stage = "read" /\ job'[w].key = c /\ job'[w].todo = job[w].todo \ {c}
      /\ \A v \in Worker \ {w} : job'[v] = job[v]
  BY DEF JobReads, Running, TypeOK
<1>5. AtHome(c)' /\ \A k \in job[w].todo : AtHome(k)'
  BY <1>0, <1>1, <1>3, HomeStays DEF HomeOf, Doing
<1>6. HomeOf(job[w])'
  BY <1>4, <1>5 DEF HomeOf
<1> QED BY <1>2, <1>3, <1>4, <1>6, HomesStay

(* Every step keeps Homes.                                                 *)
LEMMA NextHomes == Running /\ Versions /\ Homes /\ [Next]_vars => Homes'
<1> SUFFICES ASSUME Running, Versions, Homes, [Next]_vars PROVE Homes'
  OBVIOUS
<1>e. /\ stored \in [Key -> Entry] /\ view \in [Key -> Entry]
      /\ job \in [Worker -> Doing] /\ JobShape
  BY DEF Running, TypeOK
<1>s. ASSUME UNCHANGED <<stored, view, job>> PROVE Homes'
  BY <1>s, QuietSettles, HomesStay
<1>0. ASSUME NEW k \in Key, NEW live \in BOOLEAN, Apply(k, live) \/ InstallSnapshot(k, live)
      PROVE  Homes'
  <2>1. Changes(k, live) /\ UNCHANGED <<view, job>>
    BY <1>0 DEF Apply, InstallSnapshot, memory, workers
  <2>2. ASSUME NEW p \in Key, Dead(p) PROVE Dead(p)'
    BY <1>e, <2>1, <2>2 DEF Changes, Dead, Entry
  <2>3. Settles
    BY <2>1, <2>2 DEF Settles
  <2> QED BY <2>1, <2>3, HomesStay
<1>1. CASE \/ RestoreWants \/ RestoreLocks \/ RestoreEnds \/ Adding \/ Processing
           \/ HearRestart \/ WinElection \/ Promote \/ Demote
           \/ GrabStateLock \/ StopAccepting \/ StopDispatcher \/ StopClears
           \/ StopTimesOut \/ LoadFails \/ Start \/ UNCHANGED vars
  <2>1. UNCHANGED <<stored, view, job>>
    BY <1>1 DEF RestoreWants, RestoreLocks, RestoreEnds, Adding, AddPasses, AddIgnores,
       AddAppends, AddNotifies, Processing, ProcParks, ProcQuits, ProcTakes, ProcDispatches,
       ProcLoops, HearRestart, WinElection, Promote, Demote, GrabStateLock, StopAccepting,
       StopDispatcher, StopClears, StopTimesOut, LoadFails, Start, vars, applier, memory, workers
  <2> QED BY <1>s, <2>1
<1>2. CASE Track
  <2>1. job' = job /\ \A k \in Key : ~view'[k].live
    BY <1>2, NoneIsEntry DEF Track, workers
  <2>2. \A w \in Worker : job[w] = Idle
    BY <1>2 DEF Track, Running, InStep
  <2>3. ASSUME NEW w \in Worker PROVE HomeOf(job[w])'
    <3>1. job'[w].stage = "idle" /\ job'[w].todo = {}
      BY <2>1, <2>2 DEF Idle
    <3> QED BY <3>1 DEF HomeOf
  <2> QED BY <2>1, <2>3 DEF Homes
<1>3. ASSUME NEW k \in Key, Load(k) PROVE Homes'
  <2>1. stored' = stored /\ job' = job
    BY <1>3 DEF Load, applier, workers
  <2>2. CASE Known(k)
    <3>1. view' = [view EXCEPT ![k] = stored[k]]
      BY <1>3, <2>2 DEF Load
    <3>2. Settles
      BY <2>1, <3>1, RefreshSettles
    <3>3. AtHome(k)'
      BY <2>2, <3>2, HomeStays DEF AtHome
    <3>4. \A j \in Key : view'[j].live => view[j].live \/ AtHome(j)'
      BY <1>e, <3>1, <3>3
    <3> QED BY <2>1, <3>2, <3>4, HomesStay
  <2>3. CASE ~Known(k)
    <3>1. view' = view
      BY <1>3, <2>3 DEF Load, memory
    <3> QED BY <1>s, <2>1, <3>1
  <2> QED BY <2>2, <2>3
<1>4. ASSUME NEW w \in Worker, Executing(w) \/ JobFails(w) PROVE Homes'
  <2>0. job[w] \in Doing /\ ShapeOf(job[w])
    BY <1>e DEF JobShape
  <2>n. ASSUME UNCHANGED <<stored, view>>, job'[w].todo = {}, job'[w].stage # "read",
               \A v \in Worker \ {w} : job'[v] = job[v]
        PROVE  Homes'
    <3>1. HomeOf(job[w])'
      BY <2>n DEF HomeOf
    <3> QED BY <2>n, <3>1, QuietSettles, HomesStay
  <2>1. ASSUME NEW i \in 1 .. Len(queue), JobTaken(w, i) PROVE Homes'
    <3>1. UNCHANGED <<stored, view>>
      BY <2>1 DEF JobTaken, applier, memory
    <3>2. /\ job'[w].todo = {} /\ job'[w].stage = "start"
          /\ \A v \in Worker \ {w} : job'[v] = job[v]
      BY <1>e, <2>1 DEF JobTaken
    <3> QED BY <2>n, <3>1, <3>2
  <2>2. CASE JobLocks(w)
    <3>1. UNCHANGED <<stored, view>> /\ job'[w].stage = "locked" /\ job[w].stage = "start"
      BY <1>e, <2>2 DEF JobLocks, applier, memory, Doing
    <3>2. job'[w].todo = job[w].todo /\ \A v \in Worker \ {w} : job'[v] = job[v]
      BY <1>e, <2>2 DEF JobLocks, Doing
    <3>3. job[w].todo = {}
      BY <2>0, <3>1 DEF ShapeOf
    <3> QED BY <2>n, <3>1, <3>2, <3>3
  <2>3. CASE JobGivesUp(w) \/ JobIgnores(w) \/ JobFails(w)
    <3>1. UNCHANGED <<stored, view>> /\ job' = [job EXCEPT ![w] = Idle]
      BY <2>3 DEF JobGivesUp, JobIgnores, JobFails, applier, memory
    <3>2. Idle.todo = {} /\ Idle.stage = "idle"
      BY DEF Idle
    <3> QED BY <1>e, <2>n, <3>1, <3>2
  <2> QED BY <1>4, <2>1, <2>2, <2>3, JobRefreshesHomes, JobReadsHomes, JobInstallsHomes,
             JobRemovesHomes DEF Executing
<1> QED BY <1>0, <1>1, <1>2, <1>3, <1>4 DEF Next, Stopping, Loading

-----------------------------------------------------------------------------
(* The load reads a namespace before what lies in it.                      *)

(* Every step keeps LoadedInOrder.                                         *)
LEMMA NextLoaded == LoadedInOrder /\ [Next]_vars => LoadedInOrder'
<1> SUFFICES ASSUME LoadedInOrder, [Next]_vars PROVE LoadedInOrder'
  OBVIOUS
<1>1. ASSUME loaded' = loaded, ha' = "serve" => ha = "serve" PROVE LoadedInOrder'
  BY <1>1 DEF LoadedInOrder
<1>2. CASE \/ \E k \in Key, live \in BOOLEAN : Apply(k, live) \/ InstallSnapshot(k, live)
           \/ RestoreWants \/ RestoreLocks \/ RestoreEnds \/ Adding \/ Processing
           \/ UNCHANGED vars
  <2>1. UNCHANGED <<ha, loaded>>
    BY <1>2 DEF Apply, InstallSnapshot, RestoreWants, RestoreLocks, RestoreEnds, Adding,
       AddPasses, AddIgnores, AddAppends, AddNotifies, Processing, ProcParks, ProcQuits,
       ProcTakes, ProcDispatches, ProcLoops, vars, node
  <2> QED BY <1>1, <2>1
<1>3. CASE \E w \in Worker : Executing(w) \/ JobFails(w)
  <2>1. UNCHANGED <<ha, loaded>>
    BY <1>3 DEF Executing, JobTaken, JobLocks, JobGivesUp, JobIgnores, JobRefreshes, JobReads,
       JobRemoves, JobInstalls, JobFails, node
  <2> QED BY <1>1, <2>1
<1>4. CASE \/ HearRestart \/ WinElection \/ Promote \/ Demote \/ GrabStateLock
           \/ StopAccepting \/ StopDispatcher \/ StopClears \/ StopTimesOut \/ LoadFails
  <2>1. loaded' = loaded /\ ha' # "serve"
    BY <1>4 DEF HearRestart, WinElection, Promote, Demote, GrabStateLock, StopAccepting,
       StopDispatcher, StopClears, StopTimesOut, LoadFails
  <2> QED BY <1>1, <2>1
<1>5. CASE Start
  BY <1>5 DEF Start, LoadedInOrder
<1>6. CASE Track
  BY <1>6 DEF Track, LoadedInOrder
<1>7. ASSUME NEW k \in Key, Load(k) PROVE LoadedInOrder'
  BY <1>7 DEF Load, LoadedInOrder
<1> QED BY <1>2, <1>3, <1>4, <1>5, <1>6, <1>7 DEF Next, Stopping, Loading

-----------------------------------------------------------------------------
(* Every stale object is covered.                                          *)

(* The key is with the hook, the manager or the dispatcher.                *)
Queued(k) ==
  \/ hook.key = k /\ hook.stage \in {"applied", "passed"}
  \/ InSeq(k, pending) \/ InSeq(k, batch) \/ InSeq(k, queue)

(* A worker will look at the entry of k, or has it as it is.               *)
ByWorker(w, k) ==
  \/ k \in job[w].todo /\ job[w].stage # "remove"
  \/ job[w].key = k /\ (job[w].stage = "read" => job[w].value = stored[k])

(* What covers k.                                                          *)
LEMMA CoverParts ==
  ASSUME NEW k
  PROVE  Cover(k) <=> \/ Queued(k) \/ (\E w \in Worker : ByWorker(w, k))
                      \/ restart \/ k \in missed
  BY DEF Cover, OnItsWay, Waiting, Queued, ByWorker

(* What covers k after a step.                                             *)
LEMMA CoverNext ==
  ASSUME NEW k, NEW w \in Worker
  PROVE  Queued(k)' \/ ByWorker(w, k)' \/ restart' \/ k \in missed' => Cover(k)'
  BY DEF Cover, OnItsWay, Waiting, Queued, ByWorker

(* A step of the worker w keeps k covered when it gives up no part of it.  *)
LEMMA CoverStays ==
  ASSUME NEW k \in Key, NEW w \in Worker, Cover(k), stored' = stored,
         \A v \in Worker \ {w} : job'[v] = job[v],
         Queued(k) => Cover(k)', ByWorker(w, k) => Cover(k)',
         restart => restart', k \in missed => Cover(k)'
  PROVE  Cover(k)'
<1>1. \/ Queued(k) \/ (\E v \in Worker : ByWorker(v, k)) \/ restart \/ k \in missed
  BY CoverParts
<1>2. (\E v \in Worker : ByWorker(v, k)') \/ restart' => Cover(k)'
  BY DEF Cover, OnItsWay, Waiting, Queued, ByWorker
<1>3. ASSUME NEW v \in Worker, v # w, ByWorker(v, k) PROVE ByWorker(v, k)'
  <2>1. job'[v] = job[v]
    BY <1>3
  <2> QED BY <1>3, <2>1 DEF ByWorker
<1> QED BY <1>1, <1>2, <1>3

(* What troubles k after a step of w did so before.                        *)
LEMMA TroubleWas ==
  ASSUME NEW k \in Key, NEW w \in Worker, stored' = stored, view'[k] = view[k],
         \A v \in Worker \ {w} : job'[v] = job[v],
         job'[w].stage = "read" => job'[w].value = stored[job'[w].key],
         Trouble(k)'
  PROVE  Trouble(k)
<1>1. CASE Stale(k)'
  BY <1>1 DEF Stale, Trouble
<1>2. CASE \E v \in Worker : Unsettled(v, k)'
  <2>1. PICK v \in Worker : Unsettled(v, k)'
    BY <1>2
  <2>2. v # w
    BY <2>1 DEF Unsettled
  <2>3. job'[v] = job[v]
    BY <2>2
  <2>4. Unsettled(v, k)
    BY <2>1, <2>3 DEF Unsettled
  <2> QED BY <2>4 DEF Trouble
<1> QED BY <1>1, <1>2 DEF Trouble

(* A step that touches neither the storage, nor the view, nor a worker,    *)
(* keeps Covered when it keeps the queued keys.                            *)
LEMMA QuietCovers ==
  ASSUME Covered, UNCHANGED <<stored, view, job, missed>>, restart => restart',
         ha' \in {"load", "serve"} => ha \in {"load", "serve"} /\ loaded' = loaded,
         \A k \in Key : ha' \in {"load", "serve"} /\ Queued(k) => Queued(k)',
         loaded \subseteq Key
  PROVE  Covered'
<1> SUFFICES ASSUME ha' \in {"load", "serve"}, NEW k \in loaded', Known(k)', Trouble(k)'
             PROVE  Cover(k)'
  BY DEF Covered
<1>1. ha \in {"load", "serve"} /\ k \in loaded /\ k \in Key
  OBVIOUS
<1>2. Known(k)
  BY DEF Known, HasParent
<1>3. Trouble(k)
  BY DEF Trouble, Stale, Unsettled
<1>4. Cover(k)
  BY <1>1, <1>2, <1>3 DEF Covered
<1>5. \/ Queued(k) \/ (\E v \in Worker : ByWorker(v, k)) \/ restart \/ k \in missed
  BY <1>4, CoverParts
<1>6. \A v \in Worker : ByWorker(v, k) => ByWorker(v, k)'
  BY DEF ByWorker
<1>7. Queued(k) => Queued(k)'
  BY <1>1
<1>8. \/ Queued(k)' \/ (\E v \in Worker : ByWorker(v, k)') \/ restart' \/ k \in missed'
  BY <1>5, <1>6, <1>7
<1>9. (\/ Queued(k) \/ (\E v \in Worker : ByWorker(v, k)) \/ restart \/ k \in missed)' => Cover(k)'
  BY DEF Cover, OnItsWay, Waiting, Queued, ByWorker
<1> QED BY <1>8, <1>9

(* A change of the storage keeps Covered: the hook has it, or it is missed. *)
LEMMA ChangesCovers ==
  ASSUME Running, Covered, NEW c \in Key, NEW live \in BOOLEAN, Changes(c, live),
         UNCHANGED <<view, job, pending, batch, queue, ha, loaded, restart>>,
         missed \subseteq missed',
         Cover(c)'
  PROVE  Covered'
<1> SUFFICES ASSUME ha' \in {"load", "serve"}, NEW k \in loaded', Known(k)', Trouble(k)', k # c
             PROVE  Cover(k)'
  BY DEF Covered
<1>1. ha \in {"load", "serve"} /\ k \in loaded /\ k \in Key
  BY DEF Running, TypeOK
<1>2. stored'[k] = stored[k] /\ hook.stage = "idle"
  BY <1>1 DEF Changes, Running, TypeOK
<1>3. Known(k)
  BY DEF Known, HasParent
<1>4. Trouble(k)
  BY <1>2 DEF Trouble, Stale, Unsettled
<1>5. Cover(k)
  BY <1>1, <1>3, <1>4 DEF Covered
<1>6. CASE Queued(k)
  BY <1>2, <1>6 DEF Queued, Cover, OnItsWay, Waiting
<1>7. CASE restart \/ k \in missed
  BY <1>7 DEF Cover
<1>8. ASSUME NEW w \in Worker, ByWorker(w, k) PROVE Cover(k)'
  <2>1. ByWorker(w, k)'
    BY <1>2, <1>8 DEF ByWorker
  <2> QED BY <2>1, CoverNext
<1> QED BY <1>5, <1>6, <1>7, <1>8, CoverParts

(* Apply and InstallSnapshot keep Covered.                                 *)
LEMMA StorageCovers ==
  ASSUME Running, Covered, NEW c \in Key, NEW live \in BOOLEAN,
         Apply(c, live) \/ InstallSnapshot(c, live)
  PROVE  Covered'
<1>1. CASE Apply(c, live)
  <2>1. Cover(c)'
    BY <1>1 DEF Apply, Cover, OnItsWay
  <2>2. /\ Changes(c, live) /\ missed \subseteq missed'
        /\ UNCHANGED <<view, job, pending, batch, queue, ha, loaded, restart>>
    BY <1>1 DEF Apply, memory, manager, workers, node
  <2> QED BY <2>1, <2>2, ChangesCovers
<1>2. CASE InstallSnapshot(c, live)
  <2>1. Cover(c)'
    BY <1>2 DEF InstallSnapshot, Cover
  <2>2. /\ Changes(c, live) /\ missed \subseteq missed'
        /\ UNCHANGED <<view, job, pending, batch, queue, ha, loaded, restart>>
    BY <1>2 DEF InstallSnapshot, manager, workers
  <2> QED BY <2>1, <2>2, ChangesCovers
<1> QED BY <1>1, <1>2

(* The steps of the hook keep Covered.                                     *)
LEMMA AddingCovers ==
  ASSUME Running, Covered, Adding
  PROVE  Covered'
<1>0. loaded \subseteq Key /\ pending \in Seq(Key) /\ (hook.stage # "idle" => hook.key \in Key)
  BY DEF Running, TypeOK, HookShape
<1>1. UNCHANGED <<stored, view, job, missed, restart, ha, loaded, batch, queue>>
  BY DEF Adding, AddPasses, AddIgnores, AddAppends, AddNotifies, memory, manager, workers, node
<1>2. ASSUME NEW k \in Key, ha' \in {"load", "serve"}, Queued(k) PROVE Queued(k)'
  <2>0. accepting /\ ha \in {"load", "serve"}
    BY <1>1, <1>2 DEF Running, InStep
  <2>1. CASE AddPasses
    <3>1. pending' = pending /\ hook'.key = hook.key /\ hook'.stage = "passed"
      BY <2>1 DEF AddPasses, manager, Running, TypeOK
    <3> QED BY <1>1, <1>2, <3>1 DEF Queued
  <2>2. CASE AddIgnores
    BY <2>0, <2>2 DEF AddIgnores
  <2>3. CASE AddAppends
    <3>1. pending' = Append(pending, hook.key) /\ hook.key \in Key
      BY <1>0, <2>3 DEF AddAppends
    <3>2. InSeq(k, pending') <=> InSeq(k, pending) \/ k = hook.key
      BY <1>0, <3>1, AppendedSeq
    <3> QED BY <1>1, <1>2, <3>2 DEF Queued
  <2>4. CASE AddNotifies
    <3>1. pending' = pending /\ hook.stage = "notify"
      BY <2>4 DEF AddNotifies
    <3> QED BY <1>1, <1>2, <3>1 DEF Queued
  <2> QED BY <2>1, <2>2, <2>3, <2>4 DEF Adding
<1> QED BY <1>0, <1>1, <1>2, QuietCovers

(* The steps of the processor keep Covered.                                *)
LEMMA ProcessingCovers ==
  ASSUME Running, Covered, Processing
  PROVE  Covered'
<1>0. loaded \subseteq Key /\ pending \in Seq(Key) /\ batch \in Seq(Key) /\ queue \in Seq(Key)
  BY DEF Running, TypeOK
<1>1. UNCHANGED <<stored, view, job, missed, restart, ha, loaded, hook>>
  BY DEF Processing, ProcParks, ProcQuits, ProcTakes, ProcDispatches, ProcLoops, applier,
     memory, manager, workers, node
<1>2. ASSUME NEW k \in Key, Queued(k) PROVE Queued(k)'
  <2>1. CASE ProcParks \/ ProcQuits \/ ProcLoops
    <3>1. UNCHANGED <<pending, batch, queue>>
      BY <2>1 DEF ProcParks, ProcQuits, ProcLoops, workers
    <3> QED BY <1>1, <1>2, <3>1 DEF Queued
  <2>2. CASE ProcTakes
    <3>1. batch = <<>> /\ batch' = pending /\ queue' = queue
      BY <2>2 DEF ProcTakes, workers, Running, InStep
    <3>2. ~InSeq(k, batch)
      BY <3>1, InNoKeys
    <3> QED BY <1>1, <1>2, <3>1, <3>2 DEF Queued
  <2>3. CASE ProcDispatches
    <3>1. /\ batch # <<>> /\ batch' = Tail(batch) /\ queue' = Append(queue, Head(batch))
          /\ pending' = pending
      BY <2>3 DEF ProcDispatches
    <3>2. Head(batch) \in Key /\ (InSeq(k, batch) <=> k = Head(batch) \/ InSeq(k, Tail(batch)))
      BY <1>0, <3>1, HeadAndTail
    <3>3. InSeq(k, Append(queue, Head(batch))) <=> InSeq(k, queue) \/ k = Head(batch)
      BY <1>0, <3>2, AppendedSeq
    <3> QED BY <1>1, <1>2, <3>1, <3>2, <3>3 DEF Queued
  <2> QED BY <2>1, <2>2, <2>3 DEF Processing
<1> QED BY <1>0, <1>1, <1>2, QuietCovers

(* A step of the worker w that leaves the view alone keeps Covered when    *)
(* what it gives up was not known, or is covered otherwise.                *)
LEMMA WorkerCovers ==
  ASSUME Running, Covered, NEW w \in Worker, stored' = stored, view' = view,
         UNCHANGED <<ha, loaded>>, restart => restart', missed \subseteq missed',
         \A v \in Worker \ {w} : job'[v] = job[v],
         job'[w].stage = "read" => job'[w].value = stored[job'[w].key],
         \A k \in Key : Known(k) /\ ha \in {"load", "serve"} /\ (Queued(k) \/ ByWorker(w, k))
                           => Cover(k)'
  PROVE  Covered'
<1> SUFFICES ASSUME ha' \in {"load", "serve"}, NEW k \in loaded', Known(k)', Trouble(k)'
             PROVE  Cover(k)'
  BY DEF Covered
<1>1. ha \in {"load", "serve"} /\ k \in loaded /\ k \in Key
  BY DEF Running, TypeOK
<1>2. Known(k)
  BY DEF Known, HasParent
<1>3. view'[k] = view[k]
  OBVIOUS
<1>4. Trouble(k)
  BY <1>1, <1>3, TroubleWas
<1>5. Cover(k)
  BY <1>1, <1>2, <1>4 DEF Covered
<1>6. k \in missed => Cover(k)'
  BY DEF Cover
<1>7. Queued(k) \/ ByWorker(w, k) => Cover(k)'
  BY <1>1, <1>2
<1> QED BY <1>1, <1>5, <1>6, <1>7, CoverStays

(* JobTaken keeps Covered.                                                 *)
LEMMA JobTakenCovers ==
  ASSUME Running, Covered, NEW w \in Worker, NEW i \in 1 .. Len(queue), JobTaken(w, i)
  PROVE  Covered'
<1>1. /\ UNCHANGED <<stored, view, ha, loaded, hook, pending, batch>>
      /\ UNCHANGED <<missed, restart>>
  BY DEF JobTaken, applier, memory, manager, node
<1>2. /\ job'[w].key = queue[i] /\ job'[w].stage = "start"
      /\ \A v \in Worker \ {w} : job'[v] = job[v]
  BY DEF JobTaken, Running, TypeOK
<1>3. queue' = Without(queue, i) /\ queue \in Seq(Key)
  BY DEF JobTaken, Without, Running, TypeOK
<1>4. ASSUME NEW k \in Key, Queued(k) PROVE Cover(k)'
  <2>1. InSeq(k, queue) <=> k = queue[i] \/ InSeq(k, Without(queue, i))
    BY <1>3, TakenOut
  <2>2. Queued(k)' \/ k = queue[i]
    BY <1>1, <1>3, <1>4, <2>1 DEF Queued
  <2>3. k = queue[i] => ByWorker(w, k)'
    BY <1>2 DEF ByWorker
  <2> QED BY <2>2, <2>3, CoverNext
<1>5. ASSUME NEW k \in Key PROVE ~ByWorker(w, k)
  BY DEF JobTaken, Idle, ByWorker
<1> QED BY <1>1, <1>2, <1>4, <1>5, WorkerCovers

(* The steps of a worker that neither take a job nor touch the view keep   *)
(* Covered.                                                                *)
LEMMA LookingCovers ==
  ASSUME Running, Covered, NEW w \in Worker,
         JobLocks(w) \/ JobGivesUp(w) \/ JobIgnores(w) \/ JobFails(w)
  PROVE  Covered'
<1>0. job \in [Worker -> Doing] /\ job[w] \in Doing /\ ShapeOf(job[w])
  BY DEF Running, TypeOK, JobShape
<1>1. /\ UNCHANGED <<stored, view, ha, loaded, hook, pending, batch>>
      /\ queue' = queue /\ (restart => restart') /\ missed \subseteq missed'
  <2>1. UNCHANGED <<stored, view, ha, loaded, hook, pending, batch>> /\ queue' = queue
    BY DEF JobLocks, JobGivesUp, JobIgnores, JobFails, applier, memory, manager, node
  <2>2. missed \subseteq missed'
    BY DEF JobLocks, JobGivesUp, JobIgnores, JobFails, memory
  <2>3. CASE JobFails(w)
    BY <2>1, <2>2, <2>3 DEF JobFails
  <2>4. CASE JobLocks(w) \/ JobGivesUp(w) \/ JobIgnores(w)
    <3>1. restart' = restart
      BY <2>4 DEF JobLocks, JobGivesUp, JobIgnores, node
    <3> QED BY <2>1, <2>2, <3>1
  <2> QED BY <2>3, <2>4
<1>2. \A v \in Worker \ {w} : job'[v] = job[v]
  BY <1>0 DEF JobLocks, JobGivesUp, JobIgnores, JobFails
<1>3. job'[w].stage # "read"
  BY <1>0 DEF JobLocks, JobGivesUp, JobIgnores, JobFails, Idle, Doing
<1>4. ASSUME NEW k \in Key, Queued(k) PROVE Cover(k)'
  <2>1. Queued(k)'
    BY <1>1, <1>4 DEF Queued
  <2> QED BY <2>1, CoverNext
<1>5. ASSUME NEW k \in Key, Known(k), ha \in {"load", "serve"}, ByWorker(w, k) PROVE Cover(k)'
  <2>1. CASE JobLocks(w)
    <3>1. job'[w].key = job[w].key /\ job'[w].stage = "locked" /\ job[w].stage = "start"
      BY <1>0, <2>1 DEF JobLocks, Doing
    <3>2. job[w].key = k
      BY <1>0, <1>5, <3>1 DEF ByWorker, ShapeOf
    <3>3. ByWorker(w, k)'
      BY <3>1, <3>2 DEF ByWorker
    <3> QED BY <3>3, CoverNext
  <2>2. CASE JobGivesUp(w)
    <3>1. job[w].key = k
      BY <1>0, <1>5, <2>2 DEF JobGivesUp, ByWorker, ShapeOf
    <3>2. ha = "serve"
      <4>1. job[w] # Idle
        BY <2>2 DEF JobGivesUp, Idle
      <4> QED BY <1>5, <4>1 DEF Running, InStep
    <3>3. k \in missed'
      BY <2>2, <3>1, <3>2 DEF JobGivesUp
    <3> QED BY <3>3, CoverNext
  <2>3. CASE JobIgnores(w)
    BY <1>0, <1>5, <2>3 DEF JobIgnores, ByWorker, ShapeOf
  <2>4. CASE JobFails(w)
    <3>1. restart'
      BY <1>5, <2>4 DEF JobFails, Running, InStep
    <3> QED BY <3>1, CoverNext
  <2> QED BY <2>1, <2>2, <2>3, <2>4
<1> QED BY <1>1, <1>2, <1>3, <1>4, <1>5, WorkerCovers

(* JobReads keeps Covered.                                                 *)
LEMMA JobReadsCovers ==
  ASSUME Running, Covered, NEW w \in Worker, NEW c \in Key, JobReads(w, c)
  PROVE  Covered'
<1>0. job \in [Worker -> Doing] /\ job[w] \in Doing /\ ShapeOf(job[w])
  BY DEF Running, TypeOK, JobShape
<1>1. /\ UNCHANGED <<stored, view, ha, loaded, hook, pending, batch>>
      /\ queue' = queue /\ restart' = restart /\ missed' = missed
  BY DEF JobReads, applier, memory, manager, node
<1>2. /\ job'[w].stage = "read" /\ job'[w].key = c /\ job'[w].value = stored[c]
      /\ job'[w].todo = job[w].todo \ {c}
      /\ \A v \in Worker \ {w} : job'[v] = job[v]
  BY <1>0 DEF JobReads
<1>3. job[w].key = c \/ job[w].key = NoKey
  BY <1>0 DEF JobReads, ShapeOf
<1>4. ASSUME NEW k \in Key, Queued(k) PROVE Cover(k)'
  <2>1. Queued(k)'
    BY <1>1, <1>4 DEF Queued
  <2> QED BY <2>1, CoverNext
<1>5. ASSUME NEW k \in Key, ByWorker(w, k) PROVE Cover(k)'
  <2>1. k = c \/ k \in job'[w].todo
    BY <1>2, <1>3, <1>5 DEF ByWorker
  <2>2. ByWorker(w, k)'
    BY <1>1, <1>2, <2>1 DEF ByWorker
  <2> QED BY <2>2, CoverNext
<1> QED BY <1>1, <1>2, <1>4, <1>5, WorkerCovers

(* JobRefreshes keeps Covered.                                             *)
LEMMA JobRefreshesCovers ==
  ASSUME Running, Versions, Homes, Covered, NEW w \in Worker, JobRefreshes(w),
         NEW c, c = job[w].key
  PROVE  Covered'
<1>0. /\ job \in [Worker -> Doing] /\ ShapeOf(job[w]) /\ job[w].stage = "locked"
      /\ loaded \subseteq Key
  BY DEF Running, TypeOK, JobShape, JobRefreshes
<1>1. c \in Key /\ c \notin Split /\ job[w].todo = {}
  BY <1>0 DEF ShapeOf, JobRefreshes
<1>2. /\ stored' = stored /\ view' = [view EXCEPT ![c] = stored[c]]
      /\ missed' = (missed \ {c}) \cup PassedOver(c)
      /\ UNCHANGED <<ha, loaded, hook, pending, batch, queue, restart>>
  BY DEF JobRefreshes, applier, manager, node
<1>3. view'[c] = stored[c] /\ \A k \in Key \ {c} : view'[k] = view[k]
  BY <1>1, <1>2 DEF Running, TypeOK
<1>4. /\ \A v \in Worker \ {w} : job'[v] = job[v]
      /\ job'[w] = IF stored[c].live THEN Left("reload", MountsIn(c, stored))
                   ELSE Left("remove", MountsIn(c, view))
  BY <1>0 DEF JobRefreshes
<1>5. job'[w].stage # "read"
  BY <1>4, LeftShape
<1> SUFFICES ASSUME ha' \in {"load", "serve"}, NEW k \in loaded', Known(k)', Trouble(k)'
             PROVE  Cover(k)'
  BY DEF Covered
<1>6. ha \in {"load", "serve"} /\ k \in loaded /\ k \in Key
  BY <1>0, <1>2
<1>7. k # c
  <2> SUFFICES ASSUME k = c PROVE FALSE
    OBVIOUS
  <2>1. ~Stale(k)'
    BY <1>2, <1>3 DEF Stale
  <2>2. PICK v \in Worker : Unsettled(v, k)'
    BY <2>1 DEF Trouble
  <2>3. v # w
    BY <1>5, <2>2 DEF Unsettled
  <2>4. job'[v] = job[v] /\ job[v].stage = "read" /\ job[v].key = c
    BY <1>4, <2>2, <2>3 DEF Unsettled
  <2> QED BY <1>1, <2>4 DEF Running, JobShape, ShapeOf
<1>8. view'[k] = view[k]
  BY <1>3, <1>6, <1>7
<1>9. Trouble(k)
  BY <1>2, <1>4, <1>5, <1>6, <1>8, TroubleWas
<1>10. CASE Known(k)
  <2>1. Cover(k)
    BY <1>6, <1>9, <1>10 DEF Covered
  <2>2. Queued(k) => Queued(k)'
    BY <1>2 DEF Queued
  <2>3. ~ByWorker(w, k)
    BY <1>1, <1>7 DEF ByWorker
  <2>4. k \in missed => k \in missed'
    BY <1>2, <1>7
  <2>5. (Queued(k) => Cover(k)') /\ (k \in missed => Cover(k)')
    BY <2>2, <2>4, CoverNext
  <2> QED BY <1>2, <1>4, <1>6, <2>1, <2>3, <2>5, CoverStays
<1>11. CASE ~Known(k)
  <2>1. Parent[k] = c /\ ~view[c].live /\ stored[c].live /\ Parent[k] # Root
    <3>1. Parent[k] # Root /\ Parent[k] \in Key /\ ~view[Parent[k]].live
      BY <1>6, <1>11 DEF Known, HasParent
    <3>2. view'[Parent[k]].live
      BY <3>1 DEF Known, HasParent
    <3>3. Parent[k] = c
      BY <1>3, <3>1, <3>2
    <3> QED BY <1>3, <3>1, <3>2, <3>3
  <2>2. ~Gone(k)
    BY <2>1 DEF Gone, Dead
  <2>3. ~AtHome(k)
    BY <1>11, <2>2 DEF AtHome
  <2>4. ~view[k].live /\ \A v \in Worker : ~(job[v].stage = "read" /\ job[v].key = k)
    BY <1>6, <2>3 DEF Homes, HomeOf
  <2>5. stored[k].live
    BY <1>9, <2>4 DEF Trouble, Stale, Unsettled
  <2>6. CASE k \in Split
    <3>1. k \in MountsIn(c, stored)
      BY <2>1, <2>5, <2>6 DEF MountsIn
    <3>2. job'[w] = Left("reload", MountsIn(c, stored))
      BY <1>4, <2>1
    <3>3. k \in job'[w].todo /\ job'[w].stage # "remove"
      BY <3>1, <3>2, LeftShape
    <3>4. ByWorker(w, k)'
      BY <3>3 DEF ByWorker
    <3> QED BY <3>4, CoverNext
  <2>7. CASE k \notin Split
    <3>1. k \in PassedOver(c)
      BY <1>6, <2>1, <2>5, <2>7 DEF PassedOver
    <3>2. k \in missed'
      BY <1>2, <3>1
    <3> QED BY <3>2, CoverNext
  <2> QED BY <2>6, <2>7
<1> QED BY <1>10, <1>11

(* A step on a mount changes no namespace of the view.                     *)
LEMMA MountKnows ==
  ASSUME NEW c \in Split, \A k \in Key : k # c => view'[k] = view[k], NEW k \in Key
  PROVE  Known(k)' <=> Known(k)
<1>1. CASE Parent[k] = Root
  BY <1>1 DEF Known, HasParent
<1>2. CASE Parent[k] # Root
  <2>1. Parent[k] \in Key /\ Parent[k] # c
    BY <1>2
  <2> QED BY <1>2, <2>1 DEF Known, HasParent
<1> QED BY <1>1, <1>2

(* JobRemoves keeps Covered.                                               *)
LEMMA JobRemovesCovers ==
  ASSUME Running, Versions, Homes, Covered, NEW w \in Worker, NEW c \in Key, JobRemoves(w, c)
  PROVE  Covered'
<1>0. /\ job \in [Worker -> Doing] /\ ShapeOf(job[w]) /\ HomeOf(job[w])
      /\ job[w].stage = "remove" /\ c \in job[w].todo /\ loaded \subseteq Key
  BY DEF Running, TypeOK, JobShape, Homes, JobRemoves
<1>1. c \in Split /\ job[w].key = NoKey /\ Gone(c)
  BY <1>0 DEF ShapeOf, HomeOf
<1>2. /\ stored' = stored /\ missed' = missed
      /\ UNCHANGED <<ha, loaded, hook, pending, batch, queue, restart>>
  BY DEF JobRemoves, applier, manager, node
<1>3. \A k \in Key : k # c => view'[k] = view[k]
  BY DEF JobRemoves, Running, TypeOK
<1>4. /\ job'[w] = Left("remove", job[w].todo \ {c})
      /\ \A v \in Worker \ {w} : job'[v] = job[v]
  BY <1>0 DEF JobRemoves
<1>5. job'[w].stage # "read"
  BY <1>4, LeftShape
<1> SUFFICES ASSUME ha' \in {"load", "serve"}, NEW k \in loaded', Known(k)', Trouble(k)'
             PROVE  Cover(k)'
  BY DEF Covered
<1>6. ha \in {"load", "serve"} /\ k \in loaded /\ k \in Key
  BY <1>0, <1>2
<1>7. Known(k)
  BY <1>1, <1>3, <1>6, MountKnows
<1>8. k # c
  BY <1>1, <1>7 DEF Gone, Known, HasParent
<1>9. Trouble(k)
  BY <1>2, <1>3, <1>4, <1>5, <1>6, <1>8, TroubleWas
<1>10. Cover(k)
  BY <1>6, <1>7, <1>9 DEF Covered
<1>11. Queued(k) => Queued(k)'
  BY <1>2 DEF Queued
<1>12. ~ByWorker(w, k)
  BY <1>0, <1>1, <1>6 DEF ByWorker
<1>13. (Queued(k) => Cover(k)') /\ (k \in missed => Cover(k)')
  BY <1>2, <1>11, CoverNext
<1> QED BY <1>2, <1>4, <1>6, <1>10, <1>12, <1>13, CoverStays

(* What a worker installs settles k, or k is missed, or k was in trouble.  *)
LEMMA InstalledEntry ==
  ASSUME NEW v \in Entry, NEW e \in Entry, NEW s \in Entry, ReadFrom(v, s), MadeFrom(e, s),
         v # s, ~(v.n < e.n), v.live \/ s.live, ~v.live
  PROVE  v.n = 0 /\ e.n = 0 /\ ~e.live
  BY DEF ReadFrom, MadeFrom, Entry

(* JobInstalls keeps Covered.                                              *)
LEMMA JobInstallsCovers ==
  ASSUME Running, Versions, Homes, Covered, NEW w \in Worker, JobInstalls(w),
         NEW c, c = job[w].key, NEW e, e = job[w].value
  PROVE  Covered'
<1>0. /\ job \in [Worker -> Doing] /\ job[w] \in Doing /\ ShapeOf(job[w])
      /\ job[w].stage = "read" /\ loaded \subseteq Key
      /\ stored \in [Key -> Entry] /\ view \in [Key -> Entry]
  BY DEF Running, TypeOK, JobShape, JobInstalls
<1>1. c \in Split /\ c \in Key /\ e \in Entry /\ ReadFrom(e, stored[c])
  BY <1>0 DEF ShapeOf, Doing, Versions
<1>2. /\ stored' = stored
      /\ UNCHANGED <<ha, loaded, hook, pending, batch, queue, restart>>
      /\ missed' = IF e = stored[c] THEN missed \ {c}
                   ELSE IF e.n < view[c].n THEN missed \cup {c} ELSE missed
  BY DEF JobInstalls, applier, manager, node
<1>3. view'[c] = e /\ \A k \in Key : k # c => view'[k] = view[k]
  BY <1>0, <1>1 DEF JobInstalls
<1>4. /\ job'[w] = Left("reload", job[w].todo)
      /\ \A v \in Worker \ {w} : job'[v] = job[v]
  BY <1>0 DEF JobInstalls
<1>5. job'[w].stage # "read" /\ job'[w].stage # "remove" /\ job'[w].todo = job[w].todo
  BY <1>4, LeftShape
<1> SUFFICES ASSUME ha' \in {"load", "serve"}, NEW k \in loaded', Known(k)', Trouble(k)'
             PROVE  Cover(k)'
  BY DEF Covered
<1>6. ha \in {"load", "serve"} /\ k \in loaded /\ k \in Key
  BY <1>0, <1>2
<1>7. Known(k)
  BY <1>1, <1>3, <1>6, MountKnows
<1>8. Queued(k) => Cover(k)'
  <2>1. Queued(k) => Queued(k)'
    BY <1>2 DEF Queued
  <2> QED BY <2>1, CoverNext
<1>9. k \in job[w].todo => Cover(k)'
  <2>1. k \in job[w].todo => ByWorker(w, k)'
    BY <1>5 DEF ByWorker
  <2> QED BY <2>1, CoverNext
<1>10. CASE k # c
  <2>1. Trouble(k)
    BY <1>2, <1>3, <1>4, <1>5, <1>6, <1>10, TroubleWas
  <2>2. Cover(k)
    BY <1>6, <1>7, <2>1 DEF Covered
  <2>3. k \in missed => k \in missed'
    BY <1>2, <1>10
  <2>4. k \in missed => Cover(k)'
    BY <2>3, CoverNext
  <2>5. ByWorker(w, k) => Cover(k)'
    BY <1>9, <1>10 DEF ByWorker
  <2> QED BY <1>2, <1>4, <1>6, <1>8, <2>2, <2>4, <2>5, CoverStays
<1>11. CASE k = c /\ e # stored[c] /\ e.n < view[c].n
  <2>1. k \in missed'
    BY <1>2, <1>11
  <2> QED BY <2>1, CoverNext
<1>12. CASE k = c /\ e = stored[c]
  <2>1. ~Stale(k)'
    BY <1>2, <1>3, <1>12 DEF Stale
  <2>2. PICK v \in Worker : Unsettled(v, k)'
    BY <2>1 DEF Trouble
  <2>3. v # w
    BY <1>5, <2>2 DEF Unsettled
  <2>4. job'[v] = job[v]
    BY <1>4, <2>3
  <2>5. /\ job[v].stage = "read" /\ job[v].key = c /\ job[v].value # stored[c]
        /\ stored[c].n <= job[v].value.n
    BY <1>2, <1>3, <1>12, <2>2, <2>4 DEF Unsettled
  <2>6. ReadFrom(job[v].value, stored[c])
    BY <2>5 DEF Versions
  <2>7. job[v].value \in Entry /\ stored[c] \in Entry
    BY <1>0, <1>1 DEF Doing
  <2> QED BY <2>5, <2>6, <2>7 DEF ReadFrom, MadeFrom, Entry
<1>13. CASE k = c /\ e # stored[c] /\ ~(e.n < view[c].n)
  <2>0. view[c] \in Entry /\ stored[c] \in Entry /\ MadeFrom(view[c], stored[c])
    BY <1>0, <1>1 DEF Versions
  <2>1. view[c].n <= e.n
    BY <1>1, <1>13, <2>0 DEF Entry
  <2>2. Trouble(k)
    <3>1. CASE e.live
      <4>1. Unsettled(w, k)
        BY <1>0, <1>13, <2>1, <3>1 DEF Unsettled
      <4> QED BY <4>1 DEF Trouble
    <3>2. CASE ~e.live /\ Stale(k)'
      <4>1. stored[c].live
        BY <1>2, <1>3, <1>13, <3>2 DEF Stale
      <4>2. ~view[c].live
        BY <1>1, <1>13, <2>0, <3>2, <4>1, InstalledEntry
      <4>3. view[c] # stored[c]
        BY <4>1, <4>2
      <4> QED BY <1>13, <4>1, <4>3 DEF Trouble, Stale
    <3>3. ASSUME NEW v \in Worker, Unsettled(v, k)' PROVE Trouble(k)
      <4>1. v # w
        BY <1>5, <3>3 DEF Unsettled
      <4>2. job'[v] = job[v]
        BY <1>4, <4>1
      <4>3. /\ job[v].stage = "read" /\ job[v].key = c /\ job[v].value # stored[c]
            /\ job[v].value.live /\ e.n <= job[v].value.n
        BY <1>2, <1>3, <1>13, <3>3, <4>2 DEF Unsettled
      <4>4. job[v].value \in Entry
        BY <1>0 DEF Doing
      <4>5. view[c].n <= job[v].value.n
        BY <1>1, <2>0, <2>1, <4>3, <4>4 DEF Entry
      <4>6. Unsettled(v, k)
        BY <1>13, <4>3, <4>5 DEF Unsettled
      <4> QED BY <4>6 DEF Trouble
    <3> QED BY <3>1, <3>2, <3>3 DEF Trouble
  <2>3. Cover(k)
    BY <1>6, <1>7, <2>2 DEF Covered
  <2>4. k \in missed => k \in missed'
    BY <1>2, <1>13
  <2>5. k \in missed => Cover(k)'
    BY <2>4, CoverNext
  <2>6. ByWorker(w, k) => k \in job[w].todo
    BY <1>0, <1>13 DEF ByWorker
  <2> QED BY <1>2, <1>4, <1>6, <1>8, <1>9, <2>3, <2>5, <2>6, CoverStays
<1> QED BY <1>10, <1>11, <1>12, <1>13

(* Load keeps Covered.                                                     *)
LEMMA LoadCovers ==
  ASSUME Running, LoadedInOrder, Covered, NEW c \in Key, Load(c)
  PROVE  Covered'
<1>0. loaded \subseteq Key /\ \A w \in Worker : job[w] = Idle
  BY DEF Load, Running, TypeOK, InStep
<1>1. /\ UNCHANGED <<stored, job, hook, pending, batch, queue, restart, ha>>
      /\ ha = "load" /\ loaded' = loaded \cup {c} /\ c \notin loaded
      /\ missed \ {c} \subseteq missed'
      /\ \A k \in Key : k # c => view'[k] = view[k]
  <2>1. /\ UNCHANGED <<stored, job, hook, pending, batch, queue, restart, ha>>
        /\ ha = "load" /\ loaded' = loaded \cup {c} /\ c \notin loaded
    BY DEF Load, applier, manager, workers
  <2>2. /\ missed \ {c} \subseteq missed'
        /\ \A k \in Key : k # c => view'[k] = view[k]
    BY DEF Load, memory, Running, TypeOK
  <2> QED BY <2>1, <2>2
<1> SUFFICES ASSUME NEW k \in loaded', Known(k)', Trouble(k)'
             PROVE  Cover(k)'
  BY DEF Covered
<1>2. k \in Key /\ \A w \in Worker : job'[w] = Idle
  BY <1>0, <1>1
<1>3. \A w \in Worker : ~Unsettled(w, k)'
  BY <1>2 DEF Unsettled, Idle
<1>4. Stale(k)'
  BY <1>3 DEF Trouble
<1>5. CASE k = c
  <2>1. ~Known(c)
    <3> SUFFICES ASSUME Known(c) PROVE FALSE
      OBVIOUS
    <3>1. view'[c] = stored[c]
      BY DEF Load, Running, TypeOK
    <3> QED BY <1>1, <1>4, <1>5, <3>1 DEF Stale
  <2>2. view' = view
    BY <2>1 DEF Load, memory
  <2> QED BY <1>5, <2>1, <2>2 DEF Known, HasParent
<1>6. CASE k # c
  <2>1. k \in loaded /\ Parent[k] \in loaded \cup {Root} /\ Parent[k] # c
    BY <1>1, <1>6 DEF LoadedInOrder
  <2>2. Known(k)
    BY <1>0, <1>1, <2>1 DEF Known, HasParent
  <2>3. Trouble(k)
    BY <1>1, <1>2, <1>4, <1>6 DEF Trouble, Stale
  <2>4. Cover(k)
    BY <1>1, <2>1, <2>2, <2>3 DEF Covered
  <2>5. ASSUME NEW w \in Worker PROVE ~ByWorker(w, k)
    BY <1>0, <1>2 DEF ByWorker, Idle
  <2>6. Queued(k) \/ restart \/ k \in missed
    BY <2>4, <2>5, CoverParts
  <2> QED BY <1>1, <1>6, <2>6 DEF Cover, Queued, OnItsWay, Waiting
<1> QED BY <1>5, <1>6

(* Every step keeps Covering.                                              *)
LEMMA NextCovers == Running /\ Covering /\ [Next]_vars => Covered'
<1> SUFFICES ASSUME Running, Versions, Homes, LoadedInOrder, Covered, [Next]_vars PROVE Covered'
  BY DEF Covering
<1>0. ASSUME NEW k \in Key, NEW live \in BOOLEAN, Apply(k, live) \/ InstallSnapshot(k, live)
      PROVE  Covered'
  BY <1>0, StorageCovers
<1>1. CASE RestoreWants \/ RestoreLocks \/ RestoreEnds \/ Start \/ UNCHANGED vars
  <2>1. UNCHANGED <<stored, view, job, missed, hook, pending, batch, queue, restart, loaded>>
    BY <1>1 DEF RestoreWants, RestoreLocks, RestoreEnds, Start, vars, applier, memory, manager,
       workers
  <2>2. ha' \in {"load", "serve"} => ha \in {"load", "serve"}
    BY <1>1 DEF RestoreWants, RestoreLocks, RestoreEnds, Start, vars
  <2>3. \A k \in Key : Queued(k) => Queued(k)'
    BY <2>1 DEF Queued
  <2>4. loaded \subseteq Key
    BY DEF Running, TypeOK
  <2> QED BY <2>1, <2>2, <2>3, <2>4, QuietCovers
<1>2. CASE \/ HearRestart \/ WinElection \/ Promote \/ Demote \/ GrabStateLock
           \/ StopAccepting \/ StopDispatcher \/ StopClears \/ StopTimesOut \/ LoadFails
  <2>1. ha' \notin {"load", "serve"}
    BY <1>2 DEF HearRestart, WinElection, Promote, Demote, GrabStateLock, StopAccepting,
       StopDispatcher, StopClears, StopTimesOut, LoadFails
  <2> QED BY <2>1 DEF Covered
<1>3. CASE Track
  BY <1>3 DEF Track, Covered
<1>4. ASSUME NEW w \in Worker, Executing(w) \/ JobFails(w) PROVE Covered'
  BY <1>4, JobTakenCovers, LookingCovers, JobReadsCovers, JobRefreshesCovers, JobRemovesCovers,
     JobInstallsCovers DEF Executing
<1> QED BY <1>0, <1>1, <1>2, <1>3, <1>4, AddingCovers, ProcessingCovers, LoadCovers
       DEF Next, Stopping, Loading

(* A change is let go in the places that are named, and nowhere else: on a *)
(* standby that serves, an object that is not what its entry says has its  *)
(* key on the way, waiting for the next Add or missed, or the node is about *)
(* to be reloaded (invalidation.go, core.go).                              *)
THEOREM NoChangeIsLost == Spec => []NoInvalidationLost
<1>1. Init => Covering
  <2> SUFFICES ASSUME Init PROVE Covering
    OBVIOUS
  <2>1. /\ \A k \in Key : view[k] = None /\ stored[k] \in Entry
        /\ \A k \in Key : stored[k].live => stored[k].n # 0
        /\ \A w \in Worker : job[w] = Idle
        /\ loaded = {} /\ ha = "down"
    BY NoneIsEntry DEF Init, Entry
  <2>2. Versions
    BY <2>1, NoneIsEntry DEF Versions, MadeFrom, Idle, Entry
  <2>3. Homes
    BY <2>1, NoneIsEntry DEF Homes, HomeOf, Idle
  <2>4. LoadedInOrder /\ Covered
    BY <2>1 DEF LoadedInOrder, Covered
  <2> QED BY <2>2, <2>3, <2>4 DEF Covering
<1>2. Running /\ Covering /\ [Next]_vars => Covering'
  BY NextVersions, NextHomes, NextLoaded, NextCovers DEF Covering
<1>3. Running /\ Covering => NoInvalidationLost
  BY DEF Covering, LoadedInOrder, Covered, Trouble, Cover, NoInvalidationLost
<1> QED BY <1>1, <1>2, <1>3, Runs, PTL DEF Spec

=============================================================================
