--------------------------- MODULE RollbackProofs ---------------------------
(***************************************************************************)
(* Proofs about Rollback, for any number of mounts, callers and workers:   *)
(* one rollback per mount, none beside the holder of the state lock for    *)
(* writing but those of namespace deletions, none while the manager stops. *)
(***************************************************************************)
EXTENDS Rollback, FiniteSetTheorems, TLAPS

USE RollbackAssumption DEF RollbackAssumption

(* A caller waits for the attempt.                                         *)
Awaited(a) == \E c \in Caller : Awaits(c, a)

Busy(w) == worker[w].stage # "idle"

(* The attempt of a path is the one in flight, and is of no other path.    *)
WorkersInFlight ==
  \A w \in Worker :
    IF Busy(w)
    THEN /\ worker[w].path \in Path
         /\ worker[w].attempt \in Attempt
         /\ inflight[worker[w].path] = worker[w].attempt
    ELSE worker[w].path = NoPath

JobsInFlight == \A j \in queue : inflight[j.path] = j.attempt

AttemptsDiffer ==
  \A p, q \in Path : inflight[p] = inflight[q] /\ inflight[p] # 0 => p = q

CallersInStep ==
  \A c \in Caller : caller[c].attempt # 0 <=> caller[c].stage \in {"joined", "waiting"}

CallersHavePaths == \A c \in Caller : caller[c].stage # "idle" => caller[c].path \in Path

(* What is remembered of an attempt is dropped with the last reference.    *)
Remembered == \A a \in cancelled \cup done : InUse(a)

(* An attempt whose waiters are released does nothing any more.            *)
DoneIsOver ==
  /\ \A j \in queue : j.attempt \notin done
  /\ \A w \in Worker : Busy(w) /\ worker[w].attempt \in done => worker[w].stage = "done"

(* Whoever made an attempt do without the lock still waits for it.         *)
LendersWait ==
  /\ \A j \in queue : ~j.grabStatelock => Awaited(j.attempt)
  /\ \A a \in cancelled : a \in done \/ Awaited(a)

(* A rollback without the lock is awaited.                                 *)
LentIsAwaited == \A w \in Worker : worker[w].stage = "lent" => Awaited(worker[w].attempt)

TodoWhileTriggering == todo # {} => ticker = "trigger"

(* The state lock excludes, and Stop has it, with no deletion under way.   *)
LockExcludes ==
  writer \in {"held", "sealing"} =>
    /\ \A w \in Worker : ~WorkerReads(w)
    /\ \A c \in Caller : ~CallerReads(c)

StopHasTheLock ==
  ShuttingDown =>
    /\ writer = "sealing"
    /\ \A c \in Deleter : caller[c].stage = "idle"

InFlight ==
  /\ WorkersInFlight /\ JobsInFlight /\ AttemptsDiffer /\ OneAtATime

Waiting ==
  /\ CallersInStep /\ CallersHavePaths /\ Remembered
  /\ DoneIsOver /\ LendersWait /\ LentIsAwaited

Locking == TodoWhileTriggering /\ LockExcludes /\ StopHasTheLock

IInv == TypeOK /\ InFlight /\ Waiting /\ Locking

-----------------------------------------------------------------------------
(* Numbers of attempts *)

(* There is always a number for the next attempt: the ones in use are      *)
(* those of the other paths and of the callers.                            *)
LEMMA FreshAttempt ==
  ASSUME TypeOK, NEW p \in Path, inflight[p] = 0
  PROVE  \E b \in Attempt : ~InUse(b)
<1> SUFFICES ASSUME \A b \in Attempt : InUse(b) PROVE FALSE
  OBVIOUS
<1> DEFINE Others == Path \ {p}
           f == [q \in Others |-> inflight[q]]
           g == [c \in Caller |-> caller[c].attempt]
           F == {f[q] : q \in Others}
           G == {g[c] : c \in Caller}
<1>1. IsFiniteSet(Others) /\ Cardinality(Others) = Cardinality(Path) - 1
  BY FS_RemoveElement
<1>2. f \in Surjection(Others, F) /\ g \in Surjection(Caller, G)
  BY DEF Surjection
<1>3. /\ IsFiniteSet(F) /\ Cardinality(F) <= Cardinality(Others)
      /\ IsFiniteSet(G) /\ Cardinality(G) <= Cardinality(Caller)
  <2> HIDE DEF f, g, F, G, Others
  <2> QED BY <1>1, <1>2, FS_Surjection
<1>4. IsFiniteSet(F \cup G) /\ Cardinality(F \cup G) <= Cardinality(F) + Cardinality(G)
  <2> HIDE DEF F, G
  <2>1. IsFiniteSet(F \cup G)
        /\ Cardinality(F \cup G) = Cardinality(F) + Cardinality(G) - Cardinality(F \cap G)
    BY <1>3, FS_Union
  <2>2. IsFiniteSet(F \cap G)
    BY <1>3, FS_Intersection
  <2>3. Cardinality(F) \in Nat /\ Cardinality(G) \in Nat /\ Cardinality(F \cap G) \in Nat
    BY <1>3, <2>2, FS_CardinalityType
  <2> QED BY <2>1, <2>3
<1>5. Attempt \subseteq F \cup G
  <2> SUFFICES ASSUME NEW b \in Attempt PROVE b \in F \cup G
    OBVIOUS
  <2>1. b # 0
    BY DEF Attempt
  <2>2. CASE \E q \in Path : inflight[q] = b
    BY <2>1, <2>2
  <2>3. CASE \E c \in Caller : caller[c].attempt = b
    BY <2>3
  <2> QED BY <2>2, <2>3 DEF InUse
<1>6. Cardinality(Attempt) = MaxAttempt
  BY FS_Interval DEF Attempt
<1>7. Cardinality(Attempt) <= Cardinality(F \cup G)
  <2> HIDE DEF F, G
  <2> QED BY <1>4, <1>5, FS_Subset
<1>8. Cardinality(Path) \in Nat /\ Cardinality(Caller) \in Nat /\ Cardinality(Others) \in Nat
      /\ Cardinality(F) \in Nat /\ Cardinality(G) \in Nat /\ Cardinality(F \cup G) \in Nat
  <2> HIDE DEF F, G, Others
  <2> QED BY <1>1, <1>3, <1>4, FS_CardinalityType
<1> HIDE DEF F, G, Others
<1> QED BY <1>1, <1>3, <1>4, <1>6, <1>7, <1>8

(* The number of a registered attempt is new.                              *)
LEMMA RegisteredIsNew ==
  ASSUME TypeOK, NEW p \in Path, NEW a, NEW lock, Register(p, a, lock)
  PROVE  a \in Attempt /\ ~InUse(a)
<1>1. \E b \in Attempt : ~InUse(b)
  BY FreshAttempt DEF Register
<1> QED BY <1>1 DEF Register

-----------------------------------------------------------------------------
(* One lemma per action: what is in flight, who waits for what, and who    *)
(* has the lock.                                                           *)

(* Tick keeps IInv.                                                        *)
LEMMA TickKeeps ==
  ASSUME IInv, Tick
  PROVE  IInv'
<1> USE DEF IInv, Tick, attempts
<1>1. TypeOK'
  BY DEF TypeOK, Resting
<1>2. InFlight'
  BY <1>1 DEF TypeOK, InFlight, WorkersInFlight, JobsInFlight, AttemptsDiffer,
         OneAtATime, Busy, Resting, Attempt
<1>3. Waiting'
  BY <1>1 DEF TypeOK, InFlight, WorkersInFlight, JobsInFlight, AttemptsDiffer,
         OneAtATime, Busy, Resting, Attempt,
         Waiting, CallersInStep, CallersHavePaths, Remembered, DoneIsOver, LendersWait,
         LentIsAwaited, Awaited, Awaits, InUse
<1>4. Locking'
  BY <1>1 DEF TypeOK, Locking, TodoWhileTriggering, LockExcludes, StopHasTheLock,
         ShuttingDown, WorkerReads, CallerReads, Resting, Routing
<1> QED BY <1>1, <1>2, <1>3, <1>4

(* TickEnds keeps IInv.                                                    *)
LEMMA TickEndsKeeps ==
  ASSUME IInv, TickEnds
  PROVE  IInv'
<1> USE DEF IInv, TickEnds, attempts
<1>1. TypeOK'
  BY DEF TypeOK, Resting
<1>2. InFlight'
  BY <1>1 DEF TypeOK, InFlight, WorkersInFlight, JobsInFlight, AttemptsDiffer,
         OneAtATime, Busy, Resting, Attempt
<1>3. Waiting'
  BY <1>1 DEF TypeOK, InFlight, WorkersInFlight, JobsInFlight, AttemptsDiffer,
         OneAtATime, Busy, Resting, Attempt,
         Waiting, CallersInStep, CallersHavePaths, Remembered, DoneIsOver, LendersWait,
         LentIsAwaited, Awaited, Awaits, InUse
<1>4. Locking'
  BY <1>1 DEF TypeOK, Locking, TodoWhileTriggering, LockExcludes, StopHasTheLock,
         ShuttingDown, WorkerReads, CallerReads, Resting, Routing
<1> QED BY <1>1, <1>2, <1>3, <1>4

(* TickerQuits keeps IInv.                                                 *)
LEMMA TickerQuitsKeeps ==
  ASSUME IInv, TickerQuits
  PROVE  IInv'
<1> USE DEF IInv, TickerQuits, attempts
<1>1. TypeOK'
  BY DEF TypeOK, Resting
<1>2. InFlight'
  BY <1>1 DEF TypeOK, InFlight, WorkersInFlight, JobsInFlight, AttemptsDiffer,
         OneAtATime, Busy, Resting, Attempt
<1>3. Waiting'
  BY <1>1 DEF TypeOK, InFlight, WorkersInFlight, JobsInFlight, AttemptsDiffer,
         OneAtATime, Busy, Resting, Attempt,
         Waiting, CallersInStep, CallersHavePaths, Remembered, DoneIsOver, LendersWait,
         LentIsAwaited, Awaited, Awaits, InUse
<1>4. Locking'
  BY <1>1 DEF TypeOK, Locking, TodoWhileTriggering, LockExcludes, StopHasTheLock,
         ShuttingDown, WorkerReads, CallerReads, Resting, Routing
<1> QED BY <1>1, <1>2, <1>3, <1>4

(* CallBegins keeps IInv.                                                  *)
LEMMA CallBeginsKeeps ==
  ASSUME IInv, NEW c \in Caller, NEW p \in Removed, CallBegins(c, p)
  PROVE  IInv'
<1> USE DEF IInv, CallBegins, attempts
<1>1. TypeOK'
  BY DEF TypeOK, Resting
<1>2. InFlight'
  BY <1>1 DEF TypeOK, InFlight, WorkersInFlight, JobsInFlight, AttemptsDiffer,
         OneAtATime, Busy, Resting, Attempt
<1>3. Waiting'
  <2>1. /\ caller'[c].stage = "call" /\ caller'[c].attempt = 0 /\ caller'[c].path = p
        /\ caller[c].attempt = 0
        /\ \A d \in Caller : d # c => caller'[d] = caller[d]
    BY DEF TypeOK, Waiting, CallersInStep
  <2>2. \A a \in Attempt : Awaited(a) => Awaited(a)'
    BY <2>1 DEF Awaited, Awaits, TypeOK
  <2>3. \A a \in Attempt : InUse(a) => InUse(a)'
    BY <2>1 DEF InUse, Attempt
  <2>4. CallersInStep' /\ CallersHavePaths'
    BY <2>1 DEF Waiting, CallersInStep, CallersHavePaths
  <2>5. Remembered' /\ DoneIsOver' /\ LendersWait'
    BY <2>2, <2>3 DEF TypeOK, Waiting, Remembered, DoneIsOver, LendersWait, Busy
  <2>6. LentIsAwaited'
    BY <2>1, <2>2 DEF TypeOK, Waiting, LentIsAwaited, InFlight, WorkersInFlight, Busy
  <2> QED BY <2>4, <2>5, <2>6 DEF Waiting
<1>4. Locking'
  BY <1>1 DEF TypeOK, Locking, TodoWhileTriggering, LockExcludes, StopHasTheLock,
         ShuttingDown, WorkerReads, CallerReads, Resting, Routing
<1> QED BY <1>1, <1>2, <1>3, <1>4

(* CallCancels keeps IInv.                                                 *)
LEMMA CallCancelsKeeps ==
  ASSUME IInv, NEW c \in Caller, CallCancels(c)
  PROVE  IInv'
<1> USE DEF IInv, CallCancels, attempts
<1>1. TypeOK'
  BY DEF TypeOK, Waiting, CallersInStep, Attempt
<1>2. InFlight'
  BY <1>1 DEF TypeOK, InFlight, WorkersInFlight, JobsInFlight, AttemptsDiffer,
         OneAtATime, Busy, Resting, Attempt
<1>3. Waiting'
  BY <1>1 DEF TypeOK, InFlight, WorkersInFlight, JobsInFlight, AttemptsDiffer,
         OneAtATime, Busy, Resting, Attempt,
         Waiting, CallersInStep, CallersHavePaths, Remembered, DoneIsOver, LendersWait,
         LentIsAwaited, Awaited, Awaits, InUse
<1>4. Locking'
  BY <1>1 DEF TypeOK, Locking, TodoWhileTriggering, LockExcludes, StopHasTheLock,
         ShuttingDown, WorkerReads, CallerReads, Resting, Routing
<1> QED BY <1>1, <1>2, <1>3, <1>4

(* CallReturns keeps IInv.                                                 *)
LEMMA CallReturnsKeeps ==
  ASSUME IInv, NEW c \in Caller, CallReturns(c)
  PROVE  IInv'
<1> USE DEF IInv, CallReturns, attempts
<1>0. cancelled' \subseteq cancelled /\ done' \subseteq done
  BY Zenon DEF Collect
<1>1. TypeOK'
  BY <1>0 DEF TypeOK, Resting
<1>2. InFlight'
  BY <1>1 DEF TypeOK, InFlight, WorkersInFlight, JobsInFlight, AttemptsDiffer,
         OneAtATime, Busy, Resting, Attempt
<1>3. Waiting'
  BY <1>1 DEF Collect, TypeOK, InFlight, WorkersInFlight, JobsInFlight, AttemptsDiffer,
     OneAtATime, Busy, Resting, Attempt,
         Waiting, CallersInStep, CallersHavePaths, Remembered, DoneIsOver, LendersWait,
         LentIsAwaited, Awaited, Awaits, InUse
<1>4. Locking'
  BY <1>1 DEF TypeOK, Locking, TodoWhileTriggering, LockExcludes, StopHasTheLock,
         ShuttingDown, WorkerReads, CallerReads, Resting, Routing
<1> QED BY <1>1, <1>2, <1>3, <1>4

(* JobTaken keeps IInv.                                                    *)
LEMMA JobTakenKeeps ==
  ASSUME IInv, NEW w \in Worker, NEW p \in Path, JobTaken(w, p)
  PROVE  IInv'
<1> USE DEF IInv, JobTaken, attempts
<1>1. TypeOK'
  BY DEF TypeOK, Attempt
<1>2. InFlight'
  BY <1>1 DEF TypeOK, InFlight, WorkersInFlight, JobsInFlight, AttemptsDiffer,
         OneAtATime, Busy, Resting, Attempt
<1>3. Waiting'
  BY <1>1 DEF TypeOK, InFlight, WorkersInFlight, JobsInFlight, AttemptsDiffer,
         OneAtATime, Busy, Resting, Attempt,
         Waiting, CallersInStep, CallersHavePaths, Remembered, DoneIsOver, LendersWait,
         LentIsAwaited, Awaited, Awaits, InUse
<1>4. Locking'
  BY <1>1 DEF TypeOK, Locking, TodoWhileTriggering, LockExcludes, StopHasTheLock,
         ShuttingDown, WorkerReads, CallerReads, Resting, Routing
<1> QED BY <1>1, <1>2, <1>3, <1>4

(* JobLocks keeps IInv.                                                    *)
LEMMA JobLocksKeeps ==
  ASSUME IInv, NEW w \in Worker, JobLocks(w)
  PROVE  IInv'
<1> USE DEF IInv, JobLocks, attempts
<1>1. TypeOK'
  BY DEF TypeOK, Resting
<1>2. InFlight'
  BY <1>1 DEF TypeOK, InFlight, WorkersInFlight, JobsInFlight, AttemptsDiffer,
         OneAtATime, Busy, Resting, Attempt
<1>3. Waiting'
  BY <1>1 DEF TypeOK, InFlight, WorkersInFlight, JobsInFlight, AttemptsDiffer,
         OneAtATime, Busy, Resting, Attempt,
         Waiting, CallersInStep, CallersHavePaths, Remembered, DoneIsOver, LendersWait,
         LentIsAwaited, Awaited, Awaits, InUse
<1>4. Locking'
  BY <1>1 DEF TypeOK, Locking, TodoWhileTriggering, LockExcludes, StopHasTheLock,
         ShuttingDown, WorkerReads, CallerReads, Resting, Routing
<1> QED BY <1>1, <1>2, <1>3, <1>4

(* JobIsLent keeps IInv.                                                   *)
LEMMA JobIsLentKeeps ==
  ASSUME IInv, NEW w \in Worker, JobIsLent(w)
  PROVE  IInv'
<1> USE DEF IInv, JobIsLent, attempts
<1>1. TypeOK'
  BY DEF TypeOK, Resting
<1>2. InFlight'
  BY <1>1 DEF TypeOK, InFlight, WorkersInFlight, JobsInFlight, AttemptsDiffer,
         OneAtATime, Busy, Resting, Attempt
<1>3. Waiting'
  BY <1>1 DEF TypeOK, InFlight, WorkersInFlight, JobsInFlight, AttemptsDiffer,
         OneAtATime, Busy, Resting, Attempt,
         Waiting, CallersInStep, CallersHavePaths, Remembered, DoneIsOver, LendersWait,
         LentIsAwaited, Awaited, Awaits, InUse
<1>4. Locking'
  BY <1>1 DEF TypeOK, Locking, TodoWhileTriggering, LockExcludes, StopHasTheLock,
         ShuttingDown, WorkerReads, CallerReads, Resting, Routing
<1> QED BY <1>1, <1>2, <1>3, <1>4

(* JobAborts keeps IInv.                                                   *)
LEMMA JobAbortsKeeps ==
  ASSUME IInv, NEW w \in Worker, JobAborts(w)
  PROVE  IInv'
<1> USE DEF IInv, JobAborts, attempts
<1>1. TypeOK'
  BY DEF TypeOK, Resting
<1>2. InFlight'
  BY <1>1 DEF TypeOK, InFlight, WorkersInFlight, JobsInFlight, AttemptsDiffer,
         OneAtATime, Busy, Resting, Attempt
<1>3. Waiting'
  BY <1>1 DEF TypeOK, InFlight, WorkersInFlight, JobsInFlight, AttemptsDiffer,
         OneAtATime, Busy, Resting, Attempt,
         Waiting, CallersInStep, CallersHavePaths, Remembered, DoneIsOver, LendersWait,
         LentIsAwaited, Awaited, Awaits, InUse
<1>4. Locking'
  BY <1>1 DEF TypeOK, Locking, TodoWhileTriggering, LockExcludes, StopHasTheLock,
         ShuttingDown, WorkerReads, CallerReads, Resting, Routing
<1> QED BY <1>1, <1>2, <1>3, <1>4

(* JobRoutes keeps IInv.                                                   *)
LEMMA JobRoutesKeeps ==
  ASSUME IInv, NEW w \in Worker, JobRoutes(w)
  PROVE  IInv'
<1> USE DEF IInv, JobRoutes, attempts
<1>1. TypeOK'
  BY DEF TypeOK, Resting
<1>2. InFlight'
  BY <1>1 DEF Routing, TypeOK, InFlight, WorkersInFlight, JobsInFlight, AttemptsDiffer,
     OneAtATime, Busy, Resting, Attempt
<1>3. Waiting'
  BY <1>1 DEF Routing, TypeOK, InFlight, WorkersInFlight, JobsInFlight, AttemptsDiffer,
     OneAtATime, Busy, Resting, Attempt,
         Waiting, CallersInStep, CallersHavePaths, Remembered, DoneIsOver, LendersWait,
         LentIsAwaited, Awaited, Awaits, InUse
<1>4. Locking'
  BY <1>1 DEF TypeOK, Locking, TodoWhileTriggering, LockExcludes, StopHasTheLock,
         ShuttingDown, WorkerReads, CallerReads, Resting, Routing
<1> QED BY <1>1, <1>2, <1>3, <1>4

(* JobFinishes keeps IInv.                                                 *)
LEMMA JobFinishesKeeps ==
  ASSUME IInv, NEW w \in Worker, JobFinishes(w)
  PROVE  IInv'
<1> USE DEF IInv, JobFinishes, attempts
<1>1. TypeOK'
  BY DEF TypeOK, InFlight, WorkersInFlight, Busy
<1>2. InFlight'
  BY <1>1 DEF TypeOK, InFlight, WorkersInFlight, JobsInFlight, AttemptsDiffer,
         OneAtATime, Busy, Resting, Attempt
<1>3. Waiting'
  BY <1>1 DEF TypeOK, InFlight, WorkersInFlight, JobsInFlight, AttemptsDiffer,
         OneAtATime, Busy, Resting, Attempt,
         Waiting, CallersInStep, CallersHavePaths, Remembered, DoneIsOver, LendersWait,
         LentIsAwaited, Awaited, Awaits, InUse
<1>4. Locking'
  BY <1>1 DEF TypeOK, Locking, TodoWhileTriggering, LockExcludes, StopHasTheLock,
         ShuttingDown, WorkerReads, CallerReads, Resting, Routing
<1> QED BY <1>1, <1>2, <1>3, <1>4

(* JobForgotten keeps IInv.                                                *)
LEMMA JobForgottenKeeps ==
  ASSUME IInv, NEW w \in Worker, JobForgotten(w)
  PROVE  IInv'
<1> USE DEF IInv, JobForgotten, attempts
<1>0. cancelled' \subseteq cancelled /\ done' \subseteq done
  BY Zenon DEF Collect
<1>1. TypeOK'
  BY <1>0 DEF TypeOK, Resting, InFlight, WorkersInFlight, Busy
<1>2. InFlight'
  BY <1>1 DEF TypeOK, InFlight, WorkersInFlight, JobsInFlight, AttemptsDiffer,
         OneAtATime, Busy, Resting, Attempt
<1>3. Waiting'
  BY <1>1 DEF Collect, TypeOK, InFlight, WorkersInFlight, JobsInFlight, AttemptsDiffer,
     OneAtATime, Busy, Resting, Attempt,
         Waiting, CallersInStep, CallersHavePaths, Remembered, DoneIsOver, LendersWait,
         LentIsAwaited, Awaited, Awaits, InUse
<1>4. Locking'
  BY <1>1 DEF TypeOK, Locking, TodoWhileTriggering, LockExcludes, StopHasTheLock,
         ShuttingDown, WorkerReads, CallerReads, Resting, Routing
<1> QED BY <1>1, <1>2, <1>3, <1>4

(* WantLock keeps IInv.                                                    *)
LEMMA WantLockKeeps ==
  ASSUME IInv, WantLock
  PROVE  IInv'
<1> USE DEF IInv, WantLock, attempts
<1>1. TypeOK'
  BY DEF TypeOK, Resting
<1>2. InFlight'
  BY <1>1 DEF TypeOK, InFlight, WorkersInFlight, JobsInFlight, AttemptsDiffer,
         OneAtATime, Busy, Resting, Attempt
<1>3. Waiting'
  BY <1>1 DEF TypeOK, InFlight, WorkersInFlight, JobsInFlight, AttemptsDiffer,
         OneAtATime, Busy, Resting, Attempt,
         Waiting, CallersInStep, CallersHavePaths, Remembered, DoneIsOver, LendersWait,
         LentIsAwaited, Awaited, Awaits, InUse
<1>4. Locking'
  BY <1>1 DEF TypeOK, Locking, TodoWhileTriggering, LockExcludes, StopHasTheLock,
         ShuttingDown, WorkerReads, CallerReads, Resting, Routing
<1> QED BY <1>1, <1>2, <1>3, <1>4

(* GrabLock keeps IInv.                                                    *)
LEMMA GrabLockKeeps ==
  ASSUME IInv, GrabLock
  PROVE  IInv'
<1> USE DEF IInv, GrabLock, attempts
<1>1. TypeOK'
  BY DEF TypeOK, Resting
<1>2. InFlight'
  BY <1>1 DEF TypeOK, InFlight, WorkersInFlight, JobsInFlight, AttemptsDiffer,
         OneAtATime, Busy, Resting, Attempt
<1>3. Waiting'
  BY <1>1 DEF TypeOK, InFlight, WorkersInFlight, JobsInFlight, AttemptsDiffer,
         OneAtATime, Busy, Resting, Attempt,
         Waiting, CallersInStep, CallersHavePaths, Remembered, DoneIsOver, LendersWait,
         LentIsAwaited, Awaited, Awaits, InUse
<1>4. Locking'
  BY <1>1 DEF TypeOK, Locking, TodoWhileTriggering, LockExcludes, StopHasTheLock,
         ShuttingDown, WorkerReads, CallerReads, Resting, Routing
<1> QED BY <1>1, <1>2, <1>3, <1>4

(* ReleaseLock keeps IInv.                                                 *)
LEMMA ReleaseLockKeeps ==
  ASSUME IInv, ReleaseLock
  PROVE  IInv'
<1> USE DEF IInv, ReleaseLock, attempts
<1>1. TypeOK'
  BY DEF TypeOK, Resting
<1>2. InFlight'
  BY <1>1 DEF TypeOK, InFlight, WorkersInFlight, JobsInFlight, AttemptsDiffer,
         OneAtATime, Busy, Resting, Attempt
<1>3. Waiting'
  BY <1>1 DEF TypeOK, InFlight, WorkersInFlight, JobsInFlight, AttemptsDiffer,
         OneAtATime, Busy, Resting, Attempt,
         Waiting, CallersInStep, CallersHavePaths, Remembered, DoneIsOver, LendersWait,
         LentIsAwaited, Awaited, Awaits, InUse
<1>4. Locking'
  BY <1>1 DEF TypeOK, Locking, TodoWhileTriggering, LockExcludes, StopHasTheLock,
         ShuttingDown, WorkerReads, CallerReads, Resting, Routing
<1> QED BY <1>1, <1>2, <1>3, <1>4

(* PreSeal keeps    IInv.                                                  *)
LEMMA PreSealKeeps ==
  ASSUME IInv, PreSeal
  PROVE  IInv'
<1> USE DEF IInv, PreSeal, attempts
<1>1. TypeOK'
  BY DEF TypeOK, Resting
<1>2. InFlight'
  BY <1>1 DEF TypeOK, InFlight, WorkersInFlight, JobsInFlight, AttemptsDiffer,
         OneAtATime, Busy, Resting, Attempt
<1>3. Waiting'
  BY <1>1 DEF TypeOK, InFlight, WorkersInFlight, JobsInFlight, AttemptsDiffer,
         OneAtATime, Busy, Resting, Attempt,
         Waiting, CallersInStep, CallersHavePaths, Remembered, DoneIsOver, LendersWait,
         LentIsAwaited, Awaited, Awaits, InUse
<1>4. Locking'
  BY <1>1 DEF TypeOK, Locking, TodoWhileTriggering, LockExcludes, StopHasTheLock,
         ShuttingDown, WorkerReads, CallerReads, Resting, Routing
<1> QED BY <1>1, <1>2, <1>3, <1>4

(* StopCloses keeps IInv.                                                  *)
LEMMA StopClosesKeeps ==
  ASSUME IInv, StopCloses
  PROVE  IInv'
<1> USE DEF IInv, StopCloses, attempts
<1>1. TypeOK'
  BY DEF TypeOK, Resting
<1>2. InFlight'
  BY <1>1 DEF TypeOK, InFlight, WorkersInFlight, JobsInFlight, AttemptsDiffer,
         OneAtATime, Busy, Resting, Attempt
<1>3. Waiting'
  BY <1>1 DEF TypeOK, InFlight, WorkersInFlight, JobsInFlight, AttemptsDiffer,
         OneAtATime, Busy, Resting, Attempt,
         Waiting, CallersInStep, CallersHavePaths, Remembered, DoneIsOver, LendersWait,
         LentIsAwaited, Awaited, Awaits, InUse
<1>4. Locking'
  BY <1>1 DEF TypeOK, Locking, TodoWhileTriggering, LockExcludes, StopHasTheLock,
         ShuttingDown, WorkerReads, CallerReads, Resting, Routing
<1> QED BY <1>1, <1>2, <1>3, <1>4

(* StopReturns keeps IInv.                                                 *)
LEMMA StopReturnsKeeps ==
  ASSUME IInv, StopReturns
  PROVE  IInv'
<1> USE DEF IInv, StopReturns, attempts
<1>1. TypeOK'
  BY DEF TypeOK, Resting
<1>2. InFlight'
  BY <1>1 DEF TypeOK, InFlight, WorkersInFlight, JobsInFlight, AttemptsDiffer,
         OneAtATime, Busy, Resting, Attempt
<1>3. Waiting'
  BY <1>1 DEF TypeOK, InFlight, WorkersInFlight, JobsInFlight, AttemptsDiffer,
         OneAtATime, Busy, Resting, Attempt,
         Waiting, CallersInStep, CallersHavePaths, Remembered, DoneIsOver, LendersWait,
         LentIsAwaited, Awaited, Awaits, InUse
<1>4. Locking'
  BY <1>1 DEF TypeOK, Locking, TodoWhileTriggering, LockExcludes, StopHasTheLock,
         ShuttingDown, WorkerReads, CallerReads, Resting, Routing
<1> QED BY <1>1, <1>2, <1>3, <1>4

(* Trigger keeps IInv.                                                     *)
LEMMA TriggerKeeps ==
  ASSUME IInv, NEW p \in Path, Trigger(p)
  PROVE  IInv'
<1> USE DEF IInv, Trigger, StartOrLookup, attempts
<1>2. CASE UNCHANGED attempts
  <2> USE <1>2
  <2>1. TypeOK'
    BY DEF TypeOK
  <2>2. InFlight'
    BY DEF TypeOK, InFlight, WorkersInFlight, JobsInFlight, AttemptsDiffer, OneAtATime,
         Busy, Resting, Attempt
  <2>3. Waiting'
    BY DEF TypeOK, InFlight, WorkersInFlight, JobsInFlight, AttemptsDiffer, OneAtATime,
         Busy, Resting, Attempt,
         Waiting, CallersInStep, CallersHavePaths, Remembered, DoneIsOver, LendersWait,
         LentIsAwaited, Awaited, Awaits, InUse
  <2>4. Locking'
    BY DEF TypeOK, Locking, TodoWhileTriggering, LockExcludes, StopHasTheLock,
         ShuttingDown, WorkerReads, CallerReads, Resting, Routing
  <2> QED BY <2>1, <2>2, <2>3, <2>4
<1>3. ASSUME NEW a \in Attempt, Register(p, a, TRUE) PROVE IInv'
  <2> DEFINE new == [attempt |-> a, path |-> p, grabStatelock |-> TRUE]
  <2>1. ~InUse(a)
    BY <1>3, RegisteredIsNew
  <2>2. /\ inflight[p] = 0
        /\ inflight' = [inflight EXCEPT ![p] = a]
        /\ queue' = queue \cup {new}
        /\ UNCHANGED <<cancelled, done, worker, caller, ticker, writer, stop>>
        /\ todo' = todo \ {p}
    BY <1>3 DEF Register, Locking, TodoWhileTriggering
  <2> HIDE DEF Trigger
  <2>3. TypeOK'
    <3>1. inflight' \in [Path -> 0 .. MaxAttempt]
      BY <2>2 DEF TypeOK, Attempt
    <3>2. new \in [attempt : Attempt, path : Path, grabStatelock : BOOLEAN]
      OBVIOUS
    <3> HIDE DEF new
    <3> QED BY <2>2, <3>1, <3>2 DEF TypeOK
  <2>4. \A w \in Worker : worker[w].path # p
    BY <2>2 DEF TypeOK, InFlight, WorkersInFlight, Busy, Attempt
  <2>5. \A j \in queue : j.path # p /\ inflight'[j.path] = inflight[j.path]
    BY <2>2 DEF TypeOK, InFlight, JobsInFlight, Attempt
  <2>6. InFlight'
    BY <2>1, <2>2, <2>3, <2>4, <2>5 DEF TypeOK, InFlight, WorkersInFlight, JobsInFlight,
       AttemptsDiffer, OneAtATime, Busy, Resting, Attempt, InUse
  <2>7. a \notin cancelled /\ a \notin done
    BY <2>1 DEF Waiting, Remembered
  <2>8. \A b \in Attempt : InUse(b) => InUse(b)'
    BY <2>2 DEF InUse, TypeOK, Attempt
  <2>9. Waiting'
    BY <2>1, <2>2, <2>3, <2>7, <2>8 DEF TypeOK, Waiting, CallersInStep, CallersHavePaths,
       Remembered,
         DoneIsOver, LendersWait, LentIsAwaited, Awaited, Awaits, Busy
  <2>10. Locking'
    BY <2>2 DEF TypeOK, Locking, TodoWhileTriggering, LockExcludes, StopHasTheLock,
         ShuttingDown, WorkerReads, CallerReads, Resting, Routing
  <2> QED BY <2>3, <2>6, <2>9, <2>10
<1> QED BY <1>2, <1>3 DEF Lookup

(* CallJoins keeps IInv.                                                   *)
LEMMA CallJoinsKeeps ==
  ASSUME IInv, NEW c \in Caller, CallJoins(c)
  PROVE  IInv'
<1> USE DEF IInv, StartOrLookup, attempts
<1> DEFINE p == caller[c].path
<1>1. PICK a \in Attempt :
        /\ Lookup(p, a) \/ Register(p, a, FALSE)
        /\ caller' = [caller EXCEPT ![c] = [stage |-> "joined", attempt |-> a, path |-> p]]
  BY DEF CallJoins
<1>2. /\ caller[c].stage = "call" /\ caller[c].attempt = 0 /\ p \in Path
      /\ UNCHANGED <<worker, ticker, todo, writer, stop>>
  BY DEF CallJoins, TypeOK, Waiting, CallersInStep, CallersHavePaths
<1>3. /\ caller'[c].stage = "joined" /\ caller'[c].attempt = a /\ caller'[c].path = p
      /\ \A d \in Caller : d # c => caller'[d] = caller[d]
      /\ caller' \in [Caller -> [stage : {"idle", "call", "joined", "waiting"},
                              attempt : 0 .. MaxAttempt, path : Path \cup {NoPath}]]
  BY <1>1, <1>2 DEF TypeOK, Attempt
<1>4. a # 0 /\ a \in 0 .. MaxAttempt
  BY DEF Attempt
<1>5. CallersInStep' /\ CallersHavePaths'
  BY <1>2, <1>3, <1>4 DEF Waiting, CallersInStep, CallersHavePaths
<1>6. \A b \in Attempt : Awaited(b) => Awaited(b)'
  BY <1>2, <1>3 DEF Awaited, Awaits
<1>7. Awaited(a)'
  BY <1>3 DEF Awaited, Awaits
<1>9. Locking'
  BY <1>2, <1>3 DEF TypeOK, Locking, TodoWhileTriggering, LockExcludes, StopHasTheLock,
         ShuttingDown, WorkerReads, CallerReads, Resting, Routing
<1> HIDE DEF p
<1>10. CASE Lookup(p, a)
  <2>1. UNCHANGED <<inflight, cancelled, done, queue>>
    BY <1>10 DEF Lookup
  <2>2. TypeOK'
    BY <1>2, <1>3, <2>1 DEF TypeOK
  <2>3. InFlight'
    BY <1>2, <2>1 DEF TypeOK, InFlight, WorkersInFlight, JobsInFlight, AttemptsDiffer,
       OneAtATime, Busy, Resting, Attempt
  <2>4. \A b \in Attempt : InUse(b) => InUse(b)'
    BY <1>2, <1>3, <1>4, <2>1 DEF InUse, Attempt
  <2>5. Remembered' /\ DoneIsOver' /\ LendersWait'
    BY <1>2, <1>6, <2>1, <2>4 DEF TypeOK, Waiting, Remembered, DoneIsOver, LendersWait, Busy
  <2>6. LentIsAwaited'
    BY <1>2, <1>6 DEF InFlight, WorkersInFlight, Busy, Waiting, LentIsAwaited, Awaited,
         Awaits
  <2> QED BY <1>5, <1>9, <2>2, <2>3, <2>5, <2>6 DEF Waiting
<1>11. CASE Register(p, a, FALSE)
  <2> DEFINE new == [attempt |-> a, path |-> p, grabStatelock |-> FALSE]
  <2>1. ~InUse(a)
    BY <1>2, <1>11, RegisteredIsNew
  <2>2. a \notin cancelled /\ a \notin done
    BY <2>1 DEF Waiting, Remembered
  <2>3. CASE ticker = "done"
    <3>1. UNCHANGED <<inflight, cancelled, queue>> /\ done' = done \cup {a}
      BY <2>3, <1>11 DEF Register
    <3>2. TypeOK'
      BY <1>2, <1>3, <3>1 DEF TypeOK
    <3>3. InFlight'
      BY <1>2, <3>1 DEF TypeOK, InFlight, WorkersInFlight, JobsInFlight, AttemptsDiffer,
         OneAtATime, Busy, Resting, Attempt
    <3>4. InUse(a)' /\ \A b \in Attempt : InUse(b) => InUse(b)'
      <4>1. InUse(a)'
        BY <1>3 DEF InUse
      <4>2. \A b \in Attempt : InUse(b) => InUse(b)'
        BY <1>2, <1>3, <3>1 DEF InUse, Attempt
      <4> QED BY <4>1, <4>2
    <3>5. DoneIsOver'
      BY <1>2, <2>1, <3>1 DEF TypeOK, Waiting, DoneIsOver, InFlight, JobsInFlight,
         WorkersInFlight, Busy, InUse
    <3>6. Remembered' /\ LendersWait'
      BY <1>2, <1>6, <3>1, <3>4 DEF TypeOK, Waiting, Remembered, LendersWait
    <3>7. LentIsAwaited'
      BY <1>2, <1>6 DEF InFlight, WorkersInFlight, Busy, Waiting, LentIsAwaited, Awaited,
         Awaits
    <3> QED BY <1>5, <1>9, <3>2, <3>3, <3>5, <3>6, <3>7 DEF Waiting
  <2>4. CASE ticker # "done"
    <3>1. /\ inflight[p] = 0
          /\ inflight' = [inflight EXCEPT ![p] = a]
          /\ queue' = queue \cup {new}
          /\ UNCHANGED <<cancelled, done>>
      BY <2>4, <1>11 DEF Register
    <3>2. TypeOK'
      <4>1. inflight' \in [Path -> 0 .. MaxAttempt]
        BY <1>4, <3>1 DEF TypeOK
      <4>2. new \in [attempt : Attempt, path : Path, grabStatelock : BOOLEAN]
        BY <1>2
      <4> HIDE DEF new
      <4> QED BY <1>2, <1>3, <3>1, <4>1, <4>2 DEF TypeOK
    <3>3. \A w \in Worker : worker[w].path # p
      BY <1>2, <3>1 DEF TypeOK, InFlight, WorkersInFlight, Busy, Attempt
    <3>4. \A j \in queue : j.path # p /\ inflight'[j.path] = inflight[j.path]
      BY <1>2, <3>1 DEF TypeOK, InFlight, JobsInFlight, Attempt
    <3>5. InFlight'
      BY <1>2, <1>4, <2>1, <3>1, <3>2, <3>3, <3>4 DEF TypeOK, InFlight, WorkersInFlight,
         JobsInFlight, AttemptsDiffer, OneAtATime, Busy, Resting, Attempt, InUse
    <3>6. \A b \in Attempt : InUse(b) => InUse(b)'
      BY <1>2, <1>3, <1>4, <3>1 DEF InUse, TypeOK, Attempt
    <3>7. LendersWait'
      BY <1>6, <1>7, <3>1 DEF TypeOK, Waiting, LendersWait
    <3>8. Remembered' /\ DoneIsOver'
      BY <1>2, <2>2, <3>1, <3>6 DEF TypeOK, Waiting, Remembered, DoneIsOver, Busy
    <3>9. LentIsAwaited'
      BY <1>2, <1>6, <3>1 DEF InFlight, WorkersInFlight, Busy, TypeOK, Waiting,
         LentIsAwaited,
         Awaited, Awaits
    <3> QED BY <1>5, <1>9, <3>2, <3>5, <3>7, <3>8, <3>9 DEF Waiting
  <2> QED BY <2>3, <2>4
<1> QED BY <1>1, <1>10, <1>11

-----------------------------------------------------------------------------
(* The inductive invariant *)

(* The manager starts with nothing in flight.                              *)
LEMMA InitEstablishes == Init => IInv
  BY DEF Init, IInv, TypeOK, Resting, Attempt, InFlight, WorkersInFlight, JobsInFlight,
         AttemptsDiffer, OneAtATime, Busy, Waiting, CallersInStep,
         CallersHavePaths, Remembered, DoneIsOver, LendersWait, LentIsAwaited, Awaited,
         Awaits,
         Locking, TodoWhileTriggering, LockExcludes, StopHasTheLock,
         ShuttingDown, WorkerReads, CallerReads, Resting, Routing

(* Every step keeps the invariant.                                         *)
LEMMA NextKeeps == IInv /\ [Next]_vars => IInv'
<1> SUFFICES ASSUME IInv, [Next]_vars PROVE IInv'
  OBVIOUS
<1>1. CASE Ticking \/ TickerQuits
  BY <1>1, TickKeeps, TriggerKeeps, TickEndsKeeps, TickerQuitsKeeps DEF Ticking
<1>2. CASE \E c \in Caller : Calling(c) \/ \E p \in Removed : CallBegins(c, p)
  BY <1>2, CallJoinsKeeps, CallCancelsKeeps, CallReturnsKeeps, CallBeginsKeeps DEF Calling
<1>3. CASE Handing \/ \E w \in Worker : Running(w) \/ JobLocks(w)
  BY <1>3, JobTakenKeeps, JobLocksKeeps, JobIsLentKeeps, JobAbortsKeeps, JobRoutesKeeps,
     JobFinishesKeeps, JobForgottenKeeps DEF Running, Handing
<1>4. CASE WantLock \/ GrabLock \/ ReleaseLock \/ PreSeal \/ StopCloses \/ StopReturns
  BY <1>4, WantLockKeeps, GrabLockKeeps, ReleaseLockKeeps, PreSealKeeps, StopClosesKeeps,
     StopReturnsKeeps
<1>5. CASE UNCHANGED vars
  <2> USE <1>5 DEF vars, IInv
  <2>1. TypeOK'
    BY DEF TypeOK
  <2>2. InFlight'
    BY DEF TypeOK, InFlight, WorkersInFlight, JobsInFlight, AttemptsDiffer, OneAtATime,
         Busy, Resting, Attempt
  <2>3. Waiting'
    BY DEF TypeOK, InFlight, WorkersInFlight, JobsInFlight, AttemptsDiffer, OneAtATime,
         Busy, Resting, Attempt,
         Waiting, CallersInStep, CallersHavePaths, Remembered, DoneIsOver, LendersWait,
         LentIsAwaited, Awaited, Awaits, InUse
  <2>4. Locking'
    BY DEF Locking, TodoWhileTriggering, LockExcludes, StopHasTheLock,
         ShuttingDown, WorkerReads, CallerReads, Resting, Routing
  <2> QED BY <2>1, <2>2, <2>3, <2>4
<1> QED BY <1>1, <1>2, <1>3, <1>4, <1>5 DEF Next

(* The invariant holds in every state.                                     *)
LEMMA Invariant == Spec => []IInv
  BY InitEstablishes, NextKeeps, PTL DEF Spec

(* The variables of the rollback manager keep their types.                 *)
THEOREM TypesHold == Spec => []TypeOK
<1>1. IInv => TypeOK
  BY DEF IInv
<1> QED BY <1>1, Invariant, PTL

(* Two workers are never in the backend of one mount, whoever started,     *)
(* joined or finished an attempt in between (rollback.go, inflight).       *)
THEOREM OneRollbackAtATime == Spec => []OneAtATime
<1>1. IInv => OneAtATime
  BY DEF IInv, InFlight
<1> QED BY <1>1, Invariant, PTL

(* No rollback runs beside the holder of the state lock for writing, but   *)
(* for those a namespace deletion waits for, and none while the manager    *)
(* stops (rollback.go, attemptRollback; core.go, preSeal): an attempt with *)
(* no lock of its own has a caller that waits for it and, but for such a   *)
(* deletion, holds the lock until it ends.                                 *)
THEOREM WriterExcludesRollbacks == Spec => []Protected
<1>1. IInv => Protected
  <2> SUFFICES ASSUME IInv, NEW w \in Worker, Routing(w), writer \in {"held", "sealing"}
               PROVE  stop = "running" /\ \E c \in Deleter : Awaits(c, worker[w].attempt)
    BY DEF Protected
  <2>1. worker[w].stage = "lent"
    BY DEF IInv, Locking, LockExcludes, WorkerReads, Routing
  <2>2. PICK c \in Caller : Awaits(c, worker[w].attempt)
    BY <2>1 DEF IInv, Waiting, LentIsAwaited, Awaited
  <2>3. c \in Deleter /\ caller[c].stage # "idle"
    BY <2>2 DEF IInv, Locking, LockExcludes, CallerReads, Awaits
  <2>4. stop = "running"
    BY <2>3 DEF IInv, Locking, StopHasTheLock, ShuttingDown
  <2> QED BY <2>2, <2>3, <2>4
<1> QED BY <1>1, Invariant, PTL
=============================================================================
