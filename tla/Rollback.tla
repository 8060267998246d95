------------------------------ MODULE Rollback ------------------------------
(***************************************************************************)
(* The rollback manager (src/internal/vault/rollback.go): a ticker asks    *)
(* every mount to roll back its partial secrets, and the removal or move   *)
(* of a mount asks for one rollback and waits for it.  One attempt per     *)
(* path is in flight; its job runs on a worker of a fairshare job manager. *)
(*                                                                         *)
(* What makes it hard is the state lock.  An attempt of the ticker takes   *)
(* it for reading.  A caller of Rollback should hold it already, and joins *)
(* that attempt, which must then not wait for a lock that a writer, queued *)
(* behind the caller, keeps from it.  The jobs that delete a namespace     *)
(* (src/internal/vault/namespace_store.go) call Rollback without the lock. *)
(* preSeal runs under the lock held for writing: it waits for those jobs,  *)
(* and then stops the manager, which waits for the workers.                *)
(*                                                                         *)
(* An attempt is one rollbackState, known by a number that is used again   *)
(* when nobody refers to the attempt any more.                             *)
(***************************************************************************)
EXTENDS Naturals, FiniteSets

CONSTANTS
    Path,       \* paths of mounts
    Removed,    \* the ones that requests remove or move
    Caller,     \* goroutines that remove or move a mount, or DoRollback
    Deleter,    \* the ones that delete a namespace and hold no lock
    Worker,     \* workers of the job manager
    MaxAttempt, \* attempts that can be referred to at one time
    NoPath

Attempt == 1 .. MaxAttempt

ASSUME RollbackAssumption ==
    /\ Removed \subseteq Path /\ Deleter \subseteq Caller
    /\ IsFiniteSet(Path) /\ IsFiniteSet(Caller)
    /\ MaxAttempt \in Nat
    /\ MaxAttempt >= Cardinality(Path) + Cardinality(Caller)
    /\ NoPath \notin Path

VARIABLES
    inflight,   \* RollbackManager.inflight: the attempt of a path, or 0
    cancelled,  \* attempts whose cancelLockGrabCtx is cancelled
    done,       \* attempts whose WaitGroup is at zero
    queue,      \* jobs (rollbackJob) that no worker has taken
    worker,     \* what each worker is doing
    caller,     \* what each caller is doing
    ticker,     \* the goroutine of run
    todo,       \* paths triggerRollbacks has still to visit
    writer,     \* the HA loop and the state lock
    stop        \* how far Stop has come

attempts == <<inflight, cancelled, done, queue>>
vars == <<inflight, cancelled, done, queue, worker, caller, ticker, todo,
          writer, stop>>

Resting == [stage |-> "idle", attempt |-> 0, path |-> NoPath]

\* Somebody still refers to the attempt.
InUse(a) ==
    \/ \E p \in Path : inflight[p] = a
    \/ \E c \in Caller : caller[c].attempt = a

\* An attempt nobody refers to after the step is forgotten.
Collect ==
    /\ cancelled' = {a \in cancelled : InUse(a)'}
    /\ done' = {a \in done : InUse(a)'}

\* Workers and callers that hold the state lock for reading.
WorkerReads(w) == worker[w].stage = "locked"
CallerReads(c) == c \notin Deleter /\ caller[c].stage # "idle"

\* A worker is inside the backend's rollback operation.
Routing(w) == worker[w].stage \in {"locked", "lent"}

ShuttingDown == stop # "running"

Init ==
    /\ inflight = [p \in Path |-> 0]
    /\ cancelled = {}
    /\ done = {}
    /\ queue = {}
    /\ worker = [w \in Worker |-> Resting]
    /\ caller = [c \in Caller |-> Resting]
    /\ ticker = "wait"
    /\ todo = {}
    /\ writer = "none"
    /\ stop = "running"

-----------------------------------------------------------------------------
(* startOrLookupRollback, under inflightLock.                              *)

\* There is an attempt of the path: it is used.
Lookup(p, a) ==
    /\ inflight[p] = a
    /\ a # 0
    /\ UNCHANGED attempts

(* Mutant of Register: the in-flight map is not looked at. *)
RegisterAnyway(p, a, lock) ==
    /\ a = CHOOSE b \in Attempt : ~InUse(b)
    /\ inflight' = [inflight EXCEPT ![p] = a]
    /\ queue' = queue \cup {[attempt |-> a, path |-> p, grabStatelock |-> lock]}
    /\ UNCHANGED <<cancelled, done>>

\* There is none: a new one is registered and its job queued, or finished at
\* once when run has ended.
Register(p, a, lock) ==
    /\ inflight[p] = 0
    /\ a = CHOOSE b \in Attempt : ~InUse(b)
    /\ inflight' = IF ticker = "done" THEN inflight ELSE [inflight EXCEPT ![p] = a]
    /\ queue' = IF ticker = "done" THEN queue
                ELSE queue \cup {[attempt |-> a, path |-> p, grabStatelock |-> lock]}
    /\ done' = IF ticker = "done" THEN done \cup {a} ELSE done
    /\ UNCHANGED cancelled

StartOrLookup(p, a, lock) == Lookup(p, a) \/ Register(p, a, lock)

-----------------------------------------------------------------------------
(* run and triggerRollbacks.                                               *)

Tick ==
    /\ ticker = "wait"
    /\ ticker' = "trigger"
    /\ todo' = Path
    /\ UNCHANGED <<attempts, worker, caller, writer, stop>>

\* A mount may have no backend.
Trigger(p) ==
    /\ p \in todo
    /\ (\E a \in Attempt : StartOrLookup(p, a, TRUE)) \/ UNCHANGED attempts
    /\ todo' = todo \ {p}
    /\ UNCHANGED <<worker, caller, ticker, writer, stop>>

TickEnds ==
    /\ ticker = "trigger"
    /\ todo = {}
    /\ ticker' = "wait"
    /\ UNCHANGED <<attempts, worker, caller, todo, writer, stop>>

TickerQuits ==
    /\ ticker = "wait"
    /\ ShuttingDown
    /\ ticker' = "done"
    /\ UNCHANGED <<attempts, worker, caller, todo, writer, stop>>

-----------------------------------------------------------------------------
(* Rollback, by a caller that holds the state lock for reading or by a job *)
(* that deletes a namespace.                                               *)

\* A request takes the lock.  The deletion of a namespace does not; that its
\* context is cancelled in preSeal keeps it from beginning a call.
CallBegins(c, p) ==
    /\ caller[c].stage = "idle"
    /\ writer # "sealing" /\ (c \notin Deleter => writer = "none")
    /\ stop = "running"
    /\ caller' = [caller EXCEPT ![c] = [stage |-> "call", attempt |-> 0, path |-> p]]
    /\ UNCHANGED <<attempts, worker, ticker, todo, writer, stop>>

CallJoins(c) ==
    /\ caller[c].stage = "call"
    /\ \E a \in Attempt :
        /\ StartOrLookup(caller[c].path, a, FALSE)
        /\ caller' = [caller EXCEPT ![c] =
                        [stage |-> "joined", attempt |-> a, path |-> caller[c].path]]
    /\ UNCHANGED <<worker, ticker, todo, writer, stop>>

(* Mutant of CallCancels: the grab of the joined attempt is not cancelled. *)
CallWaitsOnly(c) ==
    /\ caller[c].stage = "joined"
    /\ caller' = [caller EXCEPT ![c].stage = "waiting"]
    /\ UNCHANGED <<attempts, worker, ticker, todo, writer, stop>>

\* The joined attempt need not have the lock: its grab is cancelled.
CallCancels(c) ==
    /\ caller[c].stage = "joined"
    /\ cancelled' = cancelled \cup {caller[c].attempt}
    /\ caller' = [caller EXCEPT ![c].stage = "waiting"]
    /\ UNCHANGED <<inflight, done, queue, worker, ticker, todo, writer, stop>>

(* Mutant of CallReturns: the wait is left out. *)
CallReturnsAtOnce(c) ==
    /\ caller[c].stage = "waiting"
    /\ caller' = [caller EXCEPT ![c] = Resting]
    /\ UNCHANGED <<inflight, queue, worker, ticker, todo, writer, stop>>
    /\ Collect

\* rs.Wait() returns, and the request releases the lock.
CallReturns(c) ==
    /\ caller[c].stage = "waiting"
    /\ caller[c].attempt \in done
    /\ caller' = [caller EXCEPT ![c] = Resting]
    /\ UNCHANGED <<inflight, queue, worker, ticker, todo, writer, stop>>
    /\ Collect

-----------------------------------------------------------------------------
(* attemptRollback on a worker.                                            *)

\* An attempt that a caller started runs under the lock of that caller.
JobTaken(w, p) ==
    /\ stop # "stopped"
    /\ worker[w].stage = "idle"
    /\ \E j \in queue :
        /\ j.path = p
        /\ queue' = queue \ {j}
        /\ worker' = [worker EXCEPT ![w] =
                        [stage |-> IF j.grabStatelock THEN "lock" ELSE "lent",
                         attempt |-> j.attempt, path |-> p]]
    /\ UNCHANGED <<inflight, cancelled, done, caller, ticker, todo, writer, stop>>

\* The state lock is granted unless a writer holds it or waits for it.
JobLocks(w) ==
    /\ worker[w].stage = "lock"
    /\ writer = "none"
    /\ worker' = [worker EXCEPT ![w].stage = "locked"]
    /\ UNCHANGED <<attempts, caller, ticker, todo, writer, stop>>

\* The grab was cancelled by a caller, whose lock protects the operation.
JobIsLent(w) ==
    /\ worker[w].stage = "lock"
    /\ worker[w].attempt \in cancelled
    /\ ~ShuttingDown
    /\ worker' = [worker EXCEPT ![w].stage = "lent"]
    /\ UNCHANGED <<attempts, caller, ticker, todo, writer, stop>>

(* Mutant of JobAborts: the wait ends only when Stop has returned. *)
JobWaitsOn(w) ==
    /\ worker[w].stage = "lock"
    /\ stop = "stopped"
    /\ worker' = [worker EXCEPT ![w].stage = "routed"]
    /\ UNCHANGED <<attempts, caller, ticker, todo, writer, stop>>

\* The manager shuts down: the attempt fails without an operation.
JobAborts(w) ==
    /\ worker[w].stage = "lock"
    /\ ShuttingDown
    /\ worker' = [worker EXCEPT ![w].stage = "routed"]
    /\ UNCHANGED <<attempts, caller, ticker, todo, writer, stop>>

\* The operation ends, and a lock taken for it is released.
JobRoutes(w) ==
    /\ Routing(w)
    /\ worker' = [worker EXCEPT ![w].stage = "routed"]
    /\ UNCHANGED <<attempts, caller, ticker, todo, writer, stop>>

\* finishRollback: first the waiters are released ...
JobFinishes(w) ==
    /\ worker[w].stage = "routed"
    /\ done' = done \cup {worker[w].attempt}
    /\ worker' = [worker EXCEPT ![w].stage = "done"]
    /\ UNCHANGED <<inflight, cancelled, queue, caller, ticker, todo, writer, stop>>

\* ... then the attempt is removed from inflight, under inflightLock.
JobForgotten(w) ==
    /\ worker[w].stage = "done"
    /\ inflight' = [inflight EXCEPT ![worker[w].path] = 0]
    /\ worker' = [worker EXCEPT ![w] = Resting]
    /\ UNCHANGED <<queue, caller, ticker, todo, writer, stop>>
    /\ Collect

-----------------------------------------------------------------------------
(* The HA loop: the state lock for writing, and Stop.                      *)

WantLock ==
    /\ writer = "none"
    /\ stop = "running"
    /\ writer' = "waiting"
    /\ UNCHANGED <<attempts, worker, caller, ticker, todo, stop>>

GrabLock ==
    /\ writer = "waiting"
    /\ \A w \in Worker : ~WorkerReads(w)
    /\ \A c \in Caller : ~CallerReads(c)
    /\ writer' = "held"
    /\ UNCHANGED <<attempts, worker, caller, ticker, todo, stop>>

\* The writer had other business.
ReleaseLock ==
    /\ writer = "held"
    /\ stop = "running"
    /\ writer' = "none"
    /\ UNCHANGED <<attempts, worker, caller, ticker, todo, stop>>

\* preSeal: cancelNamespaceDeletion lets no deletion begin ...
PreSeal ==
    /\ writer = "held"
    /\ stop = "running"
    /\ writer' = "sealing"
    /\ UNCHANGED <<attempts, worker, caller, ticker, todo, stop>>

\* ... and waits for the ones under way; then stopRollback.
StopCloses ==
    /\ writer = "sealing"
    /\ \A c \in Deleter : caller[c].stage = "idle"
    /\ stop = "running"
    /\ stop' = "closed"
    /\ UNCHANGED <<attempts, worker, caller, ticker, todo, writer>>

\* doneCh is closed and jobManager.Stop() returns: no worker has a job, and
\* what is queued stays there.
StopReturns ==
    /\ stop = "closed"
    /\ ticker = "done"
    /\ \A w \in Worker : worker[w].stage = "idle"
    /\ stop' = "stopped"
    /\ UNCHANGED <<attempts, worker, caller, ticker, todo, writer>>

-----------------------------------------------------------------------------
Ticking == Tick \/ (\E p \in Path : Trigger(p)) \/ TickEnds

Calling(c) == CallJoins(c) \/ CallCancels(c) \/ CallReturns(c)

Running(w) ==
    JobIsLent(w) \/ JobAborts(w) \/ JobRoutes(w) \/ JobFinishes(w) \/ JobForgotten(w)

Handing == \E w \in Worker, p \in Path : JobTaken(w, p)

Next ==
    \/ Ticking \/ TickerQuits
    \/ \E c \in Caller : Calling(c) \/ \E p \in Removed : CallBegins(c, p)
    \/ \E w \in Worker : Running(w) \/ JobLocks(w)
    \/ Handing
    \/ WantLock \/ GrabLock \/ ReleaseLock \/ PreSeal \/ StopCloses \/ StopReturns

\* Goroutines run; select picks among ready cases at random, and a reader
\* that waits gets the lock when the writer lets go, hence the strong
\* fairness; an idle worker is given some job; backends return.
Fairness ==
    /\ WF_vars(\E p \in Path : Trigger(p)) /\ WF_vars(TickEnds) /\ SF_vars(TickerQuits)
    /\ \A c \in Caller : WF_vars(Calling(c))
    /\ \A w \in Worker : WF_vars(Running(w)) /\ SF_vars(JobLocks(w))
    /\ WF_vars(Handing)
    /\ WF_vars(GrabLock) /\ WF_vars(ReleaseLock \/ PreSeal)
    /\ WF_vars(StopCloses) /\ WF_vars(StopReturns)

Spec == Init /\ [][Next]_vars /\ Fairness

-----------------------------------------------------------------------------
\* The variables have their types.
TypeOK ==
    /\ inflight \in [Path -> 0 .. MaxAttempt]
    /\ cancelled \subseteq Attempt /\ done \subseteq Attempt
    /\ queue \subseteq [attempt : Attempt, path : Path, grabStatelock : BOOLEAN]
    /\ worker \in [Worker -> [stage : {"idle", "lock", "locked", "lent", "routed", "done"},
                              attempt : 0 .. MaxAttempt, path : Path \cup {NoPath}]]
    /\ caller \in [Caller -> [stage : {"idle", "call", "joined", "waiting"},
                              attempt : 0 .. MaxAttempt, path : Path \cup {NoPath}]]
    /\ ticker \in {"wait", "trigger", "done"}
    /\ todo \subseteq Path
    /\ writer \in {"none", "waiting", "held", "sealing"}
    /\ stop \in {"running", "closed", "stopped"}

\* "It ensures that only one rollback operation is in-flight at any given
\* time" (rollback.go): a path has at most one attempt that is queued or with
\* a worker, whoever started, joined or finished one in between.
OneAtATime ==
    /\ \A v, w \in Worker :
        v # w /\ worker[v].path = worker[w].path => worker[v].stage = "idle"
    /\ \A j \in queue :
        /\ \A w \in Worker : worker[w].path # j.path
        /\ \A k \in queue : j.path = k.path => j = k

\* A caller waits for the attempt a, or is about to.
Awaits(c, a) == caller[c].attempt = a /\ caller[c].stage \in {"joined", "waiting"}

\* No rollback runs beside the holder of the state lock for writing, except
\* one that the deletion of a namespace waits for: it has no lock to lend,
\* against "Caller should have core's statelock held (write OR read)"
\* (rollback.go).  While the manager stops there is none at all.
Protected ==
    \A w \in Worker : Routing(w) /\ writer \in {"held", "sealing"} =>
        stop = "running" /\ \E c \in Deleter : Awaits(c, worker[w].attempt)

\* Every worker waits for the state lock, which a writer has or wants, and
\* the attempt that the writer's way depends on is not even begun: a request
\* that holds the lock waits for it, or a deletion that preSeal waits for.
Jammed ==
    /\ stop = "running" /\ writer \in {"waiting", "sealing"}
    /\ \A w \in Worker : worker[w].stage = "lock"
    /\ \E c \in Caller, j \in queue :
        Awaits(c, j.attempt) /\ (CallerReads(c) \/ writer = "sealing")

\* preSeal gets past the rollback manager, although it holds the lock that
\* attempts are waiting for, unless the workers are jammed.
StopEnds == [](writer = "sealing" => <>(stop = "stopped" \/ []Jammed))

\* Every call of Rollback returns, although the caller has the lock that a
\* writer waits for and that keeps the attempts of the ticker waiting: "the
\* other thread either already has the lock held, or we just canceled it"
\* (rollback.go).  There need not be another thread: with fewer workers than
\* mounts they can be jammed; nor is it given one while the job manager hands
\* out other jobs for ever.
CallsReturn ==
    <>[][~Handing]_vars =>
        \A c \in Caller :
            [](caller[c].stage = "call" => <>(caller[c].stage = "idle" \/ []Jammed))
=============================================================================
