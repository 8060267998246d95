------------------------------- MODULE FairShare -------------------------------
(***************************************************************************)
(* The fair-sharing job manager: internal/helper/fairshare/jobmanager.go   *)
(* and workerpool.go.                                                      *)
(*                                                                         *)
(* Jobs wait in queues.  One goroutine takes them from the queues in turn  *)
(* and hands each to a worker through an unbuffered channel; a queue that  *)
(* has its share of the workers is passed over.  The share is computed     *)
(* from workerCount, which a worker changes after it has taken a job and   *)
(* again after it has executed it.                                         *)
(*                                                                         *)
(* pending is a history variable: the jobs that were added and have not    *)
(* been executed.  An executed job may be added once more.                 *)
(***************************************************************************)
EXTENDS Integers, Sequences, FiniteSets

CONSTANTS
  Job, Queue, Worker,
  QueueOf,        \* the queue that a job is added to
  NoJob

ASSUME JobAssumption ==
  /\ QueueOf \in [Job -> Queue]
  /\ NoJob \notin Job

ASSUME WorkerAssumption == IsFiniteSet(Worker) /\ Worker # {}

VARIABLES
  queues, queuesIndex, lastQueueAccessed, totalJobs,
  workerCount,
  signals,          \* the AddJob calls that have yet to send on newWork
  newWork,          \* whether the channel's one place is taken
  quit, poolQuit,   \* the closed channels of the manager and of the pool
  stopper,          \* the call of Stop
  assigner,         \* the goroutine of assignWork
  worker,
  pending

queueVars == <<queues, queuesIndex, lastQueueAccessed, totalJobs>>
stopVars  == <<quit, poolQuit, stopper>>
vars == <<queueVars, workerCount, signals, newWork, stopVars, assigner, worker,
          pending>>

-----------------------------------------------------------------------------
(* The maps queues and workerCount have the keys of their domains.         *)

NumWorkers == Cardinality(Worker)

JobsIn(q) == IF q \in DOMAIN queues THEN queues[q] ELSE <<>>
Count(q) == IF q \in DOMAIN workerCount THEN workerCount[q] ELSE 0

SetKey(map, q, value) ==
  [x \in DOMAIN map \cup {q} |-> IF x = q THEN value ELSE map[x]]
DeleteKey(map, q) == [x \in DOMAIN map \ {q} |-> map[x]]

\* ceil(0.9 * numTotalWorkers / numActiveQueues).
MaxWorkersPerQueue ==
  LET active == 10 * Cardinality(DOMAIN queues)
  IN  (9 * NumWorkers + active - 1) \div active

queueWorkersSaturated(q) == Count(q) >= MaxWorkersPerQueue

\* Mutant of decremented: a count is dropped with its queue.
DecrementedBlindly(q) ==
  IF q \notin DOMAIN queues THEN DeleteKey(workerCount, q)
  ELSE SetKey(workerCount, q, Count(q) - 1)

\* incrementWorkerCount and decrementWorkerCount.
incremented(q) == SetKey(workerCount, q, Count(q) + 1)
decremented(q) ==
  IF q \notin DOMAIN queues /\ Count(q) - 1 < 1 THEN DeleteKey(workerCount, q)
  ELSE SetKey(workerCount, q, Count(q) - 1)

\* Mutant of tracked: a queue that comes back loses its count.
Wiped(q) == SetKey(workerCount, q, 0)

\* addQueue starts to count, unless jobs of the pruned queue are still counted.
tracked(q) == IF q \in DOMAIN workerCount THEN workerCount ELSE SetKey(workerCount, q, 0)

-----------------------------------------------------------------------------
(* Callers.                                                                *)

\* AddJob, with addQueue for a queue that is not there.
AddJob(job) ==
  LET q     == QueueOf[job]
      fresh == q \notin DOMAIN queues
  IN  /\ job \notin pending
      /\ queues' = SetKey(queues, q, Append(JobsIn(q), job))
      /\ queuesIndex' = IF fresh THEN Append(queuesIndex, q) ELSE queuesIndex
      /\ workerCount' = IF fresh THEN tracked(q) ELSE workerCount
      /\ totalJobs' = totalJobs + 1
      /\ signals' = IF DOMAIN queues = {} THEN signals \cup {job} ELSE signals
      /\ pending' = pending \cup {job}
      /\ UNCHANGED <<lastQueueAccessed, newWork, stopVars, assigner, worker>>

\* The deferred send of AddJob, after the lock is released.  It does not block.
SignalNewWork(job) ==
  /\ job \in signals
  /\ signals' = signals \ {job}
  /\ newWork' = TRUE
  /\ UNCHANGED <<queueVars, workerCount, stopVars, assigner, worker, pending>>

\* Start, with dispatcher.start.  The callers start a manager when they create
\* it, before anything can stop it.
Start ==
  /\ assigner.pc = "new"
  /\ ~quit
  /\ assigner' = [assigner EXCEPT !.pc = "select"]
  /\ worker' = [w \in Worker |-> [worker[w] EXCEPT !.pc = "idle"]]
  /\ UNCHANGED <<queueVars, workerCount, signals, newWork, stopVars, pending>>

\* Stop closes quit, waits for the assigner, closes the pool's channel and
\* waits for the workers.
Stop ==
  /\ stopper = "none"
  /\ stopper' = "assigner"
  /\ quit' = TRUE
  /\ UNCHANGED <<queueVars, workerCount, signals, newWork, poolQuit, assigner, worker,
                 pending>>

\* Mutant of AssignerGone: Stop does not wait.
NoWait == TRUE

AssignerGone == assigner.pc \in {"new", "stopped"}

\* Mutant of ClosePool: dispatcher.stop waits for the workers before it closes
\* the channel that they listen on.
NotYetClosed == UNCHANGED poolQuit

ClosePool == poolQuit' = TRUE

StopPool ==
  /\ stopper = "assigner"
  /\ AssignerGone
  /\ stopper' = "workers"
  /\ ClosePool
  /\ UNCHANGED <<queueVars, workerCount, signals, newWork, quit, assigner, worker,
                 pending>>

StopReturns ==
  /\ stopper = "workers"
  /\ \A w \in Worker : worker[w].pc \in {"off", "exited"}
  /\ stopper' = "done"
  /\ UNCHANGED <<queueVars, workerCount, signals, newWork, quit, poolQuit, assigner,
                 worker, pending>>

-----------------------------------------------------------------------------
(* assignWork.                                                             *)

\* The select at the top of the inner loop: any ready case, or the default.
SelectNewWork ==
  /\ assigner.pc = "select"
  /\ newWork \/ ~quit
  /\ newWork' = FALSE
  /\ assigner' = [assigner EXCEPT !.pc = "next"]
  /\ UNCHANGED <<queueVars, workerCount, signals, stopVars, worker, pending>>

Quit ==
  /\ assigner.pc \in {"select", "wait"}
  /\ quit
  /\ assigner' = [assigner EXCEPT !.pc = "stopped"]
  /\ UNCHANGED <<queueVars, workerCount, signals, newWork, stopVars, worker, pending>>

\* The index that the loop of getNextQueue looks at in iteration i, and the
\* iterations that find an eligible queue.
QueueIdx(i) == (lastQueueAccessed + i) % Len(queuesIndex)
Eligible ==
  {i \in 1 .. Len(queuesIndex) : ~queueWorkersSaturated(queuesIndex[QueueIdx(i) + 1])}

\* Mutant of CorrectedIndex: the index is left where it is.
UncorrectedIndex(idx) == idx

\* The correction of lastQueueAccessed when the queue at idx is removed.
CorrectedIndex(idx) == IF idx > 0 THEN idx - 1 ELSE Len(queuesIndex) - 2

removeQueueAt(idx) ==
  SubSeq(queuesIndex, 1, idx) \o SubSeq(queuesIndex, idx + 2, Len(queuesIndex))

\* Mutant of Emptied: the queue is pruned one job too early.
AlmostEmptied(rest) == Len(rest) <= 1

Emptied(rest) == rest = <<>>

\* getNextJob finds a job: the first of the next eligible queue.
NextJob ==
  /\ assigner.pc = "next"
  /\ \E i \in Eligible :
       LET idx  == QueueIdx(i)
           q    == queuesIndex[idx + 1]
           rest == Tail(queues[q])
       IN  /\ \A e \in Eligible : i <= e
           /\ totalJobs' = totalJobs - 1
           /\ IF Emptied(rest)
              THEN /\ queues' = DeleteKey(queues, q)
                   /\ queuesIndex' = removeQueueAt(idx)
                   /\ lastQueueAccessed' = CorrectedIndex(idx)
              ELSE /\ queues' = SetKey(queues, q, rest)
                   /\ lastQueueAccessed' = idx
                   /\ UNCHANGED queuesIndex
           /\ assigner' = [pc |-> "dispatch", job |-> Head(queues[q])]
  /\ UNCHANGED <<workerCount, signals, newWork, stopVars, worker, pending>>

NoNextJob ==
  /\ assigner.pc = "next"
  /\ Eligible = {}
  /\ assigner' = [assigner EXCEPT !.pc = "wait"]
  /\ UNCHANGED <<queueVars, workerCount, signals, newWork, stopVars, worker, pending>>

\* dispatch: a worker that listens takes the job.  The other case of the
\* select, that the pool was shut down, never comes up: see StopIsFinal.
Dispatch(w) ==
  /\ assigner.pc = "dispatch"
  /\ worker[w].pc = "idle"
  /\ worker' = [worker EXCEPT ![w] =
                  [pc |-> "taken", job |-> assigner.job]]
  /\ assigner' = [assigner EXCEPT !.pc = "select", !.job = NoJob]
  /\ UNCHANGED <<queueVars, workerCount, signals, newWork, stopVars, pending>>

\* The second select: new work, or the ticker.
WaitNewWork ==
  /\ assigner.pc = "wait"
  /\ newWork
  /\ newWork' = FALSE
  /\ assigner' = [assigner EXCEPT !.pc = "select"]
  /\ UNCHANGED <<queueVars, workerCount, signals, stopVars, worker, pending>>

\* Mutant of Ticks: the goroutine waits for new work only.
NoTick == FALSE

Ticks == assigner.pc = "wait"

Tick ==
  /\ Ticks
  /\ assigner' = [assigner EXCEPT !.pc = "select"]
  /\ UNCHANGED <<queueVars, workerCount, signals, newWork, stopVars, worker, pending>>

-----------------------------------------------------------------------------
(* Workers.                                                                *)

\* init: the job is counted.
CountWorker(w) ==
  /\ worker[w].pc = "taken"
  /\ workerCount' = incremented(QueueOf[worker[w].job])
  /\ worker' = [worker EXCEPT ![w].pc = "running"]
  /\ UNCHANGED <<queueVars, signals, newWork, stopVars, assigner, pending>>

\* Execute, and OnFailure when it fails.
Execute(w) ==
  /\ worker[w].pc = "running"
  /\ worker' = [worker EXCEPT ![w].pc = "executed"]
  /\ pending' = pending \ {worker[w].job}
  /\ UNCHANGED <<queueVars, workerCount, signals, newWork, stopVars, assigner>>

\* cleanup: the job is no longer counted.
Cleanup(w) ==
  /\ worker[w].pc = "executed"
  /\ workerCount' = decremented(QueueOf[worker[w].job])
  /\ worker' = [worker EXCEPT ![w] = [pc |-> "idle", job |-> NoJob]]
  /\ UNCHANGED <<queueVars, signals, newWork, stopVars, assigner, pending>>

WorkerQuits(w) ==
  /\ worker[w].pc = "idle"
  /\ poolQuit
  /\ worker' = [worker EXCEPT ![w].pc = "exited"]
  /\ UNCHANGED <<queueVars, workerCount, signals, newWork, stopVars, assigner, pending>>

-----------------------------------------------------------------------------
Init ==
  /\ queues = [q \in {} |-> <<>>]
  /\ queuesIndex = <<>>
  /\ lastQueueAccessed = -1
  /\ totalJobs = 0
  /\ workerCount = [q \in {} |-> 0]
  /\ signals = {}
  /\ newWork = FALSE
  /\ quit = FALSE /\ poolQuit = FALSE /\ stopper = "none"
  /\ assigner = [pc |-> "new", job |-> NoJob]
  /\ worker = [w \in Worker |-> [pc |-> "off", job |-> NoJob]]
  /\ pending = {}

AssignerStep ==
  SelectNewWork \/ Quit \/ NextJob \/ NoNextJob \/ WaitNewWork \/ Tick
     \/ \E w \in Worker : Dispatch(w)

WorkerStep(w) == CountWorker(w) \/ Execute(w) \/ Cleanup(w) \/ WorkerQuits(w)

Next ==
  \/ \E job \in Job : AddJob(job) \/ SignalNewWork(job)
  \/ Start \/ Stop \/ StopPool \/ StopReturns
  \/ AssignerStep
  \/ \E w \in Worker : WorkerStep(w)

Spec == Init /\ [][Next]_vars

\* The goroutines are scheduled, a call of Stop goes on, the manager is
\* started, and a job's Execute returns.  Nobody has to add a job or to stop.
\* A select with several ready cases chooses among them at random, so it does
\* not pass over a closed quit for ever.
Fairness ==
  /\ WF_vars(Start) /\ WF_vars(AssignerStep) /\ SF_vars(Quit)
  /\ WF_vars(StopPool) /\ WF_vars(StopReturns)
  /\ \A w \in Worker : WF_vars(WorkerStep(w))
  /\ \A job \in Job : WF_vars(SignalNewWork(job))

FairSpec == Spec /\ Fairness

-----------------------------------------------------------------------------
(* Properties.                                                             *)

\* The variables have their types: the state of JobManager, of dispatcher and
\* of their goroutines.
TypeOK ==
  /\ DOMAIN queues \subseteq Queue /\ \A q \in DOMAIN queues : queues[q] \in Seq(Job)
  /\ queuesIndex \in Seq(Queue)
  /\ lastQueueAccessed \in Int /\ totalJobs \in Nat
  /\ DOMAIN workerCount \subseteq Queue
  /\ \A q \in DOMAIN workerCount : workerCount[q] \in Nat
  /\ signals \subseteq Job /\ newWork \in BOOLEAN
  /\ quit \in BOOLEAN /\ poolQuit \in BOOLEAN
  /\ stopper \in {"none", "assigner", "workers", "done"}
  /\ assigner \in [pc : {"new", "select", "next", "dispatch", "wait", "stopped"},
                   job : Job \cup {NoJob}]
  /\ worker \in [Worker -> [pc : {"off", "idle", "taken", "running", "executed", "exited"},
                            job : Job \cup {NoJob}]]
  /\ pending \subseteq Job

\* The round robin covers every queue: queuesIndex lists each key of queues
\* once, an emptied queue is pruned from both, and lastQueueAccessed stays
\* inside the list whatever getNextJob prunes and AddJob appends
\* (removeLastQueueAccessed, addQueue).
QueuesIndexed ==
  /\ \A i, k \in DOMAIN queuesIndex : queuesIndex[i] = queuesIndex[k] => i = k
  /\ {queuesIndex[i] : i \in DOMAIN queuesIndex} = DOMAIN queues
  /\ \A q \in DOMAIN queues : queues[q] # <<>>
  /\ lastQueueAccessed \in -1 .. Len(queuesIndex) - 1

\* The places where a job that has yet to be executed can be.
QueuePlaces(job) ==
  {p \in (DOMAIN queues) \X (1 .. totalJobs) :
     p[2] \in DOMAIN queues[p[1]] /\ queues[p[1]][p[2]] = job}
Carriers(job) == {w \in Worker : worker[w].pc \in {"taken", "running"} /\ worker[w].job = job}
Held(job) == assigner.pc = "dispatch" /\ assigner.job = job

\* No job is lost or run twice: a job that was added and not executed is in one
\* place of its own queue, or in the hands of the assigner or of one worker; any
\* other job is nowhere; and totalJobs counts the ones that wait (AddJob,
\* getNextJob, dispatch, worker.start).
NoJobLost ==
  /\ \A job \in Job :
       LET places == QueuePlaces(job)
           where  == Cardinality(places) + Cardinality(Carriers(job))
                       + (IF Held(job) THEN 1 ELSE 0)
       IN  /\ where = IF job \in pending THEN 1 ELSE 0
           /\ \A p \in places : p[1] = QueueOf[job]
  /\ totalJobs = Cardinality({job \in Job : QueuePlaces(job) # {}})

\* The workers that run a job of q between init and cleanup.
Running(q) ==
  {w \in Worker : worker[w].pc \in {"running", "executed"} /\ QueueOf[worker[w].job] = q}

\* The counts behind the fair share are neither lost nor left behind: whatever
\* prunes and recreates of a queue came between the increment and the decrement
\* of a job, workerCount has the number of running jobs, and no key remains for a
\* queue that is gone and has no job with a worker (decrementWorkerCount,
\* addQueue).
CountsAreTrue ==
  /\ \A q \in Queue : Count(q) = Cardinality(Running(q))
  /\ \A q \in DOMAIN workerCount :
       \/ q \in DOMAIN queues
       \/ assigner.pc = "dispatch" /\ QueueOf[assigner.job] = q
       \/ \E w \in Worker : worker[w].job # NoJob /\ QueueOf[worker[w].job] = q

\* Stop is final: the pool is shut down only after the assigner has stopped, so
\* that no dispatched job is dropped, and when Stop has returned no job is with
\* the assigner or with a worker (Stop, dispatcher.stop).
StopIsFinal ==
  /\ poolQuit => AssignerGone
  /\ stopper = "done" => \A job \in Job : Carriers(job) = {} /\ ~Held(job)

\* A call of Stop returns, also when it comes while dispatch waits for a worker
\* (Stop, dispatch).
StopEnds == stopper = "assigner" ~> stopper = "done"

\* Every added job is executed, unless the manager is stopped or callers add
\* jobs for ever: no wakeup is lost between AddJob and the assigner, and a queue
\* that was saturated is looked at again (assignWork, getNextQueue).  While jobs
\* are added, a queue that is emptied and comes back before the next look is at
\* the end of queuesIndex and next in turn, and the others can wait for ever.
NoMoreJobs == <>[][\A job \in Job : ~AddJob(job)]_vars
EveryJobRuns ==
  NoMoreJobs => \A job \in Job : job \in pending ~> (job \notin pending \/ quit)
=============================================================================
