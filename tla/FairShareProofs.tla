---------------------------- MODULE FairShareProofs ----------------------------
(***************************************************************************)
(* What is proved of FairShare for any number of workers, queues and jobs: *)
(* Stop is final, the round robin covers every queue, the counts behind    *)
(* the fair share are true, and no job is lost or run twice.               *)
(***************************************************************************)
EXTENDS FairShare, SequenceTheorems, FiniteSetTheorems, TLAPS

AssignerPcs == {"new", "select", "next", "dispatch", "wait", "stopped"}
WorkerPcs   == {"off", "idle", "taken", "running", "executed", "exited"}

\* The shape of the records that the steps change field by field.
ShapeInv ==
  /\ assigner = [pc |-> assigner.pc, job |-> assigner.job]
  /\ assigner.pc \in AssignerPcs
  /\ worker = [w \in Worker |-> [pc |-> worker[w].pc, job |-> worker[w].job]]
  /\ \A w \in Worker : worker[w].pc \in WorkerPcs

\* How far Stop has come, and what it has waited for.
StopInv ==
  /\ stopper \in {"none", "assigner", "workers", "done"}
  /\ quit => stopper # "none"
  /\ stopper # "none" => quit
  /\ poolQuit => stopper \in {"workers", "done"}
  /\ stopper \in {"workers", "done"} => poolQuit
  /\ poolQuit => AssignerGone
  /\ stopper = "done" => \A w \in Worker : worker[w].pc \in {"off", "exited"}

FinalInv == ShapeInv /\ StopInv

\* The steps that leave the goroutines and Stop alone.
LEMMA FinalKept ==
  ASSUME FinalInv, UNCHANGED <<stopVars, assigner, worker>>
  PROVE  FinalInv'
  BY DEF FinalInv, ShapeInv, StopInv, stopVars, AssignerGone

\* The steps of the assigner that give no job to a worker: it has not stopped
\* before, so that the pool is open.
LEMMA FinalAssigner ==
  ASSUME FinalInv, ~AssignerGone,
         NEW pc \in AssignerPcs, NEW job,
         assigner' = [pc |-> pc, job |-> job],
         UNCHANGED <<stopVars, worker>>
  PROVE  FinalInv'
<1>1. ~poolQuit
  BY DEF FinalInv, StopInv
<1>2. ShapeInv'
  BY DEF FinalInv, ShapeInv
<1>3. StopInv'
  BY <1>1 DEF FinalInv, StopInv, stopVars
<1> QED
  BY <1>2, <1>3 DEF FinalInv

\* The steps of one worker that is not gone, while Stop has not returned.
LEMMA FinalWorker ==
  ASSUME FinalInv, NEW w \in Worker, worker[w].pc \notin {"off", "exited"},
         NEW pc \in WorkerPcs, NEW job,
         worker' = [worker EXCEPT ![w] = [pc |-> pc, job |-> job]],
         UNCHANGED <<stopVars, assigner>>
  PROVE  FinalInv'
<1>1. stopper # "done"
  BY DEF FinalInv, StopInv
<1>2. ShapeInv'
  BY DEF FinalInv, ShapeInv
<1>3. StopInv'
  BY <1>1 DEF FinalInv, StopInv, stopVars, AssignerGone
<1> QED
  BY <1>2, <1>3 DEF FinalInv

\* A step that changes the pc of one worker.
LEMMA PcOfWorker ==
  ASSUME ShapeInv, NEW w \in Worker, NEW pc
  PROVE  [worker EXCEPT ![w].pc = pc]
           = [worker EXCEPT ![w] = [pc |-> pc, job |-> worker[w].job]]
<1>1. worker[w] = [pc |-> worker[w].pc, job |-> worker[w].job]
  BY DEF ShapeInv
<1>2. [worker[w] EXCEPT !.pc = pc] = [pc |-> pc, job |-> worker[w].job]
  BY <1>1
<1> QED
  BY <1>2

\* Initially nothing has been started or stopped.
LEMMA FinalInit == Init => FinalInv
<1>1. Init => ShapeInv
  BY DEF Init, ShapeInv, AssignerPcs, WorkerPcs
<1>2. Init => StopInv
  BY DEF Init, StopInv
<1> QED
  BY <1>1, <1>2 DEF FinalInv

\* Every step of the manager keeps what FinalInv says of Stop.
LEMMA FinalNext == FinalInv /\ [Next]_vars => FinalInv'
<1> SUFFICES ASSUME FinalInv, [Next]_vars PROVE FinalInv'
  OBVIOUS
<1>1. ASSUME NEW job \in Job, AddJob(job) PROVE FinalInv'
  BY <1>1, FinalKept DEF AddJob
<1>2. ASSUME NEW job \in Job, SignalNewWork(job) PROVE FinalInv'
  BY <1>2, FinalKept DEF SignalNewWork
<1>3. CASE Start
  <2>1. ~poolQuit /\ stopper = "none"
    BY <1>3 DEF FinalInv, StopInv, Start
  <2>2. ShapeInv'
    BY <1>3 DEF FinalInv, ShapeInv, Start, AssignerPcs, WorkerPcs
  <2>3. StopInv'
    BY <1>3, <2>1 DEF FinalInv, StopInv, Start, stopVars
  <2> QED
    BY <2>2, <2>3 DEF FinalInv
<1>4. CASE Stop
  BY <1>4 DEF FinalInv, ShapeInv, StopInv, Stop, AssignerGone
<1>5. CASE StopPool
  BY <1>5 DEF FinalInv, ShapeInv, StopInv, StopPool, ClosePool, AssignerGone
<1>6. CASE StopReturns
  BY <1>6 DEF FinalInv, ShapeInv, StopInv, StopReturns, AssignerGone
<1>7. CASE SelectNewWork
  BY <1>7, FinalAssigner DEF SelectNewWork, AssignerGone, FinalInv, ShapeInv, AssignerPcs
<1>8. CASE Quit
  BY <1>8, FinalAssigner DEF Quit, AssignerGone, FinalInv, ShapeInv, AssignerPcs
<1>9. CASE NextJob
  <2>1. PICK job : assigner' = [pc |-> "dispatch", job |-> job]
    BY <1>9 DEF NextJob
  <2> QED
    BY <1>9, <2>1, FinalAssigner DEF NextJob, AssignerGone, AssignerPcs
<1>10. CASE NoNextJob
  BY <1>10, FinalAssigner DEF NoNextJob, AssignerGone, FinalInv, ShapeInv, AssignerPcs
<1>11. CASE WaitNewWork
  BY <1>11, FinalAssigner DEF WaitNewWork, AssignerGone, FinalInv, ShapeInv, AssignerPcs
<1>12. CASE Tick
  BY <1>12, FinalAssigner DEF Tick, Ticks, AssignerGone, FinalInv, ShapeInv, AssignerPcs
<1>13. ASSUME NEW w \in Worker, Dispatch(w) PROVE FinalInv'
  <2>1. ~poolQuit
    BY <1>13 DEF FinalInv, StopInv, Dispatch, AssignerGone
  <2>2. stopper # "done"
    BY <2>1 DEF FinalInv, StopInv
  <2>3. ShapeInv'
    BY <1>13 DEF FinalInv, ShapeInv, Dispatch, AssignerPcs, WorkerPcs
  <2>4. StopInv'
    BY <1>13, <2>1, <2>2 DEF FinalInv, StopInv, Dispatch, stopVars
  <2> QED
    BY <2>3, <2>4 DEF FinalInv
<1>14. ASSUME NEW w \in Worker, CountWorker(w) PROVE FinalInv'
  <2>1. worker' = [worker EXCEPT ![w] = [pc |-> "running", job |-> worker[w].job]]
    BY <1>14, PcOfWorker DEF CountWorker, FinalInv
  <2> QED
    BY <1>14, <2>1, FinalWorker DEF CountWorker, WorkerPcs
<1>15. ASSUME NEW w \in Worker, Execute(w) PROVE FinalInv'
  <2>1. worker' = [worker EXCEPT ![w] = [pc |-> "executed", job |-> worker[w].job]]
    BY <1>15, PcOfWorker DEF Execute, FinalInv
  <2> QED
    BY <1>15, <2>1, FinalWorker DEF Execute, WorkerPcs
<1>16. ASSUME NEW w \in Worker, Cleanup(w) PROVE FinalInv'
  BY <1>16, FinalWorker DEF Cleanup, WorkerPcs
<1>17. ASSUME NEW w \in Worker, WorkerQuits(w) PROVE FinalInv'
  <2>1. worker' = [worker EXCEPT ![w] = [pc |-> "exited", job |-> worker[w].job]]
    BY <1>17, PcOfWorker DEF WorkerQuits, FinalInv
  <2> QED
    BY <1>17, <2>1, FinalWorker DEF WorkerQuits, WorkerPcs
<1>18. CASE UNCHANGED vars
  BY <1>18, FinalKept DEF vars
<1> QED
  BY <1>1, <1>2, <1>3, <1>4, <1>5, <1>6, <1>7, <1>8, <1>9, <1>10, <1>11, <1>12,
     <1>13, <1>14, <1>15, <1>16, <1>17, <1>18 DEF Next, AssignerStep, WorkerStep

\* Stop is final: Stop (jobmanager.go) and dispatcher.stop never shut the pool
\* down while the assigner holds a job, and leave no job with a worker.
THEOREM StopFinal == Spec => []StopIsFinal
<1>1. FinalInv => StopIsFinal
  BY DEF FinalInv, ShapeInv, StopInv, StopIsFinal, AssignerGone, Carriers, Held
<1> QED
  BY <1>1, FinalInit, FinalNext, PTL DEF Spec
-----------------------------------------------------------------------------
(* The round robin.                                                        *)

\* QueuesIndexed with the types and contents of the queues.
IndexInv ==
  /\ queuesIndex \in Seq(Queue)
  /\ lastQueueAccessed \in Int
  /\ \A q \in DOMAIN queues :
       queues[q] \in Seq(Job) /\ \A i \in 1 .. Len(queues[q]) : QueueOf[queues[q][i]] = q
  /\ QueuesIndexed

\* What removing the queue at idx leaves of the index: removeQueueAt.
LEMMA RemoveQueueAt ==
  ASSUME IndexInv, NEW idx \in 0 .. Len(queuesIndex) - 1
  PROVE  /\ removeQueueAt(idx) \in Seq(Queue)
         /\ Len(removeQueueAt(idx)) = Len(queuesIndex) - 1
         /\ \A i \in 1 .. Len(queuesIndex) - 1 :
              removeQueueAt(idx)[i] = IF i <= idx THEN queuesIndex[i] ELSE queuesIndex[i + 1]
<1> DEFINE front == SubSeq(queuesIndex, 1, idx)
           back  == SubSeq(queuesIndex, idx + 2, Len(queuesIndex))
<1>1. queuesIndex \in Seq(Queue) /\ Len(queuesIndex) \in Nat
  BY DEF IndexInv
<1>2. front \in Seq(Queue) /\ Len(front) = idx
        /\ \A i \in 1 .. idx : front[i] = queuesIndex[i]
  BY <1>1
<1>3. back \in Seq(Queue) /\ Len(back) = Len(queuesIndex) - idx - 1
        /\ \A i \in 1 .. Len(queuesIndex) - idx - 1 : back[i] = queuesIndex[i + idx + 1]
  BY <1>1
<1>4. removeQueueAt(idx) = front \o back
  BY DEF removeQueueAt
<1> HIDE DEF front, back
<1>5. removeQueueAt(idx) \in Seq(Queue) /\ Len(removeQueueAt(idx)) = Len(queuesIndex) - 1
  <2>1. front \o back \in Seq(Queue) /\ Len(front \o back) = Len(front) + Len(back)
    BY <1>2, <1>3, ConcatProperties
  <2> QED
    BY <1>1, <1>2, <1>3, <1>4, <2>1
<1>6. ASSUME NEW i \in 1 .. Len(queuesIndex) - 1
      PROVE  removeQueueAt(idx)[i] = IF i <= idx THEN queuesIndex[i] ELSE queuesIndex[i + 1]
  <2>1. CASE i <= idx
    BY <1>1, <1>2, <1>3, <1>4, <2>1
  <2>2. CASE ~(i <= idx)
    <3>1. removeQueueAt(idx)[i] = back[i - idx]
      BY <1>1, <1>2, <1>3, <1>4, <2>2
    <3>2. i - idx \in 1 .. Len(queuesIndex) - idx - 1 /\ (i - idx) + idx + 1 = i + 1
      BY <1>1, <2>2
    <3> QED
      BY <1>3, <2>2, <3>1, <3>2
  <2> QED
    BY <2>1, <2>2
<1> QED
  BY <1>5, <1>6

\* The steps that leave the queues alone.
LEMMA IndexKept ==
  ASSUME IndexInv, UNCHANGED queueVars
  PROVE  IndexInv'
  BY DEF IndexInv, QueuesIndexed, queueVars

\* AddJob appends to a queue, and a queue that is not there to the index.
LEMMA IndexAddJob ==
  ASSUME IndexInv, NEW job \in Job, AddJob(job)
  PROVE  IndexInv'
<1> DEFINE q == QueueOf[job]
<1>1. q \in Queue
  BY JobAssumption
<1>2. JobsIn(q) \in Seq(Job) /\ \A i \in 1 .. Len(JobsIn(q)) : QueueOf[JobsIn(q)[i]] = q
  BY DEF JobsIn, IndexInv
<1>3. queues' = [x \in DOMAIN queues \cup {q} |->
                  IF x = q THEN Append(JobsIn(q), job) ELSE queues[x]]
  BY DEF AddJob, SetKey
<1>4. queuesIndex' = (IF q \notin DOMAIN queues THEN Append(queuesIndex, q) ELSE queuesIndex)
      /\ lastQueueAccessed' = lastQueueAccessed
  BY DEF AddJob
<1>5. Append(JobsIn(q), job) \in Seq(Job) /\ Append(JobsIn(q), job) # <<>>
      /\ \A i \in 1 .. Len(Append(JobsIn(q), job)) : QueueOf[Append(JobsIn(q), job)[i]] = q
  <2> DEFINE jobs == JobsIn(q)
  <2>1. jobs \in Seq(Job) /\ \A i \in 1 .. Len(jobs) : QueueOf[jobs[i]] = q
    BY <1>2
  <2> HIDE DEF jobs, q
  <2>2. /\ Append(jobs, job) \in Seq(Job) /\ Append(jobs, job) # <<>>
        /\ Len(Append(jobs, job)) = Len(jobs) + 1
        /\ \A i \in 1 .. Len(jobs) : Append(jobs, job)[i] = jobs[i]
        /\ Append(jobs, job)[Len(jobs) + 1] = job
        /\ Len(jobs) \in Nat
    BY <2>1, AppendProperties
  <2>3. \A i \in 1 .. Len(Append(jobs, job)) : QueueOf[Append(jobs, job)[i]] = q
    BY <2>1, <2>2 DEF q
  <2> QED
    BY <2>2, <2>3 DEF jobs
<1>6. \A x \in DOMAIN queues' :
        /\ queues'[x] \in Seq(Job) /\ queues'[x] # <<>>
        /\ \A i \in 1 .. Len(queues'[x]) : QueueOf[queues'[x][i]] = x
  BY <1>3, <1>5 DEF IndexInv, QueuesIndexed
<1>7. queuesIndex' \in Seq(Queue) /\ lastQueueAccessed' \in Int
  BY <1>1, <1>4 DEF IndexInv
<1>8. CASE q \in DOMAIN queues
  <2>1. DOMAIN queues' = DOMAIN queues
    BY <1>3, <1>8
  <2> QED
    BY <1>4, <1>6, <1>7, <1>8, <2>1 DEF IndexInv, QueuesIndexed
<1>9. CASE q \notin DOMAIN queues
  <2>1. DOMAIN queues' = DOMAIN queues \cup {q}
    BY <1>3
  <2>2. /\ queuesIndex' = Append(queuesIndex, q)
        /\ Len(queuesIndex') = Len(queuesIndex) + 1
        /\ queuesIndex'[Len(queuesIndex) + 1] = q
        /\ \A i \in 1 .. Len(queuesIndex) : queuesIndex'[i] = queuesIndex[i]
        /\ DOMAIN queuesIndex' = 1 .. Len(queuesIndex) + 1
        /\ DOMAIN queuesIndex = 1 .. Len(queuesIndex)
        /\ Len(queuesIndex) \in Nat
    BY <1>1, <1>4, <1>9 DEF IndexInv
  <2>3. \A i \in 1 .. Len(queuesIndex) : queuesIndex[i] # q /\ queuesIndex[i] \in DOMAIN queues
    BY <1>9, <2>2 DEF IndexInv, QueuesIndexed
  <2>4. \A i, k \in DOMAIN queuesIndex' : queuesIndex'[i] = queuesIndex'[k] => i = k
    BY <2>2, <2>3 DEF IndexInv, QueuesIndexed
  <2>5. {queuesIndex'[i] : i \in DOMAIN queuesIndex'} = DOMAIN queues'
    <3>1. ASSUME NEW i \in DOMAIN queuesIndex' PROVE queuesIndex'[i] \in DOMAIN queues'
      BY <2>1, <2>2, <2>3, <3>1
    <3>2. ASSUME NEW x \in DOMAIN queues' PROVE \E i \in DOMAIN queuesIndex' : queuesIndex'[i] = x
      <4>1. CASE x = q
        BY <2>2, <4>1
      <4>2. CASE x \in DOMAIN queues
        <5>1. PICK i \in DOMAIN queuesIndex : queuesIndex[i] = x
          BY <4>2 DEF IndexInv, QueuesIndexed
        <5> QED
          BY <2>2, <5>1
      <4> QED
        BY <2>1, <4>1, <4>2
    <3> QED
      BY <3>1, <3>2
  <2>6. lastQueueAccessed' \in -1 .. Len(queuesIndex') - 1
    BY <1>4, <2>2 DEF IndexInv, QueuesIndexed
  <2> QED
    BY <1>6, <1>7, <2>4, <2>5, <2>6 DEF IndexInv, QueuesIndexed
<1> QED
  BY <1>8, <1>9

\* getNextJob takes the head of a queue and prunes the queue that it empties.
LEMMA IndexNextJob ==
  ASSUME IndexInv, NextJob
  PROVE  /\ IndexInv'
         /\ assigner'.job \in Job
         /\ assigner' = [pc |-> "dispatch", job |-> assigner'.job]
         /\ DOMAIN queues \subseteq (DOMAIN queues)' \cup {QueueOf[assigner'.job]}
<1>1. PICK i \in Eligible :
        LET idx  == QueueIdx(i)
            q    == queuesIndex[idx + 1]
            rest == Tail(queues[q])
        IN  /\ IF Emptied(rest)
               THEN /\ queues' = DeleteKey(queues, q)
                    /\ queuesIndex' = removeQueueAt(idx)
                    /\ lastQueueAccessed' = CorrectedIndex(idx)
               ELSE /\ queues' = SetKey(queues, q, rest)
                    /\ lastQueueAccessed' = idx
                    /\ UNCHANGED queuesIndex
            /\ assigner' = [pc |-> "dispatch", job |-> Head(queues[q])]
  BY DEF NextJob
<1> DEFINE idx  == QueueIdx(i)
           q    == queuesIndex[idx + 1]
           rest == Tail(queues[q])
           n    == Len(queuesIndex)
<1>2. n \in Nat /\ i \in 1 .. n /\ DOMAIN queuesIndex = 1 .. n
  BY DEF Eligible, IndexInv
<1>3. idx \in 0 .. n - 1
  <2>1. lastQueueAccessed + i \in Nat /\ n \in Nat \ {0}
    BY <1>2 DEF IndexInv, QueuesIndexed
  <2> QED
    BY <2>1 DEF QueueIdx
<1>4. q \in DOMAIN queues
  BY <1>2, <1>3 DEF IndexInv, QueuesIndexed
<1>5. queues[q] \in Seq(Job) /\ queues[q] # <<>>
      /\ \A k \in 1 .. Len(queues[q]) : QueueOf[queues[q][k]] = q
  BY <1>4 DEF IndexInv, QueuesIndexed
<1>6. assigner' = [pc |-> "dispatch", job |-> Head(queues[q])]
  BY <1>1
<1>7. IF rest = <<>>
      THEN /\ queues' = [x \in DOMAIN queues \ {q} |-> queues[x]]
           /\ queuesIndex' = removeQueueAt(idx)
           /\ lastQueueAccessed' = CorrectedIndex(idx)
      ELSE /\ queues' = [x \in DOMAIN queues \cup {q} |->
                           IF x = q THEN rest ELSE queues[x]]
           /\ lastQueueAccessed' = idx
           /\ queuesIndex' = queuesIndex
  BY <1>1 DEF Emptied, DeleteKey, SetKey
<1> HIDE DEF idx, q
<1>8. Head(queues[q]) \in Job /\ QueueOf[Head(queues[q])] = q
  <2>1. Len(queues[q]) \in Nat \ {0} /\ Head(queues[q]) = queues[q][1]
        /\ Head(queues[q]) \in Job
    BY <1>5
  <2> QED
    BY <1>5, <2>1
<1>9. rest \in Seq(Job) /\ \A k \in 1 .. Len(rest) : QueueOf[rest[k]] = q
  <2>1. rest \in Seq(Job) /\ Len(rest) = Len(queues[q]) - 1 /\ Len(queues[q]) \in Nat
        /\ \A k \in 1 .. Len(rest) : rest[k] = queues[q][k + 1]
    BY <1>5, HeadTailProperties
  <2> QED
    BY <1>5, <2>1
<1> HIDE DEF rest
<1>10. IndexInv'
  <2>1. CASE rest # <<>>
    <3>1. DOMAIN queues' = DOMAIN queues /\ queuesIndex' = queuesIndex
          /\ lastQueueAccessed' = idx
      BY <1>4, <1>7, <2>1
    <3>2. \A x \in DOMAIN queues' :
            /\ queues'[x] \in Seq(Job) /\ queues'[x] # <<>>
            /\ \A k \in 1 .. Len(queues'[x]) : QueueOf[queues'[x][k]] = x
      <4>1. ASSUME NEW x \in DOMAIN queues, x = q PROVE queues'[x] = rest
        BY <1>7, <2>1, <4>1
      <4>2. ASSUME NEW x \in DOMAIN queues, x # q PROVE queues'[x] = queues[x]
        BY <1>7, <2>1, <4>2
      <4>3. \A x \in DOMAIN queues :
              /\ queues[x] \in Seq(Job) /\ queues[x] # <<>>
              /\ \A k \in 1 .. Len(queues[x]) : QueueOf[queues[x][k]] = x
        BY DEF IndexInv, QueuesIndexed
      <4> QED
        BY <1>9, <2>1, <3>1, <4>1, <4>2, <4>3
    <3> QED
      BY <1>2, <1>3, <3>1, <3>2 DEF IndexInv, QueuesIndexed
  <2>2. CASE rest = <<>>
    <3>1. /\ queues' = [x \in DOMAIN queues \ {q} |-> queues[x]]
          /\ DOMAIN queues' = DOMAIN queues \ {q}
          /\ queuesIndex' = removeQueueAt(idx)
          /\ lastQueueAccessed' = CorrectedIndex(idx)
      BY <1>7, <2>2
    <3>2. \A x \in DOMAIN queues' :
            /\ queues'[x] \in Seq(Job) /\ queues'[x] # <<>>
            /\ \A k \in 1 .. Len(queues'[x]) : QueueOf[queues'[x][k]] = x
      BY <3>1 DEF IndexInv, QueuesIndexed
    <3>3. /\ queuesIndex' \in Seq(Queue) /\ Len(queuesIndex') = n - 1
          /\ DOMAIN queuesIndex' = 1 .. n - 1
          /\ \A k \in 1 .. n - 1 :
               queuesIndex'[k] = IF k <= idx THEN queuesIndex[k] ELSE queuesIndex[k + 1]
      <4>1. /\ removeQueueAt(idx) \in Seq(Queue)
            /\ Len(removeQueueAt(idx)) = n - 1
            /\ \A k \in 1 .. n - 1 :
                 removeQueueAt(idx)[k] =
                   IF k <= idx THEN queuesIndex[k] ELSE queuesIndex[k + 1]
        BY <1>3, RemoveQueueAt
      <4>2. DOMAIN removeQueueAt(idx) = 1 .. n - 1
        BY <4>1
      <4> QED
        BY <3>1, <4>1, <4>2
    <3>4. lastQueueAccessed' \in -1 .. Len(queuesIndex') - 1
      BY <1>2, <1>3, <3>1, <3>3 DEF CorrectedIndex
    <3> DEFINE at(k) == IF k <= idx THEN k ELSE k + 1
    <3>5. \A k \in 1 .. n - 1 : at(k) \in 1 .. n /\ at(k) # idx + 1
                                /\ queuesIndex'[k] = queuesIndex[at(k)]
      BY <1>2, <1>3, <3>3
    <3>6. \A k, l \in 1 .. n - 1 : at(k) = at(l) => k = l
      BY <1>2, <1>3
    <3>7. \A j \in 1 .. n : j # idx + 1 => \E k \in 1 .. n - 1 : at(k) = j
      <4>1. ASSUME NEW j \in 1 .. n, j # idx + 1, j <= idx PROVE j \in 1 .. n - 1 /\ at(j) = j
        BY <1>2, <1>3, <4>1
      <4>2. ASSUME NEW j \in 1 .. n, j # idx + 1, ~(j <= idx)
            PROVE  j - 1 \in 1 .. n - 1 /\ at(j - 1) = j
        BY <1>2, <1>3, <4>2
      <4> QED
        BY <4>1, <4>2
    <3> HIDE DEF at
    <3>8. \A k, l \in DOMAIN queuesIndex' : queuesIndex'[k] = queuesIndex'[l] => k = l
      <4> SUFFICES ASSUME NEW k \in 1 .. n - 1, NEW l \in 1 .. n - 1,
                          queuesIndex'[k] = queuesIndex'[l]
                   PROVE  k = l
        BY <3>3
      <4>1. queuesIndex[at(k)] = queuesIndex[at(l)] /\ at(k) \in 1 .. n /\ at(l) \in 1 .. n
        BY <3>5
      <4>2. at(k) = at(l)
        BY <1>2, <4>1 DEF IndexInv, QueuesIndexed
      <4> QED
        BY <3>6, <4>2
    <3>9. {queuesIndex'[k] : k \in DOMAIN queuesIndex'} = DOMAIN queues'
      <4>1. ASSUME NEW k \in DOMAIN queuesIndex' PROVE queuesIndex'[k] \in DOMAIN queues'
        <5>1. idx + 1 \in 1 .. n /\ q = queuesIndex[idx + 1]
          BY <1>2, <1>3 DEF q
        <5>2. queuesIndex'[k] = queuesIndex[at(k)] /\ at(k) \in 1 .. n /\ at(k) # idx + 1
          BY <3>3, <3>5
        <5>3. queuesIndex[at(k)] # q /\ queuesIndex[at(k)] \in DOMAIN queues
          BY <1>2, <5>1, <5>2 DEF IndexInv, QueuesIndexed
        <5> QED
          BY <3>1, <5>2, <5>3
      <4>2. ASSUME NEW x \in DOMAIN queues'
            PROVE  \E k \in DOMAIN queuesIndex' : queuesIndex'[k] = x
        <5>1. x \in DOMAIN queues /\ x # q
          BY <3>1
        <5>2. PICK j \in 1 .. n : queuesIndex[j] = x
          BY <1>2, <5>1 DEF IndexInv, QueuesIndexed
        <5>3. j # idx + 1
          BY <5>1, <5>2 DEF q
        <5>4. PICK k \in 1 .. n - 1 : at(k) = j
          BY <3>7, <5>3
        <5> QED
          BY <3>3, <3>5, <5>2, <5>4
      <4> QED
        BY <4>1, <4>2
    <3> QED
      BY <3>2, <3>3, <3>4, <3>8, <3>9 DEF IndexInv, QueuesIndexed
  <2> QED
    BY <2>1, <2>2
<1>11. DOMAIN queues \subseteq DOMAIN queues' \cup {q}
  BY <1>7
<1> QED
  BY <1>6, <1>8, <1>10, <1>11

\* Initially there is no queue.
LEMMA IndexInit == Init => IndexInv
  BY DEF Init, IndexInv, QueuesIndexed

\* The queues change in AddJob and in getNextJob only.
LEMMA IndexNext == IndexInv /\ [Next]_vars => IndexInv'
<1> SUFFICES ASSUME IndexInv, [Next]_vars PROVE IndexInv'
  OBVIOUS
<1>1. ASSUME NEW job \in Job, AddJob(job) PROVE IndexInv'
  BY <1>1, IndexAddJob
<1>2. CASE NextJob
  BY <1>2, IndexNextJob
<1>3. ASSUME NEW job \in Job, SignalNewWork(job) PROVE IndexInv'
  BY <1>3, IndexKept DEF SignalNewWork
<1>4. CASE Start \/ Stop \/ StopPool \/ StopReturns
  BY <1>4, IndexKept DEF Start, Stop, StopPool, StopReturns
<1>5. CASE SelectNewWork \/ Quit \/ NoNextJob \/ WaitNewWork \/ Tick
  BY <1>5, IndexKept DEF SelectNewWork, Quit, NoNextJob, WaitNewWork, Tick
<1>6. ASSUME NEW w \in Worker, Dispatch(w) \/ WorkerStep(w) PROVE IndexInv'
  BY <1>6, IndexKept DEF Dispatch, WorkerStep, CountWorker, Execute, Cleanup, WorkerQuits
<1>7. CASE UNCHANGED vars
  BY <1>7, IndexKept DEF vars
<1> QED
  BY <1>1, <1>2, <1>3, <1>4, <1>5, <1>6, <1>7 DEF Next, AssignerStep

\* The round robin covers every queue: whatever getNextJob prunes and AddJob
\* appends, queuesIndex lists each queue with work once and lastQueueAccessed
\* stays inside it.
THEOREM RoundRobinCovers == Spec => []QueuesIndexed
<1>1. IndexInv => QueuesIndexed
  BY DEF IndexInv
<1> QED
  BY <1>1, IndexInit, IndexNext, PTL DEF Spec

-----------------------------------------------------------------------------
(* The counts behind the fair share.                                       *)

\* The jobs in the hands of the assigner and of the workers.
HandInv ==
  /\ assigner.pc = "dispatch" => assigner.job \in Job
  /\ assigner.pc = "new" => \A w \in Worker : worker[w].pc = "off"
  /\ \A w \in Worker :
       IF worker[w].pc \in {"taken", "running", "executed"}
       THEN worker[w].job \in Job ELSE worker[w].job = NoJob

\* workerCount as a map.
MapInv ==
  /\ DOMAIN workerCount \subseteq Queue
  /\ \A q \in DOMAIN workerCount : workerCount[q] \in Nat

CountInv == IndexInv /\ ShapeInv /\ HandInv /\ MapInv /\ CountsAreTrue

\* The two parts of CountsAreTrue.
CountsMatch == \A q \in Queue : Count(q) = Cardinality(Running(q))
InHand(q) ==
  \/ assigner.pc = "dispatch" /\ QueueOf[assigner.job] = q
  \/ \E w \in Worker : worker[w].job # NoJob /\ QueueOf[worker[w].job] = q
KeysNeeded == \A q \in DOMAIN workerCount : q \in DOMAIN queues \/ InHand(q)

\* CountsAreTrue is the two together, before and after a step.
LEMMA CountsSplit == CountsAreTrue <=> CountsMatch /\ KeysNeeded
  BY DEF CountsAreTrue, CountsMatch, KeysNeeded, InHand

\* The same for the primed formulas.
LEMMA CountsSplitNext == CountsAreTrue' <=> CountsMatch' /\ KeysNeeded'
  BY DEF CountsAreTrue, CountsMatch, KeysNeeded, InHand

\* Running(q) is finite.
LEMMA RunningFinite ==
  ASSUME NEW q
  PROVE  IsFiniteSet(Running(q)) /\ Cardinality(Running(q)) \in Nat
<1>1. Running(q) \subseteq Worker
  BY DEF Running
<1> QED
  BY <1>1, WorkerAssumption, FS_Subset, FS_CardinalityType

\* The steps that change neither a count nor a worker, prune no queue and take
\* no job out of the assigner's hands.
LEMMA CountKept ==
  ASSUME CountInv, IndexInv', ShapeInv', HandInv',
         UNCHANGED <<workerCount, worker>>,
         DOMAIN queues \subseteq DOMAIN queues',
         assigner.pc = "dispatch" => assigner' = assigner
  PROVE  CountInv'
<1>1. CountsMatch /\ KeysNeeded /\ MapInv
  BY CountsSplit DEF CountInv
<1>2. CountsMatch'
  BY <1>1 DEF CountsMatch, Count, Running
<1>3. KeysNeeded'
  BY <1>1 DEF KeysNeeded, InHand
<1>4. MapInv'
  BY <1>1 DEF MapInv
<1> QED
  BY <1>2, <1>3, <1>4, CountsSplitNext DEF CountInv

\* Initially there is no count.
LEMMA CountInit == Init => CountInv
<1> SUFFICES ASSUME Init PROVE CountInv
  OBVIOUS
<1>1. IndexInv /\ ShapeInv
  BY IndexInit, FinalInit DEF FinalInv
<1>2. HandInv /\ MapInv /\ KeysNeeded
  BY DEF Init, HandInv, MapInv, KeysNeeded
<1>3. CountsMatch
  <2> SUFFICES ASSUME NEW q \in Queue PROVE Count(q) = Cardinality(Running(q))
    BY DEF CountsMatch
  <2>1. Running(q) = {}
    BY DEF Init, Running
  <2>2. Count(q) = 0
    BY DEF Init, Count
  <2> QED
    BY <2>1, <2>2, FS_EmptySet
<1> QED
  BY <1>1, <1>2, <1>3, CountsSplit DEF CountInv

\* AddJob may add a key, with the count that the queue has.
LEMMA CountAddJob ==
  ASSUME CountInv, IndexInv', ShapeInv', NEW job \in Job, AddJob(job)
  PROVE  CountInv'
<1> DEFINE q == QueueOf[job]
<1>1. CountsMatch /\ KeysNeeded /\ MapInv /\ HandInv
  BY CountsSplit DEF CountInv
<1>2. q \in Queue
  BY JobAssumption
<1>3. UNCHANGED <<assigner, worker>> /\ DOMAIN queues' = DOMAIN queues \cup {q}
  BY DEF AddJob, SetKey
<1>4. \/ workerCount' = workerCount
      \/ /\ q \notin DOMAIN workerCount
         /\ workerCount' = [x \in DOMAIN workerCount \cup {q} |->
                              IF x = q THEN 0 ELSE workerCount[x]]
  BY DEF AddJob, tracked, SetKey
<1>5. MapInv'
  BY <1>1, <1>2, <1>4 DEF MapInv
<1>6. HandInv'
  BY <1>1, <1>3 DEF HandInv
<1>7. \A x : Count(x)' = Count(x)
  BY <1>4 DEF Count
<1>8. CountsMatch'
  BY <1>1, <1>3, <1>7 DEF CountsMatch, Running
<1>9. KeysNeeded'
  BY <1>1, <1>3, <1>4 DEF KeysNeeded, InHand
<1> QED
  BY <1>5, <1>6, <1>8, <1>9, CountsSplitNext DEF CountInv

\* getNextJob prunes at most the queue whose job it hands out.
LEMMA CountNextJob ==
  ASSUME CountInv, ShapeInv', NextJob
  PROVE  CountInv'
<1>1. CountsMatch /\ KeysNeeded /\ MapInv /\ HandInv /\ IndexInv
  BY CountsSplit DEF CountInv
<1>2. /\ IndexInv'
      /\ assigner'.job \in Job
      /\ assigner' = [pc |-> "dispatch", job |-> assigner'.job]
      /\ DOMAIN queues \subseteq (DOMAIN queues)' \cup {QueueOf[assigner'.job]}
  BY <1>1, IndexNextJob
<1>3. UNCHANGED <<workerCount, worker>> /\ assigner.pc = "next"
  BY DEF NextJob
<1>4. assigner'.pc = "dispatch"
  BY <1>2
<1>5. HandInv' /\ MapInv'
  BY <1>1, <1>2, <1>3, <1>4 DEF HandInv, MapInv
<1>6. CountsMatch'
  BY <1>1, <1>3 DEF CountsMatch, Count, Running
<1>7. KeysNeeded'
  BY <1>1, <1>2, <1>3, <1>4 DEF KeysNeeded, InHand
<1> QED
  BY <1>2, <1>5, <1>6, <1>7, CountsSplitNext DEF CountInv

\* dispatch moves the job from the assigner to a worker that had none.
LEMMA CountDispatch ==
  ASSUME CountInv, IndexInv', ShapeInv', NEW w \in Worker, Dispatch(w)
  PROVE  CountInv'
<1>1. CountsMatch /\ KeysNeeded /\ MapInv /\ HandInv /\ ShapeInv
  BY CountsSplit DEF CountInv
<1>2. /\ UNCHANGED <<workerCount, queues>>
      /\ assigner.pc = "dispatch" /\ assigner.job \in Job
      /\ worker[w].pc = "idle" /\ worker[w].job = NoJob
  BY <1>1 DEF Dispatch, HandInv, queueVars
<1>3. assigner'.pc = "select"
  BY <1>1 DEF Dispatch, ShapeInv
<1>4. /\ worker'[w] = [pc |-> "taken", job |-> assigner.job]
      /\ \A v \in Worker : v # w => worker'[v] = worker[v]
  BY <1>1 DEF Dispatch, ShapeInv
<1>5. HandInv'
  BY <1>1, <1>2, <1>3, <1>4 DEF HandInv
<1>6. \A q : Running(q)' = Running(q)
  BY <1>2, <1>4 DEF Running
<1>7. CountsMatch'
  BY <1>1, <1>2, <1>6 DEF CountsMatch, Count
<1>8. assigner.job # NoJob
  BY <1>2, JobAssumption
<1>9. \A q : InHand(q) => InHand(q)'
  BY <1>2, <1>4, <1>8 DEF InHand
<1>10. KeysNeeded' /\ MapInv'
  BY <1>1, <1>2, <1>9 DEF KeysNeeded, MapInv
<1> QED
  BY <1>5, <1>7, <1>10, CountsSplitNext DEF CountInv

\* The effect of a worker's step on its own record.
LEMMA WorkerChanged ==
  ASSUME ShapeInv, NEW w \in Worker, NEW pc, NEW job,
         worker' = [worker EXCEPT ![w] = [pc |-> pc, job |-> job]]
  PROVE  /\ worker'[w].pc = pc /\ worker'[w].job = job
         /\ \A v \in Worker : v # w => worker'[v] = worker[v]
  BY DEF ShapeInv

\* init: the worker joins the running ones of its queue.
LEMMA CountCountWorker ==
  ASSUME CountInv, IndexInv', ShapeInv', NEW w \in Worker, CountWorker(w)
  PROVE  CountInv'
<1>0. PICK q : q = QueueOf[worker[w].job]
  OBVIOUS
<1>1. CountsMatch /\ KeysNeeded /\ MapInv /\ HandInv /\ ShapeInv
  BY CountsSplit DEF CountInv
<1>2. /\ UNCHANGED <<queues, assigner>>
      /\ worker[w].pc = "taken" /\ worker[w].job \in Job
      /\ assigner.pc # "new"
  BY <1>1 DEF CountWorker, HandInv, queueVars
<1>3. q \in Queue /\ worker[w].job # NoJob
  BY <1>0, <1>2, JobAssumption
<1>4. /\ worker'[w].pc = "running" /\ worker'[w].job = worker[w].job
      /\ \A v \in Worker : v # w => worker'[v] = worker[v]
  <2>1. worker' = [worker EXCEPT ![w] = [pc |-> "running", job |-> worker[w].job]]
    BY <1>1, PcOfWorker DEF CountWorker
  <2> QED
    BY <1>1, <2>1, WorkerChanged
<1>5. workerCount' = [x \in DOMAIN workerCount \cup {q} |->
                        IF x = q THEN Count(q) + 1 ELSE workerCount[x]]
  BY <1>0 DEF CountWorker, incremented, SetKey
<1>6. Count(q)' = Count(q) + 1 /\ \A x \in Queue : x # q => Count(x)' = Count(x)
  BY <1>5 DEF Count
<1>7. /\ w \notin Running(q) /\ Running(q)' = Running(q) \cup {w}
      /\ \A x \in Queue : x # q => Running(x)' = Running(x)
  BY <1>0, <1>2, <1>4 DEF Running
<1>8. Cardinality(Running(q)') = Cardinality(Running(q)) + 1
  BY <1>7, RunningFinite, FS_AddElement
<1>9. CountsMatch'
  <2> SUFFICES ASSUME NEW x \in Queue PROVE Count(x)' = Cardinality(Running(x)')
    BY DEF CountsMatch
  <2>1. Count(x) = Cardinality(Running(x))
    BY <1>1 DEF CountsMatch
  <2>2. CASE x = q
    BY <1>6, <1>8, <2>1, <2>2
  <2>3. CASE x # q
    BY <1>6, <1>7, <2>1, <2>3
  <2> QED
    BY <2>2, <2>3
<1>10. MapInv'
  <2>1. Count(q) \in Nat
    BY <1>1 DEF MapInv, Count
  <2> QED
    BY <1>1, <1>3, <1>5, <2>1 DEF MapInv
<1>11. HandInv'
  BY <1>1, <1>2, <1>4 DEF HandInv
<1>12. \A x : InHand(x) => InHand(x)'
  BY <1>2, <1>4 DEF InHand
<1>13. InHand(q)'
  BY <1>0, <1>3, <1>4 DEF InHand
<1>14. KeysNeeded'
  BY <1>1, <1>2, <1>5, <1>12, <1>13 DEF KeysNeeded
<1> QED
  BY <1>9, <1>10, <1>11, <1>14, CountsSplitNext DEF CountInv

\* Execute: the job is still counted.
LEMMA CountExecute ==
  ASSUME CountInv, IndexInv', ShapeInv', NEW w \in Worker, Execute(w)
  PROVE  CountInv'
<1>1. CountsMatch /\ KeysNeeded /\ MapInv /\ HandInv /\ ShapeInv
  BY CountsSplit DEF CountInv
<1>2. /\ UNCHANGED <<queues, assigner, workerCount>>
      /\ worker[w].pc = "running" /\ worker[w].job \in Job /\ assigner.pc # "new"
  BY <1>1 DEF Execute, HandInv, queueVars
<1>3. /\ worker'[w].pc = "executed" /\ worker'[w].job = worker[w].job
      /\ \A v \in Worker : v # w => worker'[v] = worker[v]
  <2>1. worker' = [worker EXCEPT ![w] = [pc |-> "executed", job |-> worker[w].job]]
    BY <1>1, PcOfWorker DEF Execute
  <2> QED
    BY <1>1, <2>1, WorkerChanged
<1>4. \A q : Running(q)' = Running(q)
  BY <1>2, <1>3 DEF Running
<1>5. CountsMatch' /\ MapInv'
  BY <1>1, <1>2, <1>4 DEF CountsMatch, Count, MapInv
<1>6. HandInv'
  BY <1>1, <1>2, <1>3 DEF HandInv
<1>7. KeysNeeded'
  BY <1>1, <1>2, <1>3 DEF KeysNeeded, InHand
<1> QED
  BY <1>5, <1>6, <1>7, CountsSplitNext DEF CountInv

\* cleanup: the worker leaves the running ones; the key goes with the last job
\* of a queue that is gone.
LEMMA CountCleanup ==
  ASSUME CountInv, IndexInv', ShapeInv', NEW w \in Worker, Cleanup(w)
  PROVE  CountInv'
<1>0. PICK q : q = QueueOf[worker[w].job]
  OBVIOUS
<1>1. CountsMatch /\ KeysNeeded /\ MapInv /\ HandInv /\ ShapeInv
  BY CountsSplit DEF CountInv
<1>2. /\ UNCHANGED <<queues, assigner>>
      /\ worker[w].pc = "executed" /\ worker[w].job \in Job
      /\ assigner.pc # "new"
  BY <1>1 DEF Cleanup, HandInv, queueVars
<1>3. q \in Queue
  BY <1>0, <1>2, JobAssumption
<1>4. /\ worker'[w].pc = "idle" /\ worker'[w].job = NoJob
      /\ \A v \in Worker : v # w => worker'[v] = worker[v]
  BY <1>1, WorkerChanged DEF Cleanup
<1>5. /\ w \in Running(q) /\ Running(q)' = Running(q) \ {w}
      /\ \A x \in Queue : x # q => Running(x)' = Running(x)
  BY <1>0, <1>2, <1>4 DEF Running
<1>6. \/ /\ q \notin DOMAIN queues /\ Count(q) - 1 < 1
         /\ workerCount' = [x \in DOMAIN workerCount \ {q} |-> workerCount[x]]
      \/ /\ q \in DOMAIN queues \/ ~(Count(q) - 1 < 1)
         /\ workerCount' = [x \in DOMAIN workerCount \cup {q} |->
                              IF x = q THEN Count(q) - 1 ELSE workerCount[x]]
  BY <1>0 DEF Cleanup, decremented, SetKey, DeleteKey
<1>7. /\ Count(q) = Cardinality(Running(q))
      /\ Cardinality(Running(q)') = Cardinality(Running(q)) - 1
      /\ Count(q) \in Nat /\ Count(q) - 1 \in Nat
      /\ IsFiniteSet(Running(q)')
  <2>1. Count(q) = Cardinality(Running(q))
    BY <1>1, <1>3 DEF CountsMatch
  <2>2. /\ IsFiniteSet(Running(q)')
        /\ Cardinality(Running(q)') = Cardinality(Running(q)) - 1
    BY <1>5, RunningFinite, FS_RemoveElement
  <2>3. Cardinality(Running(q)) \in Nat /\ Cardinality(Running(q)') \in Nat
    BY <2>2, RunningFinite, FS_CardinalityType
  <2> QED
    BY <2>1, <2>2, <2>3
<1>8. Count(q)' = Count(q) - 1 /\ \A x \in Queue : x # q => Count(x)' = Count(x)
  <2>1. ASSUME q \notin DOMAIN queues, Count(q) - 1 < 1,
               workerCount' = [x \in DOMAIN workerCount \ {q} |-> workerCount[x]]
        PROVE  Count(q)' = Count(q) - 1 /\ \A x \in Queue : x # q => Count(x)' = Count(x)
    <3>1. Count(q)' = 0
      BY <2>1 DEF Count
    <3>2. Count(q) - 1 = 0
      BY <1>7, <2>1
    <3>3. \A x \in Queue : x # q => Count(x)' = Count(x)
      BY <2>1 DEF Count
    <3> QED
      BY <3>1, <3>2, <3>3
  <2>2. ASSUME workerCount' = [x \in DOMAIN workerCount \cup {q} |->
                                 IF x = q THEN Count(q) - 1 ELSE workerCount[x]]
        PROVE  Count(q)' = Count(q) - 1 /\ \A x \in Queue : x # q => Count(x)' = Count(x)
    BY <2>2 DEF Count
  <2> QED
    BY <1>6, <2>1, <2>2
<1>9. CountsMatch'
  <2> SUFFICES ASSUME NEW x \in Queue PROVE Count(x)' = Cardinality(Running(x)')
    BY DEF CountsMatch
  <2>1. CASE x = q
    BY <1>7, <1>8, <2>1
  <2>2. CASE x # q
    BY <1>1, <1>5, <1>8, <2>2 DEF CountsMatch
  <2> QED
    BY <2>1, <2>2
<1>10. MapInv'
  BY <1>1, <1>3, <1>6, <1>7 DEF MapInv
<1>11. HandInv'
  BY <1>1, <1>2, <1>4 DEF HandInv
<1>12. ASSUME NEW x \in DOMAIN workerCount', x # q PROVE x \in DOMAIN queues' \/ InHand(x)'
  <2>1. x \in DOMAIN workerCount
    BY <1>6, <1>12
  <2>2. CASE x \in DOMAIN queues
    BY <1>2, <2>2
  <2>3. CASE assigner.pc = "dispatch" /\ QueueOf[assigner.job] = x
    BY <1>2, <2>3 DEF InHand
  <2>4. ASSUME NEW v \in Worker, worker[v].job # NoJob, QueueOf[worker[v].job] = x
        PROVE  InHand(x)'
    <3>1. v # w
      BY <1>0, <1>12, <2>4
    <3> QED
      BY <1>4, <2>4, <3>1 DEF InHand
  <2> QED
    BY <1>1, <2>1, <2>2, <2>3, <2>4 DEF KeysNeeded, InHand
<1>13. ASSUME q \in DOMAIN workerCount' PROVE q \in DOMAIN queues' \/ InHand(q)'
  <2>1. q \in DOMAIN queues \/ ~(Count(q) - 1 < 1)
    BY <1>6, <1>13
  <2>2. CASE q \in DOMAIN queues
    BY <1>2, <2>2
  <2>3. CASE ~(Count(q) - 1 < 1)
    <3>1. Cardinality(Running(q)') # 0
      BY <1>7, <2>3
    <3>2. Running(q)' # {}
      BY <3>1, FS_EmptySet
    <3>3. PICK v \in Worker : v \in Running(q) /\ v # w
      BY <1>5, <3>2 DEF Running
    <3>4. worker[v].job \in Job /\ QueueOf[worker[v].job] = q
      BY <1>1, <3>3 DEF Running, HandInv
    <3> QED
      BY <1>4, <3>3, <3>4, JobAssumption DEF InHand
  <2> QED
    BY <2>1, <2>2, <2>3
<1>14. KeysNeeded'
  BY <1>12, <1>13 DEF KeysNeeded
<1> QED
  BY <1>9, <1>10, <1>11, <1>14, CountsSplitNext DEF CountInv

\* Start and WorkerQuits move workers that have no job.
LEMMA CountIdle ==
  ASSUME CountInv, IndexInv', ShapeInv',
         UNCHANGED <<queues, workerCount>>,
         assigner.pc # "dispatch", assigner'.pc \notin {"dispatch", "new"},
         \A w \in Worker :
           \/ worker'[w] = worker[w]
           \/ /\ worker[w].pc \in {"off", "idle"} /\ worker'[w].pc \in {"idle", "exited"}
              /\ worker'[w].job = worker[w].job
  PROVE  CountInv'
<1>1. CountsMatch /\ KeysNeeded /\ MapInv /\ HandInv
  BY CountsSplit DEF CountInv
<1>2. HandInv' /\ MapInv'
  BY <1>1 DEF HandInv, MapInv
<1>3. \A q : Running(q)' = Running(q)
  BY DEF Running
<1>4. CountsMatch'
  BY <1>1, <1>3 DEF CountsMatch, Count
<1>5. \A q : InHand(q) => InHand(q)'
  BY DEF InHand
<1>6. KeysNeeded'
  BY <1>1, <1>5 DEF KeysNeeded
<1> QED
  BY <1>2, <1>4, <1>6, CountsSplitNext DEF CountInv

\* Every step keeps the counts true.
LEMMA CountNext == CountInv /\ FinalInv /\ [Next]_vars => CountInv'
<1> SUFFICES ASSUME CountInv, FinalInv, [Next]_vars PROVE CountInv'
  OBVIOUS
<1>0. IndexInv' /\ ShapeInv' /\ IndexInv /\ ShapeInv /\ HandInv
  BY IndexNext, FinalNext DEF CountInv, FinalInv
<1>1. ASSUME NEW job \in Job, AddJob(job) PROVE CountInv'
  BY <1>0, <1>1, CountAddJob
<1>2. ASSUME NEW job \in Job, SignalNewWork(job) PROVE CountInv'
  BY <1>0, <1>2, CountKept DEF SignalNewWork, HandInv, queueVars
<1>3. CASE Start
  <2>1. assigner.pc = "new" /\ assigner'.pc = "select" /\ UNCHANGED <<queues, workerCount>>
    BY <1>0, <1>3 DEF Start, ShapeInv, queueVars
  <2>2. \A w \in Worker : /\ worker[w].pc = "off" /\ worker'[w].pc = "idle"
                          /\ worker'[w].job = worker[w].job
    BY <1>0, <1>3, <2>1 DEF Start, ShapeInv, HandInv
  <2> QED
    BY <1>0, <2>1, <2>2, CountIdle
<1>4. CASE Stop \/ StopPool \/ StopReturns
  BY <1>0, <1>4, CountKept DEF Stop, StopPool, StopReturns, HandInv, queueVars
<1>5. CASE SelectNewWork \/ Quit \/ NoNextJob \/ WaitNewWork \/ Tick
  <2>1. /\ UNCHANGED <<queues, workerCount, worker>>
        /\ assigner.pc # "dispatch" /\ assigner'.pc \notin {"dispatch", "new"}
    BY <1>0, <1>5
       DEF SelectNewWork, Quit, NoNextJob, WaitNewWork, Tick, Ticks, ShapeInv, queueVars
  <2> QED
    BY <1>0, <2>1, CountIdle
<1>6. CASE NextJob
  BY <1>0, <1>6, CountNextJob
<1>7. ASSUME NEW w \in Worker, Dispatch(w) PROVE CountInv'
  BY <1>0, <1>7, CountDispatch
<1>8. ASSUME NEW w \in Worker, CountWorker(w) PROVE CountInv'
  BY <1>0, <1>8, CountCountWorker
<1>9. ASSUME NEW w \in Worker, Execute(w) PROVE CountInv'
  BY <1>0, <1>9, CountExecute
<1>10. ASSUME NEW w \in Worker, Cleanup(w) PROVE CountInv'
  BY <1>0, <1>10, CountCleanup
<1>11. ASSUME NEW w \in Worker, WorkerQuits(w) PROVE CountInv'
  <2>1. assigner.pc \in {"new", "stopped"} /\ worker[w].pc = "idle"
        /\ UNCHANGED <<queues, workerCount, assigner>>
    BY <1>11 DEF FinalInv, StopInv, AssignerGone, WorkerQuits, queueVars
  <2>2. assigner.pc = "stopped"
    BY <1>0, <2>1 DEF HandInv
  <2>3. worker' = [worker EXCEPT ![w] = [pc |-> "exited", job |-> worker[w].job]]
    BY <1>0, <1>11, PcOfWorker DEF WorkerQuits
  <2>4. /\ worker'[w].pc = "exited" /\ worker'[w].job = worker[w].job
        /\ \A v \in Worker : v # w => worker'[v] = worker[v]
    BY <1>0, <2>3, WorkerChanged
  <2> QED
    BY <1>0, <2>1, <2>2, <2>4, CountIdle
<1>12. CASE UNCHANGED vars
  BY <1>0, <1>12, CountKept DEF vars, HandInv, queueVars
<1> QED
  BY <1>1, <1>2, <1>3, <1>4, <1>5, <1>6, <1>7, <1>8, <1>9, <1>10, <1>11, <1>12
     DEF Next, AssignerStep, WorkerStep

\* The counts behind the fair share are true: workerCount has the number of jobs
\* of each queue between init and cleanup, whatever prunes and returns of the
\* queue come in between, and keeps no key that nothing needs (addQueue,
\* incrementWorkerCount, decrementWorkerCount).
THEOREM CountsCorrect == Spec => []CountsAreTrue
<1>1. CountInv => CountsAreTrue
  BY DEF CountInv
<1> QED
  BY <1>1, CountInit, CountNext, FinalInit, FinalNext, PTL DEF Spec

-----------------------------------------------------------------------------
(* Where the jobs are.                                                     *)

\* A worker has a job that has yet to be executed.
Carries(w) == worker[w].pc \in {"taken", "running"}

\* The jobs in the queues.
WaitingJobs ==
  {job \in Job : \E q \in DOMAIN queues : \E i \in 1 .. Len(queues[q]) : queues[q][i] = job}

\* A queue has a job once.
NoTwice ==
  \A q \in DOMAIN queues : \A i, k \in 1 .. Len(queues[q]) :
    queues[q][i] = queues[q][k] => i = k

\* A job waits, or is in the assigner's hands, or in those of one worker.
OnePlace ==
  /\ \A w \in Worker : Carries(w) => worker[w].job \notin WaitingJobs /\ ~Held(worker[w].job)
  /\ \A v, w \in Worker :
       Carries(v) /\ Carries(w) /\ worker[v].job = worker[w].job => v = w
  /\ assigner.pc = "dispatch" => assigner.job \notin WaitingJobs

\* A job is pending when it is in one of these places.
PendingPlaced ==
  \A job \in Job : job \in pending <=>
    \/ job \in WaitingJobs \/ Held(job)
    \/ \E w \in Worker : Carries(w) /\ worker[w].job = job

\* totalJobs is the number of waiting jobs.
Totalled == IsFiniteSet(WaitingJobs) /\ totalJobs = Cardinality(WaitingJobs)

PlaceInv == NoTwice /\ OnePlace /\ PendingPlaced /\ Totalled

\* AddJob puts a job that was in no queue into its own.
LEMMA PlaceAdded ==
  ASSUME IndexInv, NoTwice, NEW job \in Job, AddJob(job), job \notin WaitingJobs
  PROVE  NoTwice' /\ WaitingJobs' = WaitingJobs \cup {job}
<1> DEFINE q == QueueOf[job]
           jobs == JobsIn(q)
<1>1. jobs \in Seq(Job) /\ (q \in DOMAIN queues => jobs = queues[q])
      /\ (q \notin DOMAIN queues => jobs = <<>>)
  BY DEF JobsIn, IndexInv
<1>2. queues' = [x \in DOMAIN queues \cup {q} |->
                  IF x = q THEN Append(jobs, job) ELSE queues[x]]
  BY DEF AddJob, SetKey
<1> HIDE DEF q, jobs
<1>3. /\ Len(jobs) \in Nat /\ Len(Append(jobs, job)) = Len(jobs) + 1
      /\ \A i \in 1 .. Len(jobs) : Append(jobs, job)[i] = jobs[i]
      /\ Append(jobs, job)[Len(jobs) + 1] = job
  BY <1>1, AppendProperties
<1>4. /\ DOMAIN queues' = DOMAIN queues \cup {q}
      /\ queues'[q] = Append(jobs, job)
      /\ \A x \in DOMAIN queues : x # q => queues'[x] = queues[x]
  BY <1>2
<1>5. \A i \in 1 .. Len(jobs) : jobs[i] \in WaitingJobs
  <2>1. CASE q \in DOMAIN queues
    BY <1>1, <2>1 DEF WaitingJobs
  <2>2. CASE q \notin DOMAIN queues
    BY <1>1, <1>3, <2>2
  <2> QED
    BY <2>1, <2>2
<1>6. \A i, k \in 1 .. Len(jobs) : jobs[i] = jobs[k] => i = k
  <2>1. CASE q \in DOMAIN queues
    BY <1>1, <2>1 DEF NoTwice
  <2>2. CASE q \notin DOMAIN queues
    BY <1>1, <1>3, <2>2
  <2> QED
    BY <2>1, <2>2
<1>7. NoTwice'
  <2> SUFFICES ASSUME NEW x \in DOMAIN queues', NEW i \in 1 .. Len(queues'[x]),
                      NEW k \in 1 .. Len(queues'[x]), queues'[x][i] = queues'[x][k]
               PROVE  i = k
    BY DEF NoTwice
  <2>1. CASE x = q
    <3>1. \A j \in 1 .. Len(jobs) : Append(jobs, job)[j] # job
      BY <1>3, <1>5
    <3>2. i \in 1 .. Len(jobs) + 1 /\ k \in 1 .. Len(jobs) + 1
      BY <1>3, <1>4, <2>1
    <3> QED
      BY <1>3, <1>4, <1>6, <2>1, <3>1, <3>2
  <2>2. CASE x # q
    BY <1>4, <2>2 DEF NoTwice
  <2> QED
    BY <2>1, <2>2
<1>8. ASSUME NEW j \in WaitingJobs PROVE j \in WaitingJobs'
  <2>1. PICK x \in DOMAIN queues : \E i \in 1 .. Len(queues[x]) : queues[x][i] = j
    BY DEF WaitingJobs
  <2>2. PICK i \in 1 .. Len(queues[x]) : queues[x][i] = j
    BY <2>1
  <2>3. CASE x = q
    <3>1. i \in 1 .. Len(queues'[q]) /\ queues'[q][i] = j
      BY <1>1, <1>3, <1>4, <2>2, <2>3
    <3> QED
      BY <1>4, <3>1 DEF WaitingJobs
  <2>4. CASE x # q
    BY <1>4, <2>2, <2>4 DEF WaitingJobs
  <2> QED
    BY <2>3, <2>4
<1>9. job \in WaitingJobs'
  <2>1. Len(jobs) + 1 \in 1 .. Len(queues'[q]) /\ queues'[q][Len(jobs) + 1] = job
    BY <1>3, <1>4
  <2> QED
    BY <1>4, <2>1 DEF WaitingJobs
<1>10. ASSUME NEW j \in WaitingJobs' PROVE j \in WaitingJobs \cup {job}
  <2>1. PICK x \in DOMAIN queues' : \E i \in 1 .. Len(queues'[x]) : queues'[x][i] = j
    BY DEF WaitingJobs
  <2>2. PICK i \in 1 .. Len(queues'[x]) : queues'[x][i] = j
    BY <2>1
  <2>3. CASE x = q
    BY <1>3, <1>4, <1>5, <2>2, <2>3
  <2>4. CASE x # q
    BY <1>4, <2>1, <2>2, <2>4 DEF WaitingJobs
  <2> QED
    BY <2>3, <2>4
<1> QED
  BY <1>7, <1>8, <1>9, <1>10

\* getNextJob takes one waiting job, the head of a queue.
LEMMA PlaceTaken ==
  ASSUME IndexInv, NoTwice, NextJob
  PROVE  /\ NoTwice'
         /\ assigner'.job \in WaitingJobs
         /\ WaitingJobs' = WaitingJobs \ {assigner'.job}
         /\ totalJobs' = totalJobs - 1
<1>1. PICK i \in Eligible :
        LET idx  == QueueIdx(i)
            q    == queuesIndex[idx + 1]
            rest == Tail(queues[q])
        IN  /\ totalJobs' = totalJobs - 1
            /\ IF Emptied(rest)
               THEN queues' = DeleteKey(queues, q)
               ELSE queues' = SetKey(queues, q, rest)
            /\ assigner' = [pc |-> "dispatch", job |-> Head(queues[q])]
  BY DEF NextJob
<1> DEFINE idx  == QueueIdx(i)
           q    == queuesIndex[idx + 1]
           rest == Tail(queues[q])
           n    == Len(queuesIndex)
<1>2. n \in Nat /\ i \in 1 .. n /\ DOMAIN queuesIndex = 1 .. n
  BY DEF Eligible, IndexInv
<1>3. idx \in 0 .. n - 1
  <2>1. lastQueueAccessed + i \in Nat /\ n \in Nat \ {0}
    BY <1>2 DEF IndexInv, QueuesIndexed
  <2> QED
    BY <2>1 DEF QueueIdx
<1>4. q \in DOMAIN queues
  BY <1>2, <1>3 DEF IndexInv, QueuesIndexed
<1>5. queues[q] \in Seq(Job) /\ queues[q] # <<>>
  BY <1>4 DEF IndexInv, QueuesIndexed
<1>6. totalJobs' = totalJobs - 1 /\ assigner'.job = Head(queues[q])
  BY <1>1
<1>7. IF rest = <<>> THEN queues' = [x \in DOMAIN queues \ {q} |-> queues[x]]
      ELSE queues' = [x \in DOMAIN queues \cup {q} |-> IF x = q THEN rest ELSE queues[x]]
  BY <1>1 DEF Emptied, DeleteKey, SetKey
<1>8. /\ Len(queues[q]) \in Nat \ {0} /\ Head(queues[q]) = queues[q][1]
      /\ rest \in Seq(Job) /\ Len(rest) = Len(queues[q]) - 1
      /\ \A k \in 1 .. Len(rest) : rest[k] = queues[q][k + 1]
      /\ Head(queues[q]) \in Job
  BY <1>5, HeadTailProperties
<1> HIDE DEF idx, q, rest, n
<1>9. /\ \A x \in DOMAIN queues : x # q => x \in DOMAIN queues' /\ queues'[x] = queues[x]
      /\ DOMAIN queues' \subseteq DOMAIN queues
      /\ q \in DOMAIN queues' => queues'[q] = rest
      /\ q \notin DOMAIN queues' => Len(rest) = 0
  <2>1. CASE rest = <<>>
    <3>1. DOMAIN queues' = DOMAIN queues \ {q} /\ Len(rest) = 0
      BY <1>7, <2>1
    <3> QED
      BY <1>7, <2>1, <3>1
  <2>2. CASE rest # <<>>
    <3>1. DOMAIN queues' = DOMAIN queues
      BY <1>4, <1>7, <2>2
    <3> QED
      BY <1>4, <1>7, <2>2, <3>1
  <2> QED
    BY <2>1, <2>2
<1>10. assigner'.job \in WaitingJobs
  BY <1>4, <1>6, <1>8 DEF WaitingJobs
<1>11. NoTwice'
  <2> SUFFICES ASSUME NEW x \in DOMAIN queues', NEW j \in 1 .. Len(queues'[x]),
                      NEW k \in 1 .. Len(queues'[x]), queues'[x][j] = queues'[x][k]
               PROVE  j = k
    BY DEF NoTwice
  <2>1. CASE x = q
    <3>1. /\ j + 1 \in 1 .. Len(queues[q]) /\ k + 1 \in 1 .. Len(queues[q])
          /\ queues[q][j + 1] = queues[q][k + 1]
      BY <1>8, <1>9, <2>1
    <3>2. j + 1 = k + 1
      BY <1>4, <3>1 DEF NoTwice
    <3>3. j \in Int /\ k \in Int
      OBVIOUS
    <3> QED
      BY <3>2, <3>3
  <2>2. CASE x # q
    BY <1>9, <2>2 DEF NoTwice
  <2> QED
    BY <2>1, <2>2
<1>12. ASSUME NEW j \in WaitingJobs' PROVE j \in WaitingJobs /\ j # assigner'.job
  <2>1. PICK x \in DOMAIN queues' : \E k \in 1 .. Len(queues'[x]) : queues'[x][k] = j
    BY DEF WaitingJobs
  <2>2. PICK k \in 1 .. Len(queues'[x]) : queues'[x][k] = j
    BY <2>1
  <2>3. j \in Job
    BY DEF WaitingJobs
  <2>4. CASE x = q
    <3>1. k + 1 \in 1 .. Len(queues[q]) /\ queues[q][k + 1] = j /\ k + 1 # 1
      BY <1>8, <1>9, <2>2, <2>4
    <3>2. queues[q][1] # j
      BY <1>4, <1>8, <3>1 DEF NoTwice
    <3> QED
      BY <1>4, <1>6, <1>8, <2>3, <3>1, <3>2 DEF WaitingJobs
  <2>5. CASE x # q
    <3>1. x \in DOMAIN queues /\ k \in 1 .. Len(queues[x]) /\ queues[x][k] = j
      BY <1>9, <2>2, <2>5
    <3>2. QueueOf[j] = x
      BY <3>1 DEF IndexInv
    <3>3. QueueOf[assigner'.job] = q
      BY <1>4, <1>6, <1>8 DEF IndexInv
    <3> QED
      BY <2>3, <2>5, <3>1, <3>2, <3>3 DEF WaitingJobs
  <2> QED
    BY <2>4, <2>5
<1>13. ASSUME NEW j \in WaitingJobs, j # assigner'.job PROVE j \in WaitingJobs'
  <2>1. PICK x \in DOMAIN queues : \E k \in 1 .. Len(queues[x]) : queues[x][k] = j
    BY DEF WaitingJobs
  <2>2. PICK k \in 1 .. Len(queues[x]) : queues[x][k] = j
    BY <2>1
  <2>3. j \in Job
    BY DEF WaitingJobs
  <2>4. CASE x = q
    <3>1. k # 1
      BY <1>6, <1>8, <1>13, <2>2, <2>4
    <3>2. k - 1 \in 1 .. Len(rest) /\ rest[k - 1] = j
      <4>1. k - 1 \in 1 .. Len(rest) /\ (k - 1) + 1 = k
        BY <1>8, <2>2, <2>4, <3>1
      <4> QED
        BY <1>8, <2>2, <2>4, <4>1
    <3>3. q \in DOMAIN queues' /\ queues'[q] = rest
      BY <1>8, <1>9, <3>2
    <3> QED
      BY <2>3, <3>2, <3>3 DEF WaitingJobs
  <2>5. CASE x # q
    BY <1>9, <2>2, <2>3, <2>5 DEF WaitingJobs
  <2> QED
    BY <2>4, <2>5
<1> QED
  BY <1>6, <1>10, <1>11, <1>12, <1>13

\* The steps that move no job.
LEMMA PlaceKept ==
  ASSUME PlaceInv, UNCHANGED <<queues, totalJobs, pending>>,
         assigner'.pc = "dispatch" <=> assigner.pc = "dispatch",
         assigner.pc = "dispatch" => assigner'.job = assigner.job,
         \A w \in Worker : /\ Carries(w)' <=> Carries(w)
                           /\ Carries(w) => worker'[w].job = worker[w].job
  PROVE  PlaceInv'
<1>1. WaitingJobs' = WaitingJobs /\ (NoTwice' <=> NoTwice)
  BY DEF WaitingJobs, NoTwice
<1>2. \A job : Held(job)' <=> Held(job)
  BY DEF Held
<1>3. OnePlace'
  BY <1>1, <1>2 DEF PlaceInv, OnePlace
<1>4. PendingPlaced'
  BY <1>1, <1>2 DEF PlaceInv, PendingPlaced
<1> QED
  BY <1>1, <1>3, <1>4 DEF PlaceInv, Totalled

\* AddJob adds a job that is nowhere.
LEMMA PlaceAddJob ==
  ASSUME PlaceInv, IndexInv, HandInv, NEW job \in Job, AddJob(job)
  PROVE  PlaceInv'
<1>1. /\ job \notin pending /\ pending' = pending \cup {job}
      /\ totalJobs' = totalJobs + 1 /\ UNCHANGED <<assigner, worker>>
  BY DEF AddJob
<1>2. /\ job \notin WaitingJobs /\ ~Held(job)
      /\ \A w \in Worker : Carries(w) => worker[w].job # job
  BY <1>1 DEF PlaceInv, PendingPlaced
<1>3. NoTwice' /\ WaitingJobs' = WaitingJobs \cup {job}
  BY <1>2, PlaceAdded DEF PlaceInv
<1>4. \A j : Held(j)' <=> Held(j)
  BY <1>1 DEF Held
<1>5. \A w \in Worker : (Carries(w)' <=> Carries(w)) /\ worker'[w] = worker[w]
  BY <1>1 DEF Carries
<1>6. OnePlace'
  BY <1>1, <1>2, <1>3, <1>4, <1>5 DEF PlaceInv, OnePlace, Held
<1>7. PendingPlaced'
  BY <1>1, <1>3, <1>4, <1>5 DEF PlaceInv, PendingPlaced
<1>8. Totalled'
  BY <1>1, <1>2, <1>3, FS_AddElement DEF PlaceInv, Totalled
<1> QED
  BY <1>3, <1>6, <1>7, <1>8 DEF PlaceInv

\* getNextJob takes a waiting job into the assigner's hands.
LEMMA PlaceNextJob ==
  ASSUME PlaceInv, IndexInv, HandInv, NextJob
  PROVE  PlaceInv'
<1>1. /\ assigner.pc = "next" /\ UNCHANGED <<worker, pending>>
  BY DEF NextJob
<1>2. assigner' = [pc |-> "dispatch", job |-> assigner'.job]
  BY IndexNextJob
<1>3. assigner'.pc = "dispatch"
  BY <1>2
<1>4. /\ NoTwice' /\ assigner'.job \in WaitingJobs
      /\ WaitingJobs' = WaitingJobs \ {assigner'.job}
      /\ totalJobs' = totalJobs - 1
  BY PlaceTaken DEF PlaceInv
<1>5. \A w \in Worker : (Carries(w)' <=> Carries(w)) /\ worker'[w] = worker[w]
  BY <1>1 DEF Carries
<1>6. \A j : ~Held(j) /\ (Held(j)' <=> j = assigner'.job)
  BY <1>1, <1>3 DEF Held
<1>7. OnePlace'
  BY <1>3, <1>4, <1>5, <1>6 DEF PlaceInv, OnePlace
<1>8. PendingPlaced'
  BY <1>1, <1>4, <1>5, <1>6 DEF PlaceInv, PendingPlaced
<1>9. Totalled'
  BY <1>4, FS_RemoveElement DEF PlaceInv, Totalled
<1> QED
  BY <1>4, <1>7, <1>8, <1>9 DEF PlaceInv

\* dispatch passes the job on to a worker that has none.
LEMMA PlaceDispatch ==
  ASSUME PlaceInv, ShapeInv, HandInv, NEW w \in Worker, Dispatch(w)
  PROVE  PlaceInv'
<1>1. /\ assigner.pc = "dispatch" /\ worker[w].pc = "idle"
      /\ UNCHANGED <<queues, totalJobs, pending>>
  BY DEF Dispatch, queueVars
<1>2. assigner'.pc = "select"
  BY DEF Dispatch, ShapeInv
<1>3. /\ worker'[w].pc = "taken" /\ worker'[w].job = assigner.job
      /\ \A v \in Worker : v # w => worker'[v] = worker[v]
  BY WorkerChanged DEF Dispatch
<1>4. WaitingJobs' = WaitingJobs /\ (NoTwice' <=> NoTwice)
  BY <1>1 DEF WaitingJobs, NoTwice
<1>5. \A j : ~Held(j)' /\ (Held(j) <=> j = assigner.job)
  BY <1>1, <1>2 DEF Held
<1>6. /\ ~Carries(w) /\ Carries(w)'
      /\ \A v \in Worker : v # w => (Carries(v)' <=> Carries(v))
  BY <1>1, <1>3 DEF Carries
<1>7. OnePlace'
  <2>1. \A v \in Worker : v # w /\ Carries(v) => worker[v].job # assigner.job
    BY <1>5 DEF PlaceInv, OnePlace
  <2>2. assigner.job \notin WaitingJobs
    BY <1>1 DEF PlaceInv, OnePlace
  <2>3. \A v \in Worker : Carries(v)' => worker'[v].job \notin WaitingJobs'
    BY <1>3, <1>4, <1>6, <2>2 DEF PlaceInv, OnePlace
  <2>4. \A u, v \in Worker :
          Carries(u)' /\ Carries(v)' /\ worker'[u].job = worker'[v].job => u = v
    BY <1>3, <1>6, <2>1 DEF PlaceInv, OnePlace
  <2> QED
    BY <1>2, <1>5, <2>3, <2>4 DEF OnePlace
<1>8. PendingPlaced'
  <2> SUFFICES ASSUME NEW job \in Job
               PROVE  job \in pending' <=>
                        \/ job \in WaitingJobs' \/ Held(job)'
                        \/ \E v \in Worker : Carries(v)' /\ worker'[v].job = job
    BY DEF PendingPlaced
  <2>1. (Held(job) \/ \E v \in Worker : Carries(v) /\ worker[v].job = job)
          <=> \E v \in Worker : Carries(v)' /\ worker'[v].job = job
    BY <1>3, <1>5, <1>6
  <2> QED
    BY <1>1, <1>4, <1>5, <2>1 DEF PlaceInv, PendingPlaced
<1> QED
  BY <1>1, <1>4, <1>7, <1>8 DEF PlaceInv, Totalled

\* Execute ends the wait of the worker's job.
LEMMA PlaceExecute ==
  ASSUME PlaceInv, ShapeInv, HandInv, NEW w \in Worker, Execute(w)
  PROVE  PlaceInv'
<1>1. /\ worker[w].pc = "running" /\ pending' = pending \ {worker[w].job}
      /\ UNCHANGED <<queues, totalJobs, assigner>>
  BY DEF Execute, queueVars
<1>2. /\ worker'[w].pc = "executed"
      /\ \A v \in Worker : v # w => worker'[v] = worker[v]
  <2>1. worker' = [worker EXCEPT ![w] = [pc |-> "executed", job |-> worker[w].job]]
    BY PcOfWorker DEF Execute
  <2> QED
    BY <2>1, WorkerChanged
<1>3. WaitingJobs' = WaitingJobs /\ (NoTwice' <=> NoTwice)
  BY <1>1 DEF WaitingJobs, NoTwice
<1>4. \A j : Held(j)' <=> Held(j)
  BY <1>1 DEF Held
<1>5. /\ Carries(w) /\ ~Carries(w)'
      /\ \A v \in Worker : v # w => (Carries(v)' <=> Carries(v))
  BY <1>1, <1>2 DEF Carries
<1>6. OnePlace'
  <2>1. \A v \in Worker : Carries(v)' => Carries(v) /\ worker'[v] = worker[v]
    BY <1>2, <1>5
  <2> QED
    BY <1>1, <1>3, <1>4, <2>1 DEF PlaceInv, OnePlace
<1>7. PendingPlaced'
  <2>1. /\ worker[w].job \notin WaitingJobs /\ ~Held(worker[w].job)
        /\ \A v \in Worker : v # w /\ Carries(v) => worker[v].job # worker[w].job
    BY <1>5 DEF PlaceInv, OnePlace
  <2> SUFFICES ASSUME NEW job \in Job
               PROVE  job \in pending' <=>
                        \/ job \in WaitingJobs' \/ Held(job)'
                        \/ \E v \in Worker : Carries(v)' /\ worker'[v].job = job
    BY DEF PendingPlaced
  <2>2. (\E v \in Worker : Carries(v)' /\ worker'[v].job = job)
          <=> job # worker[w].job /\ \E v \in Worker : Carries(v) /\ worker[v].job = job
    BY <1>2, <1>5, <2>1
  <2>3. job \in pending <=>
          \/ job \in WaitingJobs \/ Held(job)
          \/ \E v \in Worker : Carries(v) /\ worker[v].job = job
    BY DEF PlaceInv, PendingPlaced
  <2>4. job \in pending' <=> job \in pending /\ job # worker[w].job
    BY <1>1
  <2> QED
    BY <1>3, <1>4, <2>1, <2>2, <2>3, <2>4
<1> QED
  BY <1>1, <1>3, <1>6, <1>7 DEF PlaceInv, Totalled

\* Initially there is no job anywhere.
LEMMA PlaceInit == Init => PlaceInv
<1> SUFFICES ASSUME Init PROVE PlaceInv
  OBVIOUS
<1>1. WaitingJobs = {} /\ NoTwice
  BY DEF Init, WaitingJobs, NoTwice
<1>2. \A w \in Worker : ~Carries(w)
  BY DEF Init, Carries
<1>3. \A job : ~Held(job)
  BY DEF Init, Held
<1>4. OnePlace /\ PendingPlaced
  BY <1>1, <1>2, <1>3 DEF OnePlace, PendingPlaced, Init
<1>5. Totalled
  BY <1>1, FS_EmptySet DEF Totalled, Init
<1> QED
  BY <1>1, <1>4, <1>5 DEF PlaceInv

\* Every step moves a job from one place to the next, or none.
LEMMA PlaceNext == PlaceInv /\ CountInv /\ FinalInv /\ [Next]_vars => PlaceInv'
<1> SUFFICES ASSUME PlaceInv, CountInv, FinalInv, [Next]_vars PROVE PlaceInv'
  OBVIOUS
<1>0. IndexInv /\ ShapeInv /\ HandInv
  BY DEF CountInv
<1>1. ASSUME NEW job \in Job, AddJob(job) PROVE PlaceInv'
  BY <1>0, <1>1, PlaceAddJob
<1>2. ASSUME NEW job \in Job, SignalNewWork(job) PROVE PlaceInv'
  BY <1>2, PlaceKept DEF SignalNewWork, queueVars, Carries
<1>3. CASE Start
  <2>1. assigner.pc = "new" /\ assigner'.pc = "select" /\ UNCHANGED <<queues, totalJobs, pending>>
    BY <1>0, <1>3 DEF Start, ShapeInv, queueVars
  <2>2. \A w \in Worker : ~Carries(w) /\ ~Carries(w)'
    BY <1>0, <1>3, <2>1 DEF Start, ShapeInv, HandInv, Carries
  <2> QED
    BY <2>1, <2>2, PlaceKept
<1>4. CASE Stop \/ StopPool \/ StopReturns
  BY <1>4, PlaceKept DEF Stop, StopPool, StopReturns, queueVars, Carries
<1>5. CASE SelectNewWork \/ Quit \/ NoNextJob \/ WaitNewWork \/ Tick
  <2>1. /\ UNCHANGED <<queues, totalJobs, pending, worker>>
        /\ assigner.pc # "dispatch" /\ assigner'.pc # "dispatch"
    BY <1>0, <1>5
       DEF SelectNewWork, Quit, NoNextJob, WaitNewWork, Tick, Ticks, ShapeInv, queueVars
  <2> QED
    BY <2>1, PlaceKept DEF Carries
<1>6. CASE NextJob
  BY <1>0, <1>6, PlaceNextJob
<1>7. ASSUME NEW w \in Worker, Dispatch(w) PROVE PlaceInv'
  BY <1>0, <1>7, PlaceDispatch
<1>8. ASSUME NEW w \in Worker, CountWorker(w) PROVE PlaceInv'
  <2>1. /\ UNCHANGED <<queues, totalJobs, pending, assigner>> /\ worker[w].pc = "taken"
        /\ worker' = [worker EXCEPT ![w] = [pc |-> "running", job |-> worker[w].job]]
    BY <1>0, <1>8, PcOfWorker DEF CountWorker, queueVars
  <2>2. /\ worker'[w].pc = "running" /\ worker'[w].job = worker[w].job
        /\ \A v \in Worker : v # w => worker'[v] = worker[v]
    BY <1>0, <2>1, WorkerChanged
  <2> QED
    BY <2>1, <2>2, PlaceKept DEF Carries
<1>9. ASSUME NEW w \in Worker, Execute(w) PROVE PlaceInv'
  BY <1>0, <1>9, PlaceExecute
<1>10. ASSUME NEW w \in Worker, Cleanup(w) PROVE PlaceInv'
  <2>1. /\ UNCHANGED <<queues, totalJobs, pending, assigner>> /\ worker[w].pc = "executed"
        /\ worker' = [worker EXCEPT ![w] = [pc |-> "idle", job |-> NoJob]]
    BY <1>10 DEF Cleanup, queueVars
  <2>2. /\ worker'[w].pc = "idle"
        /\ \A v \in Worker : v # w => worker'[v] = worker[v]
    BY <1>0, <2>1, WorkerChanged
  <2> QED
    BY <2>1, <2>2, PlaceKept DEF Carries
<1>11. ASSUME NEW w \in Worker, WorkerQuits(w) PROVE PlaceInv'
  <2>1. /\ UNCHANGED <<queues, totalJobs, pending, assigner>> /\ worker[w].pc = "idle"
        /\ worker' = [worker EXCEPT ![w] = [pc |-> "exited", job |-> worker[w].job]]
    BY <1>0, <1>11, PcOfWorker DEF WorkerQuits, queueVars
  <2>2. /\ worker'[w].pc = "exited"
        /\ \A v \in Worker : v # w => worker'[v] = worker[v]
    BY <1>0, <2>1, WorkerChanged
  <2> QED
    BY <2>1, <2>2, PlaceKept DEF Carries
<1>12. CASE UNCHANGED vars
  BY <1>12, PlaceKept DEF vars, queueVars, Carries
<1> QED
  BY <1>1, <1>2, <1>3, <1>4, <1>5, <1>6, <1>7, <1>8, <1>9, <1>10, <1>11, <1>12
     DEF Next, AssignerStep, WorkerStep

\* A queue is no longer than totalJobs: its jobs differ, and all of them wait.
LEMMA QueueBounded ==
  ASSUME IndexInv, NoTwice, Totalled, NEW q \in DOMAIN queues
  PROVE  Len(queues[q]) <= totalJobs /\ totalJobs \in Nat /\ Len(queues[q]) \in Nat
<1> DEFINE n == Len(queues[q])
           f == [i \in 1 .. n |-> queues[q][i]]
<1>1. queues[q] \in Seq(Job) /\ n \in Nat
  BY DEF IndexInv
<1>2. \A i \in 1 .. n : queues[q][i] \in Job
  BY <1>1
<1>3. f \in [1 .. n -> WaitingJobs]
  BY <1>2 DEF WaitingJobs
<1>4. f \in Injection(1 .. n, WaitingJobs)
  BY <1>3 DEF Injection, IsInjective, NoTwice
<1>5. Cardinality(1 .. n) <= Cardinality(WaitingJobs)
  BY <1>4, FS_Injection DEF Totalled
<1> HIDE DEF n, f
<1>6. Cardinality(1 .. n) = n
  <2>1. Cardinality(1 .. n) = IF 1 > n THEN 0 ELSE n - 1 + 1
    BY <1>1, FS_Interval
  <2> QED
    BY <1>1, <2>1
<1>7. Cardinality(WaitingJobs) \in Nat
  BY FS_CardinalityType DEF Totalled
<1> QED
  BY <1>1, <1>5, <1>6, <1>7 DEF Totalled, n

\* A waiting job has one place, in its own queue; any other job has none.
LEMMA OneQueuePlace ==
  ASSUME IndexInv, NoTwice, Totalled, NEW job \in Job
  PROVE  /\ \A p \in QueuePlaces(job) : p[1] = QueueOf[job]
         /\ job \in WaitingJobs => \E p : QueuePlaces(job) = {p}
         /\ job \notin WaitingJobs => QueuePlaces(job) = {}
<1>1. ASSUME NEW p \in QueuePlaces(job)
      PROVE  /\ p = <<p[1], p[2]>> /\ p[1] \in DOMAIN queues
             /\ p[2] \in 1 .. Len(queues[p[1]]) /\ queues[p[1]][p[2]] = job
  <2>1. p \in (DOMAIN queues) \X (1 .. totalJobs)
        /\ p[2] \in DOMAIN queues[p[1]] /\ queues[p[1]][p[2]] = job
    BY DEF QueuePlaces
  <2>2. p[1] \in DOMAIN queues /\ p = <<p[1], p[2]>>
    BY <2>1
  <2>3. queues[p[1]] \in Seq(Job)
    BY <2>2 DEF IndexInv
  <2> QED
    BY <2>1, <2>2, <2>3
<1>2. \A p \in QueuePlaces(job) : p[1] = QueueOf[job]
  BY <1>1 DEF IndexInv
<1>3. ASSUME job \in WaitingJobs PROVE \E p : QueuePlaces(job) = {p}
  <2>1. PICK q \in DOMAIN queues : \E i \in 1 .. Len(queues[q]) : queues[q][i] = job
    BY <1>3 DEF WaitingJobs
  <2>2. PICK i \in 1 .. Len(queues[q]) : queues[q][i] = job
    BY <2>1
  <2>3. q = QueueOf[job]
    BY <2>2 DEF IndexInv
  <2>4. i \in 1 .. totalJobs /\ i \in DOMAIN queues[q]
    <3>1. queues[q] \in Seq(Job)
      BY DEF IndexInv
    <3> QED
      BY <2>2, <3>1, QueueBounded
  <2>5. <<q, i>> \in QueuePlaces(job)
    BY <2>2, <2>4 DEF QueuePlaces
  <2>6. ASSUME NEW p \in QueuePlaces(job) PROVE p = <<q, i>>
    <3>1. p[1] = q /\ p[2] \in 1 .. Len(queues[q]) /\ queues[q][p[2]] = job
          /\ p = <<p[1], p[2]>>
      BY <1>1, <1>2, <2>3
    <3>2. p[2] = i
      BY <2>2, <3>1 DEF NoTwice
    <3> QED
      BY <3>1, <3>2
  <2>7. QueuePlaces(job) = {<<q, i>>}
    BY <2>5, <2>6
  <2> QED
    BY <2>7
<1>4. ASSUME job \notin WaitingJobs PROVE QueuePlaces(job) = {}
  BY <1>1, <1>4 DEF WaitingJobs
<1> QED
  BY <1>2, <1>3, <1>4

\* The places of NoJobLost, counted.
LEMMA PlacesCounted ==
  ASSUME PlaceInv, IndexInv
  PROVE  NoJobLost
<1>1. {job \in Job : QueuePlaces(job) # {}} = WaitingJobs
  <2>1. \A job \in Job : QueuePlaces(job) # {} <=> job \in WaitingJobs
    BY OneQueuePlace DEF PlaceInv
  <2> QED
    BY <2>1 DEF WaitingJobs
<1>2. ASSUME NEW job \in Job
      PROVE  /\ \A p \in QueuePlaces(job) : p[1] = QueueOf[job]
             /\ Cardinality(QueuePlaces(job)) + Cardinality(Carriers(job))
                    + (IF Held(job) THEN 1 ELSE 0)
                  = IF job \in pending THEN 1 ELSE 0
  <2>1. /\ \A p \in QueuePlaces(job) : p[1] = QueueOf[job]
        /\ job \in WaitingJobs => \E p : QueuePlaces(job) = {p}
        /\ job \notin WaitingJobs => QueuePlaces(job) = {}
    BY OneQueuePlace DEF PlaceInv
  <2>2. Cardinality(QueuePlaces(job)) = IF job \in WaitingJobs THEN 1 ELSE 0
    BY <2>1, FS_EmptySet, FS_Singleton
  <2>3. Carriers(job) = {w \in Worker : Carries(w) /\ worker[w].job = job}
    BY DEF Carriers, Carries
  <2>4. CASE \E w \in Worker : Carries(w) /\ worker[w].job = job
    <3>1. PICK w \in Worker : Carries(w) /\ worker[w].job = job
      BY <2>4
    <3>2. Carriers(job) = {w}
      BY <2>3, <3>1 DEF PlaceInv, OnePlace
    <3>3. Cardinality(Carriers(job)) = 1
      BY <3>2, FS_Singleton
    <3>4. job \notin WaitingJobs /\ ~Held(job) /\ job \in pending
      BY <3>1 DEF PlaceInv, OnePlace, PendingPlaced
    <3> QED
      BY <2>1, <2>2, <3>3, <3>4
  <2>5. CASE ~ \E w \in Worker : Carries(w) /\ worker[w].job = job
    <3>1. Carriers(job) = {}
      BY <2>3, <2>5
    <3>2. Cardinality(Carriers(job)) = 0
      BY <3>1, FS_EmptySet
    <3>3. job \in pending <=> job \in WaitingJobs \/ Held(job)
      BY <2>5 DEF PlaceInv, PendingPlaced
    <3>4. ~(job \in WaitingJobs /\ Held(job))
      BY DEF PlaceInv, OnePlace, Held
    <3> QED
      BY <2>1, <2>2, <3>2, <3>3, <3>4
  <2> QED
    BY <2>4, <2>5
<1> QED
  BY <1>1, <1>2 DEF NoJobLost, PlaceInv, Totalled

\* No job is lost or run twice: from AddJob to Execute a job is in one place of
\* its own queue, in the assigner's hands or in those of one worker, and
\* totalJobs is the number of those in the queues (jobmanager.go).
THEOREM JobsAreKept == Spec => []NoJobLost
<1>1. PlaceInv /\ CountInv => NoJobLost
  BY PlacesCounted DEF CountInv
<1> QED
  BY <1>1, PlaceInit, PlaceNext, CountInit, CountNext, FinalInit, FinalNext, PTL DEF Spec

\* The types that no other invariant has.
RestInv ==
  /\ pending \subseteq Job /\ signals \subseteq Job
  /\ newWork \in BOOLEAN /\ quit \in BOOLEAN /\ poolQuit \in BOOLEAN
  /\ assigner.job \in Job \cup {NoJob}

\* Every step keeps them.
LEMMA RestNext == RestInv /\ CountInv /\ [Next]_vars => RestInv'
<1> SUFFICES ASSUME RestInv, CountInv, [Next]_vars PROVE RestInv'
  OBVIOUS
<1>0. IndexInv /\ ShapeInv /\ HandInv
  BY DEF CountInv
<1>1. ASSUME NEW job \in Job, AddJob(job) \/ SignalNewWork(job) PROVE RestInv'
  BY <1>1 DEF AddJob, SignalNewWork, RestInv, stopVars
<1>2. CASE Start
  <2>1. assigner'.job = assigner.job /\ UNCHANGED <<signals, newWork, stopVars, pending>>
    BY <1>0, <1>2 DEF Start, ShapeInv
  <2> QED
    BY <2>1 DEF RestInv, stopVars
<1>3. CASE Stop \/ StopPool \/ StopReturns
  BY <1>3 DEF Stop, StopPool, ClosePool, StopReturns, RestInv
<1>4. CASE SelectNewWork \/ Quit \/ NoNextJob \/ WaitNewWork \/ Tick
  <2>1. /\ assigner'.job = assigner.job /\ UNCHANGED <<signals, stopVars, pending>>
        /\ newWork' \in {newWork, FALSE}
    BY <1>0, <1>4 DEF SelectNewWork, Quit, NoNextJob, WaitNewWork, Tick, ShapeInv
  <2> QED
    BY <2>1 DEF RestInv, stopVars
<1>5. CASE NextJob
  <2>1. assigner'.job \in Job
    BY <1>0, <1>5, IndexNextJob
  <2> QED
    BY <1>5, <2>1 DEF NextJob, RestInv, stopVars
<1>6. ASSUME NEW w \in Worker, Dispatch(w) PROVE RestInv'
  <2>1. assigner'.job = NoJob
    BY <1>0, <1>6 DEF Dispatch, ShapeInv
  <2> QED
    BY <1>6, <2>1 DEF Dispatch, RestInv, stopVars
<1>7. ASSUME NEW w \in Worker, WorkerStep(w) PROVE RestInv'
  BY <1>7 DEF WorkerStep, CountWorker, Execute, Cleanup, WorkerQuits, RestInv, stopVars
<1>8. CASE UNCHANGED vars
  BY <1>8 DEF vars, RestInv, stopVars
<1> QED
  BY <1>1, <1>2, <1>3, <1>4, <1>5, <1>6, <1>7, <1>8 DEF Next, AssignerStep

\* The variables of the job manager, of its dispatcher and of their goroutines
\* keep their types; totalJobs is a number because it counts the waiting jobs.
THEOREM TypesHold == Spec => []TypeOK
<1>1. ASSUME Init PROVE RestInv
  <2>1. assigner.job = NoJob
    BY <1>1 DEF Init
  <2>2. newWork = FALSE /\ quit = FALSE /\ poolQuit = FALSE
    BY <1>1 DEF Init
  <2>3. pending = {} /\ signals = {}
    BY <1>1 DEF Init
  <2> QED
    BY <2>1, <2>2, <2>3 DEF RestInv
<1>2. ASSUME FinalInv, CountInv, PlaceInv, RestInv PROVE TypeOK
  <2>1. /\ \A q \in DOMAIN queues : queues[q] \in Seq(Job)
        /\ queuesIndex \in Seq(Queue) /\ lastQueueAccessed \in Int
    BY <1>2 DEF CountInv, IndexInv
  <2>2. DOMAIN queues \subseteq Queue
    BY <1>2, <2>1 DEF CountInv, IndexInv, QueuesIndexed
  <2>3. totalJobs \in Nat
    BY <1>2, FS_CardinalityType DEF PlaceInv, Totalled
  <2>4. DOMAIN workerCount \subseteq Queue /\ \A q \in DOMAIN workerCount : workerCount[q] \in Nat
    BY <1>2 DEF CountInv, MapInv
  <2>5. assigner \in [pc : {"new", "select", "next", "dispatch", "wait", "stopped"},
                      job : Job \cup {NoJob}]
    BY <1>2 DEF FinalInv, ShapeInv, RestInv, AssignerPcs
  <2>6. worker \in [Worker -> [pc : {"off", "idle", "taken", "running", "executed", "exited"},
                               job : Job \cup {NoJob}]]
    <3>1. \A w \in Worker : worker[w].job \in Job \cup {NoJob} /\ worker[w].pc \in WorkerPcs
      BY <1>2 DEF CountInv, HandInv, FinalInv, ShapeInv
    <3>2. worker = [w \in Worker |-> [pc |-> worker[w].pc, job |-> worker[w].job]]
      BY <1>2 DEF FinalInv, ShapeInv
    <3> QED
      BY <3>1, <3>2 DEF WorkerPcs
  <2>7. stopper \in {"none", "assigner", "workers", "done"}
    BY <1>2 DEF FinalInv, StopInv
  <2> QED
    BY <1>2, <2>1, <2>2, <2>3, <2>4, <2>5, <2>6, <2>7 DEF TypeOK, RestInv
<1> QED
  BY <1>1, <1>2, RestNext, PlaceInit, PlaceNext, CountInit, CountNext, FinalInit, FinalNext,
     PTL DEF Spec
=============================================================================
