SPECIFICATION FairSpec
CONSTANTS
  qa = qa  qb = qb
  a1 = a1  a2 = a2  b1 = b1
  NoJob = NoJob
  Queue = {qa, qb}
  Worker = {w1, w2}
  Job <- ThreeJobs
  QueueOf <- ThreeQueueOf
INVARIANTS TypeOK QueuesIndexed NoJobLost CountsAreTrue StopIsFinal
PROPERTIES StopEnds EveryJobRuns
CHECK_DEADLOCK FALSE
