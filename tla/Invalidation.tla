---------------------------- MODULE Invalidation ----------------------------
(***************************************************************************)
(* The invalidation manager of a read-enabled standby                      *)
(* (src/internal/vault/invalidation.go), with the two goroutines that      *)
(* drive it: the one that applies replicated writes and calls Add, and the *)
(* HA loop, which stops, reloads and starts the node                       *)
(* (src/internal/vault/ha.go, core.go).                                    *)
(*                                                                         *)
(* A standby serves reads from state it keeps in memory: namespaces,       *)
(* mounts, quotas.  Each is made from one storage key.  A replicated write *)
(* changes the key first and is announced to the manager afterwards; the   *)
(* manager queues the key, a worker of its dispatcher re-reads it.  The    *)
(* question is where a change can be lost before it is seen: missed is a   *)
(* history variable, no part of the program, that records the places.      *)
(*                                                                         *)
(* A storage entry is the number of its last write and whether that wrote  *)
(* or deleted it; keys hold a UUID, so a deleted one never comes back.  A  *)
(* tainted namespace is treated by a standby as a deleted one.  The        *)
(* dispatcher is the job manager of module FairShare, of which only what   *)
(* the manager sees is kept: jobs of one queue are handed out in order,    *)
(* several workers may hold jobs of one queue, and Stop waits for them.    *)
(***************************************************************************)
EXTENDS Naturals, Sequences, FiniteSets

CONSTANTS
    Key,        \* storage keys whose value the node keeps in memory
    Root,       \* the root namespace, which has no key
    NoKey,
    Parent,     \* the namespace a key lies in: another key, or Root
    Split,      \* mounts: keys whose entry is read and installed in two steps
    QueueOf,    \* the dispatcher queue of a key
    Initial,    \* keys that exist at the start
    Worker,     \* the dispatcher's workers (maxDispatchers in the code)
    MaxWrites   \* bound: writes to the storage

\* A namespace exists before what lies in it, and nothing lies in a mount.
ASSUME InvalidationAssumption ==
    /\ Parent \in [Key -> Key \cup {Root}]
    /\ Split \subseteq Key
    /\ Initial \subseteq Key
    /\ DOMAIN QueueOf = Key
    /\ MaxWrites \in Nat
    /\ Root \notin Key /\ NoKey \notin Key
    /\ \A k \in Initial : Parent[k] \in Initial \cup {Root}
    /\ \A k \in Key : Parent[k] \notin Split

VARIABLES
    stored,     \* the replicated storage
    writes,     \* writes to it so far
    view,       \* the entry each in-memory object was made from
    missed,     \* history: keys whose change was let go while the node serves
    hook,       \* the applying goroutine inside the invalidation hook
    accepting,  \* invalidationManager.accepting
    pending,    \* invalidationManager.pending
    proc,       \* the goroutine of processPendingQueue
    batch,      \* the keys it has taken and not yet dispatched
    dispatcher, \* invalidationManager.dispatcher
    queue,      \* jobs the dispatcher has not handed out
    job,        \* what each worker of the dispatcher is doing
    ha,         \* where the HA loop is
    quit,       \* quitCh is closed
    cancelled,  \* quitContext is cancelled
    loaded,     \* keys read by the load in progress
    restart,    \* a restart request is in haLoopRestartCh
    writer      \* the restore callback at the state lock

applier == <<stored, hook, writes>>
memory  == <<view, missed>>
manager == <<accepting, pending, proc, batch>>
workers == <<dispatcher, queue, job>>
node    == <<ha, quit, cancelled, loaded, restart, writer>>
vars    == <<stored, writes, view, missed, hook, accepting, pending, proc, batch,
             dispatcher, queue, job, ha, quit, cancelled, loaded, restart,
             writer>>

\* A key that was never written.
None == [n |-> 0, live |-> FALSE]

Idle == [stage |-> "idle", key |-> NoKey, value |-> None, todo |-> {}]

\* A job with the mounts S left to reload, or to remove with their namespace.
Left(stage, S) ==
    IF S = {} THEN Idle
    ELSE [stage |-> stage, key |-> NoKey, value |-> None, todo |-> S]

\* The namespace of k is in f: in storage, or known to the node (GetNamespace).
HasParent(k, f) == Parent[k] # Root => f[Parent[k]].live

Known(k) == HasParent(k, view)

\* The mounts of f, in storage or in memory, under the namespace k
\* (reloadNamespaceMounts).
MountsIn(k, f) == {m \in Split : Parent[m] = k /\ f[m].live}

\* The job in place i of the queue is the first of its own queue.
FirstOfQueue(i) == \A j \in 1 .. i - 1 : QueueOf[queue[j]] # QueueOf[queue[i]]

\* A job has the state lock for reading.
Reading(w) == job[w].stage \in {"locked", "reload", "read", "remove"}

Init ==
    /\ stored = [k \in Key |-> IF k \in Initial THEN [n |-> 1, live |-> TRUE] ELSE None]
    /\ writes = 0
    /\ view = [k \in Key |-> None]
    /\ missed = {}
    /\ hook = [stage |-> "idle", key |-> NoKey]
    /\ accepting = FALSE
    /\ pending = <<>>
    /\ proc = "none"
    /\ batch = <<>>
    /\ dispatcher = "none"
    /\ queue = <<>>
    /\ job = [w \in Worker |-> Idle]
    /\ ha = "down"
    /\ quit = FALSE
    /\ cancelled = FALSE
    /\ loaded = {}
    /\ restart = FALSE
    /\ writer = "none"

-----------------------------------------------------------------------------
(* The goroutine that applies the log and calls the invalidation hook.     *)

\* The entry of k changes in the storage of this node: it is written, under
\* a namespace that exists, or deleted.
Changes(k, live) ==
    /\ hook.stage = "idle"
    /\ writes < MaxWrites
    /\ writes' = writes + 1
    /\ IF live THEN HasParent(k, stored) /\ (stored[k].live \/ stored[k].n = 0)
       ELSE stored[k].live
    /\ stored' = [stored EXCEPT ![k] = [n |-> @.n + 1, live |-> live]]

\* A batch of the log is applied, and the hook is called with its keys.
Apply(k, live) ==
    /\ Changes(k, live)
    /\ hook' = [stage |-> "applied", key |-> k]
    /\ UNCHANGED <<memory, manager, workers, node>>

\* A snapshot of the leader is installed in place of the batches a slow node
\* has not applied (FSM.Restore): no hook is called.
InstallSnapshot(k, live) ==
    /\ Changes(k, live)
    /\ missed' = missed \cup {k}
    /\ UNCHANGED <<view, hook, manager, workers, ha, quit, cancelled, loaded,
                   restart, writer>>

\* The callback of a restored snapshot, a goroutine of its own, goes for the
\* state lock as a writer on a node that serves ...
RestoreWants ==
    /\ ha = "serve"
    /\ writer = "none"
    /\ writer' = "wanted"
    /\ UNCHANGED <<applier, memory, manager, workers, ha, quit, cancelled, loaded,
                   restart>>

\* ... has it once the readers are gone, ...
RestoreLocks ==
    /\ writer = "wanted"
    /\ ha \in {"serve", "wanted"}
    /\ \A w \in Worker : ~Reading(w)
    /\ writer' = "held"
    /\ UNCHANGED <<applier, memory, manager, workers, ha, quit, cancelled, loaded,
                   restart>>

\* ... purges the physical cache, reads the keyring again and lets go.
RestoreEnds ==
    /\ writer = "held"
    /\ writer' = "none"
    /\ UNCHANGED <<applier, memory, manager, workers, ha, quit, cancelled, loaded,
                   restart>>

\* Add reads accepting and the role of the node: the key goes on ...
AddPasses ==
    /\ hook.stage = "applied"
    /\ accepting
    /\ ha # "active"
    /\ hook' = [hook EXCEPT !.stage = "passed"]
    /\ UNCHANGED <<stored, writes, memory, manager, workers, node>>

\* ... or is ignored.
AddIgnores ==
    /\ hook.stage = "applied"
    /\ ~accepting \/ ha = "active"
    /\ hook' = [stage |-> "idle", key |-> NoKey]
    /\ UNCHANGED <<stored, writes, memory, manager, workers, node>>

\* Add appends the key under pendingLock.
AddAppends ==
    /\ hook.stage = "passed"
    /\ pending' = Append(pending, hook.key)
    /\ hook' = [hook EXCEPT !.stage = "notify"]
    /\ UNCHANGED <<stored, writes, memory, accepting, proc, batch, workers, node>>

\* The send on pendingNotify: it is taken when the processor is parked in
\* its select, and dropped at any other time.
AddNotifies ==
    /\ hook.stage = "notify"
    /\ proc' = IF proc = "parked" THEN "woken" ELSE proc
    /\ hook' = [stage |-> "idle", key |-> NoKey]
    /\ UNCHANGED <<stored, writes, memory, accepting, pending, batch, workers, node>>

-----------------------------------------------------------------------------
(* processPendingQueue.                                                    *)

ProcParks ==
    /\ proc = "loop"
    /\ ~quit /\ ~cancelled
    /\ proc' = "parked"
    /\ UNCHANGED <<applier, memory, accepting, pending, batch, workers, node>>

ProcQuits ==
    /\ proc \in {"loop", "parked"}
    /\ quit \/ cancelled
    /\ proc' = "done"
    /\ UNCHANGED <<applier, memory, accepting, pending, batch, workers, node>>

ProcTakes ==
    /\ proc = "woken"
    /\ batch' = pending
    /\ pending' = <<>>
    /\ proc' = "busy"
    /\ UNCHANGED <<applier, memory, accepting, workers, node>>

ProcDispatches ==
    /\ proc = "busy"
    /\ batch # <<>>
    /\ queue' = Append(queue, Head(batch))
    /\ batch' = Tail(batch)
    /\ UNCHANGED <<applier, memory, accepting, pending, proc, dispatcher, job, node>>

ProcLoops ==
    /\ proc = "busy"
    /\ batch = <<>>
    /\ proc' = "loop"
    /\ UNCHANGED <<applier, memory, accepting, pending, batch, workers, node>>

-----------------------------------------------------------------------------
(* invalidationJob.Execute on a worker of the dispatcher.                  *)

JobTaken(w, i) ==
    /\ dispatcher = "up"
    /\ job[w] = Idle
    /\ i \in 1 .. Len(queue)
    /\ FirstOfQueue(i)
    /\ job' = [job EXCEPT ![w] = [stage |-> "start", key |-> queue[i],
                                  value |-> None, todo |-> {}]]
    /\ queue' = SubSeq(queue, 1, i - 1) \o SubSeq(queue, i + 1, Len(queue))
    /\ UNCHANGED <<applier, memory, manager, dispatcher, node>>

\* Somebody holds the state lock, or waits for it, as a writer.
Writing == ha # "serve" \/ writer # "none"

\* The state lock is taken for reading.
JobLocks(w) ==
    /\ job[w].stage = "start"
    /\ ~Writing
    /\ job' = [job EXCEPT ![w].stage = "locked"]
    /\ UNCHANGED <<applier, memory, manager, dispatcher, queue, node>>

(* Mutant of JobGivesUp: the wait for the lock ends only when the node is down. *)
JobWaitsForLock(w) ==
    /\ job[w].stage = "start"
    /\ ha = "down"
    /\ job' = [job EXCEPT ![w] = Idle]
    /\ UNCHANGED <<applier, memory, manager, dispatcher, queue, node>>

\* The job ends without a look at its key: told to quit before it began, or
\* without the state lock after maxLockTime.  A node that serves on has then
\* let the change go.
JobGivesUp(w) ==
    /\ job[w].stage = "start"
    /\ Writing
    /\ job' = [job EXCEPT ![w] = Idle]
    /\ missed' = IF ha = "serve" THEN missed \cup {job[w].key} ELSE missed
    /\ UNCHANGED <<applier, view, manager, dispatcher, queue, node>>

\* The key lies in a namespace the node does not know and is left alone, for
\* the invalidation of that namespace is still to come.
JobIgnores(w) ==
    /\ job[w].stage = "locked"
    /\ ~Known(job[w].key)
    /\ job' = [job EXCEPT ![w] = Idle]
    /\ UNCHANGED <<applier, memory, manager, dispatcher, queue, node>>

\* What lies in the namespace k, new to the node, beside the mounts.
PassedOver(k) ==
    IF view[k].live THEN {} ELSE {q \in Key \ Split : Parent[q] = k /\ stored[q].live}

\* A handler that reads and installs under one lock.  The handler of a
\* namespace lists the mounts in it afterwards: those in storage, to reload
\* each, or those in memory when the namespace is gone.  Nothing else that
\* lies in it is reloaded, were its own job ignored before.
JobRefreshes(w) ==
    /\ job[w].stage = "locked"
    /\ job[w].key \notin Split
    /\ Known(job[w].key)
    /\ view' = [view EXCEPT ![job[w].key] = stored[job[w].key]]
    /\ missed' = (missed \ {job[w].key}) \cup PassedOver(job[w].key)
    /\ job' = [job EXCEPT ![w] = IF stored[job[w].key].live
                                 THEN Left("reload", MountsIn(job[w].key, stored))
                                 ELSE Left("remove", MountsIn(job[w].key, view))]
    /\ UNCHANGED <<applier, manager, dispatcher, queue, node>>

\* A handler that reads the entry of a mount: its own key, or one of the
\* mounts of its namespace ...
JobReads(w, k) ==
    /\ \/ /\ job[w].stage = "locked"
          /\ k \in Split /\ k = job[w].key
          /\ Known(k)
       \/ k \in job[w].todo /\ job[w].stage = "reload"
    /\ job' = [job EXCEPT ![w] = [stage |-> "read", key |-> k, value |-> stored[k],
                                  todo |-> @.todo \ {k}]]
    /\ UNCHANGED <<applier, memory, manager, dispatcher, queue, node>>

\* ... and installs what it has read, be it older than what is there: the
\* later change, which another job has installed, is then let go.
JobInstalls(w) ==
    /\ job[w].stage = "read"
    /\ view' = [view EXCEPT ![job[w].key] = job[w].value]
    /\ missed' = IF job[w].value = stored[job[w].key] THEN missed \ {job[w].key}
                 ELSE IF job[w].value.n < view[job[w].key].n
                 THEN missed \cup {job[w].key} ELSE missed
    /\ job' = [job EXCEPT ![w] = Left("reload", @.todo)]
    /\ UNCHANGED <<applier, manager, dispatcher, queue, node>>

\* The handler of a namespace that is gone removes one of its mounts.
JobRemoves(w, k) ==
    /\ job[w].stage = "remove"
    /\ k \in job[w].todo
    /\ view' = [view EXCEPT ![k].live = FALSE]
    /\ job' = [job EXCEPT ![w] = Left("remove", @.todo \ {k})]
    /\ UNCHANGED <<missed, applier, manager, dispatcher, queue, node>>

\* A handler fails.  OnFailure asks for a restart unless the context is
\* cancelled.
JobFails(w) ==
    /\ Reading(w)
    /\ restart' = (restart \/ ~cancelled)
    /\ job' = [job EXCEPT ![w] = Idle]
    /\ UNCHANGED <<applier, memory, manager, dispatcher, queue, ha, quit, cancelled,
                   loaded, writer>>

-----------------------------------------------------------------------------
(* The HA loop.                                                            *)

\* The restart request is heard: the standby context is cancelled and the
\* loop goes for the state lock again.
HearRestart ==
    /\ ha = "serve"
    /\ restart
    /\ ha' = "wanted"
    /\ cancelled' = TRUE
    /\ restart' = FALSE
    /\ UNCHANGED <<applier, memory, manager, workers, quit, loaded, writer>>

\* The node has won an election and goes for the state lock; the standby
\* context is cancelled only later.
WinElection ==
    /\ ha = "serve"
    /\ ha' = "wanted"
    /\ UNCHANGED <<applier, memory, manager, workers, quit, cancelled, loaded, restart,
                   writer>>

\* The state lock is acquired for writing once every reader is gone, and
\* the standby context is cancelled.
GrabStateLock ==
    /\ ha = "wanted"
    /\ writer # "held"
    /\ \A w \in Worker : ~Reading(w)
    /\ ha' = "held"
    /\ cancelled' = TRUE
    /\ UNCHANGED <<applier, memory, manager, workers, quit, loaded, restart, writer>>

\* Stop: no more keys, and the quit channel is closed.
StopAccepting ==
    /\ ha = "held"
    /\ accepting' = FALSE
    /\ quit' = TRUE
    /\ ha' = "stopping"
    /\ UNCHANGED <<applier, memory, pending, proc, batch, workers, cancelled, loaded,
                   restart, writer>>

(* Mutant of StopDispatcher: Stop does not wait for the jobs. *)
StopDispatcherAtOnce ==
    /\ ha = "stopping"
    /\ dispatcher' = "down"
    /\ ha' = "draining"
    /\ UNCHANGED <<applier, memory, manager, queue, job, quit, cancelled, loaded,
                   restart, writer>>

\* Stop: dispatcher.Stop() returns when every worker has ended its job;
\* what was queued never runs.
StopDispatcher ==
    /\ ha = "stopping"
    /\ \A w \in Worker : job[w] = Idle
    /\ dispatcher' = "down"
    /\ ha' = "draining"
    /\ UNCHANGED <<applier, memory, manager, queue, job, quit, cancelled, loaded,
                   restart, writer>>

\* Stop: the wait for the processor runs out.  The timer's only value has
\* been received then, and the drain of its channel never returns.
StopTimesOut ==
    /\ ha = "draining"
    /\ proc # "done"
    /\ ha' = "stuck"
    /\ UNCHANGED <<applier, memory, manager, workers, quit, cancelled, loaded, restart,
                   writer>>

\* Stop: the processor has ended; pending and the fields of this run are
\* cleared, and restarts asked for meanwhile are drained.
StopClears ==
    /\ ha = "draining"
    /\ proc = "done"
    /\ pending' = <<>>
    /\ queue' = <<>>
    /\ proc' = "none"
    /\ dispatcher' = "none"
    /\ quit' = FALSE
    /\ restart' = FALSE
    /\ ha' = "down"
    /\ UNCHANGED <<applier, memory, accepting, batch, job, cancelled, loaded, writer>>

\* readonlyUnsealStrategy: Track, then the load begins.
Track ==
    /\ ha = "down"
    /\ accepting' = TRUE
    /\ pending' = <<>>
    /\ view' = [k \in Key |-> None]
    /\ missed' = {}
    /\ loaded' = {}
    /\ cancelled' = FALSE
    /\ ha' = "load"
    /\ UNCHANGED <<applier, proc, batch, workers, quit, restart, writer>>

\* unsealShared reads one key, after the namespace it lies in.
Load(k) ==
    /\ ha = "load"
    /\ k \notin loaded
    /\ Parent[k] \in loaded \cup {Root}
    /\ IF Known(k) THEN /\ view' = [view EXCEPT ![k] = stored[k]]
                        /\ missed' = missed \ {k}
                   ELSE UNCHANGED memory
    /\ loaded' = loaded \cup {k}
    /\ UNCHANGED <<applier, manager, workers, ha, quit, cancelled, restart, writer>>

\* The load fails: Stop, with nothing started yet.
LoadFails ==
    /\ ha = "load"
    /\ accepting' = FALSE
    /\ pending' = <<>>
    /\ ha' = "down"
    /\ UNCHANGED <<applier, memory, proc, batch, workers, quit, cancelled, loaded,
                   restart, writer>>

(* Mutant of Start: the pending list begins empty. *)
StartAfresh ==
    /\ ha = "load"
    /\ loaded = Key
    /\ dispatcher' = "up"
    /\ proc' = "loop"
    /\ pending' = <<>>
    /\ ha' = "serve"
    /\ UNCHANGED <<applier, memory, accepting, batch, queue, job, quit, cancelled,
                   loaded, restart, writer>>

\* Start: a dispatcher and a processor; the state lock is released.
Start ==
    /\ ha = "load"
    /\ loaded = Key
    /\ dispatcher' = "up"
    /\ proc' = "loop"
    /\ ha' = "serve"
    /\ UNCHANGED <<applier, memory, accepting, pending, batch, queue, job, quit,
                   cancelled, loaded, restart, writer>>

\* The node becomes active, without tracking, and steps down again; preSeal
\* then stops a manager that was never started.
Promote ==
    /\ ha = "down"
    /\ ha' = "active"
    /\ UNCHANGED <<applier, memory, manager, workers, quit, cancelled, loaded, restart,
                   writer>>

Demote ==
    /\ ha = "active"
    /\ accepting' = FALSE
    /\ pending' = <<>>
    /\ ha' = "down"
    /\ UNCHANGED <<applier, memory, proc, batch, workers, quit, cancelled, loaded,
                   restart, writer>>

-----------------------------------------------------------------------------
Adding == AddPasses \/ AddIgnores \/ AddAppends \/ AddNotifies

Processing == ProcParks \/ ProcQuits \/ ProcTakes \/ ProcDispatches \/ ProcLoops

Executing(w) ==
    \/ \E i \in 1 .. Len(queue) : JobTaken(w, i)
    \/ JobLocks(w) \/ JobGivesUp(w) \/ JobIgnores(w) \/ JobRefreshes(w)
    \/ (\E k \in Key : JobReads(w, k) \/ JobRemoves(w, k)) \/ JobInstalls(w)

Stopping == GrabStateLock \/ StopAccepting \/ StopDispatcher \/ StopClears

Loading == (\E k \in Key : Load(k)) \/ Start

Next ==
    \/ \E k \in Key, live \in BOOLEAN : Apply(k, live) \/ InstallSnapshot(k, live)
    \/ RestoreWants \/ RestoreLocks \/ RestoreEnds
    \/ Adding
    \/ Processing
    \/ \E w \in Worker : Executing(w) \/ JobFails(w)
    \/ Stopping \/ StopTimesOut
    \/ Track \/ Loading \/ LoadFails
    \/ HearRestart \/ WinElection \/ Promote \/ Demote

\* Every goroutine runs when it can: the hook, the processor, each worker,
\* the HA loop within Stop and when a restart is asked for, and the restore
\* callback.  A writer that waits for the state lock is served in its turn.
Fairness ==
    /\ WF_vars(Adding)
    /\ WF_vars(Processing)
    /\ \A w \in Worker : WF_vars(Executing(w))
    /\ WF_vars(Stopping)
    /\ WF_vars(Loading)
    /\ WF_vars(HearRestart)
    /\ SF_vars(GrabStateLock)
    /\ WF_vars(RestoreLocks \/ RestoreEnds)

Spec == Init /\ [][Next]_vars /\ Fairness

-----------------------------------------------------------------------------
InSeq(k, s) == \E i \in 1 .. Len(s) : s[i] = k

\* An entry of the storage, or an object made from it.
Entry == [n : Nat, live : BOOLEAN]

\* What a worker can be doing.
Doing == [stage : {"idle", "start", "locked", "reload", "read", "remove"},
          key : Key \cup {NoKey}, value : Entry, todo : SUBSET Key]

\* The variables have their types.
TypeOK ==
    /\ stored \in [Key -> Entry] /\ view \in [Key -> Entry] /\ missed \subseteq Key
    /\ writes \in 0 .. MaxWrites
    /\ hook \in [stage : {"idle", "applied", "passed", "notify"},
                key : Key \cup {NoKey}]
    /\ accepting \in BOOLEAN
    /\ pending \in Seq(Key) /\ batch \in Seq(Key) /\ queue \in Seq(Key)
    /\ proc \in {"none", "loop", "parked", "woken", "busy", "done"}
    /\ dispatcher \in {"none", "up", "down"}
    /\ job \in [Worker -> Doing]
    /\ ha \in {"down", "load", "serve", "wanted", "held", "stopping", "draining",
               "stuck", "active"}
    /\ quit \in BOOLEAN /\ cancelled \in BOOLEAN /\ restart \in BOOLEAN
    /\ loaded \subseteq Key
    /\ writer \in {"none", "wanted", "held"}

\* The object of k is not what its entry says.
Stale(k) == view[k] # stored[k] /\ (view[k].live \/ stored[k].live)

\* A change of k is on its way to the view: with the hook, the processor, the
\* dispatcher or a worker.
OnItsWay(k) ==
    \/ hook.key = k /\ hook.stage \in {"applied", "passed"}
    \/ InSeq(k, batch) \/ InSeq(k, queue)
    \/ \E w \in Worker : \/ k \in job[w].todo /\ job[w].stage # "remove"
                         \/ /\ job[w].key = k
                            /\ job[w].stage = "read" => job[w].value = stored[k]

\* A change of k waits in the manager.  The send on pendingNotify is dropped
\* when the processor is not parked, and Start sends none: what is pending is
\* then taken at a later Add, and not before.
Waiting(k) == InSeq(k, pending)

\* A change is let go in four places only.  While the node serves, an object
\* that is not what its entry says has its key on the way to a worker, or
\* waiting for the next Add, or the node is about to be reloaded; or the key
\* is missed: the entry came with a snapshot, which calls no hook; or its job
\* timed out at the state lock, which the restore callback wants; or it is no
\* mount and lies in a namespace that became known after it; or an older read
\* of a mount was installed over a later one.  The source promises more: "any
\* invalidations that occurred during startup will now be processed"
\* (core.go), "Failure to grab a lock is never fatal" and "this is safe to
\* ignore" (invalidation.go).
NoInvalidationLost ==
    ha = "serve" => \A k \in Key :
        Known(k) /\ Stale(k) => OnItsWay(k) \/ Waiting(k) \/ restart \/ k \in missed

\* What is on its way arrives: on a node that serves on, when no more is
\* written, every object comes to be what its entry says, unless its key
\* waits for the next Add or is missed.
ChangesAreSeen ==
    <>[](ha = "serve") =>
        <>[](\A k \in Key : Known(k) /\ Stale(k) => Waiting(k) \/ k \in missed)

\* Stop leaves nothing behind: while the node is down, loads or is active,
\* no job, batch or processor of an earlier run is left to touch the state
\* that the HA loop tears down and builds.
QuietWhenStopped ==
    ha \in {"down", "load", "active"} =>
        /\ proc = "none" /\ batch = <<>> /\ queue = <<>>
        /\ \A w \in Worker : job[w] = Idle

\* Stop ends although it waits, with the state lock held for writing, for
\* jobs that want it for reading: they give up after maxLockTime.  The one
\* exception is the timer of Stop itself.
LeavingEnds == ha = "wanted" ~> ha \in {"down", "stuck"}
=============================================================================
