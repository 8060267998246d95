----------------------------- MODULE Expiration -----------------------------
(***************************************************************************)
(* The expiration manager (src/internal/vault/expiration.go): leases are   *)
(* kept in storage, each with an entry and a timer in memory; a timer that *)
(* fires queues a revocation job for the workers of a fairshare job        *)
(* manager; requests register, renew and revoke leases meanwhile.  A new   *)
(* leader restores the timers from storage.                                *)
(*                                                                         *)
(* Requests and jobs hold a mutex of the lease from the load of its entry  *)
(* to its deletion or update.  What follows a failed revocation            *)
(* (OnFailure) holds no mutex, and the deletion of an entry also removes   *)
(* its mutex, while its holder goes on to clear the memory.                *)
(*                                                                         *)
(* An expiration time is a term: 1 at registration, one more with every    *)
(* renewal.  due is the last term whose end has passed; a lease revoked    *)
(* lazily is due at once.  A lease has one timer.  Storage may refuse the  *)
(* writes and deletions of a call, not its reads, nor the write that marks *)
(* a lease irrevocable.  Leases without expiration, token leases and the   *)
(* counts of leases are left out.                                          *)
(***************************************************************************)
EXTENDS Naturals, FiniteSets

CONSTANTS
    Lease,
    Worker,      \* workers of the job manager
    Request,     \* requests, each of which makes one call
    NoProc, NoLease,
    MaxAttempts, \* maxRevokeAttempts
    MaxTerm,     \* bound: terms of a lease
    MaxEras      \* bound: times that a manager is set up

Proc == Worker \cup Request

Calls == {"renew", "revoke", "force", "lazy"}

ASSUME ExpirationAssumption ==
    /\ MaxAttempts \in Nat \ {0} /\ MaxTerm \in Nat \ {0} /\ MaxEras \in Nat
    /\ Worker \cap Request = {}
    /\ NoProc \notin Proc /\ NoLease \notin Lease

VARIABLES
    stored,      \* the term of the lease entry in storage, 0 without entry
    marked,      \* stored entries with a RevokeErr
    due,         \* the last term that is over
    secret,      \* the secret of the lease, in its backend
    waived,      \* leases given up with an error or by force
    pending,     \* ExpirationManager.pending
    attempts,    \* pendingInfo.revokesAttempted
    armed,       \* leases whose timer runs
    at,          \* the term at whose end it fires, 0 for a retry
    irrevocable, \* ExpirationManager.irrevocable
    jobs,        \* revocation jobs of a lease that are queued
    lock,        \* lockPerLease: the holder of the mutex of a lease
    act,         \* what each worker and request is doing
    mode,        \* no manager, restoring, restored, or up
    todo,        \* leases that the restore has collected and not processed
    loaded,      \* ExpirationManager.restoreLoaded
    eras         \* managers set up so far

storage == <<stored, marked>>
timers  == <<pending, attempts, armed, at, irrevocable>>
manager == <<mode, todo, loaded, eras>>
vars == <<stored, marked, due, secret, waived, pending, attempts, armed, at,
          irrevocable, jobs, lock, act, mode, todo, loaded, eras>>

\* A process at rest, and one whose call is over.
Idle == [stage |-> "idle", op |-> "none", lease |-> NoLease, term |-> 0,
         bad |-> FALSE, tries |-> 0]
Over(p) == IF p \in Worker THEN Idle ELSE [Idle EXCEPT !.stage = "over"]

\* p is done with its lease: the mutex is free and its call returns.
Release(p) ==
    /\ lock' = [lock EXCEPT ![act[p].lease] = NoProc]
    /\ act' = [act EXCEPT ![p] = Over(p)]

\* A call fails: a job goes on to OnFailure, without the mutex.
Fail(p) ==
    /\ lock' = [lock EXCEPT ![act[p].lease] = IF @ = p THEN NoProc ELSE @]
    /\ act' = [act EXCEPT ![p] = IF p \in Worker THEN [@ EXCEPT !.stage = "failed"]
                                 ELSE Over(p)]

Due(l) == due[l] >= stored[l]

Init ==
    /\ stored = [l \in Lease |-> 0]
    /\ marked = {}
    /\ due = [l \in Lease |-> 0]
    /\ secret = [l \in Lease |-> "none"]
    /\ waived = {}
    /\ pending = {} /\ attempts = [l \in Lease |-> 0]
    /\ armed = {} /\ at = [l \in Lease |-> 0]
    /\ irrevocable = {}
    /\ jobs = [l \in Lease |-> 0]
    /\ lock = [l \in Lease |-> NoProc]
    /\ act = [p \in Proc |-> Idle]
    /\ mode = "down"
    /\ todo = {} /\ loaded = {} /\ eras = 0

-----------------------------------------------------------------------------
(* The entries in memory.                                                  *)

\* updatePendingInternal: an irrevocable lease loses its timer, any other
\* gets one, or has it set to its term.
UpdatePending(l, term, bad) ==
    /\ irrevocable' = IF bad THEN irrevocable \cup {l} ELSE irrevocable
    /\ pending' = IF bad THEN pending \ {l} ELSE pending \cup {l}
    /\ armed' = IF bad THEN armed \ (pending \cap {l}) ELSE armed \cup {l}
    /\ at' = IF bad THEN at ELSE [at EXCEPT ![l] = term]
    /\ attempts' = IF l \in pending THEN attempts ELSE [attempts EXCEPT ![l] = 0]

\* loadEntry, of an entry that is there: while leases are being restored it
\* restores this one first, once.
LoadEntry(l) ==
    IF mode \in {"restore", "restored"} /\ l \notin loaded
    THEN /\ UpdatePending(l, stored[l], l \in marked)
         /\ loaded' = loaded \cup {l}
         /\ UNCHANGED <<mode, todo, eras>>
    ELSE UNCHANGED <<timers, manager>>

\* The time passes: a term is over.
TermEnds(l) ==
    /\ due[l] < stored[l]
    /\ due' = [due EXCEPT ![l] = @ + 1]
    /\ UNCHANGED <<storage, secret, waived, timers, jobs, lock, act, manager>>

\* The timer fires and queues a job.
TimerFires(l) ==
    /\ l \in armed
    /\ at[l] <= due[l]
    /\ armed' = armed \ {l}
    /\ jobs' = [jobs EXCEPT ![l] = @ + 1]
    /\ UNCHANGED <<storage, due, secret, waived, pending, attempts, at, irrevocable,
                   lock, act, manager>>

-----------------------------------------------------------------------------
(* revokeCommon, for a job, Revoke and RevokeForce.                        *)

JobTaken(w, l) ==
    /\ act[w].stage = "idle"
    /\ jobs[l] > 0
    /\ jobs' = [jobs EXCEPT ![l] = @ - 1]
    /\ act' = [act EXCEPT ![w] = [Idle EXCEPT !.stage = "wait", !.op = "revoke",
                                              !.lease = l]]
    /\ UNCHANGED <<storage, due, secret, waived, timers, lock, manager>>

CallBegins(r, op, l) ==
    /\ act[r].stage = "idle"
    /\ mode # "down"
    /\ secret[l] # "none"
    /\ act' = [act EXCEPT ![r] = [Idle EXCEPT !.stage = "wait", !.op = op, !.lease = l]]
    /\ UNCHANGED <<storage, due, secret, waived, timers, jobs, lock, manager>>

\* Nothing is stored any more: there is nothing to do.
FindsNothing(p) ==
    /\ act[p].stage = "wait"
    /\ lock[act[p].lease] = NoProc
    /\ stored[act[p].lease] = 0
    /\ act' = [act EXCEPT ![p] = Over(p)]
    /\ UNCHANGED <<storage, due, secret, waived, timers, jobs, lock, manager>>

\* The mutex is taken and the entry loaded.
RevokeLoads(p) ==
    /\ act[p].stage = "wait"
    /\ act[p].op \in {"revoke", "force"}
    /\ lock[act[p].lease] = NoProc
    /\ stored[act[p].lease] # 0
    /\ LoadEntry(act[p].lease)
    /\ lock' = [lock EXCEPT ![act[p].lease] = p]
    /\ act' = [act EXCEPT ![p].stage = "backend"]
    /\ UNCHANGED <<storage, due, secret, waived, jobs>>

RevokeSucceeds(p) ==
    /\ act[p].stage = "backend"
    /\ act[p].op \in {"revoke", "force"}
    /\ secret' = [secret EXCEPT ![act[p].lease] = "revoked"]
    /\ act' = [act EXCEPT ![p].stage = "delete"]
    /\ UNCHANGED <<storage, due, waived, timers, jobs, lock, manager>>

(* Mutant of RevokeFails: the error is passed over. *)
RevokeIgnored(p) ==
    /\ act[p].stage = "backend"
    /\ act[p].op \in {"revoke", "force"}
    /\ act' = [act EXCEPT ![p].stage = "delete"]
    /\ UNCHANGED <<storage, due, secret, waived, timers, jobs, lock, manager>>

\* The backend fails, and the call with it ...
RevokeFails(p) ==
    /\ act[p].stage = "backend"
    /\ act[p].op = "revoke"
    /\ Fail(p)
    /\ UNCHANGED <<storage, due, secret, waived, timers, jobs, manager>>

\* ... unless it is forced.
RevokeForced(p) ==
    /\ act[p].stage = "backend"
    /\ act[p].op = "force"
    /\ waived' = waived \cup {act[p].lease}
    /\ act' = [act EXCEPT ![p].stage = "delete"]
    /\ UNCHANGED <<storage, due, secret, timers, jobs, lock, manager>>

\* deleteEntry, and the mutex is removed.
RevokeDeletes(p) ==
    /\ act[p].stage = "delete"
    /\ stored' = [stored EXCEPT ![act[p].lease] = 0]
    /\ marked' = marked \ {act[p].lease}
    /\ lock' = [lock EXCEPT ![act[p].lease] = NoProc]
    /\ act' = [act EXCEPT ![p].stage = "clear"]
    /\ UNCHANGED <<due, secret, waived, timers, jobs, manager>>

\* The entry cannot be deleted, or after it the index of the token.
RevokeStorageFails(p) ==
    /\ act[p].stage \in {"delete", "clear"}
    /\ Fail(p)
    /\ UNCHANGED <<storage, due, secret, waived, timers, jobs, manager>>

\* The entry and the timer in memory are removed.
RevokeClears(p) ==
    /\ act[p].stage = "clear"
    /\ pending' = pending \ {act[p].lease}
    /\ armed' = armed \ (pending \cap {act[p].lease})
    /\ irrevocable' = irrevocable \ {act[p].lease}
    /\ act' = [act EXCEPT ![p] = Over(p)]
    /\ UNCHANGED <<storage, due, secret, waived, attempts, at, jobs, lock, manager>>

-----------------------------------------------------------------------------
(* OnFailure of a job: no mutex, and pendingLock only in each single step. *)

\* The lease is not pending any more.
FailureGone(w) ==
    /\ act[w].stage = "failed"
    /\ act[w].lease \notin pending
    /\ act' = [act EXCEPT ![w] = Idle]
    /\ UNCHANGED <<storage, due, secret, waived, timers, jobs, lock, manager>>

(* Mutant of FailureRetries: the attempts are not counted. *)
FailureAlwaysRetries(w) ==
    /\ act[w].stage = "failed"
    /\ act[w].lease \in pending
    /\ act' = [act EXCEPT ![w] = [@ EXCEPT !.stage = "retry",
                                            !.tries = attempts[act[w].lease]]]
    /\ UNCHANGED <<storage, due, secret, waived, timers, jobs, lock, manager>>

\* A copy of pendingInfo is taken: another try ...
FailureRetries(w) ==
    /\ act[w].stage = "failed"
    /\ act[w].lease \in pending
    /\ attempts[act[w].lease] + 1 < MaxAttempts
    /\ act' = [act EXCEPT ![w] = [@ EXCEPT !.stage = "retry",
                                            !.tries = attempts[act[w].lease] + 1]]
    /\ UNCHANGED <<storage, due, secret, waived, timers, jobs, lock, manager>>

\* ... or none, out of retries or after an unrecoverable error.
FailureGivesUp(w) ==
    /\ act[w].stage = "failed"
    /\ act[w].lease \in pending
    /\ act' = [act EXCEPT ![w].stage = "giveup"]
    /\ UNCHANGED <<storage, due, secret, waived, timers, jobs, lock, manager>>

(* Mutant of RetryResets: the timer is not set again. *)
RetryForgets(w) ==
    /\ act[w].stage = "retry"
    /\ act' = [act EXCEPT ![w].stage = "store"]
    /\ UNCHANGED <<storage, due, secret, waived, timers, jobs, lock, manager>>

\* The timer of the copy is set to the backoff time.
RetryResets(w) ==
    /\ act[w].stage = "retry"
    /\ armed' = armed \cup {act[w].lease}
    /\ at' = [at EXCEPT ![act[w].lease] = 0]
    /\ act' = [act EXCEPT ![w].stage = "store"]
    /\ UNCHANGED <<storage, due, secret, waived, pending, attempts, irrevocable, jobs,
                   lock, manager>>

\* The copy is written back.
RetryStores(w) ==
    /\ act[w].stage = "store"
    /\ pending' = pending \cup {act[w].lease}
    /\ attempts' = [attempts EXCEPT ![act[w].lease] = act[w].tries]
    /\ act' = [act EXCEPT ![w] = Idle]
    /\ UNCHANGED <<storage, due, secret, waived, armed, at, irrevocable, jobs, lock,
                   manager>>

GiveUpLoads(w) ==
    /\ act[w].stage = "giveup"
    /\ stored[act[w].lease] # 0
    /\ LoadEntry(act[w].lease)
    /\ act' = [act EXCEPT ![w] = [@ EXCEPT !.stage = "mark",
                                            !.term = stored[act[w].lease],
                                            !.bad = act[w].lease \in marked]]
    /\ UNCHANGED <<storage, due, secret, waived, jobs, lock>>

GiveUpGone(w) ==
    /\ act[w].stage = "giveup"
    /\ stored[act[w].lease] = 0
    /\ act' = [act EXCEPT ![w] = Idle]
    /\ UNCHANGED <<storage, due, secret, waived, timers, jobs, lock, manager>>

\* markLeaseIrrevocable, of the entry loaded before.
GiveUpMarks(w) ==
    /\ act[w].stage = "mark"
    /\ ~act[w].bad
    /\ stored' = [stored EXCEPT ![act[w].lease] = act[w].term]
    /\ marked' = marked \cup {act[w].lease}
    /\ irrevocable' = irrevocable \cup {act[w].lease}
    /\ pending' = pending \ {act[w].lease}
    /\ armed' = armed \ (pending \cap {act[w].lease})
    /\ act' = [act EXCEPT ![w] = Idle]
    /\ UNCHANGED <<due, secret, waived, attempts, at, jobs, lock, manager>>

GiveUpAgain(w) ==
    /\ act[w].stage = "mark"
    /\ act[w].bad
    /\ act' = [act EXCEPT ![w] = Idle]
    /\ UNCHANGED <<storage, due, secret, waived, timers, jobs, lock, manager>>

-----------------------------------------------------------------------------
(* Register, Renew and LazyRevoke.                                         *)

\* The entry of a new lease is stored; its secret exists already.
RegisterPersists(r, l) ==
    /\ act[r].stage = "idle"
    /\ mode # "down"
    /\ secret[l] = "none"
    /\ secret' = [secret EXCEPT ![l] = "valid"]
    /\ stored' = [stored EXCEPT ![l] = 1]
    /\ lock' = [lock EXCEPT ![l] = r]
    /\ act' = [act EXCEPT ![r] = [Idle EXCEPT !.stage = "update", !.op = "register",
                                              !.lease = l, !.term = 1]]
    /\ UNCHANGED <<marked, due, waived, timers, jobs, manager>>

\* The entry or its index cannot be stored: the secret is revoked and the
\* entry, if there is one, deleted; the revocation may fail.
RegisterFails(r, l) ==
    /\ act[r].stage = "idle"
    /\ mode # "down"
    /\ secret[l] = "none"
    /\ \E s \in {"valid", "revoked"} :
        /\ secret' = [secret EXCEPT ![l] = s]
        /\ waived' = IF s = "valid" THEN waived \cup {l} ELSE waived
    /\ act' = [act EXCEPT ![r] = Over(r)]
    /\ UNCHANGED <<storage, due, timers, jobs, lock, manager>>

\* LazyRevoke loads the entry, and sets its expiration time to now.
LazyLoads(r) ==
    /\ act[r].stage = "wait"
    /\ act[r].op = "lazy"
    /\ lock[act[r].lease] = NoProc
    /\ stored[act[r].lease] # 0
    /\ LoadEntry(act[r].lease)
    /\ lock' = [lock EXCEPT ![act[r].lease] = r]
    /\ act' = [act EXCEPT ![r] = [@ EXCEPT !.stage = "persist",
                                            !.term = stored[act[r].lease],
                                            !.bad = act[r].lease \in marked]]
    /\ UNCHANGED <<storage, due, secret, waived, jobs>>

\* Renew loads an entry that is renewable ...
RenewLoads(r) ==
    /\ act[r].stage = "wait"
    /\ act[r].op = "renew"
    /\ lock[act[r].lease] = NoProc
    /\ stored[act[r].lease] # 0
    /\ act[r].lease \notin marked
    /\ ~Due(act[r].lease)
    /\ LoadEntry(act[r].lease)
    /\ lock' = [lock EXCEPT ![act[r].lease] = r]
    /\ act' = [act EXCEPT ![r] = [@ EXCEPT !.stage = "backend",
                                            !.term = stored[act[r].lease]]]
    /\ UNCHANGED <<storage, due, secret, waived, jobs>>

\* ... or refuses.
RenewRefused(r) ==
    /\ act[r].stage = "wait"
    /\ act[r].op = "renew"
    /\ lock[act[r].lease] = NoProc
    /\ stored[act[r].lease] # 0
    /\ act[r].lease \in marked \/ Due(act[r].lease)
    /\ LoadEntry(act[r].lease)
    /\ act' = [act EXCEPT ![r] = Over(r)]
    /\ UNCHANGED <<storage, due, secret, waived, jobs, lock>>

\* The backend agrees to a new term.
RenewSucceeds(r) ==
    /\ act[r].stage = "backend"
    /\ act[r].op = "renew"
    /\ act[r].term < MaxTerm
    /\ act' = [act EXCEPT ![r] = [@ EXCEPT !.stage = "persist",
                                            !.term = act[r].term + 1]]
    /\ UNCHANGED <<storage, due, secret, waived, timers, jobs, lock, manager>>

\* persistEntry of the entry loaded before, changed.
Persists(r) ==
    /\ act[r].stage = "persist"
    /\ stored' = [stored EXCEPT ![act[r].lease] = act[r].term]
    /\ marked' = IF act[r].bad THEN marked \cup {act[r].lease}
                 ELSE marked \ {act[r].lease}
    /\ due' = IF act[r].op = "lazy" THEN [due EXCEPT ![act[r].lease] = act[r].term]
              ELSE due
    /\ act' = [act EXCEPT ![r].stage = "update"]
    /\ UNCHANGED <<secret, waived, timers, jobs, lock, manager>>

\* The backend refuses the renewal, or the entry cannot be stored.
CallFails(r) ==
    /\ \/ act[r].stage = "backend" /\ act[r].op = "renew"
       \/ act[r].stage = "persist"
    /\ Release(r)
    /\ UNCHANGED <<storage, due, secret, waived, timers, jobs, manager>>

\* updatePending, and the call returns.
Updates(r) ==
    /\ act[r].stage = "update"
    /\ UpdatePending(act[r].lease, act[r].term, act[r].bad)
    /\ Release(r)
    /\ UNCHANGED <<storage, due, secret, waived, jobs, manager>>

-----------------------------------------------------------------------------
(* The manager comes and goes with the leadership of the node.             *)

\* setupExpiration: the restore collects what is stored.
Setup ==
    /\ mode = "down"
    /\ eras < MaxEras
    /\ eras' = eras + 1
    /\ mode' = "restore"
    /\ todo' = {l \in Lease : stored[l] # 0}
    /\ loaded' = {}
    /\ UNCHANGED <<storage, due, secret, waived, timers, jobs, lock, act>>

\* processRestore.
Restores(l) ==
    /\ mode = "restore"
    /\ l \in todo
    /\ todo' = todo \ {l}
    /\ loaded' = loaded \cup {l}
    /\ IF l \notin loaded /\ stored[l] # 0
       THEN UpdatePending(l, stored[l], l \in marked)
       ELSE UNCHANGED timers
    /\ UNCHANGED <<storage, due, secret, waived, jobs, lock, act, mode, eras>>

\* The restore ends: restoreLoaded is emptied first ...
RestoreClears ==
    /\ mode = "restore"
    /\ todo = {}
    /\ mode' = "restored"
    /\ loaded' = {}
    /\ UNCHANGED <<storage, due, secret, waived, timers, jobs, lock, act, todo, eras>>

\* ... and restore mode is left afterwards.
RestoreEnds ==
    /\ mode = "restored"
    /\ mode' = "up"
    /\ loaded' = {}
    /\ UNCHANGED <<storage, due, secret, waived, timers, jobs, lock, act, todo, eras>>

\* The memory of the manager is gone; timers that still run do nothing.
Forget ==
    /\ mode # "down"
    /\ mode' = "down"
    /\ pending' = {} /\ armed' = {} /\ irrevocable' = {}
    /\ jobs' = [l \in Lease |-> 0]
    /\ todo' = {} /\ loaded' = {}
    /\ attempts' = [l \in Lease |-> 0]
    /\ at' = [l \in Lease |-> 0]
    /\ UNCHANGED <<storage, due, secret, waived, eras>>

\* Stop: the requests have left the state lock, and the workers have ended.
Stop ==
    /\ \A p \in Proc : act[p].stage \in {"idle", "over"}
    /\ Forget
    /\ UNCHANGED <<lock, act>>

\* The process dies, whatever it was doing.
Crash ==
    /\ Forget
    /\ lock' = [l \in Lease |-> NoProc]
    /\ act' = [p \in Proc |-> IF act[p].stage = "idle" THEN Idle ELSE Over(p)]

-----------------------------------------------------------------------------
Revoking(p) ==
    \/ FindsNothing(p) \/ RevokeLoads(p)
    \/ RevokeSucceeds(p) \/ RevokeFails(p) \/ RevokeForced(p)
    \/ RevokeDeletes(p) \/ RevokeStorageFails(p) \/ RevokeClears(p)

Failing(w) ==
    \/ FailureGone(w) \/ FailureRetries(w) \/ FailureGivesUp(w)
    \/ RetryResets(w) \/ RetryStores(w)
    \/ GiveUpLoads(w) \/ GiveUpGone(w) \/ GiveUpMarks(w) \/ GiveUpAgain(w)

Updating(r) ==
    \/ LazyLoads(r) \/ RenewLoads(r) \/ RenewRefused(r)
    \/ RenewSucceeds(r) \/ Persists(r) \/ CallFails(r) \/ Updates(r)

Restoring == (\E l \in Lease : Restores(l)) \/ RestoreClears \/ RestoreEnds

Calling(r, l) ==
    RegisterPersists(r, l) \/ RegisterFails(r, l) \/ \E op \in Calls : CallBegins(r, op, l)

Next ==
    \/ \E l \in Lease : TermEnds(l) \/ TimerFires(l)
    \/ \E w \in Worker : Failing(w) \/ \E l \in Lease : JobTaken(w, l)
    \/ \E p \in Proc : Revoking(p)
    \/ \E r \in Request : Updating(r) \/ \E l \in Lease : Calling(r, l)
    \/ Setup \/ Restoring \/ Stop \/ Crash

\* The time passes, timers fire, every process goes on, and the job manager
\* serves every queue.
Fairness ==
    /\ \A l \in Lease :
        /\ WF_vars(TermEnds(l)) /\ WF_vars(TimerFires(l))
        /\ WF_vars(\E w \in Worker : JobTaken(w, l))
    /\ \A w \in Worker : WF_vars(Failing(w))
    /\ \A p \in Proc : WF_vars(Revoking(p))
    /\ \A r \in Request : WF_vars(Updating(r))
    /\ WF_vars(Restoring)

Spec == Init /\ [][Next]_vars /\ Fairness

-----------------------------------------------------------------------------
\* What a worker or a request may be doing.
Doing == [stage : {"idle", "wait", "backend", "delete", "clear", "failed", "retry",
                   "store", "giveup", "mark", "persist", "update", "over"},
          op : Calls \cup {"none", "register"}, lease : Lease \cup {NoLease},
          term : 0 .. MaxTerm, bad : BOOLEAN, tries : 0 .. MaxAttempts - 1]

\* The variables have their types.
TypeOK ==
    /\ stored \in [Lease -> 0 .. MaxTerm] /\ due \in [Lease -> 0 .. MaxTerm]
    /\ marked \subseteq Lease /\ waived \subseteq Lease
    /\ secret \in [Lease -> {"none", "valid", "revoked"}]
    /\ pending \subseteq Lease /\ armed \subseteq Lease /\ irrevocable \subseteq Lease
    /\ attempts \in [Lease -> 0 .. MaxAttempts - 1]
    /\ at \in [Lease -> 0 .. MaxTerm]
    /\ jobs \in [Lease -> Nat]
    /\ lock \in [Lease -> Proc \cup {NoProc}]
    /\ act \in [Proc -> Doing]
    /\ mode \in {"down", "restore", "restored", "up"}
    /\ todo \subseteq Lease /\ loaded \subseteq Lease
    /\ eras \in 0 .. MaxEras

\* Somebody who is at work on l will leave it revoked, marked or with a
\* timer that runs.
InHand(l) == \E p \in Proc :
    /\ act[p].lease = l
    /\ \/ act[p].op = "register" \/ act[p].stage = "update"
       \/ p \in Worker

\* No lease is forgotten: once the restore is over, an entry in storage that
\* is not marked irrevocable has a timer that fires no later than its term
\* ends, a job, or somebody at work on it, whatever failed, crashed or ran
\* into one another before.
NothingForgotten ==
    mode \in {"restored", "up"} => \A l \in Lease :
        stored[l] # 0 /\ l \notin marked =>
            \/ l \in armed /\ at[l] <= stored[l]
            \/ jobs[l] > 0
            \/ InHand(l)

\* A lease is given up only after its secret: an entry that is gone has left
\* a revoked secret behind, unless the caller forced it or was told that the
\* registration failed.
SecretGoesFirst ==
    \A l \in Lease : stored[l] = 0 => secret[l] # "valid" \/ l \in waived

\* A lease that is due is revoked or marked irrevocable, however often its
\* revocation fails, unless the manager goes.
DueLeasesEnd ==
    \A l \in Lease : stored[l] # 0 /\ Due(l) /\ mode = "up"
                        ~> stored[l] = 0 \/ l \in marked \/ mode = "down"
=============================================================================
