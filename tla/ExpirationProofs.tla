-------------------------- MODULE ExpirationProofs --------------------------
(***************************************************************************)
(* Proofs about Expiration, for any number of leases, workers, requests,   *)
(* terms and takeovers: no secret outlives its entry, and no lease is      *)
(* forgotten.                                                              *)
(***************************************************************************)
EXTENDS Expiration, TLAPS

USE ExpirationAssumption DEF ExpirationAssumption

Active(p) == act[p].stage \notin {"idle", "over"}

(* An entry that was loaded unmarked and is on its way back to storage.    *)
Writes(r) ==
  /\ ~act[r].bad
  /\ \/ act[r].stage \in {"persist", "update"}
     \/ act[r].stage = "backend" /\ act[r].op = "renew"

(* What a process is at fits who it is and what it was asked for.          *)
Stages ==
  \A p \in Proc :
    /\ Active(p) <=> act[p].lease \in Lease
    /\ act[p].stage \in {"failed", "retry", "store", "giveup", "mark"} => p \in Worker
    /\ act[p].stage \in {"persist", "update"} => p \in Request
    /\ act[p].op = "register" => act[p].stage = "update"
    /\ p \in Worker => act[p].op \in {"none", "revoke"}
    /\ act[p].stage \in {"mark", "persist", "update"} => act[p].term # 0
    /\ act[p].stage \in {"wait", "backend"} => ~act[p].bad
    /\ act[p].stage \in {"idle", "over"} => act[p].op = "none"

(* A lease that was never registered has left no trace.                    *)
Fresh ==
  \A l \in Lease : secret[l] = "none" =>
    /\ stored[l] = 0 /\ at[l] = 0 /\ jobs[l] = 0 /\ l \notin armed
    /\ \A p \in Proc : act[p].lease # l

(* The mutex of a lease is held from the load of the entry to its deletion.*)
Mutex ==
  \A p \in Proc :
    act[p].stage \in {"backend", "delete", "persist", "update"} => lock[act[p].lease] = p

DownIsQuiet ==
  mode = "down" =>
    /\ \A p \in Proc : ~Active(p)
    /\ \A l \in Lease : jobs[l] = 0
    /\ armed = {}

(* The secret is revoked, or given up, before the entry is deleted.        *)
RevokedFirst ==
  \A p \in Proc : act[p].stage = "delete" =>
    secret[act[p].lease] # "valid" \/ act[p].lease \in waived

(* An entry that was deleted comes back only marked.                       *)
ClearedIsGone ==
  \A p \in Proc : act[p].stage = "clear" =>
    stored[act[p].lease] = 0 \/ act[p].lease \in marked

NoWriterAfterDelete ==
  \A p, r \in Proc :
    act[p].stage = "clear" /\ Writes(r) => act[p].lease # act[r].lease

(* What is about to be put in memory is what is in storage.                *)
UpdatesAgree ==
  \A r \in Proc : act[r].stage = "update" =>
    IF act[r].bad THEN act[r].lease \in marked
    ELSE act[r].lease \in marked \/ stored[act[r].lease] = act[r].term

(* A timer is never set to a later time than the one in storage, nor than  *)
(* the one that is about to be stored.                                     *)
TimersInTime ==
  \A l \in Lease : stored[l] # 0 /\ l \notin marked => at[l] <= stored[l]

WritersExtend ==
  \A r \in Proc : Writes(r) =>
    /\ at[act[r].lease] <= act[r].term
    /\ act[r].lease \in marked \/ stored[act[r].lease] <= act[r].term

(* Leases that the restore has still to process, or are about to have      *)
(* their timer set.                                                        *)
ToRestore(l) == mode = "restore" /\ l \in todo /\ l \notin loaded

ToUpdate(l) == \E r \in Request : act[r].lease = l /\ act[r].stage = "update"

(* A worker that will leave the lease revoked, marked or with a timer, by  *)
(* its own next steps.                                                     *)
ToFinish(l) ==
  \E w \in Worker : /\ act[w].lease = l
                    /\ act[w].stage # "store"
                    /\ ~(act[w].stage = "mark" /\ act[w].bad)

Live(l) == mode # "down" /\ stored[l] # 0 /\ l \notin marked

PendingCovers ==
  \A l \in Lease : Live(l) => l \in pending \/ ToUpdate(l) \/ ToRestore(l)

TimersCover ==
  \A l \in Lease : Live(l) =>
    l \in armed \/ jobs[l] > 0 \/ ToUpdate(l) \/ ToFinish(l) \/ ToRestore(l)

Processes == Stages /\ Fresh /\ Mutex /\ DownIsQuiet
Entries   == RevokedFirst /\ SecretGoesFirst /\ ClearedIsGone /\ NoWriterAfterDelete
Times     == UpdatesAgree /\ TimersInTime /\ WritersExtend
Cover     == PendingCovers /\ TimersCover

IInv == TypeOK /\ Processes /\ Entries /\ Times /\ Cover

-----------------------------------------------------------------------------
(* What a step makes of the process that takes it *)

(* The others go on as they were.                                          *)
OthersStay(p) ==
  /\ act' \in [Proc -> Doing]
  /\ \A q \in Proc : q # p => act'[q] = act[q]

(* The process goes on to the next stage of what it does.                  *)
GoesOn(p, s) ==
  /\ OthersStay(p)
  /\ act'[p].stage = s /\ act'[p].op = act[p].op /\ act'[p].lease = act[p].lease
  /\ act'[p].term = act[p].term /\ act'[p].bad = act[p].bad

(* The process is done with its lease.                                     *)
Rests(p) ==
  /\ OthersStay(p)
  /\ act'[p].stage \in {"idle", "over"}
  /\ act'[p].op = "none" /\ act'[p].lease = NoLease /\ act'[p].bad = FALSE

(* It begins with a lease, and it goes on with what it loaded.             *)
Begins(p, s, op, l, t) ==
  /\ OthersStay(p)
  /\ act'[p].stage = s /\ act'[p].op = op /\ act'[p].lease = l
  /\ act'[p].term = t /\ act'[p].bad = FALSE

Loads(p, s, t, b) ==
  /\ OthersStay(p)
  /\ act'[p].stage = s /\ act'[p].op = act[p].op /\ act'[p].lease = act[p].lease
  /\ act'[p].term = t /\ act'[p].bad = b

(* The records of a goroutine that does nothing, or has ended.             *)
LEMMA IdleIsDoing == Idle \in Doing /\ \A p \in Proc : Over(p) \in Doing
<1>1. 0 \in 0 .. MaxTerm /\ 0 \in 0 .. MaxAttempts - 1
  OBVIOUS
<1>2. Idle \in Doing
  BY <1>1 DEF Idle, Doing
<1>3. [Idle EXCEPT !.stage = "over"] \in Doing
  BY <1>2 DEF Doing
<1> QED BY <1>2, <1>3 DEF Over

(* A step of one goroutine leaves the others alone.                        *)
LEMMA OneMoves ==
  ASSUME TypeOK, NEW p \in Proc, NEW d \in Doing, act' = [act EXCEPT ![p] = d]
  PROVE  OthersStay(p) /\ act'[p] = d
  BY DEF TypeOK, OthersStay

(* A step that only moves on keeps the lease and what was read.            *)
LEMMA StageMoves ==
  ASSUME TypeOK, NEW p \in Proc, NEW s, act' = [act EXCEPT ![p].stage = s],
         s \in {"wait", "backend", "delete", "clear", "failed", "retry",
                "store", "giveup", "mark", "persist", "update"}
  PROVE  GoesOn(p, s)
<1> DEFINE d == [act[p] EXCEPT !.stage = s]
<1>1. act[p] \in Doing
  BY DEF TypeOK
<1>2. d \in Doing
  BY <1>1 DEF Doing
<1>3. act' = [act EXCEPT ![p] = d]
  OBVIOUS
<1>4. /\ d.stage = s /\ d.op = act[p].op /\ d.lease = act[p].lease
      /\ d.term = act[p].term /\ d.bad = act[p].bad
  BY <1>1 DEF Doing
<1> HIDE DEF d
<1>5. OthersStay(p) /\ act'[p] = d
  BY <1>2, <1>3, OneMoves
<1> QED BY <1>4, <1>5 DEF GoesOn

(* A retry counts the attempt and keeps the rest.                          *)
LEMMA TriesMoves ==
  ASSUME TypeOK, NEW p \in Proc, NEW n \in 0 .. MaxAttempts - 1,
         act' = [act EXCEPT ![p] = [@ EXCEPT !.stage = "retry", !.tries = n]]
  PROVE  GoesOn(p, "retry")
<1> DEFINE d == [act[p] EXCEPT !.stage = "retry", !.tries = n]
<1>1. act[p] \in Doing
  BY DEF TypeOK
<1>2. d \in Doing
  BY <1>1 DEF Doing
<1>3. act' = [act EXCEPT ![p] = d]
  OBVIOUS
<1>4. /\ d.stage = "retry" /\ d.op = act[p].op /\ d.lease = act[p].lease
      /\ d.term = act[p].term /\ d.bad = act[p].bad
  BY <1>1 DEF Doing
<1> HIDE DEF d
<1>5. OthersStay(p) /\ act'[p] = d
  BY <1>2, <1>3, OneMoves
<1> QED BY <1>4, <1>5 DEF GoesOn

(* A step that reads the entry takes its term and its mark.                *)
LEMMA LoadMoves ==
  ASSUME TypeOK, NEW p \in Proc, NEW t \in 0 .. MaxTerm, NEW b \in BOOLEAN,
         NEW s, s \in {"mark", "persist"},
         act' = [act EXCEPT ![p] = [@ EXCEPT !.stage = s, !.term = t, !.bad = b]]
  PROVE  Loads(p, s, t, b)
<1> DEFINE d == [act[p] EXCEPT !.stage = s, !.term = t, !.bad = b]
<1>1. act[p] \in Doing
  BY DEF TypeOK
<1>2. d \in Doing
  BY <1>1 DEF Doing
<1>3. act' = [act EXCEPT ![p] = d]
  OBVIOUS
<1>4. /\ d.stage = s /\ d.op = act[p].op /\ d.lease = act[p].lease
      /\ d.term = t /\ d.bad = b
  BY <1>1 DEF Doing
<1> HIDE DEF d
<1>5. OthersStay(p) /\ act'[p] = d
  BY <1>2, <1>3, OneMoves
<1> QED BY <1>4, <1>5 DEF Loads

(* A step that reads or sets the term keeps the rest.                      *)
LEMMA TermMoves ==
  ASSUME TypeOK, NEW p \in Proc, NEW t \in 0 .. MaxTerm,
         NEW s, s \in {"backend", "persist"},
         act' = [act EXCEPT ![p] = [@ EXCEPT !.stage = s, !.term = t]]
  PROVE  Loads(p, s, t, act[p].bad)
<1> DEFINE d == [act[p] EXCEPT !.stage = s, !.term = t]
<1>1. act[p] \in Doing
  BY DEF TypeOK
<1>2. d \in Doing
  BY <1>1 DEF Doing
<1>3. act' = [act EXCEPT ![p] = d]
  OBVIOUS
<1>4. /\ d.stage = s /\ d.op = act[p].op /\ d.lease = act[p].lease
      /\ d.term = t /\ d.bad = act[p].bad
  BY <1>1 DEF Doing
<1> HIDE DEF d
<1>5. OthersStay(p) /\ act'[p] = d
  BY <1>2, <1>3, OneMoves
<1> QED BY <1>4, <1>5 DEF Loads

(* A goroutine that ends holds no lease.                                   *)
LEMMA RestMoves ==
  ASSUME TypeOK, NEW p \in Proc,
         act' = [act EXCEPT ![p] = Over(p)] \/ act' = [act EXCEPT ![p] = Idle]
  PROVE  Rests(p)
<1>1. OthersStay(p) /\ (act'[p] = Over(p) \/ act'[p] = Idle)
  BY IdleIsDoing, OneMoves
<1> QED BY <1>1 DEF Rests, Over, Idle

(* A call that begins waits for the lock of its lease.                     *)
LEMMA WaitMoves ==
  ASSUME TypeOK, NEW p \in Proc, NEW op \in Calls, NEW l \in Lease,
         act' = [act EXCEPT ![p] = [Idle EXCEPT !.stage = "wait", !.op = op, !.lease = l]]
  PROVE  Begins(p, "wait", op, l, 0)
<1> DEFINE d == [Idle EXCEPT !.stage = "wait", !.op = op, !.lease = l]
<1>1. /\ d \in Doing /\ d.stage = "wait" /\ d.op = op /\ d.lease = l
      /\ d.term = 0 /\ d.bad = FALSE
  <2>1. d \in Doing /\ d.stage = "wait" /\ d.op = op /\ d.lease = l
    BY IdleIsDoing DEF Doing
  <2>2. d.term = 0 /\ d.bad = FALSE
    BY DEF Idle
  <2> QED BY <2>1, <2>2
<1> HIDE DEF d
<1>2. OthersStay(p) /\ act'[p] = d
  BY <1>1, OneMoves DEF d
<1> QED BY <1>1, <1>2 DEF Begins

(* A registration goes on with the first term.                             *)
LEMMA RegisterMoves ==
  ASSUME TypeOK, NEW p \in Proc, NEW l \in Lease,
         act' = [act EXCEPT ![p] = [Idle EXCEPT !.stage = "update", !.op = "register",
                                                !.lease = l, !.term = 1]]
  PROVE  Begins(p, "update", "register", l, 1)
<1> DEFINE d == [Idle EXCEPT !.stage = "update", !.op = "register", !.lease = l, !.term = 1]
<1>1. /\ d \in Doing /\ d.stage = "update" /\ d.op = "register" /\ d.lease = l
      /\ d.term = 1 /\ d.bad = FALSE
  <2>0. 1 \in 0 .. MaxTerm
    OBVIOUS
  <2>1. d \in Doing /\ d.stage = "update" /\ d.op = "register" /\ d.lease = l /\ d.term = 1
    BY <2>0, IdleIsDoing DEF Doing
  <2>2. d.bad = FALSE
    BY DEF Idle
  <2> QED BY <2>1, <2>2
<1> HIDE DEF d
<1>2. OthersStay(p) /\ act'[p] = d
  BY <1>1, OneMoves DEF d
<1> QED BY <1>1, <1>2 DEF Begins

-----------------------------------------------------------------------------
(* What loading an entry makes of the timers *)

(* Nothing is forgotten of an unmarked entry, and it is restored first.    *)
Reloads(l) ==
  /\ pending' \subseteq Lease /\ armed' \subseteq Lease /\ irrevocable' \subseteq Lease
  /\ attempts' \in [Lease -> 0 .. MaxAttempts - 1] /\ at' \in [Lease -> 0 .. MaxTerm]
  /\ mode' = mode /\ todo' = todo /\ eras' = eras
  /\ loaded \subseteq loaded' /\ loaded' \subseteq loaded \cup {l}
  /\ armed' \subseteq armed \cup {l}
  /\ armed \ (marked \cap {l}) \subseteq armed'
  /\ pending \ (marked \cap {l}) \subseteq pending'
  /\ l \in loaded' /\ l \notin loaded /\ l \notin marked => l \in armed' /\ l \in pending'
  /\ \A k \in Lease :
       at'[k] = at[k] \/ (k = l /\ l \notin marked /\ at'[k] = stored[k])
  /\ mode = "down" => armed' = armed

(* What updatePendingInternal leaves in the maps and the timers.           *)
LEMMA UpdateSets ==
  ASSUME TypeOK, NEW l \in Lease, NEW t \in 0 .. MaxTerm, NEW b \in BOOLEAN,
         UpdatePending(l, t, b)
  PROVE  /\ pending' \subseteq Lease /\ armed' \subseteq Lease /\ irrevocable' \subseteq Lease
         /\ attempts' \in [Lease -> 0 .. MaxAttempts - 1] /\ at' \in [Lease -> 0 .. MaxTerm]
         /\ \A k \in Lease : k # l => at'[k] = at[k]
         /\ b => at' = at
         /\ ~b => at'[l] = t /\ l \in pending' /\ l \in armed'
         /\ armed' \subseteq armed \cup {l}
         /\ armed \ {l} \subseteq armed' /\ pending \ {l} \subseteq pending'
<1>1. attempts' \in [Lease -> 0 .. MaxAttempts - 1] /\ at' \in [Lease -> 0 .. MaxTerm]
  BY DEF UpdatePending, TypeOK
<1> QED BY <1>1 DEF UpdatePending, TypeOK

(* loadEntry during the restore arms a timer and forgets none.             *)
LEMMA EntryReloads ==
  ASSUME TypeOK, NEW l \in Lease, LoadEntry(l)
  PROVE  Reloads(l)
<1>1. CASE mode \in {"restore", "restored"} /\ l \notin loaded
  <2>1. UpdatePending(l, stored[l], l \in marked) /\ loaded' = loaded \cup {l}
        /\ mode' = mode /\ todo' = todo /\ eras' = eras
    BY <1>1 DEF LoadEntry
  <2>2. stored[l] \in 0 .. MaxTerm
    BY DEF TypeOK
  <2> DEFINE b == l \in marked
  <2>3. b \in BOOLEAN /\ UpdatePending(l, stored[l], b)
    BY <2>1
  <2> HIDE DEF b
  <2>4. /\ pending' \subseteq Lease /\ armed' \subseteq Lease /\ irrevocable' \subseteq Lease
        /\ attempts' \in [Lease -> 0 .. MaxAttempts - 1] /\ at' \in [Lease -> 0 .. MaxTerm]
        /\ \A k \in Lease : k # l => at'[k] = at[k]
        /\ b => at' = at
        /\ ~b => at'[l] = stored[l] /\ l \in pending' /\ l \in armed'
        /\ armed' \subseteq armed \cup {l}
        /\ armed \ {l} \subseteq armed' /\ pending \ {l} \subseteq pending'
    BY <2>2, <2>3, UpdateSets
  <2> QED BY <1>1, <2>1, <2>4 DEF Reloads, b
<1>2. CASE ~(mode \in {"restore", "restored"} /\ l \notin loaded)
  <2>1. UNCHANGED <<pending, attempts, armed, at, irrevocable, mode, todo, loaded, eras>>
    BY <1>2 DEF LoadEntry, timers, manager
  <2> QED BY <2>1 DEF Reloads, TypeOK
<1> QED BY <1>1, <1>2

-----------------------------------------------------------------------------
(* One lemma per action *)

(* TermEnds keeps IInv.                                                    *)
LEMMA TermEndsKeeps ==
  ASSUME IInv, NEW l \in Lease, TermEnds(l)
  PROVE  IInv'
<1> USE DEF IInv, Processes, Entries, Times, Cover, TermEnds, storage, timers, manager
<1>1. TypeOK'
  BY DEF TypeOK
<1>2. Processes'
  BY DEF TypeOK, Stages, Active, Fresh, Mutex, DownIsQuiet
<1>3. Entries'
  BY DEF TypeOK, RevokedFirst, Fresh, Stages, SecretGoesFirst, ClearedIsGone,
     NoWriterAfterDelete, Writes, Mutex
<1>4. Times'
  BY DEF TypeOK, UpdatesAgree, Mutex, Fresh, Stages, TimersInTime, WritersExtend, Writes
<1>5. Cover'
  BY DEF TypeOK, PendingCovers, ClearedIsGone, UpdatesAgree, Live, ToUpdate, ToRestore,
     Stages, TimersCover, DownIsQuiet, ToFinish
<1> QED BY <1>1, <1>2, <1>3, <1>4, <1>5

(* TimerFires keeps IInv.                                                  *)
LEMMA TimerFiresKeeps ==
  ASSUME IInv, NEW l \in Lease, TimerFires(l)
  PROVE  IInv'
<1> USE DEF IInv, Processes, Entries, Times, Cover, TimerFires, storage, timers, manager
<1>1. TypeOK'
  BY DEF TypeOK
<1>2. Processes'
  BY DEF TypeOK, Stages, Active, Fresh, Mutex, DownIsQuiet
<1>3. Entries'
  BY DEF TypeOK, RevokedFirst, Fresh, Stages, SecretGoesFirst, ClearedIsGone,
     NoWriterAfterDelete, Writes, Mutex
<1>4. Times'
  BY DEF TypeOK, UpdatesAgree, Mutex, Fresh, Stages, TimersInTime, WritersExtend, Writes
<1>5. Cover'
  BY DEF TypeOK, PendingCovers, ClearedIsGone, UpdatesAgree, Live, ToUpdate, ToRestore,
     Stages, TimersCover, DownIsQuiet, ToFinish
<1> QED BY <1>1, <1>2, <1>3, <1>4, <1>5

(* JobTaken keeps IInv.                                                    *)
LEMMA JobTakenKeeps ==
  ASSUME IInv, NEW w \in Worker, NEW l \in Lease, JobTaken(w, l)
  PROVE  IInv'
<1> USE DEF IInv, Processes, Entries, Times, Cover, JobTaken, storage, timers, manager
<1>p. w \in Proc
  BY DEF Proc
<1>f. Begins(w, "wait", "revoke", l, 0)
  BY <1>p, WaitMoves DEF Calls
<1>1. TypeOK'
  BY <1>p, <1>f DEF TypeOK, Begins, OthersStay
<1>2. Processes'
  BY <1>p, <1>f DEF TypeOK, Stages, Active, Begins, OthersStay, Fresh, Mutex, DownIsQuiet
<1>3. Entries'
  BY <1>p, <1>f DEF TypeOK, RevokedFirst, Fresh, Stages, Begins, OthersStay,
     SecretGoesFirst, ClearedIsGone, NoWriterAfterDelete, Writes, Mutex
<1>4. Times'
  BY <1>p, <1>f DEF TypeOK, UpdatesAgree, Mutex, Fresh, Stages, Begins, OthersStay,
     TimersInTime, WritersExtend, Writes
<1>5. Cover'
  BY <1>p, <1>f DEF TypeOK, PendingCovers, ClearedIsGone, UpdatesAgree, Live, ToUpdate,
     ToRestore, Stages, Active, Begins, OthersStay, TimersCover, DownIsQuiet, ToFinish
<1> QED BY <1>1, <1>2, <1>3, <1>4, <1>5

(* FailureGone keeps IInv.                                                 *)
LEMMA FailureGoneKeeps ==
  ASSUME IInv, NEW w \in Worker, FailureGone(w)
  PROVE  IInv'
<1> USE DEF IInv, Processes, Entries, Times, Cover, FailureGone, storage, timers, manager
<1>p. w \in Proc
  BY DEF Proc
<1>l. act[w].lease \in Lease
  BY <1>p DEF Stages, Active
<1>f. Rests(w)
  BY <1>p, RestMoves
<1>1. TypeOK'
  BY <1>p, <1>l, <1>f DEF TypeOK, Rests, OthersStay
<1>2. Processes'
  BY <1>p, <1>l, <1>f DEF TypeOK, Stages, Active, Rests, OthersStay, Fresh, Mutex,
     DownIsQuiet
<1>3. Entries'
  BY <1>p, <1>l, <1>f DEF TypeOK, RevokedFirst, Fresh, Stages, Rests, OthersStay,
     SecretGoesFirst, ClearedIsGone, NoWriterAfterDelete, Writes, Mutex
<1>4. Times'
  BY <1>p, <1>l, <1>f DEF TypeOK, UpdatesAgree, Mutex, Fresh, Stages, Rests, OthersStay,
     TimersInTime, WritersExtend, Writes
<1>5. Cover'
  BY <1>p, <1>l, <1>f DEF TypeOK, PendingCovers, ClearedIsGone, UpdatesAgree, Live,
     ToUpdate, ToRestore, Stages, Rests, OthersStay, TimersCover, DownIsQuiet, ToFinish
<1> QED BY <1>1, <1>2, <1>3, <1>4, <1>5

(* FailureRetries keeps IInv.                                              *)
LEMMA FailureRetriesKeeps ==
  ASSUME IInv, NEW w \in Worker, FailureRetries(w)
  PROVE  IInv'
<1> USE DEF IInv, Processes, Entries, Times, Cover, FailureRetries, storage, timers, manager
<1>p. w \in Proc
  BY DEF Proc
<1>l. act[w].lease \in Lease
  BY <1>p DEF Stages, Active
<1>f. GoesOn(w, "retry")
  <2> DEFINE n == attempts[act[w].lease] + 1
  <2>1. n \in 0 .. MaxAttempts - 1
    BY <1>l DEF TypeOK
  <2>2. act' = [act EXCEPT ![w] = [@ EXCEPT !.stage = "retry", !.tries = n]]
    OBVIOUS
  <2> HIDE DEF n, FailureRetries
  <2> QED BY <1>p, <2>1, <2>2, TriesMoves
<1>1. TypeOK'
  BY <1>p, <1>l, <1>f DEF TypeOK, GoesOn, OthersStay
<1>2. Processes'
  BY <1>p, <1>l, <1>f DEF TypeOK, Stages, Active, GoesOn, OthersStay, Fresh, Mutex,
     DownIsQuiet
<1>3. Entries'
  BY <1>p, <1>l, <1>f DEF TypeOK, RevokedFirst, Fresh, Stages, GoesOn, OthersStay,
     SecretGoesFirst, ClearedIsGone, NoWriterAfterDelete, Writes, Mutex
<1>4. Times'
  BY <1>p, <1>l, <1>f DEF TypeOK, UpdatesAgree, Mutex, Fresh, Stages, GoesOn, OthersStay,
     TimersInTime, WritersExtend, Writes
<1>5. Cover'
  BY <1>p, <1>l, <1>f DEF TypeOK, PendingCovers, ClearedIsGone, UpdatesAgree, Live,
     ToUpdate, ToRestore, Stages, GoesOn, OthersStay, TimersCover, DownIsQuiet, ToFinish
<1> QED BY <1>1, <1>2, <1>3, <1>4, <1>5

(* FailureGivesUp keeps IInv.                                              *)
LEMMA FailureGivesUpKeeps ==
  ASSUME IInv, NEW w \in Worker, FailureGivesUp(w)
  PROVE  IInv'
<1> USE DEF IInv, Processes, Entries, Times, Cover, FailureGivesUp, storage, timers, manager
<1>p. w \in Proc
  BY DEF Proc
<1>l. act[w].lease \in Lease
  BY <1>p DEF Stages, Active
<1>f. GoesOn(w, "giveup")
  BY <1>p, StageMoves
<1>1. TypeOK'
  BY <1>p, <1>l, <1>f DEF TypeOK, GoesOn, OthersStay
<1>2. Processes'
  BY <1>p, <1>l, <1>f DEF TypeOK, Stages, Active, GoesOn, OthersStay, Fresh, Mutex,
     DownIsQuiet
<1>3. Entries'
  BY <1>p, <1>l, <1>f DEF TypeOK, RevokedFirst, Fresh, Stages, GoesOn, OthersStay,
     SecretGoesFirst, ClearedIsGone, NoWriterAfterDelete, Writes, Mutex
<1>4. Times'
  BY <1>p, <1>l, <1>f DEF TypeOK, UpdatesAgree, Mutex, Fresh, Stages, GoesOn, OthersStay,
     TimersInTime, WritersExtend, Writes
<1>5. Cover'
  BY <1>p, <1>l, <1>f DEF TypeOK, PendingCovers, ClearedIsGone, UpdatesAgree, Live,
     ToUpdate, ToRestore, Stages, GoesOn, OthersStay, TimersCover, DownIsQuiet, ToFinish
<1> QED BY <1>1, <1>2, <1>3, <1>4, <1>5

(* RetryResets keeps IInv.                                                 *)
LEMMA RetryResetsKeeps ==
  ASSUME IInv, NEW w \in Worker, RetryResets(w)
  PROVE  IInv'
<1> USE DEF IInv, Processes, Entries, Times, Cover, RetryResets, storage, timers, manager
<1>p. w \in Proc
  BY DEF Proc
<1>l. act[w].lease \in Lease
  BY <1>p DEF Stages, Active
<1>f. GoesOn(w, "store")
  BY <1>p, StageMoves
<1>1. TypeOK'
  BY <1>p, <1>l, <1>f DEF TypeOK, GoesOn, OthersStay
<1>2. Processes'
  BY <1>p, <1>l, <1>f DEF TypeOK, Stages, Active, GoesOn, OthersStay, Fresh, Mutex,
     DownIsQuiet
<1>3. Entries'
  BY <1>p, <1>l, <1>f DEF TypeOK, RevokedFirst, Fresh, Stages, GoesOn, OthersStay,
     SecretGoesFirst, ClearedIsGone, NoWriterAfterDelete, Writes, Mutex
<1>4. Times'
  BY <1>p, <1>l, <1>f DEF TypeOK, Doing, UpdatesAgree, Mutex, Fresh, Stages, GoesOn,
     OthersStay, TimersInTime, WritersExtend, Writes
<1>5. Cover'
  BY <1>p, <1>l, <1>f DEF TypeOK, PendingCovers, ClearedIsGone, UpdatesAgree, Live,
     ToUpdate, ToRestore, Stages, GoesOn, OthersStay, TimersCover, DownIsQuiet, ToFinish
<1> QED BY <1>1, <1>2, <1>3, <1>4, <1>5

(* RetryStores keeps IInv.                                                 *)
LEMMA RetryStoresKeeps ==
  ASSUME IInv, NEW w \in Worker, RetryStores(w)
  PROVE  IInv'
<1> USE DEF IInv, Processes, Entries, Times, Cover, RetryStores, storage, timers, manager
<1>p. w \in Proc
  BY DEF Proc
<1>l. act[w].lease \in Lease
  BY <1>p DEF Stages, Active
<1>f. Rests(w)
  BY <1>p, RestMoves
<1>1. TypeOK'
  <2>1. act[w].tries \in 0 .. MaxAttempts - 1
    BY <1>p DEF TypeOK, Doing
  <2>2. attempts' \in [Lease -> 0 .. MaxAttempts - 1]
    BY <1>l, <2>1 DEF TypeOK
  <2> QED BY <1>l, <1>f, <2>2 DEF TypeOK, Rests, OthersStay
<1>2. Processes'
  BY <1>p, <1>l, <1>f DEF TypeOK, Stages, Active, Rests, OthersStay, Fresh, Mutex,
     DownIsQuiet
<1>3. Entries'
  BY <1>p, <1>l, <1>f DEF TypeOK, RevokedFirst, Fresh, Stages, Rests, OthersStay,
     SecretGoesFirst, ClearedIsGone, NoWriterAfterDelete, Writes, Mutex
<1>4. Times'
  BY <1>p, <1>l, <1>f DEF TypeOK, UpdatesAgree, Mutex, Fresh, Stages, Rests, OthersStay,
     TimersInTime, WritersExtend, Writes
<1>5. Cover'
  BY <1>p, <1>l, <1>f DEF TypeOK, PendingCovers, ClearedIsGone, UpdatesAgree, Live,
     ToUpdate, ToRestore, Stages, Rests, OthersStay, TimersCover, DownIsQuiet, ToFinish
<1> QED BY <1>1, <1>2, <1>3, <1>4, <1>5

(* GiveUpLoads keeps IInv.                                                 *)
LEMMA GiveUpLoadsKeeps ==
  ASSUME IInv, NEW w \in Worker, GiveUpLoads(w)
  PROVE  IInv'
<1> USE DEF IInv, Processes, Entries, Times, Cover, GiveUpLoads, storage, timers, manager
<1>p. w \in Proc
  BY DEF Proc
<1>l. act[w].lease \in Lease
  BY <1>p DEF Stages, Active
<1>f. Loads(w, "mark", stored[act[w].lease], act[w].lease \in marked)
  <2> DEFINE t == stored[act[w].lease]
             b == act[w].lease \in marked
  <2>1. t \in 0 .. MaxTerm /\ b \in BOOLEAN
    BY <1>l DEF TypeOK
  <2>2. act' = [act EXCEPT ![w] = [@ EXCEPT !.stage = "mark", !.term = t, !.bad = b]]
    OBVIOUS
  <2> HIDE DEF t, b, GiveUpLoads
  <2>3. Loads(w, "mark", t, b)
    BY <1>p, <2>1, <2>2, LoadMoves
  <2> QED BY <2>3 DEF t, b
<1>e. Reloads(act[w].lease)
  BY <1>l, EntryReloads
<1>1. TypeOK'
  BY <1>p, <1>l, <1>f, <1>e DEF TypeOK, Loads, OthersStay, Reloads
<1>2. Processes'
  BY <1>p, <1>l, <1>f, <1>e DEF TypeOK, Stages, Active, Loads, OthersStay, Reloads, Fresh,
     Mutex, DownIsQuiet
<1>3. Entries'
  BY <1>p, <1>l, <1>f, <1>e DEF TypeOK, RevokedFirst, Fresh, Stages, Loads, OthersStay,
     Reloads, SecretGoesFirst, ClearedIsGone, NoWriterAfterDelete, Writes, Mutex
<1>4. Times'
  BY <1>p, <1>l, <1>f, <1>e DEF TypeOK, UpdatesAgree, Mutex, Fresh, Stages, Active, Loads,
     OthersStay, Reloads, TimersInTime, WritersExtend, Writes
<1>5. PendingCovers'
  BY <1>p, <1>l, <1>f, <1>e DEF TypeOK, PendingCovers, ClearedIsGone, UpdatesAgree, Live,
     ToUpdate, ToRestore, Stages, Loads, OthersStay, Reloads
<1>6. TimersCover'
  <2>1. SUFFICES ASSUME NEW l \in Lease, Live(l)'
                 PROVE  l \in armed' \/ jobs[l] > 0 \/ ToUpdate(l)' \/ ToFinish(l)' \/ ToRestore(l)'
    BY DEF TimersCover
  <2>2. mode' = mode /\ Live(l) /\ l \notin marked
    BY <1>e, <2>1 DEF Reloads, Live
  <2>3. ToUpdate(l) => ToUpdate(l)'
    BY <1>p, <1>f DEF Loads, OthersStay, ToUpdate, Proc
  <2>4. ToFinish(l) => ToFinish(l)'
    <3> SUFFICES ASSUME NEW v \in Worker, act[v].lease = l, act[v].stage # "store",
                        ~(act[v].stage = "mark" /\ act[v].bad)
                 PROVE  ToFinish(l)'
      BY DEF ToFinish
    <3>1. CASE v = w
      <4>1. act'[w].stage = "mark" /\ act'[w].lease = l /\ ~act'[w].bad
        BY <1>f, <2>2, <3>1 DEF Loads
      <4> QED BY <4>1 DEF ToFinish
    <3>2. CASE v # w
      <4>1. act'[v] = act[v]
        BY <1>f, <3>2 DEF Loads, OthersStay, Proc
      <4> QED BY <4>1 DEF ToFinish
    <3> QED BY <3>1, <3>2
  <2>5. (l \in armed => l \in armed') /\ (ToRestore(l) => ToRestore(l)' \/ l \in armed')
    BY <1>e, <2>2 DEF Reloads, ToRestore
  <2> QED BY <2>2, <2>3, <2>4, <2>5 DEF TimersCover
<1> QED BY <1>1, <1>2, <1>3, <1>4, <1>5, <1>6

(* GiveUpGone keeps IInv.                                                  *)
LEMMA GiveUpGoneKeeps ==
  ASSUME IInv, NEW w \in Worker, GiveUpGone(w)
  PROVE  IInv'
<1> USE DEF IInv, Processes, Entries, Times, Cover, GiveUpGone, storage, timers, manager
<1>p. w \in Proc
  BY DEF Proc
<1>l. act[w].lease \in Lease
  BY <1>p DEF Stages, Active
<1>f. Rests(w)
  BY <1>p, RestMoves
<1>1. TypeOK'
  BY <1>p, <1>l, <1>f DEF TypeOK, Rests, OthersStay
<1>2. Processes'
  BY <1>p, <1>l, <1>f DEF TypeOK, Stages, Active, Rests, OthersStay, Fresh, Mutex,
     DownIsQuiet
<1>3. Entries'
  BY <1>p, <1>l, <1>f DEF TypeOK, RevokedFirst, Fresh, Stages, Rests, OthersStay,
     SecretGoesFirst, ClearedIsGone, NoWriterAfterDelete, Writes, Mutex
<1>4. Times'
  BY <1>p, <1>l, <1>f DEF TypeOK, UpdatesAgree, Mutex, Fresh, Stages, Rests, OthersStay,
     TimersInTime, WritersExtend, Writes
<1>5. Cover'
  BY <1>p, <1>l, <1>f DEF TypeOK, PendingCovers, ClearedIsGone, UpdatesAgree, Live,
     ToUpdate, ToRestore, Stages, Rests, OthersStay, TimersCover, DownIsQuiet, ToFinish
<1> QED BY <1>1, <1>2, <1>3, <1>4, <1>5

(* GiveUpMarks keeps IInv.                                                 *)
LEMMA GiveUpMarksKeeps ==
  ASSUME IInv, NEW w \in Worker, GiveUpMarks(w)
  PROVE  IInv'
<1> USE DEF IInv, Processes, Entries, Times, Cover, GiveUpMarks, storage, timers, manager
<1>p. w \in Proc
  BY DEF Proc
<1>l. act[w].lease \in Lease
  BY <1>p DEF Stages, Active
<1>f. Rests(w)
  BY <1>p, RestMoves
<1>1. TypeOK'
  <2>1. act[w].term \in 0 .. MaxTerm
    BY <1>p DEF TypeOK, Doing
  <2>2. stored' \in [Lease -> 0 .. MaxTerm] /\ due' \in [Lease -> 0 .. MaxTerm]
    BY <1>l, <2>1 DEF TypeOK
  <2> QED BY <1>l, <1>f, <2>2 DEF TypeOK, Rests, OthersStay
<1>2. Processes'
  BY <1>p, <1>l, <1>f DEF TypeOK, Stages, Active, Rests, OthersStay, Fresh, Mutex,
     DownIsQuiet
<1>3. Entries'
  BY <1>p, <1>l, <1>f DEF TypeOK, RevokedFirst, Fresh, Stages, Rests, OthersStay,
     SecretGoesFirst, ClearedIsGone, NoWriterAfterDelete, Writes, Mutex
<1>4. Times'
  BY <1>p, <1>l, <1>f DEF TypeOK, UpdatesAgree, Mutex, Fresh, Stages, Rests, OthersStay,
     TimersInTime, WritersExtend, Writes
<1>5. Cover'
  BY <1>p, <1>l, <1>f DEF TypeOK, PendingCovers, ClearedIsGone, UpdatesAgree, Live,
     ToUpdate, ToRestore, Stages, Rests, OthersStay, TimersCover, DownIsQuiet, ToFinish
<1> QED BY <1>1, <1>2, <1>3, <1>4, <1>5

(* GiveUpAgain keeps IInv.                                                 *)
LEMMA GiveUpAgainKeeps ==
  ASSUME IInv, NEW w \in Worker, GiveUpAgain(w)
  PROVE  IInv'
<1> USE DEF IInv, Processes, Entries, Times, Cover, GiveUpAgain, storage, timers, manager
<1>p. w \in Proc
  BY DEF Proc
<1>l. act[w].lease \in Lease
  BY <1>p DEF Stages, Active
<1>f. Rests(w)
  BY <1>p, RestMoves
<1>1. TypeOK'
  BY <1>p, <1>l, <1>f DEF TypeOK, Rests, OthersStay
<1>2. Processes'
  BY <1>p, <1>l, <1>f DEF TypeOK, Stages, Active, Rests, OthersStay, Fresh, Mutex,
     DownIsQuiet
<1>3. Entries'
  BY <1>p, <1>l, <1>f DEF TypeOK, RevokedFirst, Fresh, Stages, Rests, OthersStay,
     SecretGoesFirst, ClearedIsGone, NoWriterAfterDelete, Writes, Mutex
<1>4. Times'
  BY <1>p, <1>l, <1>f DEF TypeOK, UpdatesAgree, Mutex, Fresh, Stages, Rests, OthersStay,
     TimersInTime, WritersExtend, Writes
<1>5. Cover'
  BY <1>p, <1>l, <1>f DEF TypeOK, PendingCovers, ClearedIsGone, UpdatesAgree, Live,
     ToUpdate, ToRestore, Stages, Rests, OthersStay, TimersCover, DownIsQuiet, ToFinish
<1> QED BY <1>1, <1>2, <1>3, <1>4, <1>5

(* FindsNothing keeps IInv.                                                *)
LEMMA FindsNothingKeeps ==
  ASSUME IInv, NEW p \in Proc, FindsNothing(p)
  PROVE  IInv'
<1> USE DEF IInv, Processes, Entries, Times, Cover, FindsNothing, storage, timers, manager
<1>l. act[p].lease \in Lease
  BY DEF Stages, Active
<1>f. Rests(p)
  BY RestMoves
<1>1. TypeOK'
  BY <1>l, <1>f DEF TypeOK, Rests, OthersStay
<1>2. Processes'
  BY <1>l, <1>f DEF TypeOK, Stages, Active, Rests, OthersStay, Fresh, Mutex, DownIsQuiet
<1>3. Entries'
  BY <1>l, <1>f DEF TypeOK, RevokedFirst, Fresh, Stages, Rests, OthersStay, SecretGoesFirst,
     ClearedIsGone, NoWriterAfterDelete, Writes, Mutex
<1>4. Times'
  BY <1>l, <1>f DEF TypeOK, UpdatesAgree, Mutex, Fresh, Stages, Rests, OthersStay,
     TimersInTime, WritersExtend, Writes
<1>5. Cover'
  BY <1>l, <1>f DEF TypeOK, PendingCovers, ClearedIsGone, UpdatesAgree, Live, ToUpdate,
     ToRestore, Stages, Rests, OthersStay, TimersCover, DownIsQuiet, ToFinish
<1> QED BY <1>1, <1>2, <1>3, <1>4, <1>5

(* RevokeLoads keeps IInv.                                                 *)
LEMMA RevokeLoadsKeeps ==
  ASSUME IInv, NEW p \in Proc, RevokeLoads(p)
  PROVE  IInv'
<1> USE DEF IInv, Processes, Entries, Times, Cover, RevokeLoads, storage, timers, manager
<1>l. act[p].lease \in Lease
  BY DEF Stages, Active
<1>f. GoesOn(p, "backend")
  BY StageMoves
<1>e. Reloads(act[p].lease)
  BY <1>l, EntryReloads
<1>1. TypeOK'
  BY <1>l, <1>f, <1>e DEF TypeOK, GoesOn, OthersStay, Reloads
<1>2. Processes'
  BY <1>l, <1>f, <1>e DEF TypeOK, Stages, Active, GoesOn, OthersStay, Reloads, Fresh, Mutex,
     DownIsQuiet
<1>3. Entries'
  BY <1>l, <1>f, <1>e DEF TypeOK, RevokedFirst, Fresh, Stages, GoesOn, OthersStay, Reloads,
     SecretGoesFirst, ClearedIsGone, NoWriterAfterDelete, Writes, Mutex
<1>4. Times'
  BY <1>l, <1>f, <1>e DEF TypeOK, UpdatesAgree, Mutex, Fresh, Stages, Active, GoesOn,
     OthersStay, Reloads, TimersInTime, WritersExtend, Writes
<1>5. Cover'
  BY <1>l, <1>f, <1>e DEF TypeOK, PendingCovers, ClearedIsGone, UpdatesAgree, Live,
     ToUpdate, ToRestore, Stages, GoesOn, OthersStay, Reloads, TimersCover, DownIsQuiet,
     ToFinish
<1> QED BY <1>1, <1>2, <1>3, <1>4, <1>5

(* RevokeSucceeds keeps IInv.                                              *)
LEMMA RevokeSucceedsKeeps ==
  ASSUME IInv, NEW p \in Proc, RevokeSucceeds(p)
  PROVE  IInv'
<1> USE DEF IInv, Processes, Entries, Times, Cover, RevokeSucceeds, storage, timers, manager
<1>l. act[p].lease \in Lease
  BY DEF Stages, Active
<1>f. GoesOn(p, "delete")
  BY StageMoves
<1>1. TypeOK'
  BY <1>l, <1>f DEF TypeOK, GoesOn, OthersStay
<1>2. Processes'
  BY <1>l, <1>f DEF TypeOK, Stages, Active, GoesOn, OthersStay, Fresh, Mutex, DownIsQuiet
<1>3. Entries'
  BY <1>l, <1>f DEF TypeOK, RevokedFirst, Fresh, Stages, GoesOn, OthersStay,
     SecretGoesFirst, ClearedIsGone, NoWriterAfterDelete, Writes, Mutex
<1>4. Times'
  BY <1>l, <1>f DEF TypeOK, UpdatesAgree, Mutex, Fresh, Stages, GoesOn, OthersStay,
     TimersInTime, WritersExtend, Writes
<1>5. Cover'
  BY <1>l, <1>f DEF TypeOK, PendingCovers, ClearedIsGone, UpdatesAgree, Live, ToUpdate,
     ToRestore, Stages, GoesOn, OthersStay, TimersCover, DownIsQuiet, ToFinish
<1> QED BY <1>1, <1>2, <1>3, <1>4, <1>5

(* RevokeFails keeps IInv.                                                 *)
LEMMA RevokeFailsKeeps ==
  ASSUME IInv, NEW p \in Proc, RevokeFails(p)
  PROVE  IInv'
<1> USE DEF IInv, Processes, Entries, Times, Cover, RevokeFails, storage, timers, manager
<1>l. act[p].lease \in Lease
  BY DEF Stages, Active
<1>f. IF p \in Worker THEN GoesOn(p, "failed") ELSE Rests(p)
  <2>1. CASE p \in Worker
    <3>1. act' = [act EXCEPT ![p].stage = "failed"]
      BY <2>1 DEF Fail
    <3> QED BY <2>1, <3>1, StageMoves
  <2>2. CASE p \notin Worker
    <3>1. act' = [act EXCEPT ![p] = Over(p)]
      BY <2>2 DEF Fail
    <3> QED BY <2>2, <3>1, RestMoves
  <2> QED BY <2>1, <2>2
<1>1. TypeOK'
  BY <1>l, <1>f DEF TypeOK, GoesOn, Rests, OthersStay, Fail
<1>2. Processes'
  BY <1>l, <1>f DEF TypeOK, Stages, Active, GoesOn, Rests, OthersStay, Fail, Fresh, Mutex,
     DownIsQuiet
<1>3. Entries'
  BY <1>l, <1>f DEF TypeOK, RevokedFirst, Fresh, Stages, GoesOn, Rests, OthersStay, Fail,
     SecretGoesFirst, ClearedIsGone, NoWriterAfterDelete, Writes, Mutex
<1>4. Times'
  BY <1>l, <1>f DEF TypeOK, UpdatesAgree, Mutex, Fresh, Stages, GoesOn, Rests, OthersStay,
     Fail, TimersInTime, WritersExtend, Writes
<1>5. Cover'
  BY <1>l, <1>f DEF TypeOK, PendingCovers, ClearedIsGone, UpdatesAgree, Live, ToUpdate,
     ToRestore, Stages, GoesOn, Rests, OthersStay, Fail, TimersCover, DownIsQuiet, ToFinish
<1> QED BY <1>1, <1>2, <1>3, <1>4, <1>5

(* RevokeForced keeps IInv.                                                *)
LEMMA RevokeForcedKeeps ==
  ASSUME IInv, NEW p \in Proc, RevokeForced(p)
  PROVE  IInv'
<1> USE DEF IInv, Processes, Entries, Times, Cover, RevokeForced, storage, timers, manager
<1>l. act[p].lease \in Lease
  BY DEF Stages, Active
<1>f. GoesOn(p, "delete")
  BY StageMoves
<1>1. TypeOK'
  BY <1>l, <1>f DEF TypeOK, GoesOn, OthersStay
<1>2. Processes'
  BY <1>l, <1>f DEF TypeOK, Stages, Active, GoesOn, OthersStay, Fresh, Mutex, DownIsQuiet
<1>3. Entries'
  BY <1>l, <1>f DEF TypeOK, RevokedFirst, Fresh, Stages, GoesOn, OthersStay,
     SecretGoesFirst, ClearedIsGone, NoWriterAfterDelete, Writes, Mutex
<1>4. Times'
  BY <1>l, <1>f DEF TypeOK, UpdatesAgree, Mutex, Fresh, Stages, GoesOn, OthersStay,
     TimersInTime, WritersExtend, Writes
<1>5. Cover'
  BY <1>l, <1>f DEF TypeOK, PendingCovers, ClearedIsGone, UpdatesAgree, Live, ToUpdate,
     ToRestore, Stages, GoesOn, OthersStay, TimersCover, DownIsQuiet, ToFinish
<1> QED BY <1>1, <1>2, <1>3, <1>4, <1>5

(* RevokeDeletes keeps IInv.                                               *)
LEMMA RevokeDeletesKeeps ==
  ASSUME IInv, NEW p \in Proc, RevokeDeletes(p)
  PROVE  IInv'
<1> USE DEF IInv, Processes, Entries, Times, Cover, RevokeDeletes, storage, timers, manager
<1>l. act[p].lease \in Lease
  BY DEF Stages, Active
<1>f. GoesOn(p, "clear")
  BY StageMoves
<1>1. TypeOK'
  BY <1>l, <1>f DEF TypeOK, GoesOn, OthersStay
<1>2. Processes'
  BY <1>l, <1>f DEF TypeOK, Stages, Active, GoesOn, OthersStay, Fresh, Mutex, DownIsQuiet
<1>3. Entries'
  BY <1>l, <1>f DEF TypeOK, RevokedFirst, Fresh, Stages, GoesOn, OthersStay,
     SecretGoesFirst, ClearedIsGone, NoWriterAfterDelete, Writes, Mutex
<1>4. Times'
  BY <1>l, <1>f DEF TypeOK, UpdatesAgree, Mutex, Fresh, Stages, GoesOn, OthersStay,
     TimersInTime, WritersExtend, Writes
<1>5. Cover'
  BY <1>l, <1>f DEF TypeOK, PendingCovers, ClearedIsGone, UpdatesAgree, Live, ToUpdate,
     ToRestore, Stages, GoesOn, OthersStay, TimersCover, DownIsQuiet, ToFinish
<1> QED BY <1>1, <1>2, <1>3, <1>4, <1>5

(* RevokeStorageFails keeps IInv.                                          *)
LEMMA RevokeStorageFailsKeeps ==
  ASSUME IInv, NEW p \in Proc, RevokeStorageFails(p)
  PROVE  IInv'
<1> USE DEF IInv, Processes, Entries, Times, Cover, RevokeStorageFails, storage, timers, manager
<1>l. act[p].lease \in Lease
  BY DEF Stages, Active
<1>f. IF p \in Worker THEN GoesOn(p, "failed") ELSE Rests(p)
  <2>1. CASE p \in Worker
    <3>1. act' = [act EXCEPT ![p].stage = "failed"]
      BY <2>1 DEF Fail
    <3> QED BY <2>1, <3>1, StageMoves
  <2>2. CASE p \notin Worker
    <3>1. act' = [act EXCEPT ![p] = Over(p)]
      BY <2>2 DEF Fail
    <3> QED BY <2>2, <3>1, RestMoves
  <2> QED BY <2>1, <2>2
<1>1. TypeOK'
  BY <1>l, <1>f DEF TypeOK, GoesOn, Rests, OthersStay, Fail
<1>2. Processes'
  BY <1>l, <1>f DEF TypeOK, Stages, Active, GoesOn, Rests, OthersStay, Fail, Fresh, Mutex,
     DownIsQuiet
<1>3. Entries'
  BY <1>l, <1>f DEF TypeOK, RevokedFirst, Fresh, Stages, GoesOn, Rests, OthersStay, Fail,
     SecretGoesFirst, ClearedIsGone, NoWriterAfterDelete, Writes, Mutex
<1>4. Times'
  BY <1>l, <1>f DEF TypeOK, UpdatesAgree, Mutex, Fresh, Stages, GoesOn, Rests, OthersStay,
     Fail, TimersInTime, WritersExtend, Writes
<1>5. Cover'
  BY <1>l, <1>f DEF TypeOK, PendingCovers, ClearedIsGone, UpdatesAgree, Live, ToUpdate,
     ToRestore, Stages, GoesOn, Rests, OthersStay, Fail, TimersCover, DownIsQuiet, ToFinish
<1> QED BY <1>1, <1>2, <1>3, <1>4, <1>5

(* RevokeClears keeps IInv.                                                *)
LEMMA RevokeClearsKeeps ==
  ASSUME IInv, NEW p \in Proc, RevokeClears(p)
  PROVE  IInv'
<1> USE DEF IInv, Processes, Entries, Times, Cover, RevokeClears, storage, timers, manager
<1>l. act[p].lease \in Lease
  BY DEF Stages, Active
<1>f. Rests(p)
  BY RestMoves
<1>1. TypeOK'
  BY <1>l, <1>f DEF TypeOK, Rests, OthersStay
<1>2. Processes'
  BY <1>l, <1>f DEF TypeOK, Stages, Active, Rests, OthersStay, Fresh, Mutex, DownIsQuiet
<1>3. Entries'
  BY <1>l, <1>f DEF TypeOK, RevokedFirst, Fresh, Stages, Rests, OthersStay, SecretGoesFirst,
     ClearedIsGone, NoWriterAfterDelete, Writes, Mutex
<1>4. Times'
  BY <1>l, <1>f DEF TypeOK, UpdatesAgree, Mutex, Fresh, Stages, Rests, OthersStay,
     TimersInTime, WritersExtend, Writes
<1>5. Cover'
  BY <1>l, <1>f DEF TypeOK, PendingCovers, ClearedIsGone, UpdatesAgree, Live, ToUpdate,
     ToRestore, Stages, Rests, OthersStay, TimersCover, DownIsQuiet, ToFinish
<1> QED BY <1>1, <1>2, <1>3, <1>4, <1>5

(* LazyLoads keeps IInv.                                                   *)
LEMMA LazyLoadsKeeps ==
  ASSUME IInv, NEW r \in Request, LazyLoads(r)
  PROVE  IInv'
<1> USE DEF IInv, Processes, Entries, Times, Cover, LazyLoads, storage, timers, manager
<1>p. r \in Proc
  BY DEF Proc
<1>l. act[r].lease \in Lease
  BY <1>p DEF Stages, Active
<1>f. Loads(r, "persist", stored[act[r].lease], act[r].lease \in marked)
  <2> DEFINE t == stored[act[r].lease]
             b == act[r].lease \in marked
  <2>1. t \in 0 .. MaxTerm /\ b \in BOOLEAN
    BY <1>l DEF TypeOK
  <2>2. act' = [act EXCEPT ![r] = [@ EXCEPT !.stage = "persist", !.term = t, !.bad = b]]
    OBVIOUS
  <2> HIDE DEF t, b, LazyLoads
  <2>3. Loads(r, "persist", t, b)
    BY <1>p, <2>1, <2>2, LoadMoves
  <2> QED BY <2>3 DEF t, b
<1>e. Reloads(act[r].lease)
  BY <1>l, EntryReloads
<1>1. TypeOK'
  BY <1>p, <1>l, <1>f, <1>e DEF TypeOK, Loads, OthersStay, Reloads
<1>2. Processes'
  BY <1>p, <1>l, <1>f, <1>e DEF TypeOK, Stages, Active, Loads, OthersStay, Reloads, Fresh,
     Mutex, DownIsQuiet
<1>3. RevokedFirst'
  BY <1>p, <1>l, <1>f, <1>e DEF TypeOK, RevokedFirst, Fresh, Stages, Loads, OthersStay,
     Reloads
<1>4. SecretGoesFirst'
  BY <1>p, <1>l, <1>f, <1>e DEF TypeOK, SecretGoesFirst, RevokedFirst, Stages, Loads,
     OthersStay, Reloads
<1>5. ClearedIsGone'
  BY <1>p, <1>l, <1>f, <1>e DEF TypeOK, ClearedIsGone, NoWriterAfterDelete, Fresh, Stages,
     Writes, Loads, OthersStay, Reloads
<1>6. NoWriterAfterDelete'
  <2>1. SUFFICES ASSUME NEW q \in Proc, NEW s \in Proc, act'[q].stage = "clear", Writes(s)'
                 PROVE  act'[q].lease # act'[s].lease
    BY DEF NoWriterAfterDelete
  <2>2. q # r /\ act'[q] = act[q]
    BY <1>p, <1>f, <2>1 DEF Loads, OthersStay
  <2>3. CASE s = r
    <3>1. act'[s].lease = act[r].lease /\ act[r].lease \notin marked
      BY <1>f, <2>1, <2>3 DEF Loads, Writes
    <3>2. stored[act[q].lease] = 0 \/ act[q].lease \in marked
      BY <2>1, <2>2 DEF ClearedIsGone
    <3> QED BY <2>2, <3>1, <3>2
  <2>4. CASE s # r
    BY <1>p, <1>f, <2>1, <2>2, <2>4 DEF NoWriterAfterDelete, Loads, OthersStay, Writes
  <2> QED BY <2>3, <2>4
<1>7. UpdatesAgree'
  BY <1>p, <1>l, <1>f, <1>e DEF TypeOK, UpdatesAgree, Mutex, Fresh, Stages, Loads,
     OthersStay, Reloads
<1>8. TimersInTime'
  BY <1>p, <1>l, <1>f, <1>e DEF TypeOK, TimersInTime, WritersExtend, UpdatesAgree, Fresh,
     Stages, Writes, Loads, OthersStay, Reloads
<1>9. WritersExtend'
  <2>1. SUFFICES ASSUME NEW s \in Proc, Writes(s)'
                 PROVE  /\ at'[act'[s].lease] <= act'[s].term
                        /\ act'[s].lease \in marked \/ stored[act'[s].lease] <= act'[s].term
    BY DEF WritersExtend
  <2>2. CASE s = r
    <3>1. /\ act'[s].lease = act[r].lease /\ act'[s].term = stored[act[r].lease]
          /\ act[r].lease \notin marked
      BY <1>p, <1>f, <2>1, <2>2 DEF Loads, Writes
    <3>2. at[act[r].lease] <= stored[act[r].lease] /\ stored[act[r].lease] \in Nat
      BY <1>l, <3>1 DEF TimersInTime, TypeOK
    <3> QED BY <1>l, <1>e, <3>1, <3>2 DEF Reloads
  <2>3. CASE s # r
    <3>1. act'[s] = act[s] /\ Writes(s)
      BY <1>p, <1>f, <2>1, <2>3 DEF Loads, OthersStay, Writes
    <3>2. act[s].lease # act[r].lease
      BY <3>1, <1>p, <2>3 DEF Writes, Mutex
    <3>3. act[s].lease \in Lease
      BY <3>1 DEF Writes, Stages, Active
    <3> QED BY <1>e, <3>1, <3>2, <3>3 DEF Reloads, WritersExtend
  <2> QED BY <2>2, <2>3
<1>10. Cover'
  BY <1>p, <1>l, <1>f, <1>e DEF TypeOK, PendingCovers, ClearedIsGone, UpdatesAgree, Live,
     ToUpdate, ToRestore, Stages, Loads, OthersStay, Reloads, TimersCover, DownIsQuiet,
     ToFinish
<1> QED BY <1>1, <1>2, <1>3, <1>4, <1>5, <1>6, <1>7, <1>8, <1>9, <1>10

(* RenewLoads keeps IInv.                                                  *)
LEMMA RenewLoadsKeeps ==
  ASSUME IInv, NEW r \in Request, RenewLoads(r)
  PROVE  IInv'
<1> USE DEF IInv, Processes, Entries, Times, Cover, RenewLoads, storage, timers, manager
<1>p. r \in Proc
  BY DEF Proc
<1>l. act[r].lease \in Lease
  BY <1>p DEF Stages, Active
<1>f. Loads(r, "backend", stored[act[r].lease], act[r].bad)
  <2>1. stored[act[r].lease] \in 0 .. MaxTerm
    BY <1>l DEF TypeOK
  <2> QED BY <1>p, <2>1, TermMoves
<1>e. Reloads(act[r].lease)
  BY <1>l, EntryReloads
<1>1. TypeOK'
  BY <1>p, <1>l, <1>f, <1>e DEF TypeOK, Loads, OthersStay, Reloads
<1>2. Processes'
  BY <1>p, <1>l, <1>f, <1>e DEF TypeOK, Stages, Active, Loads, OthersStay, Reloads, Fresh,
     Mutex, DownIsQuiet
<1>3. Entries'
  BY <1>p, <1>l, <1>f, <1>e DEF TypeOK, RevokedFirst, Fresh, Stages, Loads, OthersStay,
     Reloads, SecretGoesFirst, ClearedIsGone, NoWriterAfterDelete, Writes, Mutex
<1>4. Times'
  BY <1>p, <1>l, <1>f, <1>e DEF TypeOK, UpdatesAgree, Mutex, Fresh, Stages, Active, Loads,
     OthersStay, Reloads, TimersInTime, WritersExtend, Writes
<1>5. Cover'
  BY <1>p, <1>l, <1>f, <1>e DEF TypeOK, PendingCovers, ClearedIsGone, UpdatesAgree, Live,
     ToUpdate, ToRestore, Stages, Loads, OthersStay, Reloads, TimersCover, DownIsQuiet,
     ToFinish
<1> QED BY <1>1, <1>2, <1>3, <1>4, <1>5

(* RenewRefused keeps IInv.                                                *)
LEMMA RenewRefusedKeeps ==
  ASSUME IInv, NEW r \in Request, RenewRefused(r)
  PROVE  IInv'
<1> USE DEF IInv, Processes, Entries, Times, Cover, RenewRefused, storage, timers, manager
<1>p. r \in Proc
  BY DEF Proc
<1>l. act[r].lease \in Lease
  BY <1>p DEF Stages, Active
<1>f. Rests(r)
  BY <1>p, RestMoves
<1>e. Reloads(act[r].lease)
  BY <1>l, EntryReloads
<1>1. TypeOK'
  BY <1>p, <1>l, <1>f, <1>e DEF TypeOK, Rests, OthersStay, Reloads
<1>2. Processes'
  BY <1>p, <1>l, <1>f, <1>e DEF TypeOK, Stages, Active, Rests, OthersStay, Reloads, Fresh,
     Mutex, DownIsQuiet
<1>3. Entries'
  BY <1>p, <1>l, <1>f, <1>e DEF TypeOK, RevokedFirst, Fresh, Stages, Rests, OthersStay,
     Reloads, SecretGoesFirst, ClearedIsGone, NoWriterAfterDelete, Writes, Mutex
<1>4. Times'
  BY <1>p, <1>l, <1>f, <1>e DEF TypeOK, UpdatesAgree, Mutex, Fresh, Stages, Active, Rests,
     OthersStay, Reloads, TimersInTime, WritersExtend, Writes
<1>5. Cover'
  BY <1>p, <1>l, <1>f, <1>e DEF TypeOK, PendingCovers, ClearedIsGone, UpdatesAgree, Live,
     ToUpdate, ToRestore, Stages, Rests, OthersStay, Reloads, TimersCover, DownIsQuiet,
     ToFinish
<1> QED BY <1>1, <1>2, <1>3, <1>4, <1>5

(* RenewSucceeds keeps IInv.                                               *)
LEMMA RenewSucceedsKeeps ==
  ASSUME IInv, NEW r \in Request, RenewSucceeds(r)
  PROVE  IInv'
<1> USE DEF IInv, Processes, Entries, Times, Cover, RenewSucceeds, storage, timers, manager
<1>p. r \in Proc
  BY DEF Proc
<1>l. act[r].lease \in Lease
  BY <1>p DEF Stages, Active
<1>f. Loads(r, "persist", act[r].term + 1, act[r].bad)
  <2>1. act[r].term + 1 \in 0 .. MaxTerm
    BY <1>p DEF TypeOK, Doing
  <2> QED BY <1>p, <2>1, TermMoves
<1>1. TypeOK'
  BY <1>p, <1>l, <1>f DEF TypeOK, Loads, OthersStay
<1>2. Processes'
  BY <1>p, <1>l, <1>f DEF TypeOK, Doing, Stages, Active, Loads, OthersStay, Fresh, Mutex,
     DownIsQuiet
<1>3. Entries'
  BY <1>p, <1>l, <1>f DEF TypeOK, RevokedFirst, Fresh, Stages, Loads, OthersStay,
     SecretGoesFirst, ClearedIsGone, NoWriterAfterDelete, Writes, Mutex
<1>4. Times'
  BY <1>p, <1>l, <1>f DEF TypeOK, Doing, UpdatesAgree, Mutex, Fresh, Stages, Loads,
     OthersStay, TimersInTime, WritersExtend, Writes
<1>5. Cover'
  BY <1>p, <1>l, <1>f DEF TypeOK, PendingCovers, ClearedIsGone, UpdatesAgree, Live,
     ToUpdate, ToRestore, Stages, Loads, OthersStay, TimersCover, DownIsQuiet, ToFinish
<1> QED BY <1>1, <1>2, <1>3, <1>4, <1>5

(* Persists keeps IInv.                                                    *)
LEMMA PersistsKeeps ==
  ASSUME IInv, NEW r \in Request, Persists(r)
  PROVE  IInv'
<1> USE DEF IInv, Processes, Entries, Times, Cover, Persists, storage, timers, manager
<1>p. r \in Proc
  BY DEF Proc
<1>l. act[r].lease \in Lease
  BY <1>p DEF Stages, Active
<1>f. GoesOn(r, "update")
  BY <1>p, StageMoves
<1>1. TypeOK'
  <2>1. act[r].term \in 0 .. MaxTerm
    BY <1>p DEF TypeOK, Doing
  <2>2. stored' \in [Lease -> 0 .. MaxTerm] /\ due' \in [Lease -> 0 .. MaxTerm]
    BY <1>l, <2>1 DEF TypeOK
  <2> QED BY <1>l, <1>f, <2>2 DEF TypeOK, GoesOn, OthersStay
<1>2. Processes'
  BY <1>p, <1>l, <1>f DEF TypeOK, Stages, Active, GoesOn, OthersStay, Fresh, Mutex,
     DownIsQuiet
<1>3. Entries'
  BY <1>p, <1>l, <1>f DEF TypeOK, RevokedFirst, Fresh, Stages, GoesOn, OthersStay,
     SecretGoesFirst, ClearedIsGone, NoWriterAfterDelete, Writes, Mutex
<1>4. Times'
  BY <1>p, <1>l, <1>f, <1>1 DEF TypeOK, UpdatesAgree, Mutex, Fresh, Stages, GoesOn,
     OthersStay, TimersInTime, WritersExtend, Writes
<1>5. Cover'
  BY <1>p, <1>l, <1>f DEF TypeOK, PendingCovers, ClearedIsGone, UpdatesAgree, Live,
     ToUpdate, ToRestore, Stages, GoesOn, OthersStay, TimersCover, DownIsQuiet, ToFinish
<1> QED BY <1>1, <1>2, <1>3, <1>4, <1>5

(* CallFails keeps IInv.                                                   *)
LEMMA CallFailsKeeps ==
  ASSUME IInv, NEW r \in Request, CallFails(r)
  PROVE  IInv'
<1> USE DEF IInv, Processes, Entries, Times, Cover, CallFails, storage, timers, manager
<1>p. r \in Proc
  BY DEF Proc
<1>l. act[r].lease \in Lease
  BY <1>p DEF Stages, Active
<1>f. Rests(r)
  BY <1>p, RestMoves DEF Release
<1>1. TypeOK'
  BY <1>p, <1>l, <1>f DEF TypeOK, Rests, OthersStay, Release
<1>2. Processes'
  BY <1>p, <1>l, <1>f DEF TypeOK, Stages, Active, Rests, OthersStay, Release, Fresh, Mutex,
     DownIsQuiet
<1>3. Entries'
  BY <1>p, <1>l, <1>f DEF TypeOK, RevokedFirst, Fresh, Stages, Rests, OthersStay, Release,
     SecretGoesFirst, ClearedIsGone, NoWriterAfterDelete, Writes, Mutex
<1>4. Times'
  BY <1>p, <1>l, <1>f DEF TypeOK, UpdatesAgree, Mutex, Fresh, Stages, Rests, OthersStay,
     Release, TimersInTime, WritersExtend, Writes
<1>5. Cover'
  BY <1>p, <1>l, <1>f DEF TypeOK, PendingCovers, ClearedIsGone, UpdatesAgree, Live,
     ToUpdate, ToRestore, Stages, Rests, OthersStay, Release, TimersCover, DownIsQuiet,
     ToFinish
<1> QED BY <1>1, <1>2, <1>3, <1>4, <1>5

(* Updates keeps IInv.                                                     *)
LEMMA UpdatesKeeps ==
  ASSUME IInv, NEW r \in Request, Updates(r)
  PROVE  IInv'
<1> USE DEF IInv, Processes, Entries, Times, Cover, Updates, storage, timers, manager
<1>p. r \in Proc
  BY DEF Proc
<1>l. act[r].lease \in Lease
  BY <1>p DEF Stages, Active
<1>f. Rests(r)
  BY <1>p, RestMoves DEF Release
<1>u. /\ pending' \subseteq Lease /\ armed' \subseteq Lease /\ irrevocable' \subseteq Lease
      /\ attempts' \in [Lease -> 0 .. MaxAttempts - 1] /\ at' \in [Lease -> 0 .. MaxTerm]
      /\ \A k \in Lease : k # act[r].lease => at'[k] = at[k]
      /\ act[r].bad => at' = at
      /\ ~act[r].bad => /\ at'[act[r].lease] = act[r].term
                        /\ act[r].lease \in pending' /\ act[r].lease \in armed'
      /\ armed' \subseteq armed \cup {act[r].lease}
      /\ armed \ {act[r].lease} \subseteq armed' /\ pending \ {act[r].lease} \subseteq pending'
  <2>1. act[r].term \in 0 .. MaxTerm /\ act[r].bad \in BOOLEAN
    BY <1>p DEF TypeOK, Doing
  <2>2. UpdatePending(act[r].lease, act[r].term, act[r].bad)
    OBVIOUS
  <2> HIDE DEF Updates
  <2> QED BY <1>l, <2>1, <2>2, UpdateSets
<1>1. TypeOK'
  BY <1>p, <1>l, <1>f, <1>u DEF TypeOK, Rests, OthersStay, Release
<1>2. Processes'
  BY <1>p, <1>l, <1>f, <1>u DEF TypeOK, Stages, Active, Rests, OthersStay, Release, Fresh,
     Mutex, DownIsQuiet
<1>3. Entries'
  BY <1>p, <1>l, <1>f, <1>u DEF TypeOK, RevokedFirst, Fresh, Stages, Rests, OthersStay,
     Release, SecretGoesFirst, ClearedIsGone, NoWriterAfterDelete, Writes, Mutex
<1>4. Times'
  BY <1>p, <1>l, <1>f, <1>u DEF TypeOK, UpdatesAgree, Mutex, Fresh, Stages, Active, Rests,
     OthersStay, Release, TimersInTime, WritersExtend, Writes
<1>5. Cover'
  BY <1>p, <1>l, <1>f, <1>u DEF TypeOK, PendingCovers, ClearedIsGone, UpdatesAgree, Live,
     ToUpdate, ToRestore, Stages, Rests, OthersStay, Release, TimersCover, DownIsQuiet,
     ToFinish
<1> QED BY <1>1, <1>2, <1>3, <1>4, <1>5

(* CallBegins keeps IInv.                                                  *)
LEMMA CallBeginsKeeps ==
  ASSUME IInv, NEW r \in Request, NEW op \in Calls, NEW l \in Lease, CallBegins(r, op, l)
  PROVE  IInv'
<1> USE DEF IInv, Processes, Entries, Times, Cover, CallBegins, storage, timers, manager
<1>p. r \in Proc
  BY DEF Proc
<1>f. Begins(r, "wait", op, l, 0)
  BY <1>p, WaitMoves
<1>1. TypeOK'
  BY <1>p, <1>f DEF TypeOK, Begins, OthersStay
<1>2. Stages'
  BY <1>p, <1>f DEF TypeOK, Calls, Stages, Active, Begins, OthersStay
<1>3. Fresh'
  BY <1>p, <1>f DEF TypeOK, Fresh, Stages, Begins, OthersStay
<1>4. Mutex'
  BY <1>p, <1>f DEF TypeOK, Mutex, Fresh, Stages, Begins, OthersStay
<1>5. DownIsQuiet'
  BY <1>p, <1>f DEF TypeOK, DownIsQuiet, Begins, OthersStay
<1>6. Entries'
  BY <1>p, <1>f DEF TypeOK, RevokedFirst, Fresh, Stages, Begins, OthersStay,
     SecretGoesFirst, ClearedIsGone, NoWriterAfterDelete, Writes, Mutex
<1>7. Times'
  BY <1>p, <1>f DEF TypeOK, UpdatesAgree, Mutex, Fresh, Stages, Begins, OthersStay,
     TimersInTime, WritersExtend, Writes
<1>8. Cover'
  BY <1>p, <1>f DEF TypeOK, PendingCovers, ClearedIsGone, UpdatesAgree, Live, ToUpdate,
     ToRestore, Stages, Begins, OthersStay, TimersCover, DownIsQuiet, ToFinish
<1> QED BY <1>1, <1>2, <1>3, <1>4, <1>5, <1>6, <1>7, <1>8

(* RegisterPersists keeps IInv.                                            *)
LEMMA RegisterPersistsKeeps ==
  ASSUME IInv, NEW r \in Request, NEW l \in Lease, RegisterPersists(r, l)
  PROVE  IInv'
<1> USE DEF IInv, Processes, Entries, Times, Cover, RegisterPersists, storage, timers, manager
<1>p. r \in Proc
  BY DEF Proc
<1>f. Begins(r, "update", "register", l, 1)
  BY <1>p, RegisterMoves
<1>1. TypeOK'
  BY <1>p, <1>f DEF TypeOK, Begins, OthersStay
<1>2. Processes'
  BY <1>p, <1>f DEF TypeOK, Stages, Active, Begins, OthersStay, Fresh, Mutex, DownIsQuiet
<1>3. Entries'
  BY <1>p, <1>f DEF TypeOK, RevokedFirst, Fresh, Stages, Begins, OthersStay,
     SecretGoesFirst, ClearedIsGone, NoWriterAfterDelete, Writes, Mutex
<1>4. Times'
  BY <1>p, <1>f DEF TypeOK, UpdatesAgree, Mutex, Fresh, Stages, Begins, OthersStay,
     TimersInTime, WritersExtend, Writes
<1>5. Cover'
  BY <1>p, <1>f DEF TypeOK, PendingCovers, ClearedIsGone, UpdatesAgree, Live, ToUpdate,
     ToRestore, Stages, Begins, OthersStay, TimersCover, DownIsQuiet, ToFinish
<1> QED BY <1>1, <1>2, <1>3, <1>4, <1>5

(* RegisterFails keeps IInv.                                               *)
LEMMA RegisterFailsKeeps ==
  ASSUME IInv, NEW r \in Request, NEW l \in Lease, RegisterFails(r, l)
  PROVE  IInv'
<1> USE DEF IInv, Processes, Entries, Times, Cover, RegisterFails, storage, timers, manager
<1>p. r \in Proc
  BY DEF Proc
<1>f. Rests(r)
  BY <1>p, RestMoves
<1>1. TypeOK'
  BY <1>p, <1>f DEF TypeOK, Rests, OthersStay
<1>2. Processes'
  BY <1>p, <1>f DEF TypeOK, Stages, Active, Rests, OthersStay, Fresh, Mutex, DownIsQuiet
<1>3. Entries'
  BY <1>p, <1>f DEF TypeOK, RevokedFirst, Fresh, Stages, Rests, OthersStay, SecretGoesFirst,
     ClearedIsGone, NoWriterAfterDelete, Writes, Mutex
<1>4. Times'
  BY <1>p, <1>f DEF TypeOK, UpdatesAgree, Mutex, Fresh, Stages, Rests, OthersStay,
     TimersInTime, WritersExtend, Writes
<1>5. Cover'
  BY <1>p, <1>f DEF TypeOK, PendingCovers, ClearedIsGone, UpdatesAgree, Live, ToUpdate,
     ToRestore, Stages, Rests, OthersStay, TimersCover, DownIsQuiet, ToFinish
<1> QED BY <1>1, <1>2, <1>3, <1>4, <1>5

(* Restores keeps IInv.                                                    *)
LEMMA RestoresKeeps ==
  ASSUME IInv, NEW l \in Lease, Restores(l)
  PROVE  IInv'
<1> USE DEF IInv, Processes, Entries, Times, Cover, Restores, storage, timers, manager
<1>u. /\ pending' \subseteq Lease /\ armed' \subseteq Lease /\ irrevocable' \subseteq Lease
      /\ attempts' \in [Lease -> 0 .. MaxAttempts - 1] /\ at' \in [Lease -> 0 .. MaxTerm]
      /\ armed' \subseteq armed \cup {l} /\ (stored[l] = 0 => armed' = armed)
      /\ armed \ (marked \cap {l}) \subseteq armed'
      /\ pending \ (marked \cap {l}) \subseteq pending'
      /\ l \notin loaded /\ stored[l] # 0 /\ l \notin marked => l \in armed' /\ l \in pending'
      /\ \A k \in Lease :
           at'[k] = at[k] \/ (k = l /\ l \notin marked /\ stored[l] # 0 /\ at'[k] = stored[k])
  <2>1. CASE l \notin loaded /\ stored[l] # 0
    <3> DEFINE b == l \in marked
    <3>1. stored[l] \in 0 .. MaxTerm /\ b \in BOOLEAN /\ UpdatePending(l, stored[l], b)
      BY <2>1 DEF TypeOK
    <3> HIDE DEF b, Restores
    <3>2. /\ pending' \subseteq Lease /\ armed' \subseteq Lease /\ irrevocable' \subseteq Lease
          /\ attempts' \in [Lease -> 0 .. MaxAttempts - 1] /\ at' \in [Lease -> 0 .. MaxTerm]
          /\ \A k \in Lease : k # l => at'[k] = at[k]
          /\ b => at' = at
          /\ ~b => at'[l] = stored[l] /\ l \in pending' /\ l \in armed'
          /\ armed' \subseteq armed \cup {l}
          /\ armed \ {l} \subseteq armed' /\ pending \ {l} \subseteq pending'
      BY <3>1, UpdateSets
    <3> QED BY <2>1, <3>2 DEF b
  <2>2. CASE ~(l \notin loaded /\ stored[l] # 0)
    <3>1. UNCHANGED <<pending, attempts, armed, at, irrevocable>>
      BY <2>2
    <3> QED BY <2>2, <3>1 DEF TypeOK
  <2> QED BY <2>1, <2>2
<1>v. /\ mode = "restore" /\ mode' = mode /\ todo' = todo \ {l} /\ loaded' = loaded \cup {l}
      /\ UNCHANGED <<stored, marked, due, secret, waived, jobs, lock, act, eras>>
  OBVIOUS
<1> HIDE DEF Restores
<1>1. TypeOK'
  BY <1>u, <1>v DEF TypeOK
<1>2. Processes'
  BY <1>u, <1>v DEF TypeOK, Stages, Active, Fresh, Mutex, DownIsQuiet
<1>3. Entries'
  BY <1>u, <1>v DEF TypeOK, RevokedFirst, Fresh, Stages, SecretGoesFirst, ClearedIsGone,
     NoWriterAfterDelete, Writes, Mutex
<1>4. Times'
  BY <1>u, <1>v DEF TypeOK, UpdatesAgree, Mutex, Fresh, Stages, Active, TimersInTime,
     WritersExtend, Writes
<1>5. Cover'
  BY <1>u, <1>v DEF TypeOK, PendingCovers, ClearedIsGone, UpdatesAgree, Live, ToUpdate,
     ToRestore, Stages, TimersCover, DownIsQuiet, ToFinish
<1> QED BY <1>1, <1>2, <1>3, <1>4, <1>5

(* Setup keeps IInv.                                                       *)
LEMMA SetupKeeps ==
  ASSUME IInv, Setup
  PROVE  IInv'
<1> USE DEF IInv, Processes, Entries, Times, Cover, Setup, storage, timers, manager
<1>1. TypeOK'
  BY DEF TypeOK
<1>2. Processes'
  BY DEF TypeOK, Stages, Active, Fresh, Mutex, DownIsQuiet
<1>3. Entries'
  BY DEF TypeOK, RevokedFirst, Fresh, Stages, SecretGoesFirst, ClearedIsGone,
     NoWriterAfterDelete, Writes, Mutex
<1>4. Times'
  BY DEF TypeOK, UpdatesAgree, Mutex, Fresh, Stages, TimersInTime, WritersExtend, Writes
<1>5. Cover'
  BY DEF TypeOK, PendingCovers, ClearedIsGone, UpdatesAgree, Live, ToUpdate, ToRestore,
     Stages, TimersCover, DownIsQuiet, ToFinish
<1> QED BY <1>1, <1>2, <1>3, <1>4, <1>5

(* RestoreClears keeps IInv.                                               *)
LEMMA RestoreClearsKeeps ==
  ASSUME IInv, RestoreClears
  PROVE  IInv'
<1> USE DEF IInv, Processes, Entries, Times, Cover, RestoreClears, storage, timers, manager
<1>1. TypeOK'
  BY DEF TypeOK
<1>2. Processes'
  BY DEF TypeOK, Stages, Active, Fresh, Mutex, DownIsQuiet
<1>3. Entries'
  BY DEF TypeOK, RevokedFirst, Fresh, Stages, SecretGoesFirst, ClearedIsGone,
     NoWriterAfterDelete, Writes, Mutex
<1>4. Times'
  BY DEF TypeOK, UpdatesAgree, Mutex, Fresh, Stages, TimersInTime, WritersExtend, Writes
<1>5. Cover'
  BY DEF TypeOK, PendingCovers, ClearedIsGone, UpdatesAgree, Live, ToUpdate, ToRestore,
     Stages, TimersCover, DownIsQuiet, ToFinish
<1> QED BY <1>1, <1>2, <1>3, <1>4, <1>5

(* RestoreEnds keeps IInv.                                                 *)
LEMMA RestoreEndsKeeps ==
  ASSUME IInv, RestoreEnds
  PROVE  IInv'
<1> USE DEF IInv, Processes, Entries, Times, Cover, RestoreEnds, storage, timers, manager
<1>1. TypeOK'
  BY DEF TypeOK
<1>2. Processes'
  BY DEF TypeOK, Stages, Active, Fresh, Mutex, DownIsQuiet
<1>3. Entries'
  BY DEF TypeOK, RevokedFirst, Fresh, Stages, SecretGoesFirst, ClearedIsGone,
     NoWriterAfterDelete, Writes, Mutex
<1>4. Times'
  BY DEF TypeOK, UpdatesAgree, Mutex, Fresh, Stages, TimersInTime, WritersExtend, Writes
<1>5. Cover'
  BY DEF TypeOK, PendingCovers, ClearedIsGone, UpdatesAgree, Live, ToUpdate, ToRestore,
     Stages, TimersCover, DownIsQuiet, ToFinish
<1> QED BY <1>1, <1>2, <1>3, <1>4, <1>5

(* Stop keeps IInv.                                                        *)
LEMMA StopKeeps ==
  ASSUME IInv, Stop
  PROVE  IInv'
<1> USE DEF IInv, Processes, Entries, Times, Cover, Stop, storage, timers, manager
<1>1. TypeOK'
  BY DEF TypeOK, Forget
<1>2. Processes'
  BY DEF TypeOK, Stages, Active, Forget, Fresh, Mutex, DownIsQuiet
<1>3. Entries'
  BY DEF TypeOK, RevokedFirst, Fresh, Stages, Forget, SecretGoesFirst, ClearedIsGone,
     NoWriterAfterDelete, Writes, Mutex
<1>4. Times'
  BY DEF TypeOK, UpdatesAgree, Mutex, Fresh, Stages, Forget, TimersInTime, WritersExtend,
     Writes
<1>5. Cover'
  BY DEF TypeOK, PendingCovers, ClearedIsGone, UpdatesAgree, Live, ToUpdate, ToRestore,
     Stages, Forget, TimersCover, DownIsQuiet, ToFinish
<1> QED BY <1>1, <1>2, <1>3, <1>4, <1>5

(* Crash keeps IInv.                                                       *)
LEMMA CrashKeeps ==
  ASSUME IInv, Crash
  PROVE  IInv'
<1> USE DEF IInv, Processes, Entries, Times, Cover, Crash, storage, timers, manager
<1>f. /\ act' \in [Proc -> Doing]
      /\ \A p \in Proc : /\ act'[p].stage \in {"idle", "over"} /\ act'[p].op = "none"
                         /\ act'[p].lease = NoLease /\ act'[p].bad = FALSE
  <2>1. act' \in [Proc -> Doing]
    BY IdleIsDoing
  <2>2. \A p \in Proc : act'[p] = Idle \/ act'[p] = Over(p)
    OBVIOUS
  <2> QED BY <2>1, <2>2 DEF Over, Idle
<1>1. TypeOK'
  BY <1>f DEF TypeOK, Forget
<1>2. Stages'
  BY <1>f DEF TypeOK, Stages, Active, Forget
<1>3. Fresh'
  <2>1. \A l \in Lease : l # NoLease
    OBVIOUS
  <2> QED BY <1>f, <2>1 DEF Fresh, Forget
<1>4. Mutex'
  BY <1>f DEF TypeOK, Mutex, Fresh, Stages, Forget
<1>5. DownIsQuiet'
  BY <1>f DEF TypeOK, DownIsQuiet, Active, Forget
<1>6. Entries'
  BY <1>f DEF TypeOK, RevokedFirst, Fresh, Stages, Forget, SecretGoesFirst, ClearedIsGone,
     NoWriterAfterDelete, Writes, Mutex
<1>7. UpdatesAgree'
  BY <1>f DEF TypeOK, UpdatesAgree, Mutex, Fresh, Stages, Forget
<1>8. TimersInTime'
  BY <1>f DEF TypeOK, TimersInTime, WritersExtend, UpdatesAgree, Fresh, Stages, Writes,
     Forget
<1>9. WritersExtend'
  BY <1>f DEF TypeOK, WritersExtend, TimersInTime, UpdatesAgree, Mutex, Fresh, Stages,
     Writes, Forget
<1>10. Cover'
  BY <1>f DEF TypeOK, PendingCovers, ClearedIsGone, UpdatesAgree, Live, ToUpdate, ToRestore,
     Stages, Forget, TimersCover, DownIsQuiet, ToFinish
<1> QED BY <1>1, <1>2, <1>3, <1>4, <1>5, <1>6, <1>7, <1>8, <1>9, <1>10

-----------------------------------------------------------------------------
(* The inductive invariant *)

(* A manager that is not set up satisfies the invariant.                   *)
LEMMA InitEstablishes == Init => IInv
<1> SUFFICES ASSUME Init PROVE IInv
  OBVIOUS
<1> USE DEF Init
<1>1. \A p \in Proc : /\ act[p].stage = "idle" /\ act[p].op = "none" /\ act[p].lease = NoLease
                      /\ act[p].bad = FALSE
  BY DEF Idle
<1>2. TypeOK
  <2>1. act \in [Proc -> Doing]
    BY IdleIsDoing
  <2> QED BY <2>1 DEF TypeOK
<1>3. Processes
  BY <1>1 DEF Processes, Stages, Active, Fresh, Mutex, DownIsQuiet, Proc
<1>4. Entries
  BY <1>1 DEF Entries, RevokedFirst, SecretGoesFirst, ClearedIsGone, NoWriterAfterDelete
<1>5. Times
  BY <1>1 DEF Times, UpdatesAgree, TimersInTime, WritersExtend, Writes
<1>6. Cover
  BY DEF Cover, PendingCovers, TimersCover, Live
<1> QED BY <1>2, <1>3, <1>4, <1>5, <1>6 DEF IInv

(* Every step keeps the invariant.                                         *)
LEMMA NextKeeps == IInv /\ [Next]_vars => IInv'
<1> SUFFICES ASSUME IInv, [Next]_vars PROVE IInv'
  OBVIOUS
<1>1. CASE \E l \in Lease : TermEnds(l) \/ TimerFires(l)
  BY <1>1, TermEndsKeeps, TimerFiresKeeps
<1>2. CASE \E w \in Worker : Failing(w) \/ \E l \in Lease : JobTaken(w, l)
  BY <1>2, JobTakenKeeps, FailureGoneKeeps, FailureRetriesKeeps, FailureGivesUpKeeps,
     RetryResetsKeeps, RetryStoresKeeps, GiveUpLoadsKeeps, GiveUpGoneKeeps, GiveUpMarksKeeps,
     GiveUpAgainKeeps DEF Failing
<1>3. CASE \E p \in Proc : Revoking(p)
  BY <1>3, FindsNothingKeeps, RevokeLoadsKeeps, RevokeSucceedsKeeps, RevokeFailsKeeps,
     RevokeForcedKeeps, RevokeDeletesKeeps, RevokeStorageFailsKeeps, RevokeClearsKeeps
     DEF Revoking
<1>4. CASE \E r \in Request : Updating(r) \/ \E l \in Lease : Calling(r, l)
  BY <1>4, LazyLoadsKeeps, RenewLoadsKeeps, RenewRefusedKeeps, RenewSucceedsKeeps,
     PersistsKeeps, CallFailsKeeps, UpdatesKeeps, CallBeginsKeeps, RegisterPersistsKeeps,
     RegisterFailsKeeps DEF Updating, Calling
<1>5. CASE Setup \/ Restoring \/ Stop \/ Crash
  BY <1>5, SetupKeeps, RestoresKeeps, RestoreClearsKeeps, RestoreEndsKeeps, StopKeeps,
     CrashKeeps DEF Restoring
<1>6. CASE UNCHANGED vars
  <2> USE <1>6 DEF vars, IInv
  <2>1. TypeOK'
    BY DEF TypeOK
  <2>2. Processes'
    BY DEF Processes, Stages, Active, Fresh, Mutex, DownIsQuiet
  <2>3. Entries'
    BY DEF Entries, RevokedFirst, SecretGoesFirst, ClearedIsGone, NoWriterAfterDelete,
       Writes
  <2>4. Times'
    BY DEF Times, UpdatesAgree, TimersInTime, WritersExtend, Writes
  <2>5. Cover'
    BY DEF Cover, PendingCovers, TimersCover, Live, ToUpdate, ToRestore, ToFinish
  <2> QED BY <2>1, <2>2, <2>3, <2>4, <2>5
<1> QED BY <1>1, <1>2, <1>3, <1>4, <1>5, <1>6 DEF Next

(* The invariant holds in every state.                                     *)
LEMMA Invariant == Spec => []IInv
  BY InitEstablishes, NextKeeps, PTL DEF Spec

(* The variables of the expiration manager keep their types: no counter of *)
(* attempts passes maxRevokeAttempts, and no queue of jobs goes below zero.*)
THEOREM TypesHold == Spec => []TypeOK
<1>1. IInv => TypeOK
  BY DEF IInv
<1> QED BY <1>1, Invariant, PTL

(* An entry that is gone has left a revoked secret behind, unless its      *)
(* caller forced it or was told that the registration failed: the backend  *)
(* is asked before the entry is deleted (expiration.go, revokeCommon).     *)
THEOREM SecretsGoFirst == Spec => []SecretGoesFirst
<1>1. IInv => SecretGoesFirst
  BY DEF IInv, Entries
<1> QED BY <1>1, Invariant, PTL

(* No lease is forgotten, however the timers, the jobs, the failures and   *)
(* their retries, the calls, the restore and crashes interleave: an entry  *)
(* that is not marked irrevocable has a timer in time, a job, or somebody  *)
(* at work on it (expiration.go, updatePendingInternal and OnFailure).     *)
THEOREM NoLeaseForgotten == Spec => []NothingForgotten
<1>1. IInv => NothingForgotten
  <2> SUFFICES ASSUME IInv, mode \in {"restored", "up"}, NEW l \in Lease,
                      stored[l] # 0, l \notin marked
               PROVE  (l \in armed /\ at[l] <= stored[l]) \/ jobs[l] > 0 \/ InHand(l)
    BY DEF NothingForgotten
  <2>1. l \in armed \/ jobs[l] > 0 \/ ToUpdate(l) \/ ToFinish(l)
    BY DEF IInv, Cover, TimersCover, Live, ToRestore
  <2>2. at[l] <= stored[l]
    BY DEF IInv, Times, TimersInTime
  <2>3. ToUpdate(l) \/ ToFinish(l) => InHand(l)
    BY DEF ToUpdate, ToFinish, InHand, Proc
  <2> QED BY <2>1, <2>2, <2>3
<1> QED BY <1>1, Invariant, PTL
=============================================================================
