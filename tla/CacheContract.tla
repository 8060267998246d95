---------------------------- MODULE CacheContract ----------------------------
(***************************************************************************)
(* What a storage with a cache in front of it promises to its clients: a   *)
(* read returns the value of its key, or a value that was replaced by a    *)
(* write which has not returned yet (it still owes the invalidation of its *)
(* keys), or which returned an error and may or may not have taken place   *)
(* (its keys are in doubt).  There is no cache and no lock here.           *)
(***************************************************************************)

CONSTANTS Key, Value, Proc

VARIABLES
  store,   \* [Key -> Value]: the contents of the storage
  stale,   \* [Key -> SUBSET Value]: replaced values that a read may still give
  owed,    \* [Proc -> SUBSET Key]: keys a client wrote and has not settled
  doubt,   \* SUBSET Key: keys of writes that were answered with an error
  answer   \* [Proc -> << >> or <<key, value>>]: what a client's read found

contractVars == <<store, stale, owed, doubt, answer>>

NoAnswer == << >>

Init ==
  /\ store \in [Key -> Value]
  /\ stale = [k \in Key |-> {}]
  /\ owed = [p \in Proc |-> {}]
  /\ doubt = {}
  /\ answer = [p \in Proc |-> NoAnswer]

(* Values are forgotten at any time; none comes back by itself.            *)
Fades == \A k \in Key : stale'[k] \subseteq stale[k]

Read(p) ==
  \E k \in Key, v \in Value :
    /\ v \in stale[k] \union {store[k]}
    /\ answer' = [answer EXCEPT ![p] = <<k, v>>]
    /\ Fades
    /\ UNCHANGED <<store, owed, doubt>>

(* A client begins something else, or its read fails.                      *)
Drop(p) ==
  /\ answer' = [answer EXCEPT ![p] = NoAnswer]
  /\ Fades
  /\ UNCHANGED <<store, owed, doubt>>

(* The storage takes a write of some keys.  One that the client does not   *)
(* owe and that is not in doubt is correct at once.                        *)
Write(p) ==
  /\ owed[p] = {}
  /\ store' \in [Key -> Value]
  /\ \E K \in SUBSET Key : owed' = [owed EXCEPT ![p] = K]
  /\ doubt' \in SUBSET Key /\ doubt \subseteq doubt'
  /\ \A k \in Key :
       IF store'[k] = store[k] THEN stale'[k] \subseteq stale[k]
       ELSE /\ stale'[k] \subseteq stale[k] \union {store[k]}
            /\ k \notin owed'[p] \union doubt' => stale'[k] = {}
  /\ answer' = [answer EXCEPT ![p] = NoAnswer]

(* A write of k returns.  Nobody reads an old value of k from here on,     *)
(* unless another write of k is on its way or in doubt.                    *)
Settle(p) ==
  \E k \in owed[p] :
    /\ owed' = [owed EXCEPT ![p] = @ \ {k}]
    /\ Fades
    /\ (\A q \in Proc : k \notin owed'[q]) /\ k \notin doubt => stale'[k] = {}
    /\ answer' = [answer EXCEPT ![p] = NoAnswer]
    /\ UNCHANGED <<store, doubt>>

(* Keys are invalidated: whatever went before, only their present value    *)
(* can be read.                                                            *)
Invalidate(p) ==
  \E K \in SUBSET Key :
    /\ owed' = [owed EXCEPT ![p] = @ \ K]
    /\ doubt' = doubt \ K
    /\ Fades
    /\ \A k \in K : stale'[k] = {}
    /\ answer' \in {answer, [answer EXCEPT ![p] = NoAnswer]}
    /\ UNCHANGED store

Next ==
  \E p \in Proc :
    Read(p) \/ Drop(p) \/ Write(p) \/ Settle(p) \/ Invalidate(p)

Spec == Init /\ [][Next]_contractVars

=============================================================================
