----------------------------- MODULE MCFairShare -----------------------------
(***************************************************************************)
(* Small instances of FairShare: two queues, one of them with more jobs.   *)
(***************************************************************************)
EXTENDS FairShare, TLC

CONSTANTS qa, qb, a1, a2, b1

ThreeJobs == {a1, a2, b1}
ThreeQueueOf == a1 :> qa @@ a2 :> qa @@ b1 :> qb
=============================================================================
