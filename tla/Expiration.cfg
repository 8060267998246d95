SPECIFICATION Spec
CONSTANTS
    NoProc = NoProc
    NoLease = NoLease
    Lease = {l1}
    Worker = {w1, w2}
    Request = {r1, r2}
    MaxAttempts = 2
    MaxTerm = 2
    MaxEras = 2
INVARIANTS  SecretGoesFirst
 
CHECK_DEADLOCK FALSE
