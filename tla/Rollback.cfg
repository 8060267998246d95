SPECIFICATION Spec
CONSTANTS
    NoPath = NoPath
    Path = {p1, p2}
    Removed = {p1}
    Caller = {c1, d1}
    Deleter = {d1}
    Worker = {w1}
    MaxAttempt = 4
INVARIANTS OneAtATime Protected
PROPERTIES StopEnds CallsReturn
CHECK_DEADLOCK FALSE
