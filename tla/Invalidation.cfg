SPECIFICATION Spec
CONSTANTS
    ns = ns
    mount = mount
    Root = Root
    NoKey = NoKey
    Key = {ns, mount}
    Parent <- Parents
    Split = {mount}
    QueueOf <- Queues
    Initial = {}
    Worker = {w1, w2}
    MaxWrites = 3
INVARIANTS NoInvalidationLost QuietWhenStopped
PROPERTIES LeavingEnds ChangesAreSeen
CHECK_DEADLOCK FALSE
