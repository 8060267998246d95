SPECIFICATION Spec
CONSTANTS
  k1 = k1  k2 = k2  l1 = l1  l2 = l2
  Key = {k1, k2}
  Value = {Absent, v}
  Absent = Absent
  NoEntry = NoEntry
  NoKey = NoKey
  Proc = {p1, p2}
  Lock = {l1, l2}
  LockOf <- OwnLocks
  Exceptions = {}
  Size = 1
  MaxChanges = 1
SYMMETRY Symmetric
INVARIANTS CachedIsCurrent TxReadsItsOwn
PROPERTIES ImplementsContract
CHECK_DEADLOCK FALSE
