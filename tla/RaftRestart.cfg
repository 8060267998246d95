SPECIFICATION Spec
CONSTANTS
  Key <- OneKey
  Value = {v}
  Absent = Absent
  Unset = Unset
  Empty = Empty
  Query <- NoQuery
  Txn = {t1}
  Writer = {w1}
  Replica = {r1, r2}
  Leader = r1
  TxnPermits = 2
  MaxLog = 3
  MaxBatch = 1
  MaxRestarts = 1
  MaxSnapshots = 0
  MaxFailures = 0
  MaxConfigs = 0
SYMMETRY Symmetric
INVARIANTS
  StateMachineSafety
CHECK_DEADLOCK FALSE
