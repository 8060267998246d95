SPECIFICATION Spec
CONSTANTS
  Key <- FileAndFolder
  Value = {v}
  Absent = Absent
  Unset = Unset
  Empty = Empty
  Query <- NoQuery
  Txn = {t1}
  Writer = {w1}
  Replica = {r1}
  Leader = r1
  TxnPermits = 2
  MaxLog = 4
  MaxBatch = 2
  MaxRestarts = 0
  MaxSnapshots = 0
  MaxFailures = 0
  MaxConfigs = 1
SYMMETRY Symmetric
INVARIANTS
  StateMachineSafety
CHECK_DEADLOCK FALSE
