SPECIFICATION Spec
CONSTANTS
  Key <- OneKey
  Value = {v}
  Absent = Absent
  Unset = Unset
  Empty = Empty
  Query <- NoQuery
  Txn = {t1, t2}
  Writer = {w1}
  Replica = {r1}
  Leader = r1
  TxnPermits = 2
  MaxLog = 3
  MaxBatch = 2
  MaxRestarts = 0
  MaxSnapshots = 0
  MaxFailures = 0
  MaxConfigs = 0
SYMMETRY Symmetric
INVARIANTS
  AgreesWhileIntact
  RemembersWhileCalm
CHECK_DEADLOCK FALSE
