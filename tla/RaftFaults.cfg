SPECIFICATION Spec
CONSTANTS
  Key <- OneKey
  Value = {v}
  Absent = Absent
  Unset = Unset
  Empty = Empty
  Query <- NoQuery
  Txn = {t1}
  Writer = {w1}
  Replica = {r1, r2}
  Leader = r1
  TxnPermits = 2
  MaxLog = 2
  MaxBatch = 2
  MaxRestarts = 1
  MaxSnapshots = 1
  MaxFailures = 1
  MaxConfigs = 0
SYMMETRY Symmetric
INVARIANTS
  TypeOK
  SourceCounts
  StartIndexInSnapshot
  NoLaterIndex
  AgreesWhileIntact
  VerdictsAreTrue
CHECK_DEADLOCK FALSE
