SPECIFICATION FairSpec
CONSTANTS
  Key <- FileAndFolder
  Value = {v}
  Absent = Absent
  Unset = Unset
  Empty = Empty
  Query <- Folder
  Txn = {t1}
  Writer = {w1}
  Replica = {r1}
  Leader = r1
  TxnPermits = 1
  MaxLog = 2
  MaxBatch = 2
  MaxRestarts = 0
  MaxSnapshots = 0
  MaxFailures = 1
  MaxConfigs = 1
INVARIANTS
  VerdictsAreTrue
PROPERTIES
  PermitsComeBack
CHECK_DEADLOCK FALSE
