SPECIFICATION FairSpec
CONSTANTS
  Node = {n1, n2}
  MaxTerm = 3
  MaxKeys = 4
  MaxRoots = 2
  MaxFaults = 1
  MaxRestarts = 1
INVARIANTS TypeOK EntriesReadable AgreeOnKeys 
  
CHECK_DEADLOCK FALSE
