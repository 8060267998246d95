SPECIFICATION Spec
CONSTANTS
  Key <- Paths
  Query <- Queries
INVARIANTS
  PageIsCorrect
  PresentKeysAreCorrect
  PagesCompose
CHECK_DEADLOCK FALSE
