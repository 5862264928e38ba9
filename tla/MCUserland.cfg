\* The table with philosophers that come and go, the shell with one line after
\* another, and test_sync, one at a time.
SPECIFICATION FairUserlandSpec
CONSTANTS
  Client <- MCClient
  Semaphore <- MCSemaphore
  Values = {0, 1}
  Awake = 0
  MAX_PHYLOS = 4
  MIN_PHYLOS = 1
  Aux = 3
  MaxPid = 4
  MayFail = TRUE
  Lines <- MCLines
  MaxChild = 3
  PIPE_BUFFER_SIZE = 2
  Output = 1
  Iterations = 1
  UseSem = TRUE
INVARIANTS
  OnlyRemovalJoinsEaters
  BlocksAreReturned
  PipeOutlivesItsUsers
  FinalValueIsZero
PROPERTIES
  ManagerReturns
  SomebodyEats
  PromptComesBack
\* Every one of them may come to its end.
CHECK_DEADLOCK FALSE
