\* A mutex: opened with one token, posted by its holder.
SPECIFICATION FairSemSpec
CONSTANTS
  MaxPid = 3
  QUANTUM = 1
  MAX_PRIORITY = 1
  Priorities <- MCPriorities
  BlockTargets = {}
  AllocFails = {}
  SelfKill = FALSE
  s1 = s1
  SemId <- MCSemId
  InitialValue = 1
  MaxAhead = 1
  MaxWaiters = 4
  SemAllocFails = {"pid"}
  Disciplined = TRUE
  Sloppy = FALSE
  IdleWaits = FALSE
  Garbage = {}
INVARIANTS
  NoWaiterWithTokens
  NeverOverdrawn
  NoTokenLost
PROPERTIES
  WaiterPasses
