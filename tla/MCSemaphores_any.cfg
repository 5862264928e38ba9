\* Any use: posts by anyone, semaphores never opened or closed in use,
\* failing allocations (of a queue, too, which frees the table of the
\* semaphores), a keyboard that waits while idle runs, blocks by pid.
SPECIFICATION SemSpec
CONSTANTS
  MaxPid = 2
  QUANTUM = 1
  MAX_PRIORITY = 1
  Priorities <- MCPriorities
  BlockTargets = {2}
  AllocFails = {}
  SelfKill = FALSE
  s1 = s1
  SemId <- MCSemId
  InitialValue = 1
  MaxAhead = 1
  MaxWaiters = 2
  SemAllocFails = {"node", "queue"}
  Disciplined = FALSE
  Sloppy = TRUE
  IdleWaits = TRUE
  Garbage = {2}
INVARIANTS
  OneRunning
  RunsOwnStack
PROPERTIES
  Spec
  ImplementsCountingSemaphore
