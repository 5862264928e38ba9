\* scheduler.c:262: waitpid() blocks while the child still runs.
SPECIFICATION Spec
CONSTANTS
  MaxPid = 3
  QUANTUM = 1
  MAX_PRIORITY = 1
  Priorities <- MCPriorities
  BlockTargets = {}
  AllocFails = {}
  SelfKill = FALSE
INVARIANT WaitpidWaitsForTheLiving

