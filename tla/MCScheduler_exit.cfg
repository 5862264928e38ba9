\* asm/process.asm:10: the code behind exit() should never be reached.
SPECIFICATION Spec
CONSTANTS
  MaxPid = 3
  QUANTUM = 1
  MAX_PRIORITY = 1
  Priorities <- MCPriorities
  BlockTargets = {}
  AllocFails = {}
  SelfKill = FALSE
INVARIANT ExitNeverReturns

