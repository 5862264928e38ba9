\* Everything at once: kills in place, blocks by pid, failing allocations; the timer is fair.
SPECIFICATION FairSpec
CONSTANTS
  MaxPid = 3
  QUANTUM = 1
  MAX_PRIORITY = 1
  Priorities <- MCAnyPriority
  BlockTargets = {3}
  AllocFails = {"stack", "node"}
  SelfKill = TRUE
INVARIANTS
  TypeOK
  QueueDiscipline
  ForegroundIsAlive
  NoLostWakeup
PROPERTIES
  EveryReadyRuns
  WaiterReturns
  ReapedByParent
