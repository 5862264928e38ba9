\* Kills, unblocks by pid, clears, failing allocations, and keys that are
\* pressed while idle halts.
SPECIFICATION Spec
CONSTANTS
  Idle = "idle"
  p1 = p1
  p2 = p2
  p3 = p3
  Proc = {p1, p2}
  MAX_PIPES = 1
  PIPE_BUFFER_SIZE = 2
  NUM_SEMS = 3
  Byte = {"a", "b"}
  MaxSize = 1
  MaxDrift = 1
  May <- MCAny
  Keyboard = TRUE
  Interfere = TRUE
  AllocFails = TRUE
  Orderly = TRUE
  UserSems = {}
PROPERTIES
  ImplementsChannel
