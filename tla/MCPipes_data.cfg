\* One pipe: a writer, a filter that goes on reading, and a process that does both; nobody interferes.
SPECIFICATION FairSpec
CONSTANTS
  Idle = "idle"
  p1 = p1
  p2 = p2
  p3 = p3
  Proc = {p1, p2, p3}
  MAX_PIPES = 1
  PIPE_BUFFER_SIZE = 2
  NUM_SEMS = 3
  Byte = {"a", "b"}
  MaxSize = 2
  MaxDrift = 3
  May <- MCData
  Keyboard = FALSE
  Interfere = FALSE
  AllocFails = FALSE
  Orderly = TRUE
  UserSems = {}
INVARIANTS
  TokensMatchBytes
  NothingSkipped
PROPERTIES
  WriterFinishes
