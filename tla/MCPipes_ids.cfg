\* Pipes are created and closed while calls are inside them, until the slots,
\* the semaphore ids or both run out; programs open semaphores of their own.
SPECIFICATION Spec
CONSTANTS
  Idle = "idle"
  p1 = p1
  p2 = p2
  p3 = p3
  Proc = {p1, p2}
  MAX_PIPES = 6
  PIPE_BUFFER_SIZE = 1
  NUM_SEMS = 17
  Byte = {"a"}
  MaxSize = 1
  MaxDrift = 3
  May <- MCIds
  Keyboard = FALSE
  Interfere = FALSE
  AllocFails = FALSE
  Orderly = FALSE
  UserSems = {7, 14}
INVARIANTS
  SemaphoresAreItsOwn
