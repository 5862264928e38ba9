----------------------------- MODULE MCSemaphores -----------------------------
(* Small instances of Semaphores: one priority, so that every dispatch      *)
(* gives one tick of quantum.                                               *)
EXTENDS Semaphores

CONSTANT s1
MCSemId == {s1}
MCPriorities == {MAX_PRIORITY}
=============================================================================
