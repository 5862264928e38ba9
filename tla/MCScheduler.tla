----------------------------- MODULE MCScheduler -----------------------------
(* Small instances of Scheduler: the shell and two user processes, one      *)
(* tick of quantum per priority step, two priorities.                       *)
EXTENDS Scheduler

MCPriorities == {0, MAX_PRIORITY}          \* what the shell and the tests ask for
MCAnyPriority == {-1, 0, IDLE_PRIORITY}    \* below, inside and at idle's priority
=============================================================================
