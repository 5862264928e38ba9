------------------------------ MODULE MCUserland ------------------------------
(* Small instances of what runs on top of the system calls: the dining      *)
(* philosophers, the shell and its programs, and test_sync.  A behaviour is *)
(* a behaviour of one of them.                                              *)
EXTENDS DiningPhilosophers, Shell, TestSync

VARIABLE part

Command(name, words) == [name |-> name, words |-> words, amp |-> FALSE]
InBackground(name, words) == [name |-> name, words |-> words, amp |-> TRUE]
Alone(cmd) == [piped |-> FALSE, cmd1 |-> cmd, cmd2 |-> NoCommand]
Pipeline(cmd1, cmd2) == [piped |-> TRUE, cmd1 |-> cmd1, cmd2 |-> cmd2]

MCLines ==
  {Alone(NoCommand), Alone(Command("exit", 0)), Alone(Command("kill", 1)), Alone(Command("clear", 0)),
   Alone(InBackground("cat", 0)), Alone(Command("loop", 0)),
   Pipeline(Command("echo", 1), Command("wc", 0)),
   Pipeline(InBackground("loop", 1), Command("cat", 0)),
   Pipeline(Command("cat", 0), InBackground("cat", 0)),
   Pipeline(Command("kill", 1), Command("cat", 0)),
   Pipeline(Command("kill", 1), Command("kill", 1)),
   Pipeline(Command("echo", 1), Command("kill", 0)),
   Pipeline(Command("loop", 0), Command("loop", 0)),
   Pipeline(Command("echo", 1), NoCommand),
   Pipeline(NoCommand, Command("echo", 1)),
   Pipeline(Command("echo", 1), Command("exit", 0))}

MCClient == 0 .. 4
MCSemaphore == 100 .. 104 \cup {SEM_ID}

UserlandInit ==
  /\ part \in {"philosophers", "shell", "test_sync"}
  /\ TableInit /\ ShellInit /\ SyncInit /\ NoSemaphores

othersThanTable == <<part, shellVars, global, counter, tester, early>>
othersThanShell == <<part, philosopherVars, global, counter, tester, early>>
othersThanSync == <<part, tableVars, shellVars>>

UserlandNext ==
  \/ part = "philosophers" /\ TableNext /\ UNCHANGED othersThanTable
  \/ part = "shell" /\ ShellNext /\ UNCHANGED othersThanShell
  \/ part = "test_sync" /\ SyncNext /\ UNCHANGED othersThanSync

userlandVars == <<part, philosopherVars, shellVars, global, counter, tester, early>>

UserlandSpec == UserlandInit /\ [][UserlandNext]_userlandVars

(* The round robin dispatches every ready process (EveryReadyRuns), so that *)
(* each process goes on unless it waits; keys need not be pressed, except   *)
(* that the philosophers of the command line are seated without any.        *)
Table(action) == part = "philosophers" /\ action /\ UNCHANGED othersThanTable
Line(action) == part = "shell" /\ action /\ UNCHANGED othersThanShell

FairUserlandSpec ==
  /\ UserlandSpec
  /\ \A p \in Philosopher : WF_userlandVars(Table(PhilosopherStep(p)))
  /\ WF_userlandVars(Table(ManagerStep))
  /\ WF_userlandVars(Table(manager.step = "seat" /\ Enter))
  /\ WF_userlandVars(Line(ShellStep))
  /\ \A c \in Child : WF_userlandVars(Line(ChildStep(c)))
=============================================================================
