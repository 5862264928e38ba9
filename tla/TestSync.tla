-------------------------------- MODULE TestSync --------------------------------
(***************************************************************************)
(* SampleCodeModule/tests/test_sync.c: processes that count one number up  *)
(* and down, behind a semaphore of CountingSemaphore or without it, and    *)
(* the parent that waits for them and prints what is left.                 *)
(*                                                                         *)
(* waitpid() returns at once from a child that sleeps on a semaphore, so   *)
(* the parent may close the semaphore under its children.                  *)
(***************************************************************************)
EXTENDS CountingSemaphore, Integers

CONSTANTS
  Iterations,  \* argv[0]
  UseSem       \* argv[1]

SEM_ID == 150
TOTAL_PAIR_PROCESSES == 2
Counter == 1..2 * TOTAL_PAIR_PROCESSES

ASSUME TestSyncAssumption ==
  /\ Counter \subseteq Client /\ SEM_ID \in Semaphore /\ SEM_ID # Awake
  /\ Iterations \in Nat

VARIABLES
  global,
  counter,  \* my_process_inc(): where every child is, its i and its aux
  tester,   \* test_sync(): its step and the child it is at
  early     \* history: has waitpid() returned before its child was dead?

syncVars == <<global, counter, tester, early, semaphores>>

inc(c) == IF c % 2 = 1 THEN -1 ELSE 1

SyncInit ==
  /\ global = 0
  /\ counter = [c \in Counter |-> [at |-> "none", i |-> 0, aux |-> 0]]
  /\ tester = [step |-> "open", child |-> 1]
  /\ early = FALSE

Next_(step, child) == tester' = [step |-> step, child |-> child]

(* The next child, or the next step when there is none. *)
Proceed(step) ==
  IF tester.child \in Counter \ {2 * TOTAL_PAIR_PROCESSES}
  THEN Next_(tester.step, tester.child + 1)
  ELSE Next_(step, 1)

OpenCounted ==
  /\ tester.step = "open" /\ Next_("create", 1)
  /\ IF UseSem THEN Open(SEM_ID, 1) ELSE UNCHANGED semaphores
  /\ global' = 0
  /\ UNCHANGED <<counter, early>>

(* The children are created, and later waited for, in pairs. *)
CreateCounter ==
  /\ tester.step = "create"
  /\ Proceed("wait")
  /\ counter' = [counter EXCEPT ![tester.child].at = "loop"]
  /\ UNCHANGED <<global, early, semaphores>>

WaitForCounter ==
  LET c == tester.child
  IN /\ \/ tester.step = "wait"
           /\ \/ counter[c].at = "dead" /\ UNCHANGED early /\ Proceed("close")
              \/ asleep[c] # Awake /\ early' = TRUE /\ Proceed("close")
              \/ counter[c].at # "dead" /\ asleep[c] = Awake /\ UNCHANGED early /\ Next_("blocked", c)
        \/ /\ tester.step = "blocked" /\ counter[c].at = "dead"
           /\ UNCHANGED early
           /\ IF c = 2 * TOTAL_PAIR_PROCESSES THEN Next_("close", 1) ELSE Next_("wait", c + 1)
     /\ UNCHANGED <<global, counter, semaphores>>

CloseCounted ==
  /\ tester.step = "close" /\ Next_("printed", 1)
  /\ IF UseSem THEN Close(SEM_ID) ELSE UNCHANGED semaphores
  /\ UNCHANGED <<global, counter, early>>

TesterStep == OpenCounted \/ CreateCounter \/ WaitForCounter \/ CloseCounted

-----------------------------------------------------------------------------
Moves(c, from, to) == asleep[c] = Awake /\ counter[c].at = from /\ counter' = [counter EXCEPT ![c].at = to]

\* Faulty: the number is read before the semaphore is taken.
WaitCounted_Late(c) ==
  /\ counter[c].i < Iterations
  /\ Moves(c, "loop", "read")
  /\ UNCHANGED semaphores

WaitCounted(c) ==
  /\ counter[c].i < Iterations
  /\ Moves(c, "loop", "read")
  /\ IF UseSem THEN WaitTakes(SEM_ID) \/ WaitSleeps(SEM_ID, c, FALSE) ELSE UNCHANGED semaphores

(* slowInc(): the CPU is given away between the read and the write. *)
ReadCounted(c) ==
  /\ asleep[c] = Awake /\ counter[c].at = "read"
  /\ counter' = [counter EXCEPT ![c].at = "write", ![c].aux = global]
  /\ UNCHANGED semaphores

WriteCounted(c) ==
  /\ Moves(c, "write", "post")
  /\ global' = counter[c].aux + inc(c)
  /\ UNCHANGED semaphores

PostCounted(c) ==
  /\ counter[c].at = "post" /\ asleep[c] = Awake
  /\ counter' = [counter EXCEPT ![c].at = "loop", ![c].i = @ + 1]
  /\ IF UseSem THEN Post(SEM_ID) ELSE UNCHANGED semaphores

EndCounter(c) == counter[c].i = Iterations /\ Moves(c, "loop", "dead") /\ UNCHANGED semaphores

CounterStep(c) ==
  /\ \/ WriteCounted(c)
     \/ UNCHANGED global /\ (WaitCounted(c) \/ ReadCounted(c) \/ PostCounted(c) \/ EndCounter(c))
  /\ UNCHANGED <<tester, early>>

SyncNext == TesterStep \/ \E c \in Counter : CounterStep(c)

SyncSpec == SyncInit /\ NoSemaphores /\ [][SyncNext]_syncVars

-----------------------------------------------------------------------------
(* With the semaphore the ups and the downs cancel out: the number that is  *)
(* printed is zero, as long as waitpid() waited for every child.            *)
FinalValueIsZero == UseSem /\ tester.step = "printed" /\ ~early => global = 0
=============================================================================
