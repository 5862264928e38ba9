--------------------------- MODULE CountingSemaphore ---------------------------
(***************************************************************************)
(* What Kernel/semaphores/semaphore.c promises its callers, without the    *)
(* scheduler underneath: a value, a queue of waiters in the order in which *)
(* they came, and who sleeps where.  The module Semaphores implements it;  *)
(* the modules of the semaphores' clients are built on it.                 *)
(*                                                                         *)
(* The promise is as weak as the code's: a waiter that was killed or       *)
(* blocked by name stays in the queue, a post that meets it is spent on it,*)
(* and a client that cannot sleep (idle) queues and goes on.               *)
(***************************************************************************)
EXTENDS Naturals, Sequences

CONSTANTS
  Client,
  Semaphore,
  Values,  \* the values semaphores are opened with
  Awake    \* the value of asleep for a client that does not sleep

VARIABLES
  value,
  queued,   \* the semaphores that have a queue
  waiters,  \* the queue of each semaphore
  asleep    \* the semaphore a client sleeps on

semaphores == <<value, queued, waiters, asleep>>

NoSemaphores ==
  /\ value = [s \in Semaphore |-> 0]
  /\ queued = {}
  /\ waiters = [s \in Semaphore |-> <<>>]
  /\ asleep = [c \in Client |-> Awake]

(* semInit() that gets its queue; SemaphoreTable has the one that does not. *)
Open(s, v) ==
  /\ value' = [value EXCEPT ![s] = v]
  /\ queued' = queued \cup {s}
  /\ UNCHANGED <<waiters, asleep>>

(* semClose(); who sleeps there sleeps for ever. *)
Close(s) ==
  /\ value' = [value EXCEPT ![s] = 0]
  /\ queued' = queued \ {s}
  /\ waiters' = [waiters EXCEPT ![s] = <<>>]
  /\ UNCHANGED asleep

Enqueued(s, c) ==
  IF s \in queued THEN [waiters EXCEPT ![s] = Append(@, c)] ELSE waiters

(* The three ways through wait() that return at once: with a token, with an *)
(* error, and (a caller that is in no scheduler queue) with neither.        *)
WaitTakes(s) ==
  /\ value[s] > 0
  /\ value' = [value EXCEPT ![s] = @ - 1]
  /\ UNCHANGED <<queued, waiters, asleep>>

WaitFails(s) == value[s] = 0 /\ UNCHANGED semaphores

WaitGoesOn(s, c) ==
  /\ value[s] = 0
  /\ waiters' = Enqueued(s, c)
  /\ UNCHANGED <<value, queued, asleep>>

(* wait() that sleeps; without memory for the node the client is in no      *)
(* queue.                                                                   *)
WaitSleeps(s, c, failed) ==
  /\ value[s] = 0 /\ asleep[c] = Awake
  /\ waiters' = IF failed THEN waiters ELSE Enqueued(s, c)
  /\ asleep' = [asleep EXCEPT ![c] = s]
  /\ UNCHANGED <<value, queued>>

Post(s) ==
  /\ UNCHANGED queued
  /\ \/ /\ waiters[s] = <<>>
        /\ value' = [value EXCEPT ![s] = @ + 1]
        /\ UNCHANGED <<waiters, asleep>>
     \/ /\ waiters[s] # <<>>
        /\ waiters' = [waiters EXCEPT ![s] = Tail(@)]
        /\ asleep' = [asleep EXCEPT ![Head(waiters[s])] = Awake]
        /\ UNCHANGED value

(* A sleeper is killed, or blocked by name. *)
Leave(c) ==
  /\ asleep' = [asleep EXCEPT ![c] = Awake]
  /\ UNCHANGED <<value, queued, waiters>>

SemaphoreStep ==
  \/ \E s \in Semaphore, v \in Values : Open(s, v)
  \/ \E s \in Semaphore : Close(s) \/ WaitTakes(s) \/ Post(s)
  \/ \E s \in Semaphore, c \in Client :
       WaitGoesOn(s, c) \/ \E failed \in BOOLEAN : WaitSleeps(s, c, failed)
  \/ \E c \in Client : Leave(c)

SemaphoreSpec == NoSemaphores /\ [][SemaphoreStep]_semaphores
=============================================================================
