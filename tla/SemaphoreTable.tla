---------------------------- MODULE SemaphoreTable ----------------------------
(***************************************************************************)
(* The counting semaphores with the table they are kept in.  A semInit()   *)
(* that finds no memory for its queue frees the table of all semaphores    *)
(* (semaphore.c:50), and every later call goes on using it: the semaphores *)
(* count as CountingSemaphore says, but what they are counted in may be    *)
(* written over by the next owner of that memory.                          *)
(***************************************************************************)
EXTENDS CountingSemaphore

VARIABLE table \* is the memory of the table the semaphores' own?

service == <<semaphores, table>>

(* A semaphore that is opened over what was left in it has a new queue. *)
Reset(s, v) ==
  /\ value' = [value EXCEPT ![s] = v]
  /\ waiters' = [waiters EXCEPT ![s] = <<>>]
  /\ UNCHANGED asleep

OpenFails(s, v) == Reset(s, v) /\ queued' = queued \ {s} /\ table' = "freed"

Reopen(s, v) ==
  table = "freed" /\ Reset(s, v) /\ queued' = queued \cup {s} /\ UNCHANGED table

(* The next owner writes into s: the count is lost, and perhaps the queue,  *)
(* whose waiters then sleep for ever.  Nobody is woken by it.               *)
Overwritten(s) ==
  /\ table = "freed"
  /\ value' \in [Semaphore -> Nat] /\ \A t \in Semaphore \ {s} : value'[t] = value[t]
  /\ \/ UNCHANGED <<queued, waiters>>
     \/ queued' = queued \ {s} /\ waiters' = [waiters EXCEPT ![s] = <<>>]
  /\ UNCHANGED <<asleep, table>>

TableStep ==
  \/ SemaphoreStep /\ UNCHANGED table
  \/ \E s \in Semaphore, v \in Values : OpenFails(s, v) \/ Reopen(s, v)
  \/ \E s \in Semaphore : Overwritten(s)

TableSpec == NoSemaphores /\ table = "live" /\ [][TableStep]_service
=============================================================================
