------------------------------ MODULE LinkedQueue ------------------------------
(***************************************************************************)
(* Kernel/ds/queue.c, the list under the scheduler's queues and under the  *)
(* semaphores: nodes on the heap, linked from front to rear.  Every call   *)
(* runs with interrupts off and is one action.  The loops that walk along  *)
(* the links visit the nodes of chain, in its order.                       *)
(***************************************************************************)
EXTENDS Integers, Sequences

CONSTANTS
  Address,   \* bound: where the heap can put a node
  NULL,
  Item,
  Key,
  KeyOf      \* what the compare functions look at

ASSUME LinkedQueueAssumption == NULL \notin Address

VARIABLES
  exists,      \* does the caller have a queue?
  front, rear, size,
  data, next,  \* the nodes
  allocated,   \* the nodes that are not free
  chain,       \* history: the nodes from front to rear
  answer       \* what the last call returned

queueVars == <<exists, front, rear, size, data, next, allocated, chain, answer>>

queueInit ==
  /\ exists = FALSE /\ front = NULL /\ rear = NULL /\ size = 0
  /\ next = [a \in Address |-> NULL] /\ \E d \in Item : data = [a \in Address |-> d]
  /\ allocated = {} /\ chain = <<>> /\ answer = <<>>

compare(a, key) == KeyOf[data[a]] = key

(* Nothing but the answer of a call changes. *)
Answer(v) ==
  /\ answer' = v
  /\ UNCHANGED <<exists, front, rear, size, data, next, allocated, chain>>

(* front, rear and size of a queue that was just made or emptied. *)
Empty == front' = NULL /\ rear' = NULL /\ size' = 0 /\ chain' = <<>> /\ UNCHANGED <<data, next>>

createQueue == ~exists /\ exists' = TRUE /\ Empty /\ answer' = <<>> /\ UNCHANGED allocated

(* All nodes on the way from front are freed. *)
freeNodes == allocated' = allocated \ {chain[i] : i \in 1 .. Len(chain)}

freeQueue == exists /\ exists' = FALSE /\ freeNodes /\ Empty /\ answer' = <<>>

clearQueue == exists /\ freeNodes /\ Empty /\ answer' = <<>> /\ UNCHANGED exists

(* Without a queue or without memory, nothing is stored. *)
enqueueFails == Answer(<<-1>>)

enqueue ==
  /\ exists
  /\ \E a \in Address \ allocated, d \in Item :
       /\ allocated' = allocated \cup {a}
       /\ data' = [data EXCEPT ![a] = d]
       /\ IF rear = NULL
          THEN next' = [next EXCEPT ![a] = NULL] /\ front' = a
          ELSE next' = [next EXCEPT ![a] = NULL, ![rear] = a] /\ UNCHANGED front
       /\ rear' = a
       /\ chain' = Append(chain, a)
  /\ size' = size + 1
  /\ answer' = <<0>>
  /\ UNCHANGED exists

Gone == ~exists \/ front = NULL

emptyAnswers == Gone /\ Answer(<<>>)     \* dequeue() and peekQueue()

peekQueue == ~Gone /\ Answer(<<data[front]>>)

\* Faulty: rear goes on pointing at the node that is freed.
rearAfterDequeue_Kept == rear

rearAfterDequeue == IF next[front] = NULL THEN NULL ELSE rear

dequeue ==
  /\ ~Gone
  /\ answer' = <<data[front]>>
  /\ front' = next[front] /\ rear' = rearAfterDequeue
  /\ allocated' = allocated \ {front}
  /\ size' = size - 1
  /\ chain' = Tail(chain)
  /\ UNCHANGED <<exists, data, next>>

\* Faulty: the loop goes on to any node with that key.
Stops_Later(key, i) == exists /\ compare(chain[i], key)

(* The loop from front along next stops at the i-th node, the first one with*)
(* that key (Chained: the i-th node on that way is the i-th of chain).      *)
Stops(key, i) ==
  /\ exists
  /\ compare(chain[i], key) /\ \A j \in 1 .. i - 1 : ~compare(chain[j], key)

notFound ==
  /\ \E key \in Key : \A i \in 1 .. Len(chain) : ~compare(chain[i], key)
  /\ Answer(<<>>)

containsQueue ==
  \E key \in Key, i \in 1 .. Len(chain) : Stops(key, i) /\ Answer(<<data[chain[i]]>>)

rearAfterRemove(current, previous) == IF current = rear THEN previous ELSE rear

removeFromQueue ==
  \E key \in Key, i \in 1 .. Len(chain) :
    LET current == chain[i]
        previous == IF i = 1 THEN NULL ELSE chain[i - 1]
    IN /\ Stops(key, i)
       /\ IF i = 1
          THEN front' = next[current] /\ UNCHANGED next
          ELSE next' = [next EXCEPT ![previous] = next[current]] /\ UNCHANGED front
       /\ rear' = rearAfterRemove(current, previous)
       /\ answer' = <<data[current]>>
       /\ allocated' = allocated \ {current}
       /\ size' = size - 1
       /\ chain' = [j \in 1 .. Len(chain) - 1 |-> chain[IF j < i THEN j ELSE j + 1]]
       /\ UNCHANGED <<exists, data>>

queueNext ==
  \/ createQueue \/ freeQueue \/ clearQueue \/ enqueue \/ enqueueFails \/ dequeue
  \/ peekQueue \/ emptyAnswers \/ containsQueue \/ notFound \/ removeFromQueue

queueSpec == queueInit /\ [][queueNext]_queueVars

-----------------------------------------------------------------------------
(* The links are the chain, from front to rear and no further; the nodes    *)
(* that are not free are the ones in it, and size counts them: nothing is   *)
(* lost, nothing freed is reached.                                          *)
Chained ==
  /\ size = Len(chain)
  /\ \A i, j \in 1 .. Len(chain) : chain[i] = chain[j] => i = j
  /\ allocated = {chain[i] : i \in 1 .. Len(chain)}
  /\ front = (IF chain = <<>> THEN NULL ELSE chain[1])
  /\ rear = (IF chain = <<>> THEN NULL ELSE chain[Len(chain)])
  /\ \A i \in 1 .. Len(chain) :
       next[chain[i]] = (IF i = Len(chain) THEN NULL ELSE chain[i + 1])

(* The queue is first in, first out, and every call answers with the item   *)
(* that queue.h promises.                                                   *)
Queue == INSTANCE Fifo WITH content <- [i \in 1 .. Len(chain) |-> data[chain[i]]]

KeepsOrder == Queue!FifoSpec
=============================================================================
