----------------------------- MODULE ServiceProofs -----------------------------
(***************************************************************************)
(* For a heap, a screen, an image and a disk of any size: the linked queue  *)
(* never loses a node, never reaches a freed one, and implements the queue  *)
(* of queue.h; the terminal shows the line it has read; the loader leaves   *)
(* every module where it was asked to; and the disk image has the size it   *)
(* was asked for and gives back what was written.                           *)
(***************************************************************************)
EXTENDS LinkedQueue, Terminal, ModuleLoading, Bmfs,
        SequenceTheorems, FiniteSetTheorems, WellFoundedInduction, TLAPS

-----------------------------------------------------------------------------
(* The list queue. *)
(* Chained is inductive with the types, and a queue that does not exist is  *)
(* empty.                                                                   *)
QueueTypes ==
  /\ exists \in BOOLEAN /\ (~exists => chain = <<>>)
  /\ chain \in Seq(Address)
  /\ data \in [Address -> Item] /\ next \in [Address -> Address \cup {NULL}]

QueueInv == QueueTypes /\ Chained

Content == [i \in 1 .. Len(chain) |-> data[chain[i]]]

LEMMA AboveOne ==
  ASSUME NEW m \in Nat, m >= 1, m # 1
  PROVE  1 \in 1 .. m - 1 /\ 1 + 1 \in 1 .. m
OBVIOUS

LEMMA InitChained == queueInit => QueueInv /\ Queue!FifoInit
<1> SUFFICES ASSUME queueInit PROVE QueueInv /\ Queue!FifoInit
  OBVIOUS
<1>1. chain = <<>> /\ Len(chain) = 0 /\ 1 .. Len(chain) = {}
  BY DEF queueInit
<1>2. QueueTypes
  <2>1. PICK d \in Item : data = [a \in Address |-> d]
    BY DEF queueInit
  <2>2. data \in [Address -> Item] /\ next \in [Address -> Address \cup {NULL}]
    BY <2>1 DEF queueInit
  <2>3. chain \in Seq(Address)
    BY DEF queueInit
  <2> QED BY <2>2, <2>3, <1>1 DEF queueInit, QueueTypes
<1>3. Chained
  BY <1>1 DEF queueInit, Chained
<1>4. Content = <<>>
  BY <1>1 DEF Content
<1> QED BY <1>2, <1>3, <1>4 DEF queueInit, QueueInv, Queue!FifoInit, Content

LEMMA EmptyChained ==
  ASSUME QueueInv, Empty, freeNodes \/ (chain = <<>> /\ UNCHANGED allocated),
         exists' \in BOOLEAN, answer' = <<>>
  PROVE  QueueInv' /\ Queue!Clear
<1>1. allocated' = {}
  BY DEF QueueInv, Chained, freeNodes
<1>2. chain' = <<>> /\ Len(chain') = 0
  BY DEF Empty
<1> QED BY <1>1, <1>2 DEF QueueInv, QueueTypes, Chained, Empty, Queue!Clear

(* A call that only answers. *)
LEMMA AnswerChained ==
  ASSUME QueueInv, NEW v, Answer(v)
  PROVE  QueueInv' /\ Content' = Content
BY DEF QueueInv, QueueTypes, Chained, Answer, Content

LEMMA EnqueueChained ==
  ASSUME QueueInv, enqueue
  PROVE  QueueInv' /\ Queue!Put
<1>1. PICK a \in Address \ allocated, d \in Item :
        /\ allocated' = allocated \cup {a}
        /\ data' = [data EXCEPT ![a] = d]
        /\ IF rear = NULL
           THEN next' = [next EXCEPT ![a] = NULL] /\ front' = a
           ELSE next' = [next EXCEPT ![a] = NULL, ![rear] = a] /\ UNCHANGED front
        /\ rear' = a
        /\ chain' = Append(chain, a)
  BY DEF enqueue
<1> DEFINE n == Len(chain)
<1>2. /\ n \in Nat /\ \A i \in 1 .. n : chain[i] \in Address /\ chain[i] # a
      /\ exists /\ exists' = exists /\ size' = size + 1
  BY <1>1 DEF enqueue, QueueInv, QueueTypes, Chained
<1>3. /\ Len(chain') = n + 1 /\ chain' \in Seq(Address) /\ chain' # <<>>
      /\ chain'[n + 1] = a /\ \A i \in 1 .. n : chain'[i] = chain[i]
  BY <1>1, <1>2 DEF QueueInv, QueueTypes
<1>4. QueueTypes'
  BY <1>1, <1>2, <1>3, LinkedQueueAssumption DEF QueueInv, QueueTypes
<1>5. \A i, j \in 1 .. Len(chain') : chain'[i] = chain'[j] => i = j
  BY <1>2, <1>3 DEF QueueInv, Chained
<1>6. allocated' = {chain'[i] : i \in 1 .. Len(chain')}
  BY <1>1, <1>2, <1>3 DEF QueueInv, Chained
<1>7. front' = chain'[1]
  <2>1. CASE n = 0
    BY <2>1, <1>1, <1>3 DEF QueueInv, QueueTypes, Chained
  <2>2. CASE n > 0
    <3>1. rear = chain[n] /\ rear # NULL /\ front = chain[1]
      BY <2>2, <1>2, LinkedQueueAssumption DEF QueueInv, QueueTypes, Chained
    <3> QED BY <3>1, <2>2, <1>1, <1>2, <1>3
  <2> QED BY <2>1, <2>2, <1>2
<1>8. ASSUME NEW i \in 1 .. Len(chain')
      PROVE  next'[chain'[i]] = IF i = Len(chain') THEN NULL ELSE chain'[i + 1]
  <2>1. CASE n = 0
    BY <2>1, <1>1, <1>3 DEF QueueInv, QueueTypes, Chained
  <2>2. CASE n > 0
    <3>1. rear = chain[n] /\ rear # NULL /\ rear \in Address /\ rear # a
      BY <2>2, <1>2, LinkedQueueAssumption DEF QueueInv, QueueTypes, Chained
    <3>2. next' = [next EXCEPT ![a] = NULL, ![rear] = a]
      BY <3>1, <1>1
    <3>3. CASE i = n + 1
      BY <3>1, <3>2, <3>3, <1>1, <1>3 DEF QueueInv, QueueTypes
    <3>4. CASE i = n
      BY <3>1, <3>2, <3>4, <2>2, <1>1, <1>2, <1>3 DEF QueueInv, QueueTypes
    <3>5. CASE i < n
      <4>1. chain[i] # rear /\ i \in 1 .. n /\ i + 1 \in 1 .. n
        BY <3>1, <3>5, <1>2 DEF QueueInv, Chained
      <4>2. next[chain[i]] = chain[i + 1]
        BY <4>1, <3>5, <1>2 DEF QueueInv, Chained
      <4> QED BY <4>1, <4>2, <3>2, <3>5, <1>2, <1>3 DEF QueueInv, QueueTypes
    <3> QED BY <3>3, <3>4, <3>5, <1>2, <1>3
  <2> QED BY <2>1, <2>2, <1>2
<1>9. Chained'
  BY <1>1, <1>2, <1>3, <1>5, <1>6, <1>7, <1>8 DEF QueueInv, Chained
<1>10. Content' = Append(Content, d)
  <2>1. \A i \in 1 .. n : data'[chain'[i]] = data[chain[i]]
    BY <1>1, <1>2, <1>3 DEF QueueInv, QueueTypes
  <2>2. data'[chain'[n + 1]] = d
    BY <1>1, <1>3 DEF QueueInv, QueueTypes
  <2> QED BY <2>1, <2>2, <1>2, <1>3 DEF Content
<1>11. answer' = <<0>>
  BY DEF enqueue
<1> QED BY <1>4, <1>9, <1>10, <1>11 DEF QueueInv, Queue!Put, Content

LEMMA DequeueChained ==
  ASSUME QueueInv, dequeue
  PROVE  QueueInv' /\ Queue!Take
<1> DEFINE n == Len(chain)
<1>1. /\ n \in Nat /\ n > 0 /\ chain # <<>> /\ front = chain[1] /\ front \in Address
      /\ chain' = Tail(chain) /\ size' = size - 1 /\ exists' = exists /\ exists
      /\ data' = data /\ next' = next /\ front' = next[front] /\ allocated' = allocated \ {front}
  BY LinkedQueueAssumption DEF QueueInv, QueueTypes, Chained, dequeue, Gone
<1>2. /\ chain' \in Seq(Address) /\ Len(chain') = n - 1
      /\ \A i \in 1 .. n - 1 : chain'[i] = chain[i + 1]
  BY <1>1 DEF QueueInv, QueueTypes
<1>0. n \in Nat /\ n >= 1
  BY <1>1
<1>3a. chain' = <<>> <=> n = 1
  <2>1. Len(chain') = n - 1 /\ chain' \in Seq(Address)
    BY <1>2
  <2> QED BY <1>0, <2>1
<1>3. QueueTypes'
  BY <1>1, <1>2 DEF QueueInv, QueueTypes
<1>4. \A i, j \in 1 .. Len(chain') : chain'[i] = chain'[j] => i = j
  <2> SUFFICES ASSUME NEW i \in 1 .. n - 1, NEW j \in 1 .. n - 1, chain[i + 1] = chain[j + 1]
               PROVE  i = j
    BY <1>2
  <2>1. i + 1 \in 1 .. n /\ j + 1 \in 1 .. n
    BY <1>1
  <2> QED BY <2>1 DEF QueueInv, Chained
<1>5. allocated' = {chain'[i] : i \in 1 .. Len(chain')}
  <2>1. ASSUME NEW i \in 1 .. n - 1 PROVE chain[i + 1] \in allocated \ {front}
    BY <1>1, <2>1 DEF QueueInv, Chained
  <2>2. ASSUME NEW a \in allocated \ {front} PROVE \E i \in 1 .. n - 1 : a = chain[i + 1]
    <3>1. PICK k \in 1 .. n : a = chain[k]
      BY DEF QueueInv, Chained
    <3>2. k # 1 /\ k - 1 \in 1 .. n - 1 /\ (k - 1) + 1 = k
      BY <3>1, <2>2, <1>1
    <3> QED BY <3>1, <3>2
  <2> QED BY <2>1, <2>2, <1>1, <1>2
<1>6. front' = IF chain' = <<>> THEN NULL ELSE chain'[1]
  <2>1. next[chain[1]] = IF 1 = n THEN NULL ELSE chain[1 + 1]
    BY <1>1 DEF QueueInv, Chained
  <2> QED BY <2>1, <1>1, <1>2, <1>3a
<1>7. rear' = IF chain' = <<>> THEN NULL ELSE chain'[Len(chain')]
  <2>1. CASE n = 1
    BY <2>1, <1>1, <1>2, <1>3a DEF QueueInv, Chained, dequeue, rearAfterDequeue
  <2>2. CASE n # 1
    <3>1. next[chain[1]] = IF 1 = n THEN NULL ELSE chain[1 + 1]
      BY <1>1 DEF QueueInv, Chained
    <3>3. next[front] # NULL
      <4>1. 1 + 1 \in 1 .. n
        BY <2>2, <1>0, AboveOne
      <4>2. chain[1 + 1] \in Address
        BY <4>1 DEF QueueInv, QueueTypes
      <4> QED BY <3>1, <4>2, <2>2, <1>1, LinkedQueueAssumption
    <3>2. rear' = chain[n]
      BY <3>3, <1>1 DEF QueueInv, Chained, dequeue, rearAfterDequeue
    <3> QED BY <3>2, <2>2, <1>1, <1>2, <1>3a
  <2> QED BY <2>1, <2>2
<1>8. ASSUME NEW i \in 1 .. Len(chain')
      PROVE  next'[chain'[i]] = IF i = Len(chain') THEN NULL ELSE chain'[i + 1]
  <2>1. i + 1 \in 1 .. n /\ chain'[i] = chain[i + 1]
    BY <1>1, <1>2
  <2>2. next[chain[i + 1]] = IF i + 1 = n THEN NULL ELSE chain[(i + 1) + 1]
    BY <2>1 DEF QueueInv, Chained
  <2>3. CASE i + 1 = n
    BY <2>1, <2>2, <2>3, <1>1, <1>2
  <2>4. CASE i + 1 # n
    <3>1. i + 1 \in 1 .. n - 1 /\ i # Len(chain')
      <4>1. Len(chain') = n - 1 /\ i \in 1 .. Len(chain')
        BY <1>2
      <4> QED BY <4>1, <2>4, <1>0
    <3> QED BY <3>1, <2>1, <2>2, <2>4, <1>1, <1>2
  <2> QED BY <2>3, <2>4
<1>9. Chained'
  BY <1>1, <1>2, <1>4, <1>5, <1>6, <1>7, <1>8 DEF QueueInv, Chained
<1>10. Content # <<>> /\ Head(Content) = data[front] /\ Content' = Tail(Content)
  BY <1>1, <1>2 DEF Content
<1>11. answer' = <<data[front]>>
  BY DEF dequeue
<1> QED BY <1>3, <1>9, <1>10, <1>11 DEF QueueInv, Queue!Take, Content

(* The chain without its i-th node is linked around it.                     *)
LEMMA RemoveChained ==
  ASSUME QueueInv, removeFromQueue
  PROVE  QueueInv' /\ Queue!Remove
<1> DEFINE n == Len(chain)
<1>1. PICK key \in Key, i \in 1 .. n :
        LET current == chain[i]
            previous == IF i = 1 THEN NULL ELSE chain[i - 1]
        IN /\ Stops(key, i)
           /\ IF i = 1
              THEN front' = next[current] /\ UNCHANGED next
              ELSE next' = [next EXCEPT ![previous] = next[current]] /\ UNCHANGED front
           /\ rear' = rearAfterRemove(current, previous)
           /\ answer' = <<data[current]>>
           /\ allocated' = allocated \ {current}
           /\ size' = size - 1
           /\ chain' = [j \in 1 .. n - 1 |-> chain[IF j < i THEN j ELSE j + 1]]
           /\ UNCHANGED <<exists, data>>
  BY DEF removeFromQueue
<1>2. n \in Nat /\ n >= 1 /\ i \in Int /\ 1 <= i /\ i <= n
  BY DEF QueueInv, QueueTypes
<1> DEFINE at(j) == IF j < i THEN j ELSE j + 1
<1>3. \A j \in 1 .. n - 1 : at(j) \in 1 .. n /\ at(j) # i
  BY <1>2
<1>4. /\ chain' \in Seq(Address) /\ Len(chain') = n - 1
      /\ \A j \in 1 .. n - 1 : chain'[j] = chain[at(j)]
  BY <1>1, <1>2, <1>3 DEF QueueInv, QueueTypes
<1>5. \A k \in 1 .. n : chain[k] \in Address /\ chain[k] # NULL
  BY LinkedQueueAssumption DEF QueueInv, QueueTypes
<1>6. \A k, l \in 1 .. n : chain[k] = chain[l] => k = l
  BY DEF QueueInv, Chained
<1>7. \A k \in 1 .. n : next[chain[k]] = IF k = n THEN NULL ELSE chain[k + 1]
  BY DEF QueueInv, Chained
<1>8. QueueTypes'
  <2>1. next' \in [Address -> Address \cup {NULL}]
    BY <1>1, <1>2 DEF QueueInv, QueueTypes
  <2>2. exists /\ exists' = exists /\ data' = data
    BY <1>1 DEF Stops
  <2> QED BY <2>1, <2>2, <1>4 DEF QueueInv, QueueTypes
<1>9. \A j, k \in 1 .. Len(chain') : chain'[j] = chain'[k] => j = k
  <2> SUFFICES ASSUME NEW j \in 1 .. n - 1, NEW k \in 1 .. n - 1, chain[at(j)] = chain[at(k)]
               PROVE  j = k
    BY <1>4
  <2>1. at(j) = at(k)
    BY <1>3, <1>6
  <2> QED BY <2>1, <1>2
<1>10. allocated' = {chain'[j] : j \in 1 .. Len(chain')}
  <2>1. allocated' = allocated \ {chain[i]}
    BY <1>1
  <2>2. ASSUME NEW j \in 1 .. n - 1 PROVE chain[at(j)] \in allocated'
    BY <2>1, <1>3, <1>6, <2>2 DEF QueueInv, Chained
  <2>3. ASSUME NEW a \in allocated' PROVE \E j \in 1 .. n - 1 : a = chain[at(j)]
    <3>1. PICK k \in 1 .. n : a = chain[k] /\ k # i
      BY <2>1, <2>3 DEF QueueInv, Chained
    <3>2. CASE k < i
      <4>1. k \in 1 .. n - 1 /\ at(k) = k
        BY <3>2, <1>2
      <4> QED BY <4>1, <3>1
    <3>3. CASE k > i
      <4>1. k - 1 \in 1 .. n - 1 /\ at(k - 1) = k
        BY <3>3, <1>2
      <4> QED BY <4>1, <3>1
    <3> QED BY <3>1, <3>2, <3>3, <1>2
  <2>4. allocated' = {chain[at(j)] : j \in 1 .. n - 1}
    BY <2>2, <2>3, Zenon
  <2>5. {chain'[j] : j \in 1 .. Len(chain')} = {chain[at(j)] : j \in 1 .. n - 1}
    <3>1. Len(chain') = n - 1 /\ \A j \in 1 .. n - 1 : chain'[j] = chain[at(j)]
      BY <1>4
    <3> HIDE DEF at
    <3> QED BY <3>1, Zenon
  <2> QED BY <2>4, <2>5, Zenon
<1>11. chain' = <<>> <=> n = 1
  <2>1. Len(chain') = n - 1 /\ chain' \in Seq(Address)
    BY <1>4
  <2> QED BY <1>2, <2>1
<1>12. front' = IF chain' = <<>> THEN NULL ELSE chain'[1]
  <2>1. front = chain[1]
    BY <1>2 DEF QueueInv, QueueTypes, Chained
  <2>2. CASE i = 1
    <3>1. front' = IF 1 = n THEN NULL ELSE chain[1 + 1]
      BY <2>2, <1>1, <1>2, <1>7
    <3>2. CASE n = 1
      BY <3>1, <3>2, <1>11
    <3>3. CASE n # 1
      <4>1. 1 \in 1 .. n - 1
        BY <3>3, <1>2, AboveOne
      <4>2. at(1) = 1 + 1
        BY <2>2
      <4> QED BY <4>1, <4>2, <3>1, <3>3, <1>4, <1>11
    <3> QED BY <3>2, <3>3
  <2>3. CASE i # 1
    <3>1. n # 1 /\ 1 \in 1 .. n - 1 /\ at(1) = 1
      BY <2>3, <1>2
    <3> QED BY <3>1, <2>1, <2>3, <1>1, <1>4, <1>11
  <2> QED BY <2>2, <2>3
<1>13. rear' = IF chain' = <<>> THEN NULL ELSE chain'[Len(chain')]
  <2>1. rear = chain[n] /\ (chain[i] = rear <=> i = n)
    BY <1>2, <1>6 DEF QueueInv, QueueTypes, Chained
  <2>2. CASE n = 1
    <3>1. i = 1 /\ chain[i] = rear /\ chain' = <<>>
      BY <2>1, <2>2, <1>2, <1>11
    <3> QED BY <3>1, <1>1 DEF rearAfterRemove
  <2>3. CASE n # 1
    <3>1. n - 1 \in 1 .. n - 1 /\ Len(chain') = n - 1 /\ chain' # <<>>
      BY <2>3, <1>2, <1>4, <1>11
    <3>2. rear' = IF i = n THEN chain[n - 1] ELSE chain[n]
      BY <2>1, <2>3, <1>1, <1>2 DEF rearAfterRemove
    <3>3. CASE i = n
      <4>1. at(n - 1) = n - 1
        BY <3>3, <1>2
      <4> QED BY <4>1, <3>1, <3>2, <3>3, <1>4
    <3>4. CASE i # n
      <4>1. at(n - 1) = n
        BY <3>4, <1>2
      <4> QED BY <4>1, <3>1, <3>2, <3>4, <1>4
    <3> QED BY <3>3, <3>4
  <2> QED BY <2>2, <2>3
<1>14. ASSUME NEW j \in 1 .. n - 1
       PROVE  next'[chain[at(j)]] = IF j = n - 1 THEN NULL ELSE chain'[j + 1]
  <2>1. j \in Int /\ 1 <= j /\ j <= n - 1 /\ at(j) \in 1 .. n
    BY <1>2, <1>3
  <2>2. CASE i # 1 /\ j = i - 1
    <3>1. at(j) = i - 1 /\ chain[i - 1] \in Address
      BY <2>1, <2>2, <1>2, <1>5
    <3>2. next'[chain[i - 1]] = next[chain[i]]
      BY <3>1, <2>2, <1>1 DEF QueueInv, QueueTypes
    <3>3. next[chain[i]] = IF i = n THEN NULL ELSE chain[i + 1]
      BY <1>7
    <3>4. CASE i = n
      <4>1. j = n - 1
        BY <3>4, <2>2
      <4> QED BY <4>1, <3>1, <3>2, <3>3, <3>4
    <3>5. CASE i # n
      <4>1. j # n - 1 /\ j + 1 \in 1 .. n - 1 /\ at(j + 1) = i + 1
        BY <3>5, <2>1, <2>2, <1>2
      <4> QED BY <4>1, <3>1, <3>2, <3>3, <3>5, <1>4
    <3> QED BY <3>4, <3>5
  <2>3. CASE ~(i # 1 /\ j = i - 1)
    <3>1. at(j) # i - 1
      BY <2>1, <2>3, <1>2
    <3>2. next'[chain[at(j)]] = next[chain[at(j)]]
      <4>1. CASE i = 1
        BY <4>1, <1>1
      <4>2. CASE i # 1
        <5>1. i - 1 \in 1 .. n /\ chain[i - 1] # chain[at(j)]
          BY <4>2, <3>1, <2>1, <1>2, <1>6
        <5>2. next' = [next EXCEPT ![chain[i - 1]] = next[chain[i]]]
          BY <4>2, <1>1
        <5> QED BY <5>1, <5>2, <2>1, <1>5 DEF QueueInv, QueueTypes
      <4> QED BY <4>1, <4>2
    <3>3. next[chain[at(j)]] = IF at(j) = n THEN NULL ELSE chain[at(j) + 1]
      BY <2>1, <1>7
    <3>4. CASE j = n - 1
      <4>1. at(j) = n
        BY <3>4, <2>1, <2>3, <1>2
      <4> QED BY <4>1, <3>2, <3>3, <3>4
    <3>5. CASE j # n - 1
      <4>1. j + 1 \in 1 .. n - 1 /\ at(j + 1) = at(j) + 1 /\ at(j) # n
        BY <3>5, <2>1, <2>3, <1>2
      <4> QED BY <4>1, <3>2, <3>3, <3>5, <1>4
    <3> QED BY <3>4, <3>5
  <2> QED BY <2>2, <2>3
<1>15. Chained'
  <2>1. size' = Len(chain')
    BY <1>1, <1>4 DEF QueueInv, Chained
  <2>2. \A j \in 1 .. Len(chain') :
          next'[chain'[j]] = IF j = Len(chain') THEN NULL ELSE chain'[j + 1]
    BY <1>4, <1>14
  <2> QED BY <2>1, <2>2, <1>9, <1>10, <1>12, <1>13 DEF Chained
<1>16. Queue!First(Content, key, i)
  BY <1>1, <1>2 DEF Queue!First, Stops, compare, Content
<1>17. Content' = Queue!Without(Content, i)
  <2>1. Len(Content) = n /\ data' = data
    BY <1>1, <1>2 DEF Content
  <2>2. Content' = [j \in 1 .. n - 1 |-> data[chain[at(j)]]]
    BY <2>1, <1>4 DEF Content
  <2>3. \A j \in 1 .. n - 1 : Content[at(j)] = data[chain[at(j)]]
    BY <1>3 DEF Content
  <2> QED BY <2>1, <2>2, <2>3 DEF Queue!Without
<1>18. i \in 1 .. Len(Content) /\ answer' = <<Content[i]>>
  BY <1>1, <1>2 DEF Content
<1> QED BY <1>8, <1>15, <1>16, <1>17, <1>18 DEF QueueInv, Queue!Remove, Content

LEMMA StepChained ==
  ASSUME QueueInv, [queueNext]_queueVars
  PROVE  QueueInv' /\ [Queue!FifoNext]_<<Content, answer>>
<1>1. CASE createQueue
  <2>1. QueueInv' /\ Queue!Clear
    BY <1>1, EmptyChained DEF createQueue, QueueInv, QueueTypes
  <2> QED BY <2>1 DEF Queue!FifoNext
<1>2. CASE freeQueue \/ clearQueue
  <2>1. QueueInv' /\ Queue!Clear
    BY <1>2, EmptyChained DEF freeQueue, clearQueue, QueueInv, QueueTypes
  <2> QED BY <2>1 DEF Queue!FifoNext
<1>3. CASE enqueue
  BY <1>3, EnqueueChained DEF Queue!FifoNext
<1>4. CASE enqueueFails
  <2>1. QueueInv' /\ Content' = Content /\ answer' = <<-1>>
    BY <1>4, AnswerChained DEF enqueueFails, Answer
  <2> QED BY <2>1 DEF Queue!FifoNext, Queue!Put, Content
<1>5. CASE dequeue
  BY <1>5, DequeueChained DEF Queue!FifoNext
<1>6. CASE removeFromQueue
  BY <1>6, RemoveChained DEF Queue!FifoNext
<1>7. CASE peekQueue
  <2>1. QueueInv' /\ Content' = Content /\ answer' = <<data[front]>>
    BY <1>7, AnswerChained DEF peekQueue, Answer
  <2>2. chain # <<>> /\ front = chain[1] /\ Len(chain) \in Nat /\ Len(chain) >= 1
    BY <1>7, LinkedQueueAssumption DEF peekQueue, Gone, QueueInv, QueueTypes, Chained
  <2>3. Content # <<>> /\ Head(Content) = data[front]
    BY <2>2 DEF Content
  <2> QED BY <2>1, <2>3 DEF Queue!FifoNext, Queue!Peek, Content
<1>8. CASE emptyAnswers
  <2>1. QueueInv' /\ Content' = Content /\ answer' = <<>>
    BY <1>8, AnswerChained DEF emptyAnswers, Answer
  <2>2. chain = <<>>
    BY <1>8, LinkedQueueAssumption DEF emptyAnswers, Gone, QueueInv, QueueTypes, Chained
  <2>3. Content = <<>>
    BY <2>2 DEF Content
  <2> QED BY <2>1, <2>3 DEF Queue!FifoNext, Queue!FromEmpty, Content
<1>9. CASE containsQueue
  <2>1. PICK key \in Key, i \in 1 .. Len(chain) : Stops(key, i) /\ Answer(<<data[chain[i]]>>)
    BY <1>9 DEF containsQueue
  <2>2. QueueInv' /\ Content' = Content /\ answer' = <<data[chain[i]]>>
    BY <2>1, AnswerChained DEF Answer
  <2>3. Queue!First(Content, key, i) /\ i \in 1 .. Len(Content) /\ Content[i] = data[chain[i]]
    BY <2>1 DEF Queue!First, Stops, compare, Content, QueueInv, QueueTypes
  <2> QED BY <2>2, <2>3 DEF Queue!FifoNext, Queue!Find, Content
<1>10. CASE notFound
  <2>1. PICK key \in Key : \A i \in 1 .. Len(chain) : ~compare(chain[i], key)
    BY <1>10 DEF notFound
  <2>2. QueueInv' /\ Content' = Content /\ answer' = <<>>
    BY <1>10, AnswerChained DEF notFound, Answer
  <2>3. \A i \in 1 .. Len(Content) : KeyOf[Content[i]] # key
    BY <2>1 DEF compare, Content, QueueInv, QueueTypes
  <2> QED BY <2>2, <2>3 DEF Queue!FifoNext, Queue!Missing, Content
<1>11. CASE UNCHANGED queueVars
  BY <1>11 DEF queueVars, QueueInv, QueueTypes, Chained, Content
<1> QED BY <1>1, <1>2, <1>3, <1>4, <1>5, <1>6, <1>7, <1>8, <1>9, <1>10, <1>11 DEF queueNext

(* No node is lost and no freed node is reached, whatever calls come        *)
(* (queue.c:41-155).                                                        *)
THEOREM QueueIsChained == queueSpec => []Chained
<1>1. queueInit => QueueInv
  BY InitChained
<1>2. QueueInv /\ [queueNext]_queueVars => QueueInv'
  BY StepChained
<1>3. QueueInv => Chained
  BY DEF QueueInv
<1> QED BY <1>1, <1>2, <1>3, PTL DEF queueSpec

(* The linked list behaves as the first-in, first-out queue of queue.h.     *)
THEOREM QueueImplementsFifo == queueSpec => KeepsOrder
<1>1. queueInit => QueueInv /\ Queue!FifoInit
  BY InitChained
<1>2. QueueInv /\ [queueNext]_queueVars =>
        QueueInv' /\ [Queue!FifoNext]_<<[i \in 1 .. Len(chain) |-> data[chain[i]]], answer>>
  BY StepChained DEF Content
<1> QED BY <1>1, <1>2, PTL DEF queueSpec, KeepsOrder, Queue!FifoSpec

-----------------------------------------------------------------------------
(* The terminal. *)
-----------------------------------------------------------------------------
(* The terminal: rows wrap, so the places of a line are pairs that follow   *)
(* each other like the positions of the cursor.                             *)
PlaceFrom(from, k) == LET n == from[2] + k - 1 IN <<from[1] + (n \div Cols), n % Cols>>
From == Int \X (0 .. Cols)

LEMMA ScreenSize ==
  /\ Cols \in Nat /\ Cols > 0 /\ Rows \in Nat /\ Rows > 1 /\ Rows - 2 \in Nat
  /\ \A p \in Position : p[1] \in 0 .. Rows - 1 /\ p[2] \in 0 .. Cols - 1 /\ p = <<p[1], p[2]>>
  /\ \A r \in 0 .. Rows - 1, c \in 0 .. Cols - 1 : <<r, c>> \in Position
BY TerminalAssumption DEF Position

LEMMA PlaceFacts ==
  ASSUME NEW f \in From, NEW k \in Nat, k > 0
  PROVE  /\ PlaceFrom(f, k)[1] \in Int /\ PlaceFrom(f, k)[2] \in 0 .. Cols - 1
         /\ PlaceFrom(f, k) = <<PlaceFrom(f, k)[1], PlaceFrom(f, k)[2]>>
         /\ PlaceFrom(f, k + 1) =
              IF PlaceFrom(f, k)[2] + 1 < Cols
              THEN <<PlaceFrom(f, k)[1], PlaceFrom(f, k)[2] + 1>>
              ELSE <<PlaceFrom(f, k)[1] + 1, 0>>
         /\ PlaceFrom(<<f[1] - 1, f[2]>>, k) = <<PlaceFrom(f, k)[1] - 1, PlaceFrom(f, k)[2]>>
<1> DEFINE n == f[2] + k - 1
           q == n \div Cols
           r == n % Cols
<1>0. Cols \in Nat /\ Cols > 0
  BY ScreenSize
<1>1. f[1] \in Int /\ f[2] \in Nat /\ n \in Nat /\ f[2] + (k + 1) - 1 = n + 1
  BY <1>0 DEF From
<1>n. n = f[2] + k - 1
  OBVIOUS
<1> HIDE DEF n
<1>2. q \in Nat /\ r \in 0 .. Cols - 1 /\ n = Cols * q + r
  BY <1>0, <1>1
<1>3. PlaceFrom(f, k) = <<f[1] + q, r>>
  BY <1>n DEF PlaceFrom
<1>4. PlaceFrom(f, k + 1) = <<f[1] + ((n + 1) \div Cols), (n + 1) % Cols>>
  BY <1>1 DEF PlaceFrom
<1> HIDE DEF q, r
<1>5. CASE r + 1 < Cols
  <2>1. n + 1 = Cols * q + (r + 1)
    BY <1>0, <1>1, <1>2
  <2>2. (n + 1) \div Cols = q /\ (n + 1) % Cols = r + 1
    BY <1>0, <1>2, <1>5, <2>1
  <2> QED
    BY <1>1, <1>2, <1>3, <1>4, <1>5, <1>n, <2>2 DEF PlaceFrom, q, r
<1>6. CASE ~(r + 1 < Cols)
  <2>1. n + 1 = Cols * (q + 1)
    BY <1>0, <1>1, <1>2, <1>6
  <2>2. (n + 1) \div Cols = q + 1 /\ (n + 1) % Cols = 0
    BY <1>0, <1>2, <2>1
  <2> QED
    BY <1>1, <1>2, <1>3, <1>4, <1>6, <1>n, <2>2 DEF PlaceFrom, q, r
<1> QED
  BY <1>5, <1>6

LEMMA FirstPlace ==
  ASSUME NEW r \in Int, NEW c \in 0 .. Cols
  PROVE  PlaceFrom(<<r, c>>, 1) = IF c < Cols THEN <<r, c>> ELSE <<r + 1, 0>>
<1>0. Cols \in Nat /\ Cols > 0
  BY ScreenSize
<1>1. PlaceFrom(<<r, c>>, 1) = <<r + (c \div Cols), c % Cols>>
  <2>1. c + 1 - 1 = c
    BY <1>0
  <2> QED
    BY <2>1 DEF PlaceFrom
<1>2. CASE c < Cols
  <2>1. c \div Cols = 0 /\ c % Cols = c
    BY <1>0, <1>2
  <2> QED
    BY <1>1, <1>2, <2>1
<1>3. CASE c = Cols
  <2>1. c \div Cols = 1 /\ c % Cols = 0
    BY <1>0, <1>3
  <2> QED
    BY <1>1, <1>3, <2>1
<1> QED
  BY <1>0, <1>2, <1>3

(* Places come in the order of the screen. *)
LEMMA PlaceOrder ==
  ASSUME NEW f \in From, NEW j \in Nat, NEW k \in Nat, 0 < j, j < k
  PROVE  \/ PlaceFrom(f, j)[1] < PlaceFrom(f, k)[1]
         \/ PlaceFrom(f, j)[1] = PlaceFrom(f, k)[1] /\ PlaceFrom(f, j)[2] < PlaceFrom(f, k)[2]
<1> DEFINE n == f[2] + j - 1
           m == f[2] + k - 1
           q == n \div Cols
           r == n % Cols
           q2 == m \div Cols
           r2 == m % Cols
<1>0. Cols \in Nat /\ Cols > 0
  BY ScreenSize
<1>1. f[1] \in Int /\ n \in Nat /\ m \in Nat /\ n < m
  BY <1>0 DEF From
<1>3. PlaceFrom(f, j) = <<f[1] + q, r>> /\ PlaceFrom(f, k) = <<f[1] + q2, r2>>
  BY DEF PlaceFrom
<1> HIDE DEF n, m
<1>2. q \in Nat /\ r \in 0 .. Cols - 1 /\ n = Cols * q + r
      /\ q2 \in Nat /\ r2 \in 0 .. Cols - 1 /\ m = Cols * q2 + r2
  BY <1>0, <1>1
<1> HIDE DEF q, r, q2, r2
<1>4. q < q2 \/ (q = q2 /\ r < r2)
  <2>1. CASE q > q2
    <3>1. Cols * q >= Cols * (q2 + 1)
      BY <1>0, <1>2, <2>1
    <3>2. Cols * (q2 + 1) = Cols * q2 + Cols
      BY <1>0, <1>2
    <3> QED
      BY <1>0, <1>1, <1>2, <3>1, <3>2
  <2>2. CASE q = q2
    BY <1>0, <1>1, <1>2, <2>2
  <2> QED
    BY <1>2, <2>1, <2>2
<1> QED
  BY <1>1, <1>2, <1>3, <1>4
(* What is typed and printed; the screen behind the cursor is blank; what   *)
(* it shows of a line.                                                      *)
Character == LetterKeys \cup {Newline, Backspace, Space, "zero", "eof", "A", "B", "C", "D", "^", "$"}
ScreenTypes(s) ==
  s \in [cell : [Position -> SUBSET Character], row : 0 .. Rows - 2, col : 0 .. Cols, from : From]
Behind(s, p) == p[1] > s.row \/ (p[1] = s.row /\ p[2] >= s.col)
CleanBehind(s) == ScreenTypes(s) /\ \A p \in Position : Behind(s, p) => s.cell[p] = Blank

CursorAt(s, k) ==
  \/ <<s.row, s.col>> = PlaceFrom(s.from, k)
  \/ s.col = Cols /\ PlaceFrom(s.from, k) = <<s.row + 1, 0>>
Shows(s, line) ==
  /\ \A k \in 1 .. Len(line) : PlaceFrom(s.from, k)[1] >= 0 => s.cell[PlaceFrom(s.from, k)] = {line[k]}
  /\ CursorAt(s, Len(line) + 1)

(* An update of several fields is a screen with those fields. *)
IsScreen(s) == \E C, R, K, F : s \in [cell : C, row : R, col : K, from : F]

LEMMA SetRowCol ==
  ASSUME NEW s, IsScreen(s), NEW r, NEW k
  PROVE  [s EXCEPT !.row = r, !.col = k] = [cell |-> s.cell, row |-> r, col |-> k, from |-> s.from]
<1>0. PICK C, R, K, F : s \in [cell : C, row : R, col : K, from : F]
  BY DEF IsScreen
<1> DEFINE t == [s EXCEPT !.row = r, !.col = k]
<1>1. t \in [cell : C, row : R \cup {r}, col : K \cup {k}, from : F]
  BY <1>0
<1>2. t.cell = s.cell /\ t.row = r /\ t.col = k /\ t.from = s.from
  BY <1>0
<1> HIDE DEF t
<1>3. t = [cell |-> s.cell, row |-> r, col |-> k, from |-> s.from]
  BY <1>1, <1>2
<1> QED
  BY <1>3 DEF t

LEMMA SetCellRowFrom ==
  ASSUME NEW s, IsScreen(s), NEW c, NEW r, NEW f
  PROVE  [s EXCEPT !.cell = c, !.row = r, !.from = f] = [cell |-> c, row |-> r, col |-> s.col, from |-> f]
<1>0. PICK C, R, K, F : s \in [cell : C, row : R, col : K, from : F]
  BY DEF IsScreen
<1> DEFINE t == [s EXCEPT !.cell = c, !.row = r, !.from = f]
<1>1. t \in [cell : C \cup {c}, row : R \cup {r}, col : K, from : F \cup {f}]
  BY <1>0
<1>2. t.cell = c /\ t.row = r /\ t.col = s.col /\ t.from = f
  BY <1>0
<1> HIDE DEF t
<1>3. t = [cell |-> c, row |-> r, col |-> s.col, from |-> f]
  BY <1>1, <1>2
<1> QED
  BY <1>3 DEF t

LEMMA SetCellCol ==
  ASSUME NEW s, IsScreen(s), NEW p, NEW c, NEW k
  PROVE  [s EXCEPT !.cell[p] = c, !.col = k] = [cell |-> [s.cell EXCEPT ![p] = c], row |-> s.row, col |-> k, from |-> s.from]
<1>0. PICK C, R, K, F : s \in [cell : C, row : R, col : K, from : F]
  BY DEF IsScreen
<1> DEFINE t == [s EXCEPT !.cell[p] = c, !.col = k]
           d == [s.cell EXCEPT ![p] = c]
<1>1. t \in [cell : C \cup {d}, row : R, col : K \cup {k}, from : F]
  BY <1>0
<1>2. t.cell = d /\ t.row = s.row /\ t.col = k /\ t.from = s.from
  BY <1>0
<1> HIDE DEF t, d
<1>3. t = [cell |-> d, row |-> s.row, col |-> k, from |-> s.from]
  BY <1>1, <1>2
<1> QED
  BY <1>3 DEF t, d

LEMMA ScreenParts ==
  ASSUME NEW s, ScreenTypes(s)
  PROVE  /\ IsScreen(s) /\ s = [cell |-> s.cell, row |-> s.row, col |-> s.col, from |-> s.from]
         /\ s.cell \in [Position -> SUBSET Character] /\ s.from \in From
         /\ s.row \in 0 .. Rows - 2 /\ s.row \in Nat /\ s.row \in 0 .. Rows - 1
         /\ s.col \in 0 .. Cols /\ s.col \in Nat
         /\ s.from[1] \in Int /\ s.from = <<s.from[1], s.from[2]>> /\ s.from[2] \in 0 .. Cols
<1>1. IsScreen(s)
  BY DEF ScreenTypes, IsScreen
<1> QED
  BY <1>1, ScreenSize DEF ScreenTypes, From

(* The next line begins behind it; the screen may scroll.                   *)
LEMMA LineFeedIs ==
  ASSUME NEW s, CleanBehind(s)
  PROVE  /\ CleanBehind(lineFeed(s)) /\ lineFeed(s).col = 0
         /\ FullRow(s) => \A line \in Seq(Character) : Shows(s, line) => Shows(lineFeed(s), line)
<1> DEFINE u == [s EXCEPT !.row = @ + 1, !.col = 0]
           t == lineFeed(s)
<1>1. /\ IsScreen(s) /\ s = [cell |-> s.cell, row |-> s.row, col |-> s.col, from |-> s.from]
      /\ s.cell \in [Position -> SUBSET Character] /\ s.from \in From
      /\ s.row \in 0 .. Rows - 2 /\ s.row \in Nat
      /\ s.col \in 0 .. Cols /\ s.col \in Nat
      /\ s.from[1] \in Int /\ s.from = <<s.from[1], s.from[2]>> /\ s.from[2] \in 0 .. Cols
  BY ScreenParts DEF CleanBehind
<1>2. \A p \in Position : Behind(s, p) => s.cell[p] = Blank
  BY DEF CleanBehind
<1>3. u = [cell |-> s.cell, row |-> s.row + 1, col |-> 0, from |-> s.from]
  BY <1>1, SetRowCol
<1>t. t = moveScreenUpIfFull(u)
  BY DEF lineFeed
<1>S. /\ Cols \in Nat /\ Cols > 0 /\ Rows \in Nat /\ Rows > 1 /\ Rows - 2 \in Nat
      /\ \A p \in Position : p[1] \in 0 .. Rows - 1 /\ p[2] \in 0 .. Cols - 1 /\ p = <<p[1], p[2]>>
      /\ \A r \in 0 .. Rows - 1, c \in 0 .. Cols - 1 : <<r, c>> \in Position
  BY ScreenSize
<1>4. FullRow(s) => s.col = Cols
  BY <1>1, <1>S DEF FullRow
<1> HIDE DEF u
<1>5. CASE u.row < Rows - 1
  <2>1. t = u
    BY <1>5, <1>t DEF moveScreenUpIfFull
  <2> HIDE DEF t
  <2>2. ScreenTypes(t)
    BY <1>1, <1>3, <1>5, <1>S, <2>1 DEF ScreenTypes
  <2>3. \A p \in Position : Behind(t, p) => t.cell[p] = Blank
    <3>1. \A p \in Position : Behind(t, p) => Behind(s, p)
      BY <1>1, <1>3, <1>S, <2>1 DEF Behind
    <3> QED
      BY <1>2, <1>3, <2>1, <3>1
  <2>4. ASSUME FullRow(s), NEW line \in Seq(Character), Shows(s, line) PROVE Shows(t, line)
    <3>1. /\ t.cell = s.cell /\ t.from = s.from /\ t.row = s.row + 1 /\ t.col = 0 /\ Cols # 0
      BY <1>3, <1>S, <2>1
    <3>2. Len(line) + 1 \in Nat /\ Len(line) + 1 > 0
      OBVIOUS
    <3>3. PlaceFrom(s.from, Len(line) + 1)[2] \in 0 .. Cols - 1
      BY <1>1, <3>2, PlaceFacts
    <3>4. PlaceFrom(s.from, Len(line) + 1) = <<s.row + 1, 0>>
      BY <1>4, <1>S, <2>4, <3>3 DEF Shows, CursorAt
    <3>5. CursorAt(t, Len(line) + 1)
      BY <3>1, <3>4 DEF CursorAt
    <3> QED
      BY <2>4, <3>1, <3>5 DEF Shows
  <2>5. t.col = 0
    BY <1>3, <2>1
  <2> QED
    BY <2>2, <2>3, <2>4, <2>5 DEF CleanBehind, t
<1>6. CASE ~(u.row < Rows - 1)
  <2> DEFINE up == [p \in Position |-> IF p[1] = Rows - 1 THEN Blank ELSE s.cell[<<p[1] + 1, p[2]>>]]
  <2>0. s.row + 1 = Rows - 1
    BY <1>1, <1>3, <1>6, <1>S
  <2>1. t = [cell |-> up, row |-> s.row, col |-> 0, from |-> <<s.from[1] - 1, s.from[2]>>]
    <3> DEFINE c2 == [p \in Position |-> IF p[1] = Rows - 1 THEN Blank ELSE u.cell[<<p[1] + 1, p[2]>>]]
               f2 == <<u.from[1] - 1, u.from[2]>>
    <3>1. t = [u EXCEPT !.cell = c2, !.row = u.row - 1, !.from = f2]
      BY <1>6, <1>t DEF moveScreenUpIfFull
    <3>2. c2 = up /\ f2 = <<s.from[1] - 1, s.from[2]>> /\ u.row - 1 = s.row /\ u.col = 0
      BY <1>1, <1>3
    <3>3. IsScreen(u)
      BY <1>3 DEF IsScreen
    <3> HIDE DEF c2, f2, up
    <3>4. t = [cell |-> c2, row |-> u.row - 1, col |-> u.col, from |-> f2]
      BY <3>1, <3>3, SetCellRowFrom
    <3> QED
      BY <3>2, <3>4
  <2> HIDE DEF t
  <2>2. up \in [Position -> SUBSET Character]
    <3> SUFFICES ASSUME NEW p \in Position, p[1] # Rows - 1
                 PROVE  s.cell[<<p[1] + 1, p[2]>>] \in SUBSET Character
      BY DEF Blank
    <3>1. <<p[1] + 1, p[2]>> \in Position
      BY <1>S
    <3> QED
      BY <1>1, <3>1
  <2>3. \A p \in Position : up[p] = IF p[1] = Rows - 1 THEN Blank ELSE s.cell[<<p[1] + 1, p[2]>>]
    OBVIOUS
  <2> HIDE DEF up
  <2>4. ScreenTypes(t)
    BY <1>1, <1>S, <2>1, <2>2 DEF ScreenTypes, From
  <2>5. \A p \in Position : Behind(t, p) => t.cell[p] = Blank
    <3> SUFFICES ASSUME NEW p \in Position, Behind(t, p), p[1] # Rows - 1 PROVE up[p] = Blank
      BY <2>1, <2>3
    <3>1. <<p[1] + 1, p[2]>> \in Position /\ p[1] >= s.row
      BY <1>1, <1>S, <2>1 DEF Behind
    <3>2. Behind(s, <<p[1] + 1, p[2]>>)
      BY <1>1, <1>S, <3>1 DEF Behind
    <3> QED
      BY <1>2, <2>3, <3>1, <3>2
  <2>6. ASSUME FullRow(s), NEW line \in Seq(Character), Shows(s, line) PROVE Shows(t, line)
    <3> DEFINE g == <<s.from[1] - 1, s.from[2]>>
    <3>1. t.cell = up /\ t.from = g /\ t.row = s.row /\ t.col = 0
      BY <2>1
    <3>2. ASSUME NEW k \in Nat, k > 0
          PROVE  /\ PlaceFrom(g, k) = <<PlaceFrom(s.from, k)[1] - 1, PlaceFrom(s.from, k)[2]>>
                 /\ PlaceFrom(s.from, k)[1] \in Int /\ PlaceFrom(s.from, k)[2] \in 0 .. Cols - 1
                 /\ PlaceFrom(s.from, k) = <<PlaceFrom(s.from, k)[1], PlaceFrom(s.from, k)[2]>>
      BY <1>1, <3>2, PlaceFacts
    <3> HIDE DEF g
    <3>3. Len(line) \in Nat /\ Len(line) + 1 \in Nat /\ Len(line) + 1 > 0
      OBVIOUS
    <3>4. PlaceFrom(s.from, Len(line) + 1) = <<s.row + 1, 0>>
      <4>1. PlaceFrom(s.from, Len(line) + 1)[2] \in 0 .. Cols - 1
        BY <3>2, <3>3
      <4> QED
        BY <1>4, <1>S, <2>6, <4>1 DEF Shows, CursorAt
    <3>5. CursorAt(t, Len(line) + 1)
      <4>1. PlaceFrom(g, Len(line) + 1) = <<s.row, 0>>
        BY <1>1, <3>2, <3>3, <3>4
      <4> QED
        BY <3>1, <4>1 DEF CursorAt
    <3>6. ASSUME NEW k \in 1 .. Len(line), PlaceFrom(g, k)[1] >= 0
          PROVE  up[PlaceFrom(g, k)] = {line[k]}
      <4> DEFINE p == PlaceFrom(s.from, k)
                 z == PlaceFrom(s.from, Len(line) + 1)
      <4>1. k \in Nat /\ k > 0 /\ k < Len(line) + 1
        BY <3>3
      <4>2. p[1] < z[1] \/ (p[1] = z[1] /\ p[2] < z[2])
        BY <1>1, <3>3, <4>1, PlaceOrder
      <4>3. PlaceFrom(g, k) = <<p[1] - 1, p[2]>> /\ p[1] \in Int /\ p[2] \in 0 .. Cols - 1 /\ p = <<p[1], p[2]>>
        BY <3>2, <4>1
      <4>4. z[1] = s.row + 1 /\ z[2] = 0
        BY <3>4
      <4> HIDE DEF p, z
      <4>5. p[1] - 1 \in 0 .. Rows - 1 /\ p[1] - 1 # Rows - 1 /\ p[1] >= 0 /\ (p[1] - 1) + 1 = p[1]
        <5>1. p[1] - 1 >= 0
          BY <3>6, <4>3
        <5>2. p[1] <= s.row + 1
          BY <1>1, <4>2, <4>3, <4>4
        <5> QED
          BY <1>1, <1>S, <2>0, <4>3, <5>1, <5>2
      <4>6. <<p[1] - 1, p[2]>> \in Position
        BY <1>S, <4>3, <4>5
      <4>7. up[<<p[1] - 1, p[2]>>] = s.cell[p]
        BY <2>3, <4>3, <4>5, <4>6
      <4>8. s.cell[p] = {line[k]}
        BY <2>6, <4>5 DEF Shows, p
      <4> QED
        BY <4>3, <4>7, <4>8
    <3> QED
      BY <3>1, <3>5, <3>6 DEF Shows
  <2>7. t.col = 0
    BY <2>1
  <2> QED
    BY <2>4, <2>5, <2>6, <2>7 DEF CleanBehind, t
<1> QED
  BY <1>5, <1>6
(* A character drawn at the cursor is the next of the line. *)
LEMMA DrawIs ==
  ASSUME NEW s, CleanBehind(s), s.col < Cols, NEW c \in Character
  PROVE  /\ CleanBehind(Draw(s, c)) /\ Draw(s, c).row = s.row /\ Draw(s, c).col = s.col + 1
         /\ Draw(s, c).from = s.from /\ (c \in NoGlyph => Draw(s, c).cell = s.cell)
         /\ c \notin NoGlyph =>
              \A line \in Seq(Character) : Shows(s, line) => Shows(Draw(s, c), Append(line, c))
<1> DEFINE t == Draw(s, c)
           at == <<s.row, s.col>>
           g == IF c \in NoGlyph THEN s.cell[at] ELSE s.cell[at] \cup {c}
           h == [s.cell EXCEPT ![at] = g]
<1>1. /\ IsScreen(s) /\ s = [cell |-> s.cell, row |-> s.row, col |-> s.col, from |-> s.from]
      /\ s.cell \in [Position -> SUBSET Character] /\ s.from \in From
      /\ s.row \in 0 .. Rows - 2 /\ s.row \in Nat
      /\ s.col \in 0 .. Cols /\ s.col \in Nat
  BY ScreenParts DEF CleanBehind
<1>2. \A p \in Position : Behind(s, p) => s.cell[p] = Blank
  BY DEF CleanBehind
<1>S. /\ Cols \in Nat /\ Cols > 0 /\ Rows \in Nat /\ Rows > 1 /\ Rows - 2 \in Nat
      /\ \A p \in Position : p[1] \in 0 .. Rows - 1 /\ p[2] \in 0 .. Cols - 1 /\ p = <<p[1], p[2]>>
      /\ \A r \in 0 .. Rows - 1, k \in 0 .. Cols - 1 : <<r, k>> \in Position
  BY ScreenSize
<1>3. at \in Position /\ Behind(s, at)
  BY <1>1, <1>S DEF Behind
<1>4. s.cell[at] = {}
  BY <1>2, <1>3 DEF Blank
<1>5. t = [s EXCEPT !.cell[at] = g, !.col = s.col + 1]
  BY DEF Draw
<1>6. g \in SUBSET Character /\ (c \notin NoGlyph => g = {c}) /\ (c \in NoGlyph => g = {})
  BY <1>4
<1> HIDE DEF t, g, at
<1>7. t = [cell |-> [s.cell EXCEPT ![at] = g], row |-> s.row, col |-> s.col + 1, from |-> s.from]
  BY <1>1, <1>5, SetCellCol
<1>8. /\ h \in [Position -> SUBSET Character] /\ h[at] = g
      /\ \A p \in Position : p # at => h[p] = s.cell[p]
  BY <1>1, <1>3, <1>6
<1>9. c \in NoGlyph => h = s.cell
  BY <1>1, <1>3, <1>4, <1>6
<1> HIDE DEF h
<1>10. t.cell = h /\ t.row = s.row /\ t.col = s.col + 1 /\ t.from = s.from
  BY <1>7 DEF h
<1>11. ScreenTypes(t)
  <2>1. t = [cell |-> h, row |-> s.row, col |-> s.col + 1, from |-> s.from]
    BY <1>7 DEF h
  <2> QED
    BY <1>1, <1>8, <1>S, <2>1 DEF ScreenTypes
<1>12. \A p \in Position : Behind(t, p) => t.cell[p] = Blank
  <2>1. \A p \in Position : Behind(t, p) => Behind(s, p) /\ p # at
    BY <1>1, <1>10, <1>S DEF Behind, at
  <2> QED
    BY <1>2, <1>8, <1>10, <2>1
<1>13. ASSUME c \notin NoGlyph, NEW line \in Seq(Character), Shows(s, line)
       PROVE  Shows(t, Append(line, c))
  <2> DEFINE n == Len(line) + 1
             more == Append(line, c)
  <2>1. Len(line) \in Nat /\ n \in Nat /\ n > 0 /\ Len(more) = n /\ more[n] = c
        /\ \A k \in 1 .. Len(line) : more[k] = line[k] /\ k < n /\ k \in Nat /\ k > 0
    OBVIOUS
  <2>2. PlaceFrom(s.from, n)[2] \in 0 .. Cols - 1
    BY <1>1, <2>1, PlaceFacts
  <2>3. PlaceFrom(s.from, n) = at
    <3>1. CursorAt(s, n)
      BY <1>13 DEF Shows
    <3> HIDE DEF n
    <3> QED
      BY <1>S, <3>1 DEF CursorAt, at
  <2>d. n = Len(line) + 1
    OBVIOUS
  <2> HIDE DEF more, n
  <2>4. CursorAt(t, n + 1)
    <3>1. PlaceFrom(s.from, n + 1) =
              IF PlaceFrom(s.from, n)[2] + 1 < Cols
              THEN <<PlaceFrom(s.from, n)[1], PlaceFrom(s.from, n)[2] + 1>>
              ELSE <<PlaceFrom(s.from, n)[1] + 1, 0>>
      BY <1>1, <2>1, PlaceFacts
    <3>2. at[1] = s.row /\ at[2] = s.col
      BY DEF at
    <3> QED
      BY <1>1, <1>10, <1>S, <2>3, <3>1, <3>2 DEF CursorAt
  <2>5. ASSUME NEW k \in 1 .. n, PlaceFrom(s.from, k)[1] >= 0
        PROVE  h[PlaceFrom(s.from, k)] = {more[k]}
    <3>1. CASE k = n
      BY <1>6, <1>8, <1>13, <2>1, <2>3, <3>1
    <3>2. CASE k # n
      <4> DEFINE p == PlaceFrom(s.from, k)
      <4>1. k \in 1 .. Len(line) /\ k \in Nat /\ k > 0 /\ k < n
        BY <2>1, <2>d, <3>2
      <4>2. p[1] < at[1] \/ (p[1] = at[1] /\ p[2] < at[2])
        BY <1>1, <2>1, <2>3, <4>1, PlaceOrder
      <4>3. p[1] \in Int /\ p[2] \in 0 .. Cols - 1 /\ p = <<p[1], p[2]>>
        BY <1>1, <4>1, PlaceFacts
      <4>4. s.cell[p] = {line[k]}
        BY <1>13, <2>5, <4>1 DEF Shows
      <4>5. p[1] >= 0
        BY <2>5
      <4>6. at[1] = s.row /\ at[2] = s.col
        BY DEF at
      <4> HIDE DEF p
      <4>7. p[1] \in 0 .. Rows - 1 /\ p # at
        BY <1>1, <1>S, <4>2, <4>3, <4>5, <4>6
      <4>8. p \in Position
        BY <1>S, <4>3, <4>7
      <4>9. h[p] = {more[k]}
        BY <1>8, <2>1, <4>1, <4>4, <4>7, <4>8
      <4> QED
        BY <4>9 DEF p
    <3> QED
      BY <3>1, <3>2
  <2>6. Shows(t, more)
    BY <1>10, <2>1, <2>4, <2>5 DEF Shows
  <2> QED
    BY <2>6 DEF more
<1>14. c \notin NoGlyph => \A line \in Seq(Character) : Shows(s, line) => Shows(t, Append(line, c))
  BY <1>13
<1> QED
  BY <1>9, <1>10, <1>11, <1>12, <1>14 DEF CleanBehind, t

(* What lies at and behind the place that is erased was blank but for it.   *)
LEMMA EraseIs ==
  ASSUME NEW s, CleanBehind(s), NEW r \in 0 .. Rows - 2, NEW c \in 0 .. Cols - 1,
         \A p \in Position : p[1] > r \/ (p[1] = r /\ p[2] > c) => Behind(s, p)
  PROVE  /\ CleanBehind(Erase(s, r, c)) /\ Erase(s, r, c).row = r /\ Erase(s, r, c).col = c
         /\ Erase(s, r, c).from = s.from
         /\ \A p \in Position : p # <<r, c>> => Erase(s, r, c).cell[p] = s.cell[p]
<1> DEFINE t == Erase(s, r, c)
           at == <<r, c>>
           h == [s.cell EXCEPT ![at] = Blank]
<1>1. /\ IsScreen(s)
      /\ s.cell \in [Position -> SUBSET Character] /\ s.from \in From
  BY ScreenParts DEF CleanBehind
<1>2. \A p \in Position : Behind(s, p) => s.cell[p] = Blank
  BY DEF CleanBehind
<1>S. /\ Cols \in Nat /\ Cols > 0 /\ Rows \in Nat /\ Rows > 1 /\ Rows - 2 \in Nat
      /\ \A p \in Position : p[1] \in 0 .. Rows - 1 /\ p[2] \in 0 .. Cols - 1 /\ p = <<p[1], p[2]>>
      /\ \A i \in 0 .. Rows - 1, k \in 0 .. Cols - 1 : <<i, k>> \in Position
  BY ScreenSize
<1>3. at \in Position
  BY <1>S
<1>4. t = [s EXCEPT !.row = r, !.col = c, !.cell[at] = Blank]
  BY DEF Erase
<1> HIDE DEF t, at
<1>5. t = [cell |-> [s.cell EXCEPT ![at] = Blank], row |-> r, col |-> c, from |-> s.from]
  <2>1. PICK C, R, K, F : s \in [cell : C, row : R, col : K, from : F]
    BY <1>1 DEF IsScreen
  <2> DEFINE d == [s.cell EXCEPT ![at] = Blank]
  <2>2. t \in [cell : C \cup {d}, row : R \cup {r}, col : K \cup {c}, from : F]
    BY <1>4, <2>1
  <2>3. t.cell = d /\ t.row = r /\ t.col = c /\ t.from = s.from
    BY <1>4, <2>1
  <2> HIDE DEF d
  <2>4. t = [cell |-> d, row |-> r, col |-> c, from |-> s.from]
    BY <2>2, <2>3
  <2> QED
    BY <2>4 DEF d
<1>6. /\ h \in [Position -> SUBSET Character] /\ h[at] = Blank
      /\ \A p \in Position : p # at => h[p] = s.cell[p]
  BY <1>1, <1>3 DEF Blank
<1> HIDE DEF h
<1>7. t = [cell |-> h, row |-> r, col |-> c, from |-> s.from]
  BY <1>5 DEF h
<1>8. ScreenTypes(t)
  BY <1>1, <1>6, <1>7, <1>S DEF ScreenTypes
<1>9. \A p \in Position : Behind(t, p) => t.cell[p] = Blank
  <2>1. \A p \in Position : Behind(t, p) => Behind(s, p) \/ p = at
    BY <1>7, <1>S DEF Behind, at
  <2> QED
    BY <1>2, <1>6, <1>7, <2>1
<1> QED
  BY <1>6, <1>7, <1>8, <1>9 DEF CleanBehind, t, at

LEMMA DeleteIs ==
  ASSUME NEW s, CleanBehind(s)
  PROVE  /\ CleanBehind(deleteChar(s)) /\ deleteChar(s).from = s.from
         /\ s.col > 0 => /\ deleteChar(s).row = s.row /\ deleteChar(s).col = s.col - 1
                         /\ \A p \in Position : p # <<s.row, s.col - 1>> => deleteChar(s).cell[p] = s.cell[p]
<1>1. s.row \in 0 .. Rows - 2 /\ s.row \in Nat /\ s.col \in 0 .. Cols /\ s.col \in Nat
  BY ScreenParts DEF CleanBehind
<1>S. /\ Cols \in Nat /\ Cols > 0 /\ Rows \in Nat /\ Rows > 1
      /\ \A p \in Position : p[1] \in 0 .. Rows - 1 /\ p[2] \in 0 .. Cols - 1
  BY ScreenSize
<1>2. CASE s.col > 0
  <2>1. s.col - 1 \in 0 .. Cols - 1
    BY <1>1, <1>2, <1>S
  <2>2. \A p \in Position : p[1] > s.row \/ (p[1] = s.row /\ p[2] > s.col - 1) => Behind(s, p)
    BY <1>1, <1>S DEF Behind
  <2>3. deleteChar(s) = Erase(s, s.row, s.col - 1)
    BY <1>2 DEF deleteChar
  <2> QED
    BY <1>1, <2>1, <2>2, <2>3, EraseIs
<1>3. CASE s.col = 0 /\ s.row > 0
  <2>1. s.row - 1 \in 0 .. Rows - 2 /\ Cols - 1 \in 0 .. Cols - 1
    BY <1>1, <1>3, <1>S
  <2>2. \A p \in Position : p[1] > s.row - 1 \/ (p[1] = s.row - 1 /\ p[2] > Cols - 1) => Behind(s, p)
    BY <1>1, <1>3, <1>S DEF Behind
  <2>3. deleteChar(s) = Erase(s, s.row - 1, Cols - 1)
    BY <1>3 DEF deleteChar
  <2>4. CleanBehind(Erase(s, s.row - 1, Cols - 1)) /\ Erase(s, s.row - 1, Cols - 1).from = s.from
    BY <2>1, <2>2, EraseIs
  <2> QED
    BY <1>3, <2>3, <2>4
<1>4. CASE s.col = 0 /\ s.row = 0
  <2>1. 0 \in 0 .. Rows - 2 /\ 0 \in 0 .. Cols - 1
    BY <1>1, <1>S
  <2>2. \A p \in Position : p[1] > 0 \/ (p[1] = 0 /\ p[2] > 0) => Behind(s, p)
    BY <1>4, <1>S DEF Behind
  <2>3. deleteChar(s) = Erase(s, 0, 0)
    BY <1>4 DEF deleteChar
  <2>4. CleanBehind(Erase(s, 0, 0)) /\ Erase(s, 0, 0).from = s.from
    BY <2>1, <2>2, EraseIs
  <2> QED
    BY <1>4, <2>3, <2>4
<1> QED
  BY <1>1, <1>2, <1>3, <1>4

(* Whatever is printed, the screen behind the cursor stays blank. *)
LEMMA PutIsClean ==
  ASSUME NEW s, CleanBehind(s), NEW c \in Character
  PROVE  CleanBehind(putChar(s, c))
<1>1. s.col \in 0 .. Cols /\ s.col \in Nat /\ Cols \in Nat /\ Cols > 0
  BY ScreenParts, ScreenSize DEF CleanBehind
<1>3. CASE c = Newline
  <2>1. putChar(s, c) = lineFeed(s)
    BY <1>3 DEF putChar, Newline, Backspace
  <2> QED
    BY <2>1, LineFeedIs
<1>4. CASE c # Newline /\ FullRow(s)
  <2>1. putChar(s, c) = Draw(lineFeed(s), c)
    BY <1>4 DEF putChar
  <2>2. CleanBehind(lineFeed(s)) /\ lineFeed(s).col = 0
    BY LineFeedIs
  <2> QED
    BY <1>1, <2>1, <2>2, DrawIs
<1>5. CASE c = Backspace /\ ~FullRow(s)
  <2>1. putChar(s, c) = deleteChar(s)
    BY <1>5 DEF putChar, Newline, Backspace
  <2> QED
    BY <2>1, DeleteIs
<1>6. CASE c # Newline /\ c # Backspace /\ ~FullRow(s)
  <2>1. putChar(s, c) = Draw(s, c)
    BY <1>6 DEF putChar
  <2>2. s.col < Cols
    BY <1>1, <1>6 DEF FullRow
  <2> QED
    BY <2>1, <2>2, DrawIs
<1> QED
  BY <1>3, <1>4, <1>5, <1>6

(* A character with a glyph continues the line, on the next row if need be. *)
LEMMA PutContinues ==
  ASSUME NEW s, CleanBehind(s), NEW c \in Character, c \notin NoGlyph, c # Newline,
         NEW line \in Seq(Character), Shows(s, line)
  PROVE  Shows(putChar(s, c), Append(line, c))
<1>1. s.col \in 0 .. Cols /\ s.col \in Nat /\ Cols \in Nat /\ Cols > 0 /\ c # Backspace
  BY ScreenParts, ScreenSize DEF CleanBehind, NoGlyph
<1>2. CASE FullRow(s)
  <2>1. putChar(s, c) = Draw(lineFeed(s), c)
    BY <1>2 DEF putChar
  <2>2. CleanBehind(lineFeed(s)) /\ lineFeed(s).col = 0 /\ Shows(lineFeed(s), line)
    BY <1>2, LineFeedIs
  <2>3. Shows(Draw(lineFeed(s), c), Append(line, c))
    BY <1>1, <2>2, DrawIs
  <2> QED
    BY <2>1, <2>3
<1>3. CASE ~FullRow(s)
  <2>1. putChar(s, c) = Draw(s, c)
    BY <1>1, <1>3 DEF putChar
  <2>2. s.col < Cols
    BY <1>1, <1>3 DEF FullRow
  <2>3. Shows(Draw(s, c), Append(line, c))
    BY <2>2, DrawIs
  <2> QED
    BY <2>1, <2>3
<1> QED
  BY <1>2, <1>3

(* printStr() draws character after character, as far as its function is    *)
(* defined; of two and of three characters it is.                           *)
DrawnBy(s, string, d) ==
  d = [k \in 0 .. Len(string) |-> IF k = 0 THEN s ELSE putChar(d[k - 1], string[k])]
DrawsTo(s, string, d) ==
  /\ d[0] = s /\ printf(s, string) = d[Len(string)]
  /\ \A k \in 1 .. Len(string) : d[k] = putChar(d[k - 1], string[k])

LEMMA PrintSteps ==
  ASSUME NEW s, NEW string, Len(string) \in Nat, NEW w, DrawnBy(s, string, w)
  PROVE  \E d : DrawsTo(s, string, d)
<1> DEFINE IsDrawn(f) == f = [k \in 0 .. Len(string) |->
                                IF k = 0 THEN s ELSE putChar(f[k - 1], string[k])]
           drawn == CHOOSE f : IsDrawn(f)
<1>1. printf(s, string) = drawn[Len(string)]
  BY DEF printf
<1>2. IsDrawn(w)
  BY DEF DrawnBy
<1>3. IsDrawn(drawn)
  BY <1>2
<1> HIDE DEF drawn
<1>4. \A k \in 0 .. Len(string) : drawn[k] = IF k = 0 THEN s ELSE putChar(drawn[k - 1], string[k])
  BY <1>3
<1> HIDE DEF IsDrawn
<1>5. drawn[0] = s /\ \A k \in 1 .. Len(string) : drawn[k] = putChar(drawn[k - 1], string[k])
  BY <1>4
<1> QED
  BY <1>1, <1>5 DEF DrawsTo

LEMMA PrintTwo ==
  ASSUME NEW s, NEW a, NEW b
  PROVE  printf(s, <<a, b>>) = putChar(putChar(s, a), b)
<1> DEFINE string == <<a, b>>
           w == [k \in 0 .. 2 |-> IF k = 0 THEN s ELSE IF k = 1 THEN putChar(s, a) ELSE putChar(putChar(s, a), b)]
<1>1. Len(string) = 2 /\ string[1] = a /\ string[2] = b
  OBVIOUS
<1> HIDE DEF string
<1>2. w[0] = s /\ w[1] = putChar(s, a) /\ w[2] = putChar(w[1], b) /\ DOMAIN w = 0 .. 2
      /\ w = [k \in 0 .. 2 |-> w[k]]
  OBVIOUS
<1> HIDE DEF w
<1>3. \A k \in 0 .. 2 : w[k] = IF k = 0 THEN s ELSE putChar(w[k - 1], string[k])
  <2> SUFFICES ASSUME NEW k \in 0 .. 2 PROVE w[k] = IF k = 0 THEN s ELSE putChar(w[k - 1], string[k])
    OBVIOUS
  <2>1. k = 0 \/ (k = 1 /\ k - 1 = 0) \/ (k = 2 /\ k - 1 = 1)
    OBVIOUS
  <2> QED
    BY <1>1, <1>2, <2>1
<1>4. DrawnBy(s, string, w)
  BY <1>1, <1>2, <1>3 DEF DrawnBy
<1>5. PICK d : /\ d[0] = s /\ printf(s, string) = d[2]
               /\ \A k \in 1 .. 2 : d[k] = putChar(d[k - 1], string[k])
  <2>1. \E d : DrawsTo(s, string, d)
    <3>1. Len(string) \in Nat
      BY <1>1
    <3> QED
      BY <1>4, <3>1, PrintSteps
  <2> QED
    BY <1>1, <2>1 DEF DrawsTo
<1>6. d[1] = putChar(d[0], a) /\ d[2] = putChar(d[1], b)
  <2>1. 1 - 1 = 0 /\ 2 - 1 = 1 /\ 1 \in 1 .. 2 /\ 2 \in 1 .. 2
    OBVIOUS
  <2> QED
    BY <1>1, <1>5, <2>1
<1> QED
  BY <1>5, <1>6 DEF string

LEMMA PrintThree ==
  ASSUME NEW s, NEW a, NEW b, NEW c
  PROVE  printf(s, <<a, b, c>>) = putChar(putChar(putChar(s, a), b), c)
<1> DEFINE string == <<a, b, c>>
           w == [k \in 0 .. 3 |->
                   IF k = 0 THEN s ELSE IF k = 1 THEN putChar(s, a) ELSE IF k = 2 THEN putChar(putChar(s, a), b)
                   ELSE putChar(putChar(putChar(s, a), b), c)]
<1>1. Len(string) = 3 /\ string[1] = a /\ string[2] = b /\ string[3] = c
  OBVIOUS
<1> HIDE DEF string
<1>2. w[0] = s /\ w[1] = putChar(s, a) /\ w[2] = putChar(w[1], b) /\ w[3] = putChar(w[2], c)
      /\ w = [k \in 0 .. 3 |-> w[k]]
  OBVIOUS
<1> HIDE DEF w
<1>3. \A k \in 0 .. 3 : w[k] = IF k = 0 THEN s ELSE putChar(w[k - 1], string[k])
  <2> SUFFICES ASSUME NEW k \in 0 .. 3 PROVE w[k] = IF k = 0 THEN s ELSE putChar(w[k - 1], string[k])
    OBVIOUS
  <2>1. k = 0 \/ (k = 1 /\ k - 1 = 0) \/ (k = 2 /\ k - 1 = 1) \/ (k = 3 /\ k - 1 = 2)
    OBVIOUS
  <2> QED
    BY <1>1, <1>2, <2>1
<1>4. DrawnBy(s, string, w)
  BY <1>1, <1>2, <1>3 DEF DrawnBy
<1>5. PICK d : /\ d[0] = s /\ printf(s, string) = d[3]
               /\ \A k \in 1 .. 3 : d[k] = putChar(d[k - 1], string[k])
  <2>1. \E d : DrawsTo(s, string, d)
    <3>1. Len(string) \in Nat
      BY <1>1
    <3> QED
      BY <1>4, <3>1, PrintSteps
  <2> QED
    BY <1>1, <2>1 DEF DrawsTo
<1>6. d[1] = putChar(d[0], a) /\ d[2] = putChar(d[1], b) /\ d[3] = putChar(d[2], c)
  <2>1. 1 - 1 = 0 /\ 2 - 1 = 1 /\ 3 - 1 = 2 /\ 1 \in 1 .. 3 /\ 2 \in 1 .. 3 /\ 3 \in 1 .. 3
    OBVIOUS
  <2> QED
    BY <1>1, <1>5, <2>1
<1> QED
  BY <1>5, <1>6 DEF string

(* Two backspaces around a blank take the last character off the line,      *)
(* where neither end of a row is met.                                       *)
LEMMA ErasingIs ==
  ASSUME NEW s, CleanBehind(s)
  PROVE  /\ CleanBehind(printf(s, erasing))
         /\ ~FullRow(s) /\ s.col > 0 =>
              /\ printf(s, erasing).row = s.row /\ printf(s, erasing).col = s.col - 1
              /\ printf(s, erasing).from = s.from
              /\ \A p \in Position : p # <<s.row, s.col - 1>> => printf(s, erasing).cell[p] = s.cell[p]
<1> DEFINE a == putChar(s, Backspace)
           b == putChar(a, Space)
           t == putChar(b, Backspace)
<1>S. s.col \in 0 .. Cols /\ s.col \in Nat /\ Cols \in Nat /\ Cols > 0 /\ s.row \in 0 .. Rows - 2
  BY ScreenParts, ScreenSize DEF CleanBehind
<1>0. /\ Backspace \in Character /\ Space \in Character /\ Backspace # Newline /\ Space # Newline
      /\ Backspace # Space
  BY DEF Character, Backspace, Space, Newline
<1>1. printf(s, erasing) = t
  BY PrintThree DEF erasing
<1> HIDE DEF a, b, t
<1>2. CleanBehind(a) /\ CleanBehind(b) /\ CleanBehind(t)
  <2>1. CleanBehind(a)
    BY <1>0, PutIsClean DEF a
  <2>2. CleanBehind(b)
    BY <1>0, <2>1, PutIsClean DEF b
  <2>3. CleanBehind(t)
    BY <1>0, <2>2, PutIsClean DEF t
  <2> QED
    BY <2>1, <2>2, <2>3
<1>3. ASSUME ~FullRow(s), s.col > 0
      PROVE  /\ t.row = s.row /\ t.col = s.col - 1 /\ t.from = s.from
             /\ \A p \in Position : p # <<s.row, s.col - 1>> => t.cell[p] = s.cell[p]
  <2>0. s.col < Cols
    BY <1>3, <1>S DEF FullRow
  <2>1. a = deleteChar(s)
    BY <1>0, <1>3 DEF putChar, a
  <2>2. /\ a.row = s.row /\ a.col = s.col - 1 /\ a.from = s.from
        /\ \A p \in Position : p # <<s.row, s.col - 1>> => a.cell[p] = s.cell[p]
    BY <1>3, <2>1, DeleteIs
  <2>3. a.col < Cols /\ ~FullRow(a)
    BY <1>S, <2>0, <2>2 DEF FullRow
  <2>4. b = Draw(a, Space)
    BY <1>0, <2>3 DEF putChar, b
  <2>5. b.row = a.row /\ b.col = a.col + 1 /\ b.from = a.from /\ b.cell = a.cell
    BY <1>0, <1>2, <2>3, <2>4, DrawIs DEF NoGlyph
  <2>6. b.row = s.row /\ b.col = s.col /\ ~FullRow(b) /\ b.col > 0 /\ b.from = s.from /\ b.cell = a.cell
    BY <1>3, <1>S, <2>0, <2>2, <2>5 DEF FullRow
  <2>7. t = deleteChar(b)
    BY <1>0, <2>6 DEF putChar, t
  <2>8. /\ t.row = b.row /\ t.col = b.col - 1 /\ t.from = b.from
        /\ \A p \in Position : p # <<b.row, b.col - 1>> => t.cell[p] = b.cell[p]
    BY <1>2, <2>6, <2>7, DeleteIs
  <2> QED
    BY <2>2, <2>6, <2>8
<1> QED
  BY <1>1, <1>2, <1>3

(* The inductive invariant: nothing is drawn behind the cursor, and unless  *)
(* disturbed the screen shows the line as Shows() says.                     *)
TerminalInv ==
  /\ typed \in Seq(Character \ {Space}) /\ buff \in Seq(Character)
  /\ CleanBehind(screen)
  /\ ~disturbed => Shows(screen, buff)

LEMMA BeginsTerminalInv == TerminalInit => TerminalInv
<1> SUFFICES ASSUME TerminalInit PROVE TerminalInv
  OBVIOUS
<1>1. typed \in Seq(Character \ {Space}) /\ buff \in Seq(Character) /\ Len(buff) = 0
  BY DEF TerminalInit
<1>S. Cols \in Nat /\ Cols > 0 /\ Rows \in Nat /\ Rows > 1 /\ Rows - 2 \in Nat
  BY ScreenSize
<1>2. screen = [cell |-> [p \in Position |-> Blank], row |-> 0, col |-> 0, from |-> <<0, 0>>]
  BY DEF TerminalInit
<1>3. CleanBehind(screen)
  <2>1. <<0, 0>> \in From
    BY <1>S DEF From
  <2> QED
    BY <1>2, <1>S, <2>1 DEF CleanBehind, ScreenTypes, Blank
<1>4. CursorAt(screen, 1)
  <2>1. PlaceFrom(<<0, 0>>, 1) = <<0, 0>>
    <3>1. 0 \in Int /\ 0 \in 0 .. Cols /\ 0 < Cols
      BY <1>S
    <3> QED
      BY <3>1, FirstPlace
  <2> QED
    BY <1>2, <2>1 DEF CursorAt
<1> QED
  BY <1>1, <1>3, <1>4 DEF TerminalInv, Shows

(* Nothing that is printed writes behind the cursor. *)
LEMMA PrintTwoIsClean ==
  ASSUME NEW s, CleanBehind(s), NEW a \in Character, NEW b \in Character
  PROVE  CleanBehind(printf(s, <<a, b>>))
<1>1. CleanBehind(putChar(s, a))
  BY PutIsClean
<1>2. CleanBehind(putChar(putChar(s, a), b))
  BY <1>1, PutIsClean
<1> QED
  BY <1>2, PrintTwo

(* The next line begins where the cursor is. *)
LEMMA NewLineShows ==
  ASSUME NEW s, CleanBehind(s)
  PROVE  CleanBehind([s EXCEPT !.from = <<s.row, s.col>>]) /\ Shows([s EXCEPT !.from = <<s.row, s.col>>], <<>>)
<1> DEFINE f == <<s.row, s.col>>
           t == [s EXCEPT !.from = f]
<1>1. s.row \in Nat /\ s.col \in 0 .. Cols /\ Cols \in Nat
  BY ScreenParts, ScreenSize DEF CleanBehind
<1>2. f \in From
  BY <1>1 DEF From
<1>3. PlaceFrom(f, 1) = IF s.col < Cols THEN f ELSE <<s.row + 1, 0>>
  BY <1>1, FirstPlace
<1>4. ScreenTypes(s)
  BY DEF CleanBehind
<1>d. f = <<s.row, s.col>>
  OBVIOUS
<1> HIDE DEF f
<1>5. ScreenTypes(t)
  BY <1>2, <1>4 DEF ScreenTypes
<1>6. t.cell = s.cell /\ t.row = s.row /\ t.col = s.col /\ t.from = f
  BY <1>4 DEF ScreenTypes
<1> HIDE DEF t
<1>7. CleanBehind(t)
  BY <1>5, <1>6 DEF CleanBehind, Behind
<1>8. CursorAt(t, 1)
  BY <1>1, <1>3, <1>6, <1>d DEF CursorAt
<1>9. Shows(t, <<>>)
  BY <1>8 DEF Shows
<1> QED
  BY <1>7, <1>9 DEF t, f

(* A line that loses its last character on the screen and in the buffer.    *)
LEMMA ErasedShows ==
  ASSUME NEW s, CleanBehind(s), NEW line \in Seq(Character), line # <<>>, Shows(s, line),
         ~FullRow(s), s.col # 0
  PROVE  Shows(printf(s, erasing), Front(line))
<1> DEFINE t == printf(s, erasing)
           n == Len(line)
           less == Front(line)
<1>1. n \in Nat /\ n > 0 /\ n - 1 \in Nat /\ Len(less) = n - 1 /\ \A k \in 1 .. n - 1 : less[k] = line[k]
  <2>1. less = SubSeq(line, 1, n - 1)
    BY DEF Front
  <2>2. n \in Nat /\ n > 0 /\ n - 1 \in Nat /\ n - 1 \in Int /\ 1 \in Int
        /\ \A k \in 1 .. n - 1 : line[k] \in Character
    OBVIOUS
  <2> HIDE DEF less, n
  <2>3. /\ Len(SubSeq(line, 1, n - 1)) = IF 1 <= n - 1 THEN n - 1 - 1 + 1 ELSE 0
        /\ \A k \in 1 .. n - 1 - 1 + 1 : SubSeq(line, 1, n - 1)[k] = line[1 + k - 1]
    BY <2>2, SubSeqProperties
  <2>4. n - 1 - 1 + 1 = n - 1 /\ \A k \in 1 .. n - 1 : 1 + k - 1 = k
    BY <2>2
  <2>5. Len(less) = n - 1 /\ \A k \in 1 .. n - 1 : less[k] = line[k]
    BY <2>1, <2>2, <2>3, <2>4
  <2> QED
    BY <2>2, <2>5
<1>S. /\ s.col \in 0 .. Cols /\ s.col \in Nat /\ Cols \in Nat /\ Cols > 0 /\ s.row \in 0 .. Rows - 2
      /\ s.row \in Nat /\ s.from \in From /\ Rows \in Nat /\ s.row <= Rows - 1
  BY ScreenParts, ScreenSize DEF CleanBehind
<1>2. /\ t.row = s.row /\ t.col = s.col - 1 /\ t.from = s.from
      /\ \A p \in Position : p # <<s.row, s.col - 1>> => t.cell[p] = s.cell[p]
  <2>1. s.col > 0
    BY <1>S
  <2> QED
    BY <2>1, ErasingIs
<1> HIDE DEF t, less
<1>3. PlaceFrom(s.from, n + 1) = <<s.row, s.col>>
  <2>1. CursorAt(s, n + 1)
    BY DEF Shows
  <2> QED
    BY <1>S, <2>1 DEF CursorAt, FullRow
<1>4. \A k \in 1 .. n : PlaceFrom(s.from, k)[1] >= 0 => s.cell[PlaceFrom(s.from, k)] = {line[k]}
  BY DEF Shows
<1> HIDE DEF n
<1>5. PlaceFrom(s.from, n) = <<s.row, s.col - 1>>
  <2> DEFINE p == PlaceFrom(s.from, n)
  <2>1. p[1] \in Int /\ p[2] \in 0 .. Cols - 1 /\ p = <<p[1], p[2]>>
    BY <1>1, <1>S, PlaceFacts
  <2>2. PlaceFrom(s.from, n + 1) = IF p[2] + 1 < Cols THEN <<p[1], p[2] + 1>> ELSE <<p[1] + 1, 0>>
    BY <1>1, <1>S, PlaceFacts
  <2> HIDE DEF p
  <2>3. s.row = p[1] /\ s.col = p[2] + 1
    BY <1>3, <1>S, <2>1, <2>2
  <2>4. p = <<s.row, s.col - 1>>
    BY <1>S, <2>1, <2>3
  <2> QED
    BY <2>4 DEF p
<1>6. CursorAt(t, Len(less) + 1)
  <2>1. Len(less) + 1 = n
    BY <1>1
  <2> QED
    BY <1>2, <1>5, <2>1 DEF CursorAt
<1>7. ASSUME NEW k \in 1 .. n - 1, PlaceFrom(s.from, k)[1] >= 0
      PROVE  t.cell[PlaceFrom(s.from, k)] = {less[k]}
  <2> DEFINE p == PlaceFrom(s.from, k)
             z == PlaceFrom(s.from, n)
  <2>1. k \in Nat /\ k > 0 /\ k < n /\ k \in 1 .. n
    BY <1>1
  <2>2. p[1] \in Int /\ p[2] \in 0 .. Cols - 1 /\ p = <<p[1], p[2]>>
    BY <1>S, <2>1, PlaceFacts
  <2>3. p[1] < z[1] \/ (p[1] = z[1] /\ p[2] < z[2])
    BY <1>1, <1>S, <2>1, PlaceOrder
  <2>4. z[1] = s.row /\ z[2] = s.col - 1
    BY <1>5
  <2>5. s.cell[p] = {line[k]} /\ p[1] >= 0
    BY <1>4, <1>7, <2>1
  <2> HIDE DEF p, z
  <2>6. p[1] \in 0 .. Rows - 1 /\ p # <<s.row, s.col - 1>>
    BY <1>S, <2>2, <2>3, <2>4, <2>5
  <2>7. p \in Position
    BY <2>2, <2>6, ScreenSize
  <2>8. t.cell[p] = {less[k]}
    BY <1>1, <1>2, <2>5, <2>6, <2>7
  <2> QED
    BY <2>8 DEF p
<1>8. Shows(t, less)
  BY <1>1, <1>2, <1>6, <1>7 DEF Shows
<1> QED
  BY <1>8 DEF t, less

LEMMA FrontIsLine ==
  ASSUME NEW line \in Seq(Character), line # <<>>
  PROVE  Front(line) \in Seq(Character)
<1>1. Len(line) - 1 \in Int /\ 1 \in Int /\ \A k \in 1 .. Len(line) - 1 : line[k] \in Character
  OBVIOUS
<1>2. SubSeq(line, 1, Len(line) - 1) \in Seq(Character)
  BY <1>1, SubSeqProperties
<1> QED
  BY <1>2 DEF Front

LEMMA KeepsTerminalInv == TerminalInv /\ [TerminalNext]_terminalVars => TerminalInv'
<1> SUFFICES ASSUME TerminalInv, [TerminalNext]_terminalVars PROVE TerminalInv'
  OBVIOUS
<1>0. /\ typed \in Seq(Character \ {Space}) /\ buff \in Seq(Character)
      /\ CleanBehind(screen)
      /\ ~disturbed => Shows(screen, buff)
  BY DEF TerminalInv
<1>k. Newline \in Character \ {Space} /\ Backspace \in Character \ {Space} /\ "zero" \in Character \ {Space}
      /\ "eof" \in Character \ {Space} /\ Space \in Character /\ {"^", "C", "D", "$"} \subseteq Character
  BY DEF Character, Newline, Backspace, Space
<1>t. typed # <<>> => Head(typed) \in Character \ {Space} /\ Tail(typed) \in Seq(Character \ {Space})
  BY <1>0
<1>1. CASE handleSpecialKeys
  BY <1>0, <1>1 DEF handleSpecialKeys, TerminalInv
<1>2. CASE bufferWrite
  <2>1. ASSUME NEW c \in LetterKeys PROVE c \in Character \ {Space} /\ upper(c) \in Character \ {Space}
    BY <2>1, TerminalAssumption DEF Character, upper, Space
  <2>2. \A c \in Character \ {Space} : addToBuffer(c) => typed' \in Seq(Character \ {Space})
    BY <1>0 DEF addToBuffer
  <2>3. typed' \in Seq(Character \ {Space})
    BY <1>2, <1>k, <2>1, <2>2 DEF bufferWrite
  <2> QED
    BY <1>0, <1>2, <2>3 DEF bufferWrite, TerminalInv
<1>3. CASE ctrlKey
  <2>1. typed' \in Seq(Character \ {Space})
    BY <1>0, <1>3, <1>k DEF ctrlKey, addToBuffer
  <2>2. CleanBehind(lineFeed(printf(screen, <<"^", "C">>))) /\ CleanBehind(lineFeed(printf(screen, <<"^", "D">>)))
    BY <1>0, <1>k, PrintTwoIsClean, LineFeedIs
  <2>3. CleanBehind(screen')
    BY <1>3, <2>2 DEF ctrlKey
  <2> QED
    BY <1>0, <1>3, <2>1, <2>3 DEF ctrlKey, TerminalInv
<1>4. CASE readLineEnds
  <2> DEFINE s == printf(screen, <<Newline, "$">>)
  <2>1. CleanBehind(s)
    BY <1>0, <1>k, PrintTwoIsClean
  <2>2. screen' = [s EXCEPT !.from = <<s.row, s.col>>] /\ buff' = <<>>
    BY <1>4 DEF readLineEnds
  <2> HIDE DEF s
  <2>3. CleanBehind(screen') /\ Shows(screen', <<>>)
    BY <2>1, <2>2, NewLineShows
  <2>4. typed' \in Seq(Character \ {Space}) /\ buff' \in Seq(Character)
    BY <1>4, <1>t, <2>2 DEF readLineEnds
  <2> QED
    BY <2>2, <2>3, <2>4 DEF TerminalInv
<1>5. CASE readLineErases
  <2>1. typed' \in Seq(Character \ {Space})
    BY <1>5, <1>t DEF readLineErases, Get
  <2>2. CASE buff = <<>>
    BY <1>0, <1>5, <2>1, <2>2 DEF readLineErases, TerminalInv
  <2>3. CASE buff # <<>>
    <3>1. buff' = Front(buff) /\ screen' = printf(screen, erasing)
          /\ disturbed' = (disturbed \/ FullRow(screen) \/ screen.col = 0)
      BY <1>5, <2>3 DEF readLineErases
    <3>2. buff' \in Seq(Character) /\ CleanBehind(screen')
      BY <1>0, <2>3, <3>1, FrontIsLine, ErasingIs
    <3>3. ~disturbed' => Shows(screen', buff')
      <4> SUFFICES ASSUME ~disturbed' PROVE Shows(printf(screen, erasing), Front(buff))
        BY <3>1
      <4>1. ~disturbed /\ ~FullRow(screen) /\ screen.col # 0
        BY <3>1
      <4> QED
        BY <1>0, <2>3, <4>1, ErasedShows
    <3> QED
      BY <2>1, <3>2, <3>3 DEF TerminalInv
  <2> QED
    BY <2>2, <2>3
<1>6. CASE readLineStores
  <2> DEFINE c == Head(typed)
  <2>1. /\ typed # <<>> /\ typed' = Tail(typed) /\ c \notin {Newline, Backspace}
        /\ buff' = IF c = "zero" THEN buff ELSE Append(buff, c)
        /\ screen' = IF c \in {"zero", "eof"} THEN screen ELSE putChar(screen, c)
        /\ disturbed' = (disturbed \/ c = "eof")
    BY <1>6 DEF readLineStores
  <2>2. typed' \in Seq(Character \ {Space}) /\ c \in Character /\ c # Space
    BY <1>t, <2>1
  <2> HIDE DEF c
  <2>3. buff' \in Seq(Character)
    BY <1>0, <2>1, <2>2
  <2>4. CleanBehind(screen')
    BY <1>0, <2>1, <2>2, PutIsClean
  <2>5. ~disturbed' => Shows(screen', buff')
    <3>1. CASE c = "zero"
      BY <1>0, <2>1, <3>1
    <3>2. CASE c = "eof"
      BY <2>1, <3>2
    <3>3. CASE c \notin {"zero", "eof"}
      <4>1. c \notin NoGlyph /\ c # Newline
        BY <2>1, <2>2 DEF NoGlyph
      <4>2. ~disturbed => Shows(putChar(screen, c), Append(buff, c))
        BY <1>0, <2>2, <4>1, PutContinues
      <4> QED
        BY <2>1, <3>3, <4>2
    <3> QED
      BY <3>1, <3>2, <3>3
  <2> QED
    BY <2>2, <2>3, <2>4, <2>5 DEF TerminalInv
<1>7. CASE UNCHANGED terminalVars
  BY <1>0, <1>7 DEF terminalVars, TerminalInv
<1> QED
  BY <1>1, <1>2, <1>3, <1>4, <1>5, <1>6, <1>7 DEF TerminalNext

(* Until it is disturbed, the screen shows the line that readLine() has     *)
(* stored: every character of it at its place, over the ends of rows and    *)
(* scrolling, the cursor behind it and nothing behind the cursor.           *)
THEOREM EchoIsFaithful == TerminalSpec => []EchoMatchesLine
<1>1. TerminalInv => EchoMatchesLine
  <2> SUFFICES ASSUME TerminalInv, ~disturbed PROVE EchoMatchesLine
    BY DEF EchoMatchesLine
  <2>1. CleanBehind(screen) /\ Shows(screen, buff)
    BY DEF TerminalInv
  <2>2. \A k : Place(k) = PlaceFrom(screen.from, k)
    BY DEF Place, PlaceFrom
  <2>3. \A k \in 1 .. Len(buff) : Place(k)[1] >= 0 => screen.cell[Place(k)] = {buff[k]}
    BY <2>1, <2>2 DEF Shows
  <2>4. \A p \in Position :
          (p[1] > screen.row \/ (p[1] = screen.row /\ p[2] >= screen.col)) => screen.cell[p] = Blank
    BY <2>1 DEF CleanBehind, Behind
  <2>5. screen.col = Cols => FullRow(screen)
    BY ScreenSize DEF FullRow
  <2>6. \/ <<screen.row, screen.col>> = Place(Len(buff) + 1)
        \/ FullRow(screen) /\ Place(Len(buff) + 1) = <<screen.row + 1, 0>>
    BY <2>1, <2>2, <2>5 DEF Shows, CursorAt
  <2> QED
    BY <2>3, <2>4, <2>6 DEF EchoMatchesLine
<1> QED
  BY <1>1, BeginsTerminalInv, KeepsTerminalInv, PTL DEF TerminalSpec

-----------------------------------------------------------------------------
(* The loader. *)
(* Induction over the naturals, for a set instead of a predicate. *)
LEMMA Naturals ==
  ASSUME NEW S, 0 \in S, \A n \in Nat : n \in S => n + 1 \in S
  PROVE  Nat \subseteq S
<1> SUFFICES ASSUME Nat \ S # {}
             PROVE  FALSE
  OBVIOUS
<1>1. IsWellFoundedOn(OpToRel(<, Nat), Nat)
  BY NatLessThanWellFounded
<1>2. PICK m \in Nat \ S : \A k \in Nat \ S : ~(<<k, m>> \in OpToRel(<, Nat))
  BY <1>1, WFMin
<1>3. \A k \in Nat \ S : ~(k < m)
  BY <1>2 DEF OpToRel
<1>4. m - 1 \in Nat /\ m - 1 < m
  OBVIOUS
<1>5. m - 1 \in S
  BY <1>3, <1>4
<1> QED
  BY <1>4, <1>5

(* FlattenSeq() goes from sequence to sequence; the function it does that   *)
(* with exists, and every value of it is the beginning of the later ones.   *)
FlattenedBy(seqs, n, it) == it = [i \in 1 .. n |-> IF i = 1 THEN seqs[i] ELSE it[i - 1] \o seqs[i]]

LEMMA FlattenReach ==
  ASSUME NEW seqs, NEW n \in Nat
  PROVE  \E it : FlattenedBy(seqs, n, it)
<1> DEFINE N == {k \in Nat : \E it : FlattenedBy(seqs, k, it)}
<1>1. 0 \in N
  <2> DEFINE it == [i \in 1 .. 0 |-> seqs[i]]
  <2>1. FlattenedBy(seqs, 0, it)
    BY DEF FlattenedBy
  <2> QED
    BY <2>1
<1>2. ASSUME NEW k \in Nat, k \in N PROVE k + 1 \in N
  <2>1. PICK it : FlattenedBy(seqs, k, it)
    BY <1>2
  <2> DEFINE last == IF k + 1 = 1 THEN seqs[k + 1] ELSE it[k] \o seqs[k + 1]
             jt == [i \in 1 .. k + 1 |-> IF i = k + 1 THEN last ELSE it[i]]
  <2>2. \A i \in 1 .. k : it[i] = IF i = 1 THEN seqs[i] ELSE it[i - 1] \o seqs[i]
    BY <2>1 DEF FlattenedBy
  <2> HIDE DEF last
  <2>3. ASSUME NEW i \in 1 .. k + 1 PROVE jt[i] = IF i = 1 THEN seqs[i] ELSE jt[i - 1] \o seqs[i]
    <3>1. CASE i = k + 1
      <4>1. jt[i] = last /\ i - 1 = k
        BY <3>1
      <4>2. i # 1 => jt[k] = it[k]
        BY <3>1
      <4> QED
        BY <3>1, <4>1, <4>2 DEF last
    <3>2. CASE i # k + 1
      <4>1. i \in 1 .. k /\ jt[i] = it[i] /\ (i # 1 => jt[i - 1] = it[i - 1])
        BY <3>2
      <4> QED
        BY <2>2, <4>1
    <3> QED
      BY <3>1, <3>2
  <2>4. jt = [i \in 1 .. k + 1 |-> jt[i]]
    OBVIOUS
  <2> HIDE DEF jt
  <2>5. FlattenedBy(seqs, k + 1, jt)
    BY <2>3, <2>4 DEF FlattenedBy
  <2> QED
    BY <2>5
<1> HIDE DEF N
<1>3. Nat \subseteq N
  BY <1>1, <1>2, Naturals
<1> QED
  BY <1>3 DEF N

LEMMA FlattenIs ==
  ASSUME NEW seqs, Len(seqs) \in Nat, Len(seqs) # 0
  PROVE  \E it : FlattenedBy(seqs, Len(seqs), it) /\ FlattenSeq(seqs) = it[Len(seqs)]
<1> DEFINE n == Len(seqs)
           IsFlat(it) == it = [i \in 1 .. n |-> IF i = 1 THEN seqs[i] ELSE it[i - 1] \o seqs[i]]
           flat == CHOOSE it : IsFlat(it)
<1>1. FlattenSeq(seqs) = flat[n]
  BY DEF FlattenSeq
<1>2. \E it : IsFlat(it)
  BY FlattenReach DEF FlattenedBy
<1>3. IsFlat(flat)
  BY <1>2
<1> HIDE DEF flat
<1>4. FlattenedBy(seqs, n, flat)
  BY <1>3 DEF FlattenedBy
<1> QED
  BY <1>1, <1>4

BeginsWith(s, t) == Len(t) <= Len(s) /\ \A x \in 1 .. Len(t) : s[x] = t[x]

LEMMA FlattenGrows ==
  ASSUME NEW S, NEW n \in Nat, NEW seqs, \A i \in 1 .. n : seqs[i] \in Seq(S),
         NEW it, FlattenedBy(seqs, n, it)
  PROVE  \A i \in 1 .. n : it[i] \in Seq(S)
<1> DEFINE N == {k \in Nat : k \in 1 .. n => it[k] \in Seq(S)}
<1>0. \A i \in 1 .. n : it[i] = IF i = 1 THEN seqs[i] ELSE it[i - 1] \o seqs[i]
  BY DEF FlattenedBy
<1>1. 0 \in N
  OBVIOUS
<1>2. ASSUME NEW k \in Nat, k \in N PROVE k + 1 \in N
  <2> SUFFICES ASSUME k + 1 \in 1 .. n PROVE it[k + 1] \in Seq(S)
    OBVIOUS
  <2>1. seqs[k + 1] \in Seq(S)
    OBVIOUS
  <2>2. CASE k = 0
    BY <1>0, <2>1, <2>2
  <2>3. CASE k # 0
    <3>1. it[k] \in Seq(S)
      BY <1>2, <2>3
    <3>2. it[k + 1] = it[k] \o seqs[k + 1]
      <4>1. k + 1 # 1 /\ (k + 1) - 1 = k
        BY <2>3
      <4> QED
        BY <1>0, <4>1
    <3> QED
      BY <2>1, <3>1, <3>2
  <2> QED
    BY <2>2, <2>3
<1> HIDE DEF N
<1>3. Nat \subseteq N
  BY <1>1, <1>2, Naturals
<1> QED
  BY <1>3 DEF N

LEMMA FlattenPrefix ==
  ASSUME NEW S, NEW n \in Nat, NEW seqs, \A i \in 1 .. n : seqs[i] \in Seq(S),
         NEW it, FlattenedBy(seqs, n, it), NEW i \in 1 .. n
  PROVE  BeginsWith(it[n], it[i])
<1> DEFINE N == {k \in Nat : i + k <= n => BeginsWith(it[i + k], it[i])}
<1>0. \A j \in 1 .. n : it[j] \in Seq(S)
  BY FlattenGrows
<1>1. 0 \in N
  <2>1. i + 0 = i /\ it[i] \in Seq(S)
    BY <1>0
  <2> QED
    BY <2>1 DEF BeginsWith
<1>2. ASSUME NEW k \in Nat, k \in N PROVE k + 1 \in N
  <2> SUFFICES ASSUME i + (k + 1) <= n PROVE BeginsWith(it[i + (k + 1)], it[i])
    OBVIOUS
  <2> DEFINE j == i + (k + 1)
             a == it[i + k]
             b == it[i]
  <2>1. j \in 1 .. n /\ j # 1 /\ j - 1 = i + k /\ i + k \in 1 .. n
    OBVIOUS
  <2>2. it[j] = a \o seqs[j]
    <3>1. it[j] = IF j = 1 THEN seqs[j] ELSE it[j - 1] \o seqs[j]
      BY <2>1 DEF FlattenedBy
    <3> QED
      BY <2>1, <3>1
  <2>3. a \in Seq(S) /\ b \in Seq(S) /\ seqs[j] \in Seq(S)
    BY <1>0, <2>1
  <2>4. BeginsWith(a, b)
    BY <1>2, <2>1
  <2> HIDE DEF j, a, b
  <2>5. BeginsWith(a \o seqs[j], b)
    BY <2>3, <2>4 DEF BeginsWith
  <2> QED
    BY <2>2, <2>5 DEF j, b
<1> HIDE DEF N
<1>3. Nat \subseteq N
  BY <1>1, <1>2, Naturals
<1>4. n - i \in Nat /\ i + (n - i) = n
  OBVIOUS
<1>5. n - i \in N
  BY <1>3, <1>4
<1> QED
  BY <1>4, <1>5 DEF N
(* Where the payload puts the binaries: o[i] is the address of the size of  *)
(* the i-th, and the binary follows it.                                     *)
Cell == Int \X Int
Packed(sizes, i) == <<<<Number32, sizes[i]>>>> \o write_file(i, sizes[i])

IsLayout(sizes, o) ==
  /\ o \in [1 .. Len(sizes) + 1 -> Nat] /\ o[1] = KernelSize + 1
  /\ \A i \in 1 .. Len(sizes) :
       /\ o[i + 1] = o[i] + 1 + sizes[i] /\ o[i + 1] <= Len(buildImage(sizes))
       /\ buildImage(sizes)[o[i] + 1] = <<Number32, sizes[i]>>
       /\ \A k \in 1 .. sizes[i] : buildImage(sizes)[o[i] + 1 + k] = <<i, k>>

LEMMA LoaderConstants ==
  /\ KernelSize \in Nat /\ KernelBss \in Nat /\ KernelEnd \in Nat /\ KernelSize <= KernelBss
  /\ MemoryEnd \in Nat /\ UserBss \in Nat
  /\ Len(Target) \in Nat /\ Len(Target) >= 1
  /\ \A i \in 1 .. Len(Target) : Target[i] \in 0 .. MemoryEnd /\ Target[i] \in Nat
BY LoaderAssumption

LEMMA SizesAre ==
  ASSUME NEW sizes \in SeqOf(ModuleSizes, Len(Target))
  PROVE  /\ Len(sizes) \in Nat /\ Len(sizes) <= Len(Target)
         /\ \A i \in 1 .. Len(sizes) : sizes[i] \in Nat
<1>1. PICK m \in 0 .. Len(Target) : sizes \in [1 .. m -> ModuleSizes]
  BY DEF SeqOf
<1>2. m \in Nat /\ m <= Len(Target) /\ sizes \in Seq(ModuleSizes)
  BY <1>1, LoaderConstants
<1>3. Len(sizes) = m
  BY <1>1, <1>2
<1> QED
  BY <1>1, <1>2, <1>3, LoaderAssumption

LEMMA Joined ==
  ASSUME NEW S, NEW s \in Seq(S), NEW t \in Seq(S)
  PROVE  /\ s \o t \in Seq(S) /\ Len(s \o t) = Len(s) + Len(t)
         /\ \A x \in 1 .. Len(s) : (s \o t)[x] = s[x]
OBVIOUS

LEMMA JoinedBehind ==
  ASSUME NEW S, NEW s \in Seq(S), NEW t \in Seq(S), NEW x \in 1 .. Len(t)
  PROVE  (s \o t)[Len(s) + x] = t[x]
OBVIOUS

LEMMA FileIs ==
  ASSUME NEW who \in Int, NEW n \in Nat
  PROVE  /\ write_file(who, n) \in Seq(Cell) /\ Len(write_file(who, n)) = n
         /\ \A k \in 1 .. n : write_file(who, n)[k] = <<who, k>>
<1>1. write_file(who, n) = [k \in 1 .. n |-> <<who, k>>]
  BY DEF write_file
<1>2. [k \in 1 .. n |-> <<who, k>>] \in [1 .. n -> Cell]
  BY DEF Cell
<1> QED
  BY <1>1, <1>2

LEMMA PackedIs ==
  ASSUME NEW sizes, NEW i \in Int, sizes[i] \in Nat
  PROVE  /\ Packed(sizes, i) \in Seq(Cell) /\ Len(Packed(sizes, i)) = 1 + sizes[i]
         /\ Packed(sizes, i)[1] = <<Number32, sizes[i]>>
         /\ \A k \in 1 .. sizes[i] : Packed(sizes, i)[1 + k] = <<i, k>>
<1> DEFINE n == sizes[i]
           a == <<<<Number32, n>>>>
           b == write_file(i, n)
<1>1. a \in Seq(Cell) /\ Len(a) = 1 /\ a[1] = <<Number32, n>>
  BY DEF Cell, Number32
<1>2. b \in Seq(Cell) /\ Len(b) = n /\ \A k \in 1 .. n : b[k] = <<i, k>>
  BY FileIs
<1>3. n \in Nat
  OBVIOUS
<1> HIDE DEF a, b, n
<1>4. a \o b \in Seq(Cell) /\ Len(a \o b) = 1 + n /\ (a \o b)[1] = <<Number32, n>>
  <2>1. a \o b \in Seq(Cell) /\ Len(a \o b) = Len(a) + Len(b) /\ \A x \in 1 .. Len(a) : (a \o b)[x] = a[x]
    BY <1>1, <1>2, Joined
  <2> QED
    BY <1>1, <1>2, <1>3, <2>1
<1>5. \A k \in 1 .. n : (a \o b)[1 + k] = <<i, k>>
  <2>0. a \in Seq(Cell) /\ Len(a) = 1 /\ b \in Seq(Cell) /\ Len(b) = n
    BY <1>1, <1>2
  <2> SUFFICES ASSUME NEW k \in 1 .. n PROVE (a \o b)[1 + k] = b[k]
    BY <1>2
  <2>1. (a \o b)[Len(a) + k] = b[k]
    BY <2>0, JoinedBehind
  <2> QED
    BY <2>0, <2>1
<1> QED
  BY <1>4, <1>5 DEF Packed, a, b, n

(* The image: the kernel, a number, and what the binaries were packed to. *)
LEMMA ImageIs ==
  ASSUME NEW sizes, Len(sizes) \in Nat, \A i \in 1 .. Len(sizes) : sizes[i] \in Nat
  PROVE  LET seqs == [i \in 1 .. Len(sizes) |-> Packed(sizes, i)]
             image == buildImage(sizes)
         IN FlattenSeq(seqs) \in Seq(Cell) =>
              /\ image \in Seq(Cell) /\ Len(image) = KernelSize + 1 + Len(FlattenSeq(seqs))
              /\ \A k \in 1 .. KernelSize : image[k] = <<KernelBinary, k>>
              /\ \A x \in 1 .. Len(FlattenSeq(seqs)) : image[KernelSize + 1 + x] = FlattenSeq(seqs)[x]
<1> DEFINE seqs == [i \in 1 .. Len(sizes) |-> Packed(sizes, i)]
           image == buildImage(sizes)
           flat == FlattenSeq(seqs)
           kernel == write_file(KernelBinary, KernelSize)
           count == <<<<Number32, Len(sizes)>>>>
           head == kernel \o count
<1> SUFFICES ASSUME flat \in Seq(Cell)
             PROVE  /\ image \in Seq(Cell) /\ Len(image) = KernelSize + 1 + Len(flat)
                    /\ \A k \in 1 .. KernelSize : image[k] = <<KernelBinary, k>>
                    /\ \A x \in 1 .. Len(flat) : image[KernelSize + 1 + x] = flat[x]
  OBVIOUS
<1>0. KernelSize \in Nat
  BY LoaderConstants
<1>1. image = head \o flat
  BY DEF buildImage, Packed
<1>2. kernel \in Seq(Cell) /\ Len(kernel) = KernelSize /\ \A k \in 1 .. KernelSize : kernel[k] = <<KernelBinary, k>>
  <2>1. KernelBinary \in Int
    BY DEF KernelBinary
  <2> QED
    BY <1>0, <2>1, FileIs
<1>3. count \in Seq(Cell) /\ Len(count) = 1
  BY DEF Cell, Number32
<1> HIDE DEF kernel, count, image, flat
<1>4. head \in Seq(Cell) /\ Len(head) = KernelSize + 1 /\ \A k \in 1 .. KernelSize : head[k] = <<KernelBinary, k>>
  <2>1. head \in Seq(Cell) /\ Len(head) = Len(kernel) + Len(count) /\ \A x \in 1 .. Len(kernel) : head[x] = kernel[x]
    BY <1>2, <1>3, Joined
  <2> QED
    BY <1>0, <1>2, <1>3, <2>1
<1> HIDE DEF head
<1>j. /\ head \o flat \in Seq(Cell) /\ Len(head \o flat) = Len(head) + Len(flat)
      /\ \A x \in 1 .. Len(head) : (head \o flat)[x] = head[x]
  BY <1>4, Joined
<1>h. ASSUME NEW x \in 1 .. Len(flat) PROVE (head \o flat)[Len(head) + x] = flat[x]
  BY <1>4, JoinedBehind
<1>5. image \in Seq(Cell) /\ Len(image) = KernelSize + 1 + Len(flat)
  BY <1>0, <1>1, <1>4, <1>j
<1>6. \A k \in 1 .. KernelSize : image[k] = <<KernelBinary, k>>
  BY <1>0, <1>1, <1>4, <1>j
<1>7. \A x \in 1 .. Len(flat) : image[KernelSize + 1 + x] = flat[x]
  BY <1>1, <1>4, <1>h
<1> QED
  BY <1>5, <1>6, <1>7

LEMMA LayoutExists ==
  ASSUME NEW sizes, Len(sizes) \in Nat, \A i \in 1 .. Len(sizes) : sizes[i] \in Nat
  PROVE  /\ buildImage(sizes) \in Seq(Cell) /\ Len(buildImage(sizes)) >= KernelSize + 1
         /\ \A k \in 1 .. KernelSize : buildImage(sizes)[k] = <<KernelBinary, k>>
         /\ \E o : IsLayout(sizes, o)
<1> DEFINE m == Len(sizes)
           seqs == [i \in 1 .. m |-> Packed(sizes, i)]
           flat == FlattenSeq(seqs)
           image == buildImage(sizes)
<1>0. KernelSize \in Nat /\ m \in Nat /\ \A i \in 1 .. m : sizes[i] \in Nat
  BY LoaderConstants
<1>1. ASSUME NEW i \in 1 .. m
      PROVE  /\ seqs[i] \in Seq(Cell) /\ Len(seqs[i]) = 1 + sizes[i]
             /\ seqs[i][1] = <<Number32, sizes[i]>>
             /\ \A k \in 1 .. sizes[i] : seqs[i][1 + k] = <<i, k>>
  <2>1. seqs[i] = Packed(sizes, i) /\ i \in Int /\ sizes[i] \in Nat
    BY <1>0
  <2> QED
    BY <2>1, PackedIs
<1>2. Len(seqs) = m
  <2>1. seqs \in Seq(Seq(Cell))
    BY <1>0, <1>1
  <2> QED
    BY <1>0, <2>1
<1>3. flat \in Seq(Cell) =>
        /\ image \in Seq(Cell) /\ Len(image) = KernelSize + 1 + Len(flat)
        /\ \A k \in 1 .. KernelSize : image[k] = <<KernelBinary, k>>
        /\ \A x \in 1 .. Len(flat) : image[KernelSize + 1 + x] = flat[x]
  BY <1>0, ImageIs
<1>4. CASE m = 0
  <2> DEFINE o == [i \in 1 .. m + 1 |-> KernelSize + 1]
  <2>1. flat = seqs
    BY <1>2, <1>4 DEF FlattenSeq
  <2>2. seqs \in Seq(Cell)
    BY <1>0, <1>1, <1>4
  <2>3. IsLayout(sizes, o)
    BY <1>0, <1>4 DEF IsLayout
  <2>4. Len(flat) = 0 /\ flat \in Seq(Cell)
    BY <1>2, <1>4, <2>1, <2>2
  <2> HIDE DEF o, flat, seqs
  <2> QED
    BY <1>0, <1>3, <2>3, <2>4
<1>5. CASE m # 0
  <2>1. PICK it : FlattenedBy(seqs, m, it) /\ flat = it[m]
    BY <1>0, <1>2, <1>5, FlattenIs
  <2>2. \A i \in 1 .. m : seqs[i] \in Seq(Cell)
    BY <1>1
  <2>3. \A i \in 1 .. m : it[i] = IF i = 1 THEN seqs[i] ELSE it[i - 1] \o seqs[i]
    BY <2>1 DEF FlattenedBy
  <2> HIDE DEF seqs, flat
  <2>4. \A i \in 1 .. m : it[i] \in Seq(Cell)
    BY <1>0, <2>1, <2>2, FlattenGrows
  <2>5. \A i \in 1 .. m : BeginsWith(flat, it[i])
    BY <1>0, <2>1, <2>2, FlattenPrefix
  <2>6. /\ flat \in Seq(Cell) /\ Len(flat) \in Nat
        /\ image \in Seq(Cell) /\ Len(image) = KernelSize + 1 + Len(flat)
        /\ \A k \in 1 .. KernelSize : image[k] = <<KernelBinary, k>>
        /\ \A x \in 1 .. Len(flat) : image[KernelSize + 1 + x] = flat[x]
    <3>1. flat \in Seq(Cell)
      <4>1. m \in 1 .. m
        BY <1>0, <1>5
      <4> QED
        BY <2>1, <2>4, <4>1
    <3>2. Len(flat) \in Nat
      BY <3>1
    <3> QED
      BY <1>3, <3>1, <3>2
  <2>m. m = Len(sizes)
    OBVIOUS
  <2> HIDE DEF image, m
  <2> DEFINE before == [i \in 1 .. m + 1 |-> IF i = 1 THEN 0 ELSE Len(it[i - 1])]
             o == [i \in 1 .. m + 1 |-> KernelSize + 1 + before[i]]
  <2>7. ASSUME NEW i \in 1 .. m + 1 PROVE before[i] \in Nat /\ o[i] = KernelSize + 1 + before[i]
    <3>1. i # 1 => i - 1 \in 1 .. m
      BY <1>0
    <3>2. i # 1 => Len(it[i - 1]) \in Nat
      BY <2>4, <3>1
    <3> QED
      BY <3>2
  <2>b. before[1] = 0 /\ \A i \in 1 .. m : before[i + 1] = Len(it[i]) /\ (i # 1 => before[i] = Len(it[i - 1]))
    BY <1>0
  <2>c. \A i \in 1 .. m + 1 : before[i] \in Nat
    BY <2>7
  <2> HIDE DEF before
  <2>9. o \in [1 .. m + 1 -> Nat]
    BY <1>0, <2>c
  <2> HIDE DEF o
  <2>8. ASSUME NEW i \in 1 .. m
        PROVE  /\ before[i + 1] = before[i] + 1 + sizes[i] /\ before[i + 1] <= Len(flat)
               /\ flat[before[i] + 1] = <<Number32, sizes[i]>>
               /\ \A k \in 1 .. sizes[i] : flat[before[i] + 1 + k] = <<i, k>>
    <3> DEFINE s == seqs[i]
               t == it[i]
               b == before[i]
    <3>1. s \in Seq(Cell) /\ Len(s) = 1 + sizes[i]
      BY <1>1
    <3>p. s[1] = <<Number32, sizes[i]>> /\ \A k \in 1 .. sizes[i] : s[1 + k] = <<i, k>>
      BY <1>1
    <3>2. before[i + 1] = Len(t) /\ t \in Seq(Cell) /\ sizes[i] \in Nat /\ b \in Nat
      <4>1. i + 1 \in 1 .. m + 1 /\ i + 1 # 1 /\ (i + 1) - 1 = i /\ i \in 1 .. m + 1
        BY <1>0
      <4> QED
        BY <1>0, <2>4, <2>7, <2>b, <4>1
    <3>3. Len(t) = b + Len(s)
      <4>1. CASE i = 1
        BY <2>3, <2>b, <3>1, <4>1
      <4>2. CASE i # 1
        <5>1. i - 1 \in 1 .. m
          BY <1>0, <4>2
        <5>2. it[i - 1] \in Seq(Cell) /\ b = Len(it[i - 1]) /\ t = it[i - 1] \o s
          BY <2>3, <2>4, <2>b, <4>2, <5>1
        <5> DEFINE a == it[i - 1]
        <5>3. a \in Seq(Cell) /\ b = Len(a) /\ t = a \o s /\ s \in Seq(Cell)
          BY <3>1, <5>2
        <5> HIDE DEF a, s, b
        <5>4. Len(a \o s) = Len(a) + Len(s)
          BY <5>3, Joined
        <5> QED
          BY <5>3, <5>4
      <4> QED
        BY <4>1, <4>2
    <3>4. ASSUME NEW x \in 1 .. Len(s) PROVE t[b + x] = s[x]
      <4>1. CASE i = 1
        <5>1. t = s /\ b = 0
          BY <2>3, <2>b, <4>1
        <5> QED
          BY <3>1, <5>1
      <4>2. CASE i # 1
        <5> DEFINE a == it[i - 1]
        <5>1. i - 1 \in 1 .. m
          BY <1>0, <4>2
        <5>2. a \in Seq(Cell)
          BY <2>4, <5>1
        <5>3. b = Len(a) /\ t = a \o s
          BY <2>3, <2>b, <4>2
        <5> HIDE DEF a, s
        <5>4. (a \o s)[Len(a) + x] = s[x]
          BY <3>1, <5>2, JoinedBehind
        <5> QED
          BY <5>3, <5>4
      <4> QED
        BY <4>1, <4>2
    <3>5. Len(t) <= Len(flat)
      BY <2>5 DEF BeginsWith
    <3> HIDE DEF s, t, b
    <3>6. Len(t) = b + 1 + sizes[i]
      <4> DEFINE n == sizes[i]
      <4>1. n \in Nat /\ b \in Nat /\ Len(s) = 1 + n
        BY <3>1, <3>2
      <4> HIDE DEF n
      <4>2. Len(t) = b + 1 + n
        BY <3>3, <4>1
      <4> QED
        BY <4>2 DEF n
    <3>7. ASSUME NEW x \in 1 .. Len(s) PROVE flat[b + x] = s[x]
      <4>1. b + x \in 1 .. Len(t)
        BY <3>1, <3>2, <3>3
      <4>2. flat[b + x] = t[b + x]
        BY <2>5, <4>1 DEF BeginsWith, t
      <4> QED
        BY <3>4, <4>2
    <3>8. flat[b + 1] = <<Number32, sizes[i]>>
      <4>1. 1 \in 1 .. Len(s)
        BY <3>1, <3>2
      <4> QED
        BY <3>7, <3>p, <4>1
    <3>9. ASSUME NEW k \in 1 .. sizes[i] PROVE flat[b + 1 + k] = <<i, k>>
      <4>1. 1 + k \in 1 .. Len(s) /\ b + (1 + k) = b + 1 + k
        BY <3>1, <3>2
      <4>2. flat[b + (1 + k)] = s[1 + k]
        BY <3>7, <4>1
      <4> QED
        BY <3>p, <4>1, <4>2
    <3>10. before[i + 1] = before[i] + 1 + sizes[i] /\ before[i + 1] <= Len(flat)
      BY <3>2, <3>5, <3>6 DEF b
    <3> QED
      BY <3>8, <3>9, <3>10 DEF b
  <2>10. ASSUME NEW i \in 1 .. m
         PROVE  /\ o[i + 1] = o[i] + 1 + sizes[i] /\ o[i + 1] <= Len(image)
                /\ image[o[i] + 1] = <<Number32, sizes[i]>>
                /\ \A k \in 1 .. sizes[i] : image[o[i] + 1 + k] = <<i, k>>
    <3> DEFINE n == sizes[i]
    <3>1. i + 1 \in 1 .. m + 1 /\ i \in 1 .. m + 1 /\ n \in Nat
      BY <1>0
    <3>k. flat[before[i] + 1] = <<Number32, n>> /\ \A k \in 1 .. n : flat[before[i] + 1 + k] = <<i, k>>
      BY <2>8
    <3>2. /\ before[i] \in Nat /\ o[i] = KernelSize + 1 + before[i]
          /\ before[i + 1] \in Nat /\ o[i + 1] = KernelSize + 1 + before[i + 1]
      BY <2>7, <3>1
    <3>3. before[i + 1] = before[i] + 1 + n /\ before[i + 1] <= Len(flat)
      BY <2>8
    <3> HIDE DEF n
    <3>0. KernelSize \in Nat /\ Len(flat) \in Nat /\ Len(image) = KernelSize + 1 + Len(flat)
      BY <1>0, <2>6
    <3>4. o[i + 1] = o[i] + 1 + n /\ o[i + 1] <= Len(image)
      BY <3>0, <3>1, <3>2, <3>3
    <3>5. ASSUME NEW x \in 1 .. 1 + n PROVE image[o[i] + x] = flat[before[i] + x]
      <4>1. before[i] + x \in 1 .. Len(flat) /\ KernelSize + 1 + (before[i] + x) = o[i] + x
        <5> DEFINE b == before[i]
                   l == Len(flat)
        <5>1. b \in Nat /\ l \in Nat /\ b + 1 + n <= l /\ o[i] = KernelSize + 1 + b
          BY <3>0, <3>2, <3>3
        <5> HIDE DEF b, l
        <5>2. b + x \in 1 .. l
          BY <3>1, <5>1
        <5>3. KernelSize + 1 + (b + x) = o[i] + x
          BY <3>0, <3>1, <5>1
        <5> QED
          BY <5>2, <5>3 DEF b, l
      <4>2. image[KernelSize + 1 + (before[i] + x)] = flat[before[i] + x]
        BY <2>6, <4>1
      <4> QED
        BY <4>1, <4>2
    <3>6. image[o[i] + 1] = <<Number32, n>>
      <4>1. 1 \in 1 .. 1 + n
        BY <3>1
      <4> QED
        BY <3>5, <3>k, <4>1
    <3>7. ASSUME NEW k \in 1 .. n PROVE image[o[i] + 1 + k] = <<i, k>>
      <4>1. 1 + k \in 1 .. 1 + n /\ o[i] + (1 + k) = o[i] + 1 + k
            /\ before[i] + (1 + k) = before[i] + 1 + k
        BY <3>0, <3>1, <3>2
      <4>2. image[o[i] + (1 + k)] = flat[before[i] + (1 + k)]
        BY <3>5, <4>1
      <4>3. flat[before[i] + 1 + k] = <<i, k>>
        BY <3>k
      <4> QED
        BY <4>1, <4>2, <4>3
    <3> QED
      BY <3>4, <3>6, <3>7 DEF n
  <2>11. o[1] = KernelSize + 1
    <3>1. 1 \in 1 .. m + 1
      BY <1>0
    <3> QED
      BY <1>0, <2>7, <2>b, <3>1
  <2>12. IsLayout(sizes, o)
    BY <2>9, <2>10, <2>11 DEF IsLayout, image, m
  <2> QED
    BY <1>0, <2>6, <2>12 DEF image
<1> QED
  BY <1>4, <1>5

(* The places that the modules and the BSS of the first go to are apart.    *)
Fits(sizes) ==
  /\ Len(buildImage(sizes)) <= Target[1] /\ KernelEnd <= Target[1]
  /\ \A i \in 1 .. Len(sizes) :
       Target[i] + sizes[i] + (IF i = 1 THEN UserBss ELSE 0)
         <= (IF i = Len(Target) THEN MemoryEnd ELSE Target[i + 1])

Tail1(i) == IF i = 1 THEN UserBss ELSE 0

LEMMA FitsInside ==
  ASSUME NEW sizes \in SeqOf(ModuleSizes, Len(Target)), Fits(sizes), NEW i \in 1 .. Len(sizes)
  PROVE  /\ i \in 1 .. Len(Target) /\ Target[i] \in Nat /\ Target[1] \in Nat /\ sizes[i] \in Nat
         /\ Tail1(i) \in Nat /\ Target[1] <= Target[i] /\ Target[i] + sizes[i] + Tail1(i) <= MemoryEnd
<1>1. Len(sizes) \in Nat /\ Len(sizes) <= Len(Target) /\ sizes[i] \in Nat
  BY SizesAre
<1>2. Len(Target) \in Nat /\ Len(Target) >= 1 /\ MemoryEnd \in Nat /\ UserBss \in Nat
      /\ \A j \in 1 .. Len(Target) : Target[j] \in 0 .. MemoryEnd /\ Target[j] \in Nat
  BY LoaderConstants
<1>3. i \in 1 .. Len(Target) /\ 1 \in 1 .. Len(Target)
  BY <1>1, <1>2
<1>4. Target[i] \in Nat /\ Target[1] \in Nat /\ Tail1(i) \in Nat
  BY <1>2, <1>3 DEF Tail1
<1>5. Target[1] <= Target[i]
  <2>1. CASE i = 1
    BY <1>4, <2>1
  <2>2. CASE i # 1
    <3>1. Target[1] < Target[i]
      BY <1>3, <2>2, LoaderAssumption
    <3> QED
      BY <1>4, <3>1
  <2> QED
    BY <2>1, <2>2
<1>6. Target[i] + sizes[i] + Tail1(i) <= MemoryEnd
  <2> DEFINE end == Target[i] + sizes[i] + Tail1(i)
  <2>0. end \in Int
    BY <1>1, <1>4
  <2>1. end <= (IF i = Len(Target) THEN MemoryEnd ELSE Target[i + 1])
    BY DEF Fits, Tail1
  <2> HIDE DEF end
  <2>2. CASE i = Len(Target)
    BY <2>1, <2>2 DEF end
  <2>3. CASE i # Len(Target)
    <3>1. i + 1 \in 1 .. Len(Target)
      BY <1>2, <1>3, <2>3
    <3>2. Target[i + 1] <= MemoryEnd /\ Target[i + 1] \in Nat
      BY <1>2, <3>1
    <3>3. end <= MemoryEnd
      BY <1>2, <2>0, <2>1, <2>3, <3>2
    <3> QED
      BY <3>3 DEF end
  <2> QED
    BY <2>2, <2>3
<1> QED
  BY <1>1, <1>3, <1>4, <1>5, <1>6

LEMMA FitsApart ==
  ASSUME NEW sizes \in SeqOf(ModuleSizes, Len(Target)), Fits(sizes),
         NEW i \in 1 .. Len(sizes), NEW j \in 1 .. Len(Target), i < j
  PROVE  Target[i] + sizes[i] + Tail1(i) <= Target[j]
<1>1. Len(sizes) \in Nat /\ Len(sizes) <= Len(Target) /\ sizes[i] \in Nat
  BY SizesAre
<1>2. Len(Target) \in Nat /\ UserBss \in Nat
      /\ \A k \in 1 .. Len(Target) : Target[k] \in Nat
  BY LoaderConstants
<1>3. i + 1 \in 1 .. Len(Target) /\ i # Len(Target) /\ i \in 1 .. Len(Target)
  BY <1>1, <1>2
<1>4. Target[i + 1] <= Target[j]
  <2>1. CASE i + 1 = j
    BY <1>2, <2>1
  <2>2. CASE i + 1 # j
    <3>1. i + 1 < j
      BY <1>3, <2>2
    <3>2. Target[i + 1] < Target[j]
      BY <1>3, <3>1, LoaderAssumption
    <3> QED
      BY <1>2, <1>3, <3>2
  <2> QED
    BY <2>1, <2>2
<1> DEFINE end == Target[i] + sizes[i] + Tail1(i)
<1>5. end <= Target[i + 1]
  BY <1>3 DEF Fits, Tail1
<1>6. end \in Int /\ Target[i + 1] \in Nat /\ Target[j] \in Nat
  BY <1>1, <1>2, <1>3 DEF Tail1
<1> HIDE DEF end
<1>7. end <= Target[j]
  BY <1>4, <1>5, <1>6
<1> QED
  BY <1>7 DEF end

(* The inductive invariant: while the loader is at work the payload and the *)
(* kernel lie where they were put, its cursor is at the size or at the      *)
(* binary of the module it is about to copy, and what it has copied is in   *)
(* place; and what is in place stays there when the BSS is cleared.         *)
Spot(i, k) == Target[i] + k - 1
IsCopied(i, k) == i < moduleIndex \/ (i = moduleIndex /\ bootPhase = "copy" /\ k <= copied)

CursorIs(o) ==
  /\ moduleIndex \in 1 .. Len(modules) + 1
  /\ bootPhase \in {"size", "copy"} => moduleIndex \in 1 .. Len(modules)
  /\ bootPhase \in {"loaded", "main", "user"} => moduleIndex = Len(modules) + 1
  /\ bootPhase = "size" => currentModule = o[moduleIndex]
  /\ bootPhase = "copy" => /\ currentModule = o[moduleIndex] + 1
                           /\ moduleSize = modules[moduleIndex] /\ copied \in 0 .. moduleSize
PayloadLies ==
  bootPhase \notin {"main", "user"} =>
    \A a \in 0 .. Len(buildImage(modules)) - 1 : memory[a] = buildImage(modules)[a + 1]
KernelLies == \A k \in 1 .. KernelSize : memory[k - 1] = <<KernelBinary, k>>
CopiesLie == \A i \in 1 .. Len(modules) : \A k \in 1 .. modules[i] : IsCopied(i, k) => memory[Spot(i, k)] = <<i, k>>
BssClear ==
  /\ bootPhase \in {"main", "user"} => \A a \in KernelBss .. KernelEnd - 1 : memory[a] = Rest
  /\ bootPhase = "user" =>
       \A a \in Target[1] + modules[1] .. Target[1] + modules[1] + UserBss - 1 : memory[a] = Rest

LoaderInv ==
  /\ modules \in SeqOf(ModuleSizes, Len(Target))
  /\ bootPhase \in {"size", "copy", "loaded", "main", "user"}
  /\ bootPhase = "user" => modules # <<>>
  /\ Fits(modules) =>
       /\ memory = [a \in 0 .. MemoryEnd + UserBss |-> memory[a]]
       /\ \E o : IsLayout(modules, o) /\ CursorIs(o)
       /\ PayloadLies /\ KernelLies /\ CopiesLie /\ BssClear

LEMMA LoaderInvImplies == LoaderInv => ModulesAreInPlace
<1> SUFFICES ASSUME LoaderInv, ImageFits, bootPhase \in {"main", "user"}
             PROVE  /\ \A i \in 1 .. Len(modules) : \A k \in 1 .. modules[i] : memory[Target[i] + k - 1] = <<i, k>>
                    /\ \A k \in 1 .. KernelSize : memory[k - 1] = <<KernelBinary, k>>
                    /\ \A a \in KernelBss .. KernelEnd - 1 : memory[a] = Rest
                    /\ bootPhase = "user" =>
                         \A a \in Target[1] + modules[1] .. Target[1] + modules[1] + UserBss - 1 : memory[a] = Rest
  BY DEF ModulesAreInPlace
<1>1. Fits(modules)
  BY DEF ImageFits, Fits
<1>2. KernelLies /\ CopiesLie /\ BssClear
  BY <1>1 DEF LoaderInv
<1>3. moduleIndex = Len(modules) + 1 /\ Len(modules) \in Nat
  BY <1>1, SizesAre DEF LoaderInv, CursorIs
<1>4. \A i \in 1 .. Len(modules) : \A k \in 1 .. modules[i] : memory[Target[i] + k - 1] = <<i, k>>
  <2>1. \A i \in 1 .. Len(modules) : i < moduleIndex
    BY <1>3
  <2> QED
    BY <1>2, <2>1 DEF CopiesLie, IsCopied, Spot
<1> QED
  BY <1>2, <1>4 DEF KernelLies, BssClear

LEMMA BeginsLoaderInv == LoaderInit => LoaderInv
<1> SUFFICES ASSUME LoaderInit PROVE LoaderInv
  OBVIOUS
<1>1. PICK sizes \in SeqOf(ModuleSizes, Len(Target)) :
        /\ modules = sizes
        /\ memory = [a \in 0 .. MemoryEnd + UserBss |->
                       IF a < Len(buildImage(sizes)) THEN buildImage(sizes)[a + 1] ELSE Rest]
        /\ currentModule = endOfKernelBinary + 1
        /\ moduleIndex = 1 /\ moduleSize = 0 /\ copied = 0
        /\ bootPhase = IF sizes = <<>> THEN "loaded" ELSE "size"
  BY DEF LoaderInit
<1> DEFINE image == buildImage(modules)
<1>2. Len(modules) \in Nat /\ \A i \in 1 .. Len(modules) : modules[i] \in Nat
  BY <1>1, SizesAre
<1>3. /\ image \in Seq(Cell) /\ Len(image) >= KernelSize + 1
      /\ \A k \in 1 .. KernelSize : image[k] = <<KernelBinary, k>>
      /\ \E o : IsLayout(modules, o)
  BY <1>2, LayoutExists
<1>n. (modules = <<>>) <=> (Len(modules) = 0)
  <2>1. modules \in Seq(ModuleSizes)
    <3>1. PICK m \in 0 .. Len(Target) : modules \in [1 .. m -> ModuleSizes]
      BY <1>1 DEF SeqOf
    <3>2. m \in Nat
      BY <3>1, LoaderConstants
    <3> QED
      BY <3>1, <3>2
  <2> QED
    BY <2>1
<1>4. /\ memory = [a \in 0 .. MemoryEnd + UserBss |-> IF a < Len(image) THEN image[a + 1] ELSE Rest]
      /\ currentModule = KernelSize + 1 /\ moduleIndex = 1
      /\ bootPhase = IF Len(modules) = 0 THEN "loaded" ELSE "size"
  BY <1>1, <1>n DEF endOfKernelBinary
<1> HIDE DEF image
<1>5. ASSUME Fits(modules)
      PROVE  /\ memory = [a \in 0 .. MemoryEnd + UserBss |-> memory[a]]
             /\ \E o : IsLayout(modules, o) /\ CursorIs(o)
             /\ PayloadLies /\ KernelLies /\ CopiesLie /\ BssClear
  <2>0. /\ KernelSize \in Nat /\ MemoryEnd \in Nat /\ UserBss \in Nat
        /\ Len(image) \in Nat /\ Len(image) <= Target[1] /\ Target[1] \in 0 .. MemoryEnd
    BY <1>3, <1>5, LoaderConstants DEF Fits, image
  <2>1. \A a \in 0 .. Len(image) - 1 : memory[a] = image[a + 1]
    <3> SUFFICES ASSUME NEW a \in 0 .. Len(image) - 1 PROVE memory[a] = image[a + 1]
      OBVIOUS
    <3>1. a \in 0 .. MemoryEnd + UserBss /\ a < Len(image)
      BY <2>0
    <3> QED
      BY <1>4, <3>1
  <2>2. KernelLies
    <3> SUFFICES ASSUME NEW k \in 1 .. KernelSize PROVE memory[k - 1] = <<KernelBinary, k>>
      BY DEF KernelLies
    <3>1. k - 1 \in 0 .. Len(image) - 1 /\ k - 1 + 1 = k
      BY <1>3, <2>0
    <3> QED
      BY <1>3, <2>1, <3>1
  <2>3. PICK o : IsLayout(modules, o)
    BY <1>3
  <2>4. o[1] = KernelSize + 1
    BY <2>3 DEF IsLayout
  <2>5. CursorIs(o)
    BY <1>2, <1>4, <2>4 DEF CursorIs
  <2>6. CopiesLie
    BY <1>4 DEF CopiesLie, IsCopied
  <2>7. BssClear
    BY <1>4 DEF BssClear
  <2>8. PayloadLies
    BY <2>1 DEF PayloadLies, image
  <2>9. memory = [a \in 0 .. MemoryEnd + UserBss |-> memory[a]]
    BY <1>4
  <2> QED
    BY <2>2, <2>3, <2>5, <2>6, <2>7, <2>8, <2>9
<1>6. modules \in SeqOf(ModuleSizes, Len(Target)) /\ bootPhase \in {"size", "loaded"}
  BY <1>1, <1>4
<1> QED
  BY <1>5, <1>6 DEF LoaderInv

LEMMA LoaderInvIs ==
  ASSUME LoaderInv, Fits(modules)
  PROVE  /\ memory = [a \in 0 .. MemoryEnd + UserBss |-> memory[a]]
         /\ \E o : IsLayout(modules, o) /\ CursorIs(o)
         /\ PayloadLies /\ KernelLies /\ CopiesLie /\ BssClear
         /\ modules \in SeqOf(ModuleSizes, Len(Target)) /\ Len(modules) \in Nat
         /\ KernelSize \in Nat /\ MemoryEnd \in Nat /\ UserBss \in Nat /\ Target[1] \in Nat
         /\ Len(buildImage(modules)) \in Nat /\ Len(buildImage(modules)) >= KernelSize + 1
         /\ Len(buildImage(modules)) <= Target[1] /\ KernelEnd <= Target[1] /\ KernelEnd \in Nat
<1>1. Len(modules) \in Nat /\ \A i \in 1 .. Len(modules) : modules[i] \in Nat
  BY SizesAre DEF LoaderInv
<1>2. buildImage(modules) \in Seq(Cell) /\ Len(buildImage(modules)) >= KernelSize + 1
  BY <1>1, LayoutExists
<1>3. Len(buildImage(modules)) \in Nat
  BY <1>2
<1>4. 1 \in 1 .. Len(Target)
  BY LoaderConstants
<1> QED
  BY <1>1, <1>2, <1>3, <1>4, LoaderConstants DEF LoaderInv, Fits

LEMMA ReadSizeKeeps ==
  ASSUME LoaderInv, ReadSize
  PROVE  LoaderInv'
<1>1. /\ bootPhase = "size" /\ bootPhase' = "copy" /\ moduleSize' = memory[currentModule][2]
      /\ currentModule' = currentModule + 1 /\ copied' = 0
      /\ modules' = modules /\ memory' = memory /\ moduleIndex' = moduleIndex
  BY DEF ReadSize
<1>2. ASSUME Fits(modules)
      PROVE  /\ memory = [a \in 0 .. MemoryEnd + UserBss |-> memory[a]]
             /\ \E o : IsLayout(modules, o) /\ CursorIs(o)'
             /\ PayloadLies' /\ KernelLies' /\ CopiesLie' /\ BssClear'
  <2>0. /\ memory = [a \in 0 .. MemoryEnd + UserBss |-> memory[a]]
        /\ PayloadLies /\ KernelLies /\ CopiesLie /\ BssClear
        /\ modules \in SeqOf(ModuleSizes, Len(Target)) /\ Len(modules) \in Nat
        /\ Len(buildImage(modules)) \in Nat /\ KernelSize \in Nat
    BY <1>2, LoaderInvIs
  <2>1. PICK o : IsLayout(modules, o) /\ CursorIs(o)
    BY <1>2, LoaderInvIs
  <2> DEFINE i == moduleIndex
             image == buildImage(modules)
             n == modules[i]
             p == o[i]
  <2>2. i \in 1 .. Len(modules) /\ currentModule = p
    BY <1>1, <2>1 DEF CursorIs
  <2>3. n \in Nat
    BY <2>0, <2>2, SizesAre
  <2>4. p \in Nat /\ o[i + 1] = p + 1 + n /\ o[i + 1] <= Len(image) /\ image[p + 1] = <<Number32, n>>
    <3>1. i \in 1 .. Len(modules) + 1
      BY <2>0, <2>2
    <3> QED
      BY <2>1, <2>2, <3>1 DEF IsLayout
  <2>l. Len(image) \in Nat
    BY <2>0
  <2> HIDE DEF i, image, n, p
  <2>5. p \in 0 .. Len(image) - 1
    BY <2>3, <2>4, <2>l
  <2>6. memory[p] = <<Number32, n>>
    BY <1>1, <2>0, <2>4, <2>5 DEF PayloadLies, image
  <2>7. moduleSize' = n /\ currentModule' = p + 1
    BY <1>1, <2>2, <2>6
  <2>8. CursorIs(o)'
    <3>1. i \in 1 .. Len(modules) + 1
      BY <2>0, <2>2
    <3>2. 0 \in 0 .. n
      BY <2>3
    <3> QED
      BY <1>1, <2>2, <2>7, <3>1, <3>2 DEF CursorIs, i, n, p
  <2>9. CopiesLie'
    <3> SUFFICES ASSUME NEW j \in 1 .. Len(modules), NEW k \in 1 .. modules[j], IsCopied(j, k)'
                 PROVE  memory[Spot(j, k)] = <<j, k>>
      BY <1>1 DEF CopiesLie, Spot
    <3>1. modules[j] \in Nat
      BY <2>0, SizesAre
    <3>2. ~(k <= 0)
      BY <3>1
    <3>3. IsCopied(j, k)
      BY <1>1, <3>2 DEF IsCopied
    <3> QED
      BY <2>0, <3>3 DEF CopiesLie
  <2> QED
    BY <1>1, <2>0, <2>1, <2>8, <2>9 DEF PayloadLies, KernelLies, BssClear
<1>3. modules' \in SeqOf(ModuleSizes, Len(Target)) /\ bootPhase' = "copy"
  BY <1>1 DEF LoaderInv
<1> QED
  BY <1>1, <1>2, <1>3 DEF LoaderInv

LEMMA NextModuleKeeps ==
  ASSUME LoaderInv, NextModule
  PROVE  LoaderInv'
<1>1. /\ bootPhase = "copy" /\ copied = moduleSize /\ currentModule' = currentModule + moduleSize
      /\ moduleIndex' = moduleIndex + 1
      /\ bootPhase' = (IF moduleIndex = Len(modules) THEN "loaded" ELSE "size")
      /\ modules' = modules /\ memory' = memory /\ moduleSize' = moduleSize /\ copied' = copied
  BY DEF NextModule, stepOver, lastModule
<1>2. ASSUME Fits(modules)
      PROVE  /\ memory = [a \in 0 .. MemoryEnd + UserBss |-> memory[a]]
             /\ \E o : IsLayout(modules, o) /\ CursorIs(o)'
             /\ PayloadLies' /\ KernelLies' /\ CopiesLie' /\ BssClear'
  <2>0. /\ memory = [a \in 0 .. MemoryEnd + UserBss |-> memory[a]]
        /\ PayloadLies /\ KernelLies /\ CopiesLie /\ BssClear
        /\ modules \in SeqOf(ModuleSizes, Len(Target)) /\ Len(modules) \in Nat
    BY <1>2, LoaderInvIs
  <2>1. PICK o : IsLayout(modules, o) /\ CursorIs(o)
    BY <1>2, LoaderInvIs
  <2> DEFINE i == moduleIndex
             n == modules[i]
             p == o[i]
  <2>2. i \in 1 .. Len(modules) /\ currentModule = p + 1 /\ moduleSize = n
    BY <1>1, <2>1 DEF CursorIs
  <2>3. n \in Nat
    BY <2>0, <2>2, SizesAre
  <2>4. p \in Nat /\ o[i + 1] = p + 1 + n
    <3>1. i \in 1 .. Len(modules) + 1
      BY <2>0, <2>2
    <3> QED
      BY <2>1, <2>2, <3>1 DEF IsLayout
  <2>5. i + 1 \in 1 .. Len(modules) + 1 /\ (i = Len(modules) <=> i + 1 = Len(modules) + 1)
        /\ (i # Len(modules) => i + 1 \in 1 .. Len(modules))
    BY <2>0, <2>2
  <2> HIDE DEF i, n, p
  <2>6. currentModule' = o[i + 1] /\ moduleIndex' = i + 1
    BY <1>1, <2>2, <2>3, <2>4 DEF i
  <2>8. CursorIs(o)'
    <3>1. CASE i = Len(modules)
      <4>1. bootPhase' = "loaded"
        BY <1>1, <3>1 DEF i
      <4> QED
        BY <1>1, <2>5, <2>6, <3>1, <4>1 DEF CursorIs
    <3>2. CASE i # Len(modules)
      <4>1. bootPhase' = "size"
        BY <1>1, <3>2 DEF i
      <4> QED
        BY <1>1, <2>5, <2>6, <3>2, <4>1 DEF CursorIs
    <3> QED
      BY <3>1, <3>2
  <2>9. CopiesLie'
    <3> SUFFICES ASSUME NEW j \in 1 .. Len(modules), NEW k \in 1 .. modules[j], IsCopied(j, k)'
                 PROVE  memory[Spot(j, k)] = <<j, k>>
      BY <1>1 DEF CopiesLie, Spot
    <3>1. j < i + 1
      BY <1>1 DEF IsCopied, i
    <3>2. j < i \/ j = i
      BY <2>0, <2>2, <3>1
    <3>3. IsCopied(j, k)
      <4>1. CASE j = i
        <5>1. modules[j] = n
          BY <4>1 DEF n
        <5>2. k <= copied
          BY <1>1, <2>2, <2>3, <5>1
        <5> QED
          BY <1>1, <4>1, <5>2 DEF IsCopied, i
      <4> QED
        BY <3>2, <4>1 DEF IsCopied, i
    <3> QED
      BY <2>0, <3>3 DEF CopiesLie
  <2> QED
    BY <1>1, <2>0, <2>1, <2>8, <2>9 DEF PayloadLies, KernelLies, BssClear
<1>3. modules' \in SeqOf(ModuleSizes, Len(Target)) /\ bootPhase' \in {"loaded", "size"}
  BY <1>1 DEF LoaderInv
<1> QED
  BY <1>1, <1>2, <1>3 DEF LoaderInv

LEMMA CopyCellKeeps ==
  ASSUME LoaderInv, CopyCell
  PROVE  LoaderInv'
<1>1. /\ bootPhase = "copy" /\ copied < moduleSize /\ copied' = copied + 1
      /\ memory' = [memory EXCEPT ![Target[moduleIndex] + copied] = memory[currentModule + copied]]
      /\ modules' = modules /\ currentModule' = currentModule /\ moduleIndex' = moduleIndex
      /\ moduleSize' = moduleSize /\ bootPhase' = bootPhase
  BY DEF CopyCell
<1>2. ASSUME Fits(modules)
      PROVE  /\ memory' = [a \in 0 .. MemoryEnd + UserBss |-> memory'[a]]
             /\ \E o : IsLayout(modules, o) /\ CursorIs(o)'
             /\ PayloadLies' /\ KernelLies' /\ CopiesLie' /\ BssClear'
  <2>0. /\ memory = [a \in 0 .. MemoryEnd + UserBss |-> memory[a]]
        /\ PayloadLies /\ KernelLies /\ CopiesLie /\ BssClear
        /\ modules \in SeqOf(ModuleSizes, Len(Target)) /\ Len(modules) \in Nat
        /\ KernelSize \in Nat /\ MemoryEnd \in Nat /\ UserBss \in Nat /\ Target[1] \in Nat
        /\ Len(buildImage(modules)) \in Nat /\ Len(buildImage(modules)) >= KernelSize + 1
        /\ Len(buildImage(modules)) <= Target[1]
    BY <1>2, LoaderInvIs
  <2>1. PICK o : IsLayout(modules, o) /\ CursorIs(o)
    BY <1>2, LoaderInvIs
  <2> DEFINE i == moduleIndex
             image == buildImage(modules)
             n == modules[i]
             p == o[i]
             to == Target[i]
             x == to + copied
             c == currentModule + copied
  <2>2. i \in 1 .. Len(modules) /\ currentModule = p + 1 /\ moduleSize = n /\ copied \in 0 .. n
    BY <1>1, <2>1 DEF CursorIs
  <2>3. n \in Nat /\ to \in Nat /\ Tail1(i) \in Nat /\ Target[1] <= to /\ to + n + Tail1(i) <= MemoryEnd
    BY <1>2, <2>0, <2>2, FitsInside
  <2>4. p \in Nat /\ o[i + 1] = p + 1 + n /\ o[i + 1] <= Len(image)
        /\ \A k \in 1 .. n : image[p + 1 + k] = <<i, k>>
    <3>1. i \in 1 .. Len(modules) + 1
      BY <2>0, <2>2
    <3> QED
      BY <2>1, <2>2, <3>1 DEF IsLayout
  <2>l. Len(image) \in Nat /\ Len(image) <= Target[1] /\ KernelSize + 1 <= Len(image)
    BY <2>0
  <2>m. memory' = [memory EXCEPT ![x] = memory[c]]
    BY <1>1
  <2>d. x = to + copied /\ c = currentModule + copied
    OBVIOUS
  <2> HIDE DEF i, image, n, p, to, x, c
  <2>5. copied \in Nat /\ copied < n /\ copied + 1 \in 1 .. n
    BY <1>1, <2>2, <2>3
  <2>6. x \in 0 .. MemoryEnd + UserBss /\ x >= Target[1] /\ x \in Nat
    <3> DEFINE t == Tail1(i)
               low == Target[1]
    <3>1. low \in Nat /\ t \in Nat /\ to + n + t <= MemoryEnd /\ low <= to /\ MemoryEnd \in Nat /\ UserBss \in Nat
      BY <2>0, <2>3
    <3> HIDE DEF t, low
    <3>2. x \in Nat /\ x >= low /\ x <= MemoryEnd
      BY <2>3, <2>5, <2>d, <3>1
    <3> QED
      BY <3>1, <3>2 DEF low
  <2>7. c \in 0 .. Len(image) - 1 /\ c + 1 = p + 1 + (copied + 1)
    BY <2>2, <2>3, <2>4, <2>5, <2>d, <2>l
  <2>8. memory[c] = <<i, copied + 1>>
    <3>1. memory[c] = image[c + 1]
      BY <1>1, <2>0, <2>7 DEF PayloadLies, image
    <3> QED
      BY <2>4, <2>5, <2>7, <3>1
  <2>9. /\ memory' = [a \in 0 .. MemoryEnd + UserBss |-> memory'[a]]
        /\ memory'[x] = <<i, copied + 1>>
    BY <2>0, <2>6, <2>8, <2>m
  <2>10. \A a \in 0 .. MemoryEnd + UserBss : a # x => memory'[a] = memory[a]
    BY <2>0, <2>m
  <2>11. \A a \in 0 .. Len(image) - 1 : memory'[a] = memory[a]
    <3> SUFFICES ASSUME NEW a \in 0 .. Len(image) - 1 PROVE memory'[a] = memory[a]
      OBVIOUS
    <3> DEFINE low == Target[1]
               l == Len(image)
    <3>0. low \in Nat /\ x >= low /\ l <= low /\ l \in Nat /\ a \in 0 .. l - 1 /\ x <= MemoryEnd + UserBss
          /\ MemoryEnd + UserBss \in Nat /\ x \in Nat
      BY <2>0, <2>6, <2>l
    <3> HIDE DEF low, l
    <3>1. a \in 0 .. MemoryEnd + UserBss /\ a # x
      BY <3>0
    <3> QED
      BY <2>10, <3>1
  <2>12. PayloadLies'
    <3>1. bootPhase' \notin {"main", "user"} /\ bootPhase \notin {"main", "user"}
      BY <1>1
    <3>2. \A a \in 0 .. Len(image) - 1 : memory[a] = image[a + 1]
      BY <2>0, <3>1 DEF PayloadLies, image
    <3> QED
      BY <1>1, <2>11, <3>2 DEF PayloadLies, image
  <2>13. KernelLies'
    <3> SUFFICES ASSUME NEW k \in 1 .. KernelSize PROVE memory'[k - 1] = <<KernelBinary, k>>
      BY DEF KernelLies
    <3>1. k - 1 \in 0 .. Len(image) - 1
      BY <2>0, <2>l
    <3> QED
      BY <2>0, <2>11, <3>1 DEF KernelLies
  <2>14. BssClear'
    BY <1>1 DEF BssClear
  <2>15. CursorIs(o)'
    <3>1. copied + 1 \in 0 .. n
      BY <2>3, <2>5
    <3> QED
      BY <1>1, <2>1, <2>2, <3>1 DEF CursorIs
  <2>16. CopiesLie'
    <3> SUFFICES ASSUME NEW j \in 1 .. Len(modules), NEW k \in 1 .. modules[j], IsCopied(j, k)'
                 PROVE  memory'[Spot(j, k)] = <<j, k>>
      BY <1>1 DEF CopiesLie, Spot
    <3> DEFINE at == Target[j]
               l == modules[j]
    <3>1. at \in Nat /\ l \in Nat /\ k \in 1 .. l /\ Tail1(j) \in Nat
          /\ at + l + Tail1(j) <= MemoryEnd /\ j \in 1 .. Len(Target)
      BY <1>2, <2>0, FitsInside
    <3>2. Spot(j, k) = at + k - 1
      BY DEF Spot
    <3>3. j < i \/ (j = i /\ k <= copied + 1)
      BY <1>1 DEF IsCopied, i
    <3>4. at + k - 1 \in 0 .. MemoryEnd + UserBss
      <4> DEFINE t == Tail1(j)
      <4>1. at \in Nat /\ l \in Nat /\ k \in 1 .. l /\ t \in Nat /\ at + l + t <= MemoryEnd
            /\ MemoryEnd \in Nat /\ UserBss \in Nat
        BY <2>0, <3>1
      <4> HIDE DEF at, l, t
      <4>2. at + k - 1 >= 0 /\ at + k - 1 <= MemoryEnd
        BY <4>1
      <4> QED
        BY <4>1, <4>2
    <3>5. CASE j = i /\ k = copied + 1
      <4>1. at = to
        BY <3>5 DEF to
      <4> HIDE DEF at, l
      <4>2. at + k - 1 = x
        BY <2>3, <2>5, <2>d, <3>5, <4>1
      <4> QED
        BY <2>9, <3>2, <3>5, <4>2
    <3>6. CASE j = i /\ k <= copied
      <4>1. at = to
        BY <3>6 DEF to
      <4>2. IsCopied(j, k)
        BY <1>1, <3>6 DEF IsCopied, i
      <4>3. memory[Spot(j, k)] = <<j, k>>
        BY <2>0, <4>2 DEF CopiesLie
      <4> HIDE DEF at, l
      <4>4. at + k - 1 # x
        BY <2>3, <2>5, <2>d, <3>1, <3>6, <4>1
      <4> QED
        BY <2>10, <3>2, <3>4, <4>3, <4>4
    <3>7. CASE j < i
      <4>1. i \in 1 .. Len(Target)
        BY <1>2, <2>0, <2>2, FitsInside
      <4>2. at + l + Tail1(j) <= to
        BY <1>2, <2>0, <3>7, <4>1, FitsApart DEF to
      <4>3. IsCopied(j, k)
        BY <3>7 DEF IsCopied, i
      <4>4. memory[Spot(j, k)] = <<j, k>>
        BY <2>0, <4>3 DEF CopiesLie
      <4> HIDE DEF at, l
      <4>5. at + k - 1 # x
        BY <2>3, <2>5, <2>d, <3>1, <4>2
      <4> QED
        BY <2>10, <3>2, <3>4, <4>4, <4>5
    <3>8. (j = i /\ k = copied + 1) \/ (j = i /\ k <= copied) \/ j < i
      <4> HIDE DEF at, l
      <4> QED
        BY <2>5, <3>1, <3>3
    <3> QED
      BY <3>5, <3>6, <3>7, <3>8
  <2> QED
    BY <2>1, <2>9, <2>12, <2>13, <2>14, <2>15, <2>16
<1>3. modules' \in SeqOf(ModuleSizes, Len(Target)) /\ bootPhase' = "copy"
  BY <1>1 DEF LoaderInv
<1> QED
  BY <1>1, <1>2, <1>3 DEF LoaderInv

(* What the two BSS areas leave alone.                                      *)
LEMMA SpotIs ==
  ASSUME NEW sizes \in SeqOf(ModuleSizes, Len(Target)), Fits(sizes),
         NEW j \in 1 .. Len(sizes), NEW k \in 1 .. sizes[j]
  PROVE  /\ Spot(j, k) \in 0 .. MemoryEnd + UserBss /\ Spot(j, k) >= Target[1]
         /\ Spot(j, k) \notin Target[1] + sizes[1] .. Target[1] + sizes[1] + UserBss - 1
<1> DEFINE at == Target[j]
           l == sizes[j]
           t == Tail1(j)
           low == Target[1]
<1>1. /\ at \in Nat /\ l \in Nat /\ k \in 1 .. l /\ t \in Nat /\ low \in Nat /\ low <= at
      /\ at + l + t <= MemoryEnd /\ j \in 1 .. Len(Target)
  BY FitsInside
<1>2. MemoryEnd \in Nat /\ UserBss \in Nat /\ Len(sizes) \in Nat
  BY LoaderConstants, SizesAre
<1>3. Spot(j, k) = at + k - 1
  BY DEF Spot
<1>4. at + k - 1 \in 0 .. MemoryEnd + UserBss /\ at + k - 1 >= low
  <2> HIDE DEF at, l, t, low
  <2>1. at + k - 1 >= 0 /\ at + k - 1 <= MemoryEnd /\ at + k - 1 >= low
    BY <1>1, <1>2
  <2> QED
    BY <1>1, <1>2, <2>1
<1>5. ASSUME NEW a \in Int, a >= low + sizes[1], a <= low + sizes[1] + UserBss - 1
      PROVE  a # at + k - 1
  <2> DEFINE n == sizes[1]
  <2>1. n \in Nat
    BY <1>2, SizesAre
  <2>2. CASE j = 1
    <3>1. at = low /\ l = n
      BY <2>2
    <3>2. a >= low + n
      BY <1>5
    <3> HIDE DEF at, l, t, low, n
    <3> QED
      BY <1>1, <3>1, <3>2
  <2>3. CASE j # 1
    <3>1. 1 \in 1 .. Len(sizes) /\ 1 < j
      BY <1>2, <2>3
    <3>2. low + n + Tail1(1) <= at
      BY <1>1, <3>1, FitsApart
    <3>3. Tail1(1) = UserBss
      BY DEF Tail1
    <3>4. a <= low + n + UserBss - 1 /\ low + n + UserBss <= at
      BY <1>5, <3>2, <3>3
    <3> HIDE DEF at, l, t, low, n
    <3> QED
      BY <1>1, <1>2, <2>1, <3>4
  <2> QED
    BY <2>2, <2>3
<1>6. \A a \in low + sizes[1] .. low + sizes[1] + UserBss - 1 :
         a \in Int /\ a >= low + sizes[1] /\ a <= low + sizes[1] + UserBss - 1
  <2> DEFINE n == sizes[1]
  <2>1. n \in Nat
    BY <1>2, SizesAre
  <2>2. low \in Nat
    BY <1>1
  <2> HIDE DEF n, low
  <2>3. \A a \in low + n .. low + n + UserBss - 1 : a \in Int /\ a >= low + n /\ a <= low + n + UserBss - 1
    BY <1>2, <2>1, <2>2
  <2> QED
    BY <2>3 DEF n
<1> QED
  BY <1>3, <1>4, <1>5, <1>6

LEMMA ClearBSSKeeps ==
  ASSUME LoaderInv, ClearBSS
  PROVE  LoaderInv'
<1> DEFINE bss == KernelBss .. KernelEnd - 1
<1>1. /\ bootPhase = "loaded" /\ bootPhase' = "main"
      /\ memory' = [a \in DOMAIN memory |-> IF a \in bss THEN Rest ELSE memory[a]]
      /\ modules' = modules /\ currentModule' = currentModule /\ moduleIndex' = moduleIndex
      /\ moduleSize' = moduleSize /\ copied' = copied
  BY DEF ClearBSS
<1>2. ASSUME Fits(modules)
      PROVE  /\ memory' = [a \in 0 .. MemoryEnd + UserBss |-> memory'[a]]
             /\ \E o : IsLayout(modules, o) /\ CursorIs(o)'
             /\ PayloadLies' /\ KernelLies' /\ CopiesLie' /\ BssClear'
  <2> DEFINE low == Target[1]
             m == MemoryEnd + UserBss
  <2>0. /\ memory = [a \in 0 .. m |-> memory[a]]
        /\ PayloadLies /\ KernelLies /\ CopiesLie /\ BssClear
        /\ modules \in SeqOf(ModuleSizes, Len(Target))
    BY <1>2, LoaderInvIs
  <2>a. /\ KernelSize \in Nat /\ MemoryEnd \in Nat /\ UserBss \in Nat /\ low \in Nat
        /\ KernelEnd <= low /\ KernelEnd \in Nat /\ m \in Nat
        /\ KernelBss \in Nat /\ KernelSize <= KernelBss /\ low <= MemoryEnd
    <3>1. 1 \in 1 .. Len(Target)
      BY LoaderConstants
    <3>2. low \in 0 .. MemoryEnd
      BY <3>1, LoaderConstants
    <3> QED
      BY <1>2, <3>2, LoaderConstants, LoaderInvIs
  <2>k. KernelSize <= low
    <3> DEFINE z == Len(buildImage(modules))
    <3>1. z \in Nat /\ z >= KernelSize + 1 /\ z <= low
      BY <1>2, LoaderInvIs
    <3> HIDE DEF low, z
    <3> QED
      BY <2>a, <3>1
  <2>1. PICK o : IsLayout(modules, o) /\ CursorIs(o)
    BY <1>2, LoaderInvIs
  <2>2. CursorIs(o)'
    BY <1>1, <2>1 DEF CursorIs
  <2>3. DOMAIN memory = 0 .. m
    BY <2>0
  <2>h. m = MemoryEnd + UserBss
    OBVIOUS
  <2> HIDE DEF low, m, bss
  <2>4. /\ memory' = [a \in 0 .. m |-> memory'[a]]
        /\ \A a \in 0 .. m : memory'[a] = IF a \in bss THEN Rest ELSE memory[a]
    BY <1>1, <2>3
  <2>5. KernelLies'
    <3> SUFFICES ASSUME NEW k \in 1 .. KernelSize PROVE memory'[k - 1] = <<KernelBinary, k>>
      BY DEF KernelLies
    <3>1. k - 1 \in 0 .. m /\ k - 1 \notin bss
      BY <2>a, <2>h, <2>k DEF bss
    <3>2. memory[k - 1] = <<KernelBinary, k>>
      BY <2>0 DEF KernelLies
    <3> QED
      BY <2>4, <3>1, <3>2
  <2>6. BssClear'
    <3>1. ASSUME NEW a \in bss PROVE memory'[a] = Rest
      <4>1. a \in 0 .. m
        BY <2>a, <2>h DEF bss
      <4> QED
        BY <2>4, <4>1
    <3> QED
      BY <1>1, <3>1 DEF BssClear, bss
  <2>7. CopiesLie'
    <3> SUFFICES ASSUME NEW j \in 1 .. Len(modules), NEW k \in 1 .. modules[j], IsCopied(j, k)'
                 PROVE  memory'[Spot(j, k)] = <<j, k>>
      BY <1>1 DEF CopiesLie, Spot
    <3> DEFINE x == Spot(j, k)
    <3>1. x \in 0 .. m /\ x >= low
      BY <1>2, <2>0, SpotIs DEF m, low
    <3>2. memory[x] = <<j, k>>
      <4>1. IsCopied(j, k)
        BY <1>1 DEF IsCopied
      <4> QED
        BY <2>0, <4>1 DEF CopiesLie
    <3> HIDE DEF x
    <3>3. x \notin bss
      BY <2>a, <3>1 DEF bss
    <3>4. memory'[x] = <<j, k>>
      BY <2>4, <3>1, <3>2, <3>3
    <3> QED
      BY <3>4 DEF x
  <2>8. PayloadLies'
    BY <1>1 DEF PayloadLies
  <2> QED
    BY <2>1, <2>2, <2>4, <2>5, <2>6, <2>7, <2>8 DEF m
<1>3. modules' \in SeqOf(ModuleSizes, Len(Target)) /\ bootPhase' = "main"
  BY <1>1 DEF LoaderInv
<1> QED
  BY <1>1, <1>2, <1>3 DEF LoaderInv

LEMMA StartUserKeeps ==
  ASSUME LoaderInv, StartUser
  PROVE  LoaderInv'
<1> DEFINE bss == Target[1] + modules[1] .. Target[1] + modules[1] + UserBss - 1
<1>1. /\ bootPhase = "main" /\ bootPhase' = "user" /\ modules # <<>>
      /\ memory' = [a \in DOMAIN memory |-> IF a \in bss THEN Rest ELSE memory[a]]
      /\ modules' = modules /\ currentModule' = currentModule /\ moduleIndex' = moduleIndex
      /\ moduleSize' = moduleSize /\ copied' = copied
  BY DEF StartUser
<1>2. ASSUME Fits(modules)
      PROVE  /\ memory' = [a \in 0 .. MemoryEnd + UserBss |-> memory'[a]]
             /\ \E o : IsLayout(modules, o) /\ CursorIs(o)'
             /\ PayloadLies' /\ KernelLies' /\ CopiesLie' /\ BssClear'
  <2> DEFINE low == Target[1]
             n == modules[1]
             m == MemoryEnd + UserBss
  <2>0. /\ memory = [a \in 0 .. m |-> memory[a]]
        /\ PayloadLies /\ KernelLies /\ CopiesLie /\ BssClear
        /\ modules \in SeqOf(ModuleSizes, Len(Target)) /\ Len(modules) \in Nat
    BY <1>2, LoaderInvIs
  <2>l. 1 \in 1 .. Len(modules)
    <3>1. modules \in Seq(ModuleSizes)
      <4>1. PICK q \in 0 .. Len(Target) : modules \in [1 .. q -> ModuleSizes]
        BY <2>0 DEF SeqOf
      <4>2. q \in Nat
        BY <4>1, LoaderConstants
      <4> QED
        BY <4>1, <4>2
    <3>2. Len(modules) # 0
      BY <1>1, <3>1
    <3> QED
      BY <2>0, <3>2
  <2>a. /\ KernelSize \in Nat /\ MemoryEnd \in Nat /\ UserBss \in Nat /\ low \in Nat
        /\ KernelEnd <= low /\ KernelEnd \in Nat /\ m \in Nat /\ KernelBss \in Nat
    BY <1>2, LoaderConstants, LoaderInvIs
  <2>k. KernelSize <= low
    <3> DEFINE z == Len(buildImage(modules))
    <3>1. z \in Nat /\ z >= KernelSize + 1 /\ z <= low
      BY <1>2, LoaderInvIs
    <3> HIDE DEF low, z
    <3> QED
      BY <2>a, <3>1
  <2>n. n \in Nat /\ low + n + UserBss <= MemoryEnd
    <3>1. low + n + Tail1(1) <= MemoryEnd /\ n \in Nat
      BY <1>2, <2>0, <2>l, FitsInside
    <3>2. Tail1(1) = UserBss
      BY DEF Tail1
    <3> QED
      BY <3>1, <3>2
  <2>1. PICK o : IsLayout(modules, o) /\ CursorIs(o)
    BY <1>2, LoaderInvIs
  <2>2. CursorIs(o)'
    BY <1>1, <2>1 DEF CursorIs
  <2>3. DOMAIN memory = 0 .. m
    BY <2>0
  <2>h. m = MemoryEnd + UserBss /\ bss = low + n .. low + n + UserBss - 1
    OBVIOUS
  <2> HIDE DEF low, m, n, bss
  <2>4. /\ memory' = [a \in 0 .. m |-> memory'[a]]
        /\ \A a \in 0 .. m : memory'[a] = IF a \in bss THEN Rest ELSE memory[a]
    BY <1>1, <2>3
  <2>b. \A a \in bss : a \in 0 .. m /\ a >= low
    BY <2>a, <2>h, <2>n
  <2>5. ASSUME NEW a \in Nat, a < low PROVE memory'[a] = memory[a]
    <3>1. a \notin bss
      BY <2>a, <2>b, <2>5
    <3>2. a \in 0 .. m
      BY <2>a, <2>h, <2>n, <2>5
    <3> QED
      BY <2>4, <3>1, <3>2
  <2>6. KernelLies'
    <3> SUFFICES ASSUME NEW k \in 1 .. KernelSize PROVE memory'[k - 1] = <<KernelBinary, k>>
      BY DEF KernelLies
    <3>1. k - 1 \in Nat /\ k - 1 < low
      BY <2>a, <2>k
    <3>2. memory[k - 1] = <<KernelBinary, k>>
      BY <2>0 DEF KernelLies
    <3> QED
      BY <2>5, <3>1, <3>2
  <2>7. BssClear'
    <3>1. ASSUME NEW a \in bss PROVE memory'[a] = Rest
      BY <2>4, <2>b
    <3>2. ASSUME NEW a \in KernelBss .. KernelEnd - 1 PROVE memory'[a] = Rest
      <4>1. a \in Nat /\ a < low
        BY <2>a
      <4>2. memory[a] = Rest
        BY <1>1, <2>0 DEF BssClear
      <4> QED
        BY <2>5, <4>1, <4>2
    <3> QED
      BY <1>1, <3>1, <3>2 DEF BssClear, bss
  <2>8. CopiesLie'
    <3> SUFFICES ASSUME NEW j \in 1 .. Len(modules), NEW k \in 1 .. modules[j], IsCopied(j, k)'
                 PROVE  memory'[Spot(j, k)] = <<j, k>>
      BY <1>1 DEF CopiesLie, Spot
    <3> DEFINE x == Spot(j, k)
    <3>1. x \in 0 .. m /\ x \notin bss
      BY <1>2, <2>0, SpotIs DEF m, bss
    <3>2. memory[x] = <<j, k>>
      <4>1. IsCopied(j, k)
        BY <1>1 DEF IsCopied
      <4> QED
        BY <2>0, <4>1 DEF CopiesLie
    <3> HIDE DEF x
    <3>4. memory'[x] = <<j, k>>
      BY <2>4, <3>1, <3>2
    <3> QED
      BY <3>4 DEF x
  <2>9. PayloadLies'
    BY <1>1 DEF PayloadLies
  <2> QED
    BY <2>1, <2>2, <2>4, <2>6, <2>7, <2>8, <2>9 DEF m
<1>3. modules' \in SeqOf(ModuleSizes, Len(Target)) /\ bootPhase' = "user"
  BY <1>1 DEF LoaderInv
<1> QED
  BY <1>1, <1>2, <1>3 DEF LoaderInv

(* When the image fits, every module that was packed is where it was linked *)
(* for when main() begins and when the first of them runs, the kernel is    *)
(* what it was, and both BSS areas are clear.                               *)
THEOREM ImageIsUnpacked == LoaderSpec => []ModulesAreInPlace
<1>1. LoaderInv /\ [LoaderNext]_loaderVars => LoaderInv'
  <2> SUFFICES ASSUME LoaderInv, [LoaderNext]_loaderVars PROVE LoaderInv'
    OBVIOUS
  <2>1. CASE UNCHANGED loaderVars
    BY <2>1 DEF loaderVars, LoaderInv, CursorIs, PayloadLies, KernelLies, CopiesLie, BssClear, IsCopied, Spot
  <2> QED
    BY <2>1, ReadSizeKeeps, CopyCellKeeps, NextModuleKeeps, ClearBSSKeeps, StartUserKeeps DEF LoaderNext
<1> QED
  BY <1>1, BeginsLoaderInv, LoaderInvImplies, PTL DEF LoaderSpec

-----------------------------------------------------------------------------
(* The disk image. *)
(* A value that is computed in n steps, each from the one before it. *)
Iterates(f, S, z, n, step) ==
  f \in [0 .. n -> S] /\ f[0] = z /\ \A k \in 1 .. n : f[k] = step[k][f[k - 1]]

LEMMA IterationExists ==
  ASSUME NEW S, NEW z \in S, NEW n \in Nat, NEW step,
         \A k \in 1 .. n : step[k] \in [S -> S]
  PROVE  \E f : Iterates(f, S, z, n, step)
<1> DEFINE Does(f, m) == f[0] = z /\ \A k \in 1 .. m : f[k] = step[k][f[k - 1]]
           N == {m \in Nat : m <= n => \E f \in [0 .. m -> S] : Does(f, m)}
<1>1. 0 \in N
  <2> DEFINE f == [k \in 0 .. 0 |-> z]
  <2>1. f \in [0 .. 0 -> S] /\ Does(f, 0)
    OBVIOUS
  <2> HIDE DEF f, Does
  <2> QED
    BY <2>1
<1>2. ASSUME NEW m \in Nat, m \in N PROVE m + 1 \in N
  <2> SUFFICES ASSUME m + 1 <= n PROVE \E f \in [0 .. m + 1 -> S] : Does(f, m + 1)
    OBVIOUS
  <2>1. PICK g \in [0 .. m -> S] : Does(g, m)
    BY <1>2
  <2> DEFINE last == step[m + 1][g[m]]
             f == [k \in 0 .. m + 1 |-> IF k = m + 1 THEN last ELSE g[k]]
  <2>2. m + 1 \in 1 .. n /\ m \in 0 .. m
    OBVIOUS
  <2>3. last \in S
    <3>1. g[m] \in S
      BY <2>1, <2>2
    <3>2. step[m + 1] \in [S -> S]
      BY <2>2
    <3> QED
      BY <3>1, <3>2
  <2>d. last = step[m + 1][g[m]]
    OBVIOUS
  <2> HIDE DEF last
  <2>4. f \in [0 .. m + 1 -> S]
    BY <2>3
  <2>5. f[0] = z
    BY <2>1
  <2>6. ASSUME NEW k \in 1 .. m + 1 PROVE f[k] = step[k][f[k - 1]]
    <3>1. CASE k = m + 1
      <4>1. f[k] = last /\ f[k - 1] = g[m]
        BY <3>1
      <4> QED
        BY <2>d, <3>1, <4>1
    <3>2. CASE k # m + 1
      <4>1. k \in 1 .. m /\ f[k] = g[k] /\ f[k - 1] = g[k - 1]
        BY <3>2
      <4> QED
        BY <2>1, <4>1
    <3> QED
      BY <3>1, <3>2
  <2> HIDE DEF f
  <2> QED
    BY <2>4, <2>5, <2>6
<1> HIDE DEF N, Does
<1>3. Nat \subseteq N
  BY <1>1, <1>2, Naturals
<1>4. n \in N
  BY <1>3
<1>5. n <= n
  OBVIOUS
<1>6. \E f \in [0 .. n -> S] : Does(f, n)
  BY <1>4, <1>5 DEF N
<1> QED
  BY <1>6 DEF Does, Iterates

LEMMA IterationStays ==
  ASSUME NEW S, NEW n \in Nat, NEW v, v[0] \in S,
         \A k \in 1 .. n : v[k - 1] \in S => v[k] \in S
  PROVE  \A k \in 0 .. n : v[k] \in S
<1> DEFINE N == {k \in Nat : k <= n => v[k] \in S}
<1>1. 0 \in N
  OBVIOUS
<1>2. ASSUME NEW k \in Nat, k \in N PROVE k + 1 \in N
  <2> SUFFICES ASSUME k + 1 <= n PROVE v[k + 1] \in S
    OBVIOUS
  <2>1. k + 1 \in 1 .. n /\ (k + 1) - 1 = k /\ v[k] \in S
    BY <1>2
  <2> QED
    BY <2>1
<1> HIDE DEF N
<1>3. Nat \subseteq N
  BY <1>1, <1>2, Naturals
<1> QED
  BY <1>3 DEF N

(* The digits and units of a size, as they are read and as they are meant.  *)
LEMMA DiskConstants ==
  /\ Wrap \in Nat /\ Wrap > 0 /\ Kilo \in Nat /\ Kilo >= 2 /\ DiskBound \in Nat
  /\ Records \in Nat /\ Records > 0 /\ MiB \in Nat /\ MiB > 0
<1>1. Wrap \in Nat /\ Wrap > 0 /\ Kilo \in Nat /\ Kilo >= 2 /\ DiskBound \in Nat
      /\ Records \in Nat /\ Records > 0
  BY BmfsAssumption
<1>2. MiB \in Nat /\ MiB > 0
  BY <1>1 DEF MiB
<1> QED
  BY <1>1, <1>2

LEMMA DigitIsRead ==
  ASSUME NEW n \in Int, NEW d \in 0 .. 9
  PROVE  /\ readDigit(n, d) \in Int
         /\ n >= 0 /\ 10 * n + d < Wrap => readDigit(n, d) = 10 * n + d
<1>1. Wrap \in Nat /\ Wrap > 0
  BY DiskConstants
<1>2. CASE n > 0 /\ (10 * n) % Wrap > n
  <2>1. readDigit(n, d) = (10 * n + d) % Wrap
    BY <1>2 DEF readDigit
  <2>2. (10 * n + d) % Wrap \in Int
    BY <1>1
  <2>3. 10 * n + d < Wrap => (10 * n + d) % Wrap = 10 * n + d
    <3> DEFINE x == 10 * n + d
    <3>1. x \in Nat
      BY <1>2
    <3> HIDE DEF x
    <3>2. x < Wrap => x % Wrap = x
      BY <1>1, <3>1
    <3> QED
      BY <3>2 DEF x
  <2> QED
    BY <2>1, <2>2, <2>3
<1>3. CASE n = 0
  BY <1>3 DEF readDigit
<1>4. CASE ~(n > 0 /\ (10 * n) % Wrap > n) /\ n # 0
  <2>1. readDigit(n, d) = Bad
    BY <1>4 DEF readDigit
  <2>2. ~(n >= 0 /\ 10 * n + d < Wrap)
    <3> SUFFICES ASSUME n > 0, 10 * n + d < Wrap PROVE FALSE
      BY <1>4
    <3> DEFINE x == 10 * n
    <3>1. x \in Nat /\ x < Wrap /\ x > n
      BY <1>1
    <3> HIDE DEF x
    <3>2. x % Wrap = x
      BY <1>1, <3>1
    <3>3. (10 * n) % Wrap > n
      BY <3>1, <3>2 DEF x
    <3> QED
      BY <1>4, <3>3
  <2> QED
    BY <2>1, <2>2 DEF Bad
<1> QED
  BY <1>2, <1>3, <1>4

LEMMA KiloIsRead ==
  ASSUME NEW n \in Int
  PROVE  /\ timesKilo(n) \in Int
         /\ n > 0 /\ Kilo * n < Wrap => timesKilo(n) = Kilo * n
<1>1. Wrap \in Nat /\ Wrap > 0 /\ Kilo \in Nat /\ Kilo >= 2
  BY DiskConstants
<1> DEFINE x == Kilo * n
<1>2. x \in Int /\ (n > 0 => x > n)
  BY <1>1
<1>3. timesKilo(n) = IF n # Bad /\ x % Wrap > n THEN x % Wrap ELSE Bad
  BY DEF timesKilo
<1> HIDE DEF x
<1>4. x % Wrap \in Int /\ (x >= 0 /\ x < Wrap => x % Wrap = x)
  BY <1>1, <1>2
<1>5. timesKilo(n) \in Int
  BY <1>3, <1>4 DEF Bad
<1>6. n > 0 /\ x < Wrap => timesKilo(n) = x
  BY <1>2, <1>3, <1>4 DEF Bad
<1> QED
  BY <1>5, <1>6 DEF x

(* What the recursive functions compute, as steps. *)
DecimalBy(v, digits) ==
  /\ v \in [0 .. Len(digits) -> Int]
  /\ v[0] = 0 /\ \A k \in 1 .. Len(digits) : v[k] = 10 * v[k - 1] + digits[k]
  /\ Decimal(digits) = v[Len(digits)]

LEMMA DecimalSteps ==
  ASSUME NEW digits, Len(digits) \in Nat, \A k \in 1 .. Len(digits) : digits[k] \in 0 .. 9
  PROVE  \E v : DecimalBy(v, digits)
<1> DEFINE last == Len(digits)
           Is(f) == f = [k \in 0 .. last |-> IF k = 0 THEN 0 ELSE 10 * f[k - 1] + digits[k]]
           v == CHOOSE f : Is(f)
           step == [k \in 1 .. last |-> [x \in Int |-> 10 * x + digits[k]]]
<1>1. Decimal(digits) = v[last]
  BY DEF Decimal
<1>0. ASSUME NEW k \in 1 .. last, NEW x \in Int PROVE 10 * x + digits[k] \in Int
  <2> DEFINE d == digits[k]
  <2>1. d \in Int
    OBVIOUS
  <2> HIDE DEF d
  <2>2. 10 * x + d \in Int
    BY <2>1
  <2> QED
    BY <2>2 DEF d
<1>2. \A k \in 1 .. last : step[k] \in [Int -> Int]
  BY <1>0
<1>3. \A k \in 1 .. last : \A x \in Int : step[k][x] = 10 * x + digits[k]
  OBVIOUS
<1>a. last \in Nat /\ 0 \in Int
  OBVIOUS
<1> HIDE DEF step, v, last
<1>4. PICK f : Iterates(f, Int, 0, last, step)
  BY <1>2, <1>a, IterationExists
<1>5. ASSUME NEW k \in 0 .. last PROVE f[k] = IF k = 0 THEN 0 ELSE 10 * f[k - 1] + digits[k]
  <2>1. CASE k # 0
    <3>1. k \in 1 .. last /\ k - 1 \in 0 .. last
      BY <1>a, <2>1
    <3>2. f[k - 1] \in Int
      BY <1>4, <3>1 DEF Iterates
    <3>3. f[k] = step[k][f[k - 1]]
      BY <1>4, <3>1 DEF Iterates
    <3> QED
      BY <1>3, <2>1, <3>1, <3>2, <3>3
  <2> QED
    BY <1>4, <2>1 DEF Iterates
<1>6. Is(f)
  <2>1. f = [k \in 0 .. last |-> f[k]]
    BY <1>4 DEF Iterates
  <2> QED
    BY <1>5, <2>1 DEF last
<1>7. Is(v)
  BY <1>6 DEF v
<1>8. \A k \in 0 .. last : v[k] = IF k = 0 THEN 0 ELSE 10 * v[k - 1] + digits[k]
  BY <1>7 DEF last
<1>9. v[0] = 0 /\ \A k \in 1 .. last : v[k] = 10 * v[k - 1] + digits[k]
  BY <1>8, <1>a
<1>10. \A k \in 0 .. last : v[k] \in Int
  <2>1. \A k \in 1 .. last : v[k - 1] \in Int => v[k] \in Int
    BY <1>0, <1>9
  <2>2. v[0] \in Int
    BY <1>9, <1>a
  <2> QED
    BY <1>a, <2>1, <2>2, IterationStays
<1>11. v = [k \in 0 .. last |-> v[k]]
  BY <1>7 DEF last
<1>12. v \in [0 .. last -> Int]
  BY <1>10, <1>11
<1> HIDE DEF Is
<1> QED
  BY <1>1, <1>9, <1>12 DEF DecimalBy, last

ReadBy(v, digits) ==
  /\ v \in [0 .. Len(digits) -> Int]
  /\ v[0] = 0 /\ \A k \in 1 .. Len(digits) : v[k] = readDigit(v[k - 1], digits[k])
  /\ readDigits(digits) = v[Len(digits)]

LEMMA ReadSteps ==
  ASSUME NEW digits, Len(digits) \in Nat, \A k \in 1 .. Len(digits) : digits[k] \in 0 .. 9
  PROVE  \E v : ReadBy(v, digits)
<1> DEFINE last == Len(digits)
           Is(f) == f = [k \in 0 .. last |-> IF k = 0 THEN 0 ELSE readDigit(f[k - 1], digits[k])]
           v == CHOOSE f : Is(f)
           step == [k \in 1 .. last |-> [x \in Int |-> readDigit(x, digits[k])]]
<1>1. readDigits(digits) = v[last]
  BY DEF readDigits
<1>0. ASSUME NEW k \in 1 .. last, NEW x \in Int PROVE readDigit(x, digits[k]) \in Int
  <2>1. digits[k] \in 0 .. 9
    OBVIOUS
  <2> HIDE DEF last
  <2> QED
    BY <2>1, DigitIsRead
<1>2. \A k \in 1 .. last : step[k] \in [Int -> Int]
  BY <1>0
<1>3. \A k \in 1 .. last : \A x \in Int : step[k][x] = readDigit(x, digits[k])
  OBVIOUS
<1>a. last \in Nat /\ 0 \in Int
  OBVIOUS
<1> HIDE DEF step, v, last
<1>4. PICK f : Iterates(f, Int, 0, last, step)
  BY <1>2, <1>a, IterationExists
<1>5. ASSUME NEW k \in 0 .. last PROVE f[k] = IF k = 0 THEN 0 ELSE readDigit(f[k - 1], digits[k])
  <2>1. CASE k # 0
    <3>1. k \in 1 .. last /\ k - 1 \in 0 .. last
      BY <1>a, <2>1
    <3>2. f[k - 1] \in Int
      BY <1>4, <3>1 DEF Iterates
    <3>3. f[k] = step[k][f[k - 1]]
      BY <1>4, <3>1 DEF Iterates
    <3> QED
      BY <1>3, <2>1, <3>1, <3>2, <3>3
  <2> QED
    BY <1>4, <2>1 DEF Iterates
<1>6. Is(f)
  <2>1. f = [k \in 0 .. last |-> f[k]]
    BY <1>4 DEF Iterates
  <2> QED
    BY <1>5, <2>1 DEF last
<1>7. Is(v)
  BY <1>6 DEF v
<1>8. \A k \in 0 .. last : v[k] = IF k = 0 THEN 0 ELSE readDigit(v[k - 1], digits[k])
  BY <1>7 DEF last
<1>9. v[0] = 0 /\ \A k \in 1 .. last : v[k] = readDigit(v[k - 1], digits[k])
  BY <1>8, <1>a
<1>10. \A k \in 0 .. last : v[k] \in Int
  <2>1. \A k \in 1 .. last : v[k - 1] \in Int => v[k] \in Int
    BY <1>0, <1>9
  <2>2. v[0] \in Int
    BY <1>9, <1>a
  <2> QED
    BY <1>a, <2>1, <2>2, IterationStays
<1>11. v = [k \in 0 .. last |-> v[k]]
  BY <1>7 DEF last
<1>12. v \in [0 .. last -> Int]
  BY <1>10, <1>11
<1> HIDE DEF Is
<1> QED
  BY <1>1, <1>9, <1>12 DEF ReadBy, last

ScaledBy(v, n, unit) ==
  /\ v \in [0 .. unit -> Int]
  /\ v[0] = n /\ \A k \in 1 .. unit : v[k] = Kilo * v[k - 1]
  /\ Scaled(n, unit) = v[unit]

LEMMA ScaledSteps ==
  ASSUME NEW n \in Int, NEW unit \in Nat
  PROVE  \E v : ScaledBy(v, n, unit)
<1> DEFINE last == unit
           Is(f) == f = [k \in 0 .. last |-> IF k = 0 THEN n ELSE Kilo * f[k - 1]]
           v == CHOOSE f : Is(f)
           step == [k \in 1 .. last |-> [x \in Int |-> Kilo * x]]
<1>1. Scaled(n, unit) = v[last]
  BY DEF Scaled
<1>0. ASSUME NEW k \in 1 .. last, NEW x \in Int PROVE Kilo * x \in Int
  BY DiskConstants
<1>2. \A k \in 1 .. last : step[k] \in [Int -> Int]
  BY <1>0
<1>3. \A k \in 1 .. last : \A x \in Int : step[k][x] = Kilo * x
  OBVIOUS
<1>a. last \in Nat /\ n \in Int
  OBVIOUS
<1> HIDE DEF step, v, last
<1>4. PICK f : Iterates(f, Int, n, last, step)
  BY <1>2, <1>a, IterationExists
<1>5. ASSUME NEW k \in 0 .. last PROVE f[k] = IF k = 0 THEN n ELSE Kilo * f[k - 1]
  <2>1. CASE k # 0
    <3>1. k \in 1 .. last /\ k - 1 \in 0 .. last
      BY <1>a, <2>1
    <3>2. f[k - 1] \in Int
      BY <1>4, <3>1 DEF Iterates
    <3>3. f[k] = step[k][f[k - 1]]
      BY <1>4, <3>1 DEF Iterates
    <3> QED
      BY <1>3, <2>1, <3>1, <3>2, <3>3
  <2> QED
    BY <1>4, <2>1 DEF Iterates
<1>6. Is(f)
  <2>1. f = [k \in 0 .. last |-> f[k]]
    BY <1>4 DEF Iterates
  <2> QED
    BY <1>5, <2>1 DEF last
<1>7. Is(v)
  BY <1>6 DEF v
<1>8. \A k \in 0 .. last : v[k] = IF k = 0 THEN n ELSE Kilo * v[k - 1]
  BY <1>7 DEF last
<1>9. v[0] = n /\ \A k \in 1 .. last : v[k] = Kilo * v[k - 1]
  BY <1>8, <1>a
<1>10. \A k \in 0 .. last : v[k] \in Int
  <2>1. \A k \in 1 .. last : v[k - 1] \in Int => v[k] \in Int
    BY <1>0, <1>9
  <2>2. v[0] \in Int
    BY <1>9, <1>a
  <2> QED
    BY <1>a, <2>1, <2>2, IterationStays
<1>11. v = [k \in 0 .. last |-> v[k]]
  BY <1>7 DEF last
<1>12. v \in [0 .. last -> Int]
  BY <1>10, <1>11
<1> HIDE DEF Is
<1> QED
  BY <1>1, <1>9, <1>12 DEF ScaledBy, last

TimesBy(v, n, unit) ==
  /\ v \in [0 .. unit -> Int]
  /\ v[0] = n /\ \A k \in 1 .. unit : v[k] = timesKilo(v[k - 1])
  /\ n > 0 => timesUnit(n, unit) = v[unit]

LEMMA TimesSteps ==
  ASSUME NEW n \in Int, NEW unit \in Nat
  PROVE  \E v : TimesBy(v, n, unit)
<1> DEFINE last == unit
           Is(f) == f = [k \in 0 .. last |-> IF k = 0 THEN n ELSE timesKilo(f[k - 1])]
           v == CHOOSE f : Is(f)
           step == [k \in 1 .. last |-> [x \in Int |-> timesKilo(x)]]
<1>1. n > 0 => timesUnit(n, unit) = v[last]
  BY DEF timesUnit
<1>0. ASSUME NEW k \in 1 .. last, NEW x \in Int PROVE timesKilo(x) \in Int
  BY KiloIsRead
<1>2. \A k \in 1 .. last : step[k] \in [Int -> Int]
  BY <1>0
<1>3. \A k \in 1 .. last : \A x \in Int : step[k][x] = timesKilo(x)
  OBVIOUS
<1>a. last \in Nat /\ n \in Int
  OBVIOUS
<1> HIDE DEF step, v, last
<1>4. PICK f : Iterates(f, Int, n, last, step)
  BY <1>2, <1>a, IterationExists
<1>5. ASSUME NEW k \in 0 .. last PROVE f[k] = IF k = 0 THEN n ELSE timesKilo(f[k - 1])
  <2>1. CASE k # 0
    <3>1. k \in 1 .. last /\ k - 1 \in 0 .. last
      BY <1>a, <2>1
    <3>2. f[k - 1] \in Int
      BY <1>4, <3>1 DEF Iterates
    <3>3. f[k] = step[k][f[k - 1]]
      BY <1>4, <3>1 DEF Iterates
    <3> QED
      BY <1>3, <2>1, <3>1, <3>2, <3>3
  <2> QED
    BY <1>4, <2>1 DEF Iterates
<1>6. Is(f)
  <2>1. f = [k \in 0 .. last |-> f[k]]
    BY <1>4 DEF Iterates
  <2> QED
    BY <1>5, <2>1 DEF last
<1>7. Is(v)
  BY <1>6 DEF v
<1>8. \A k \in 0 .. last : v[k] = IF k = 0 THEN n ELSE timesKilo(v[k - 1])
  BY <1>7 DEF last
<1>9. v[0] = n /\ \A k \in 1 .. last : v[k] = timesKilo(v[k - 1])
  BY <1>8, <1>a
<1>10. \A k \in 0 .. last : v[k] \in Int
  <2>1. \A k \in 1 .. last : v[k - 1] \in Int => v[k] \in Int
    BY <1>0, <1>9
  <2>2. v[0] \in Int
    BY <1>9, <1>a
  <2> QED
    BY <1>a, <2>1, <2>2, IterationStays
<1>11. v = [k \in 0 .. last |-> v[k]]
  BY <1>7 DEF last
<1>12. v \in [0 .. last -> Int]
  BY <1>10, <1>11
<1> HIDE DEF Is
<1> QED
  BY <1>1, <1>9, <1>12 DEF TimesBy, last

LEMMA DigitsAreRead ==
  ASSUME NEW digits, Len(digits) \in Nat, \A k \in 1 .. Len(digits) : digits[k] \in 0 .. 9
  PROVE  /\ readDigits(digits) \in Int /\ Decimal(digits) \in Nat
         /\ Decimal(digits) < Wrap => readDigits(digits) = Decimal(digits)
<1> DEFINE last == Len(digits)
<1>1. PICK v : DecimalBy(v, digits)
  BY DecimalSteps
<1>2. PICK r : ReadBy(r, digits)
  BY ReadSteps
<1>3. /\ last \in Nat /\ v \in [0 .. last -> Int] /\ v[0] = 0 /\ Decimal(digits) = v[last]
      /\ r \in [0 .. last -> Int] /\ r[0] = 0 /\ readDigits(digits) = r[last]
  BY <1>1, <1>2 DEF DecimalBy, ReadBy
<1>4. ASSUME NEW k \in 1 .. last
      PROVE  v[k] = 10 * v[k - 1] + digits[k] /\ r[k] = readDigit(r[k - 1], digits[k])
  BY <1>1, <1>2 DEF DecimalBy, ReadBy
<1>5. \A k \in 1 .. last : digits[k] \in 0 .. 9
  OBVIOUS
<1> HIDE DEF last
<1>6. \A k \in 0 .. last : v[k] \in Nat
  <2>1. ASSUME NEW k \in 1 .. last, v[k - 1] \in Nat PROVE v[k] \in Nat
    <3> DEFINE p == v[k - 1]
               d == digits[k]
    <3>1. p \in Nat /\ d \in 0 .. 9 /\ v[k] = 10 * p + d
      BY <1>4, <1>5, <2>1
    <3> HIDE DEF p, d
    <3> QED
      BY <3>1
  <2>2. v[0] \in Nat
    BY <1>3
  <2> QED
    BY <1>3, <2>1, <2>2, IterationStays
<1> DEFINE N == {k \in Nat : k <= last /\ v[k] < Wrap => r[k] = v[k]}
<1>7. 0 \in N
  BY <1>3
<1>8. ASSUME NEW k \in Nat, k \in N PROVE k + 1 \in N
  <2> SUFFICES ASSUME k + 1 <= last, v[k + 1] < Wrap PROVE r[k + 1] = v[k + 1]
    OBVIOUS
  <2>1. k + 1 \in 1 .. last /\ (k + 1) - 1 = k /\ k <= last /\ k \in 0 .. last
    BY <1>3
  <2> DEFINE p == v[k]
             d == digits[k + 1]
  <2>2. p \in Nat /\ d \in 0 .. 9 /\ v[k + 1] = 10 * p + d
    BY <1>4, <1>5, <1>6, <2>1
  <2>3. r[k + 1] = readDigit(r[k], d)
    BY <1>4, <2>1
  <2> HIDE DEF p, d
  <2>4. p \in Int /\ p >= 0 /\ 10 * p + d < Wrap /\ p < Wrap
    BY <2>2, DiskConstants
  <2>5. readDigit(p, d) = 10 * p + d
    BY <2>2, <2>4, DigitIsRead
  <2>6. r[k] = p
    BY <1>8, <2>1, <2>4 DEF p
  <2> QED
    BY <2>2, <2>3, <2>5, <2>6
<1> HIDE DEF N
<1>9. last \in N
  BY <1>3, <1>7, <1>8, Naturals
<1>10. v[last] < Wrap => r[last] = v[last]
  BY <1>3, <1>9 DEF N
<1>11. r[last] \in Int /\ v[last] \in Nat
  BY <1>3, <1>6
<1> QED
  BY <1>3, <1>10, <1>11

LEMMA UnitIsApplied ==
  ASSUME NEW n \in Int, NEW unit \in Nat
  PROVE  /\ timesUnit(n, unit) \in Int /\ Scaled(n, unit) \in Int
         /\ n >= 0 => Scaled(n, unit) >= n
         /\ n >= 0 /\ Scaled(n, unit) < Wrap => timesUnit(n, unit) = Scaled(n, unit)
<1>1. PICK s : ScaledBy(s, n, unit)
  BY ScaledSteps
<1>2. PICK t : TimesBy(t, n, unit)
  BY TimesSteps
<1>3. /\ s \in [0 .. unit -> Int] /\ s[0] = n /\ Scaled(n, unit) = s[unit]
      /\ t \in [0 .. unit -> Int] /\ t[0] = n /\ (n > 0 => timesUnit(n, unit) = t[unit])
  BY <1>1, <1>2 DEF ScaledBy, TimesBy
<1>4. ASSUME NEW k \in 1 .. unit PROVE s[k] = Kilo * s[k - 1] /\ t[k] = timesKilo(t[k - 1])
  BY <1>1, <1>2 DEF ScaledBy, TimesBy
<1>5. unit \in 0 .. unit /\ s[unit] \in Int /\ t[unit] \in Int
  BY <1>3
<1>6. n <= 0 => timesUnit(n, unit) = n
  BY DEF timesUnit
<1>7. CASE n < 0
  BY <1>3, <1>5, <1>6, <1>7
<1>8. CASE n = 0
  <2> DEFINE Nothing == {0}
  <2>1. \A k \in 1 .. unit : s[k - 1] \in Nothing => s[k] \in Nothing
    BY <1>4, DiskConstants
  <2>2. s[0] \in Nothing
    BY <1>3, <1>8
  <2>3. \A k \in 0 .. unit : s[k] \in Nothing
    <3> HIDE DEF Nothing
    <3> QED
      BY <2>1, <2>2, IterationStays
  <2>4. s[unit] = 0
    BY <1>5, <2>3
  <2> QED
    BY <1>3, <1>6, <1>8, <2>4
<1>9. CASE n > 0
  <2> DEFINE Above == {x \in Int : x >= n}
  <2>1. ASSUME NEW k \in 1 .. unit, s[k - 1] \in Above PROVE s[k] \in Above
    <3> DEFINE p == s[k - 1]
    <3>1. p \in Int /\ p >= n /\ s[k] = Kilo * p
      BY <1>4, <2>1
    <3> HIDE DEF p
    <3>2. Kilo * p \in Int /\ Kilo * p >= p
      BY <1>9, <3>1, DiskConstants
    <3> QED
      BY <3>1, <3>2
  <2>2. s[0] \in Above
    BY <1>3, <1>9
  <2>3. \A k \in 0 .. unit : s[k] \in Above
    <3> HIDE DEF Above
    <3> QED
      BY <2>1, <2>2, IterationStays
  <2> DEFINE N == {k \in Nat : k <= unit /\ s[k] < Wrap => t[k] = s[k]}
  <2>4. 0 \in N
    BY <1>3
  <2>5. ASSUME NEW k \in Nat, k \in N PROVE k + 1 \in N
    <3> SUFFICES ASSUME k + 1 <= unit, s[k + 1] < Wrap PROVE t[k + 1] = s[k + 1]
      OBVIOUS
    <3>1. k + 1 \in 1 .. unit /\ (k + 1) - 1 = k /\ k <= unit /\ k \in 0 .. unit
      OBVIOUS
    <3> DEFINE p == s[k]
    <3>2. p \in Int /\ p > 0
      BY <1>9, <2>3, <3>1
    <3>3. s[k + 1] = Kilo * p /\ t[k + 1] = timesKilo(t[k])
      BY <1>4, <3>1
    <3> HIDE DEF p
    <3>4. Kilo * p < Wrap /\ p < Wrap
      <4>1. Kilo * p > p /\ Kilo * p \in Int
        BY <3>2, DiskConstants
      <4>2. Kilo * p < Wrap
        BY <3>3
      <4> QED
        BY <3>2, <4>1, <4>2, DiskConstants
    <3>5. timesKilo(p) = Kilo * p
      BY <3>2, <3>4, KiloIsRead
    <3>6. t[k] = p
      BY <2>5, <3>1, <3>4 DEF p
    <3> QED
      BY <3>3, <3>5, <3>6
  <2> HIDE DEF N
  <2>6. unit \in N
    BY <2>4, <2>5, Naturals
  <2>7. s[unit] < Wrap => t[unit] = s[unit]
    BY <2>6 DEF N
  <2>8. s[unit] >= n
    BY <1>5, <2>3
  <2> QED
    BY <1>3, <1>5, <1>9, <2>7, <2>8
<1> QED
  BY <1>7, <1>8, <1>9

SizeArg == SizeArgs \cup {[digits |-> <<>>, unit |-> 0]}

LEMMA SizeIsRead ==
  ASSUME NEW arg \in SizeArg
  PROVE  /\ diskSizeOf(arg) \in Int
         /\ Number(arg) < Wrap => diskSizeOf(arg) = Number(arg)
<1> DEFINE digits == arg.digits
           unit == arg.unit
<1>1. unit \in Nat /\ digits \in Seq(0 .. 9)
  <2>1. CASE arg \in SizeArgs
    BY <2>1, BmfsAssumption
  <2>2. CASE arg = [digits |-> <<>>, unit |-> 0]
    BY <2>2
  <2> QED
    BY <2>1, <2>2 DEF SizeArg
<1>2. /\ diskSizeOf(arg) = timesUnit(readDigits(digits), unit)
      /\ Number(arg) = Scaled(Decimal(digits), unit)
  BY DEF diskSizeOf, applyUnit, Number
<1> HIDE DEF digits, unit
<1>3. Len(digits) \in Nat /\ \A k \in 1 .. Len(digits) : digits[k] \in 0 .. 9
  BY <1>1
<1>4. /\ readDigits(digits) \in Int /\ Decimal(digits) \in Nat
      /\ Decimal(digits) < Wrap => readDigits(digits) = Decimal(digits)
  BY <1>3, DigitsAreRead
<1> DEFINE n == readDigits(digits)
           d == Decimal(digits)
<1>5. n \in Int /\ d \in Nat /\ d \in Int /\ (d < Wrap => n = d)
  BY <1>4
<1>6. /\ diskSizeOf(arg) = timesUnit(n, unit)
      /\ Number(arg) = Scaled(d, unit)
  BY <1>2
<1> HIDE DEF n, d
<1>7. timesUnit(n, unit) \in Int
  BY <1>1, <1>5, UnitIsApplied
<1>8. /\ Scaled(d, unit) \in Int
      /\ d >= 0 => Scaled(d, unit) >= d
      /\ d >= 0 /\ Scaled(d, unit) < Wrap => timesUnit(d, unit) = Scaled(d, unit)
  BY <1>1, <1>5, UnitIsApplied
<1>9. ASSUME Scaled(d, unit) < Wrap PROVE d < Wrap
  BY <1>5, <1>8, <1>9, DiskConstants
<1> QED
  BY <1>5, <1>6, <1>7, <1>8, <1>9

(* The size of the disk is the one the last initialize was asked for. *)
SizeInv == sizeArg \in SizeArg /\ diskBytes = diskSizeOf(sizeArg)

LEMMA NoDigits == diskSizeOf([digits |-> <<>>, unit |-> 0]) = 0
<1> DEFINE arg == [digits |-> <<>>, unit |-> 0]
           n == Decimal(<<>>)
<1>1. arg \in SizeArg /\ Len(<<>>) = 0 /\ \A k \in 1 .. Len(<<>>) : <<>>[k] \in 0 .. 9
  BY DEF SizeArg
<1>2. Number(arg) < Wrap => diskSizeOf(arg) = Number(arg)
  BY <1>1, SizeIsRead
<1>3. PICK v : DecimalBy(v, <<>>)
  BY <1>1, DecimalSteps
<1>4. n = 0
  BY <1>1, <1>3 DEF DecimalBy
<1>5. PICK s : ScaledBy(s, 0, 0)
  BY ScaledSteps
<1>6. Scaled(0, 0) = 0
  BY <1>5 DEF ScaledBy
<1>7. Number(arg) = Scaled(n, 0)
  BY DEF Number
<1> HIDE DEF arg, n
<1>8. Number(arg) = 0
  BY <1>4, <1>6, <1>7
<1> QED
  BY <1>2, <1>8, DiskConstants DEF arg

LEMMA SizeIsKept ==
  ASSUME SizeInv, [BmfsNext]_diskVars
  PROVE  SizeInv'
<1>1. CASE Initialize
  BY <1>1 DEF Initialize, SizeInv, SizeArg, diskSizeOf
<1>2. CASE UNCHANGED <<sizeArg, diskBytes>>
  BY <1>2 DEF SizeInv, diskSizeOf
<1>3. Format \/ Create \/ Write \/ Delete \/ UNCHANGED diskVars => UNCHANGED <<sizeArg, diskBytes>>
  BY DEF Format, Create, Write, Delete, diskVars
<1> QED
  BY <1>1, <1>2, <1>3 DEF BmfsNext

(* diskSize(): a size that fits into 64 bits is read for what it is (the    *)
(* test against overflow in initialize(), bmfs.c:301).                      *)
THEOREM SizeIsTheOneAsked == BmfsSpec => []DiskHasTheSizeAsked
<1>1. BmfsInit => SizeInv
  BY NoDigits DEF BmfsInit, SizeInv, SizeArg
<1>2. SizeInv => DiskHasTheSizeAsked
  BY SizeIsRead DEF SizeInv, DiskHasTheSizeAsked
<1> QED
  BY <1>1, <1>2, SizeIsKept, PTL DEF BmfsSpec

-----------------------------------------------------------------------------
(* The directory.  Live records have different names, lie behind block 0 and *)
(* before the last block, and share no block with each other; what a file   *)
(* was last given is what its record leads to.  All this as long as         *)
(* create() has not strayed.                                                *)
Named(i) == directory[i].name \in FileName

DirectoryType ==
  /\ directory \in [Index -> [name : FileName \cup {End, Deleted}, start : Nat,
                              reserved : Nat, size : Nat]]
  /\ disksize \in Int /\ DOMAIN stored = FileName

NothingBehindTheEnd ==
  \A i, j \in Index : i < j /\ directory[i].name = End => directory[j].name = End

NamesDiffer ==
  \A i, j \in Index : Named(i) /\ Named(j) /\ directory[i].name = directory[j].name => i = j

OnTheDisk ==
  \A i \in Index : Named(i) =>
    /\ directory[i].start >= 1 /\ directory[i].reserved >= 1
    /\ directory[i].size <= directory[i].reserved
    /\ directory[i].start + directory[i].reserved <= disksize \div 2 - 1
    /\ directory[i].start + directory[i].reserved <= DiskBound + 1

Before(i, j) == directory[i].start + directory[i].reserved <= directory[j].start

Apart == \A i, j \in Index : Named(i) /\ Named(j) /\ i # j => Before(i, j) \/ Before(j, i)

StoredIsRead == \A i \in Index : Named(i) => stored[directory[i].name] = read(i)

StoredIsNamed ==
  \A f \in FileName : stored[f] # NoFile => \E i \in Index : directory[i].name = f

DirectoryInv ==
  /\ NothingBehindTheEnd /\ NamesDiffer /\ OnTheDisk /\ Apart /\ StoredIsRead /\ StoredIsNamed

DiskInv == DirectoryType /\ (~strayed => DirectoryInv)

LEMMA LeastOf ==
  ASSUME NEW S, S \subseteq Nat, S # {}
  PROVE  Min(S) \in S /\ \A x \in S : Min(S) <= x
<1>1. IsWellFoundedOn(OpToRel(<, Nat), Nat)
  BY NatLessThanWellFounded
<1>2. PICK m \in S : \A k \in S : ~(<<k, m>> \in OpToRel(<, Nat))
  BY <1>1, WFMin
<1>3. \A k \in S : m <= k
  <2> SUFFICES ASSUME NEW k \in S, ~(m <= k) PROVE FALSE
    OBVIOUS
  <2>1. k \in Nat /\ m \in Nat
    BY <1>2
  <2>2. k < m
    BY <2>1
  <2>3. <<k, m>> \in OpToRel(<, Nat)
    BY <2>1, <2>2 DEF OpToRel
  <2> QED
    BY <1>2, <2>3
<1>4. Min(S) = CHOOSE x \in S : \A y \in S : x <= y
  BY DEF Min
<1> QED
  BY <1>2, <1>3, <1>4

LEMMA RecordTypes ==
  ASSUME DirectoryType, NEW i \in Index
  PROVE  /\ directory[i] \in [name : FileName \cup {End, Deleted}, start : Nat, reserved : Nat, size : Nat]
         /\ directory[i].start \in Nat /\ directory[i].reserved \in Nat /\ directory[i].size \in Nat
         /\ directory[i].name \in FileName \cup {End, Deleted}
  BY DEF DirectoryType

LEMMA NamesAreNoMarks == End \notin FileName /\ Deleted \notin FileName /\ End # Deleted
  BY BmfsAssumption DEF End, Deleted

LEMMA IndexIsNatural ==
  /\ Index \subseteq Nat /\ \A i \in Index : i >= 0 /\ i < Records
  /\ \A i \in Index : \A j \in Nat : j <= i => j \in Index
  BY DiskConstants DEF Index

(* The first end mark: what lies before it was used once, nothing else was. *)
LEMMA EndIsFound ==
  ASSUME DirectoryType, NothingBehindTheEnd, Ends # {}
  PROVE  /\ numUsedEntries \in Index
         /\ \A i \in Index : directory[i].name = End <=> i >= numUsedEntries
<1>1. Ends \subseteq Nat
  BY IndexIsNatural DEF Ends
<1>2. Min(Ends) \in Ends /\ \A i \in Ends : Min(Ends) <= i
  BY <1>1, LeastOf
<1>3. numUsedEntries = Min(Ends)
  BY DEF numUsedEntries
<1>4. numUsedEntries \in Index /\ directory[numUsedEntries].name = End
  BY <1>2, <1>3 DEF Ends
<1>5. ASSUME NEW i \in Index PROVE directory[i].name = End <=> i >= numUsedEntries
  <2>1. i \in Nat /\ numUsedEntries \in Nat
    BY <1>4, IndexIsNatural
  <2>2. CASE directory[i].name = End
    BY <1>2, <1>3, <2>1, <2>2 DEF Ends
  <2>3. CASE i >= numUsedEntries
    BY <1>4, <2>1, <2>3 DEF NothingBehindTheEnd
  <2> QED
    BY <2>2, <2>3
<1> QED
  BY <1>4, <1>5

(* findfile() finds the live records of a name. *)
LEMMA FileIsFound ==
  ASSUME DirectoryType, NothingBehindTheEnd, NEW f \in FileName, NEW i
  PROVE  i \in findfile(f) <=> i \in Index /\ directory[i].name = f
<1>1. CASE i \in findfile(f)
  BY <1>1 DEF findfile, Listed
<1>2. CASE i \in Index /\ directory[i].name = f
  <2>1. ASSUME NEW j \in 0 .. i, directory[j].name = End PROVE FALSE
    <3>1. j \in Index /\ i \in Nat /\ j \in Nat
      BY <1>2, IndexIsNatural
    <3>2. j = i \/ j < i
      BY <3>1
    <3>3. directory[i].name = End
      BY <1>2, <2>1, <3>1, <3>2 DEF NothingBehindTheEnd
    <3> QED
      BY <1>2, <3>3, NamesAreNoMarks
  <2> QED
    BY <1>2, <2>1 DEF findfile, Listed
<1> QED
  BY <1>1, <1>2

(* Every used record has its place in a sorted copy. *)
LEMMA CopyIsComplete ==
  ASSUME NEW n \in Nat, NEW order \in [1 .. n -> 0 .. n - 1], IsInjective(order),
         NEW i \in 0 .. n - 1
  PROVE  \E u \in 1 .. n : order[u] = i
<1> SUFFICES ASSUME \A u \in 1 .. n : order[u] # i
             PROVE  FALSE
  OBVIOUS
<1> DEFINE T == (0 .. n - 1) \ {i}
<1>1. order \in [1 .. n -> T]
  OBVIOUS
<1>2. IsFiniteSet(1 .. n) /\ Cardinality(1 .. n) = n
  BY FS_Interval
<1>3. IsFiniteSet(0 .. n - 1) /\ Cardinality(0 .. n - 1) = n
  <2>1. 0 \in Int /\ n - 1 \in Int
    OBVIOUS
  <2> QED
    BY <2>1, FS_Interval
<1>4. IsFiniteSet(T) /\ Cardinality(T) = n - 1
  <2> DEFINE U == 0 .. n - 1
  <2>1. i \in U /\ IsFiniteSet(U) /\ Cardinality(U) = n /\ T = U \ {i}
    BY <1>3
  <2> HIDE DEF T, U
  <2> QED
    BY <2>1, FS_RemoveElement
<1> HIDE DEF T
<1>5. Cardinality(T) < Cardinality(1 .. n)
  BY <1>2, <1>4
<1>6. \E x, y \in 1 .. n : x # y /\ order[x] = order[y]
  BY <1>1, <1>2, <1>4, <1>5, FS_PigeonHole
<1>7. DOMAIN order = 1 .. n
  OBVIOUS
<1> QED
  BY <1>6, <1>7 DEF IsInjective

(* Where create() puts a file nobody else is. *)
LEMMA PlaceIsFree ==
  ASSUME DirectoryType, NothingBehindTheEnd, NamesDiffer, OnTheDisk, Apart,
         Ends # {}, disksize >= 6,
         NEW order \in SortedCopies, NEW t \in 1 .. numUsedEntries + 1,
         NEW blocks \in Nat, blocks >= 1, fitsBefore(order, t, blocks),
         t > 1 => directory[order[t - 1]].name # Deleted,
         NEW p, p = prevFileEnd(order, t)
  PROVE  /\ p \in Nat /\ p >= 1 /\ p + blocks <= disksize \div 2 - 1
         /\ \A i \in Index : Named(i) =>
              \/ directory[i].start + directory[i].reserved <= p
              \/ p + blocks <= directory[i].start
<1> DEFINE n == numUsedEntries
           last == disksize \div 2 - 1
           behind == thisFileStart(order, t)
<1>1. n \in Index /\ n \in Nat /\ \A i \in Index : directory[i].name = End <=> i >= n
  BY EndIsFound, IndexIsNatural
<1>2. last \in Int /\ last >= 2
  BY DEF DirectoryType
<1>3. /\ order \in [1 .. n -> 0 .. n - 1] /\ IsInjective(order)
      /\ \A a, b \in 1 .. n : a < b =>
           \/ directory[order[b]].name = Deleted
           \/ /\ directory[order[a]].name # Deleted
              /\ directory[order[a]].start <= directory[order[b]].start
  BY DEF SortedCopies
<1>4. t \in 1 .. n + 1
  OBVIOUS
<1>p. p = IF t = 1 THEN 1 ELSE directory[order[t - 1]].start + directory[order[t - 1]].reserved
  BY DEF prevFileEnd
<1>n. behind = IF t > n \/ directory[order[t]].name = Deleted THEN last ELSE directory[order[t]].start
  BY DEF thisFileStart
<1>r. behind - p < 0 \/ behind - p >= blocks
  BY DEF fitsBefore
<1> HIDE DEF n, last, behind
<1>5. ASSUME NEW u \in 1 .. n PROVE order[u] \in Index /\ directory[order[u]].name # End
  <2>1. order[u] \in 0 .. n - 1
    BY <1>3
  <2>2. order[u] \in Index /\ order[u] < n /\ order[u] \in Nat
    BY <1>1, <2>1, IndexIsNatural
  <2>3. ~(order[u] >= n)
    BY <1>1, <2>2
  <2> QED
    BY <1>1, <2>2, <2>3
<1>6. ASSUME NEW u \in 1 .. n, directory[order[u]].name # Deleted PROVE Named(order[u])
  BY <1>5, <1>6, RecordTypes DEF Named
<1>7. ASSUME NEW i \in Index, Named(i) PROVE \E u \in 1 .. n : order[u] = i
  <2>1. i \in Nat /\ ~(i >= n)
    BY <1>1, <1>7, NamesAreNoMarks, IndexIsNatural DEF Named
  <2>2. i \in 0 .. n - 1
    BY <1>1, <2>1
  <2> QED
    BY <1>1, <1>3, <2>2, CopyIsComplete
<1>8. ASSUME NEW i \in Index, Named(i)
      PROVE  /\ directory[i].start \in Nat /\ directory[i].reserved \in Nat
             /\ directory[i].start >= 1 /\ directory[i].reserved >= 1
             /\ directory[i].start + directory[i].reserved <= last
  BY <1>8, RecordTypes DEF OnTheDisk, last
<1>9. ASSUME NEW i \in Index, NEW j \in Index, Named(i), Named(j), i # j,
             directory[i].start <= directory[j].start
      PROVE  directory[i].start + directory[i].reserved <= directory[j].start
  <2> DEFINE s == directory[i].start
             r == directory[i].reserved
             s2 == directory[j].start
             r2 == directory[j].reserved
  <2>1. s \in Nat /\ r \in Nat /\ s2 \in Nat /\ r2 \in Nat /\ r2 >= 1 /\ s <= s2
    BY <1>8, <1>9
  <2>2. s + r <= s2 \/ s2 + r2 <= s
    BY <1>9 DEF Apart, Before
  <2> HIDE DEF s, r, s2, r2
  <2>3. s + r <= s2
    BY <2>1, <2>2
  <2> QED
    BY <2>3 DEF s, r, s2
(* What precedes the place ends before it. *)
<1>10. /\ p \in Nat /\ p >= 1 /\ p <= last
       /\ \A u \in 1 .. n : u < t /\ Named(order[u]) =>
            directory[order[u]].start + directory[order[u]].reserved <= p
  <2>1. CASE t = 1
    BY <1>2, <1>p, <2>1
  <2>2. CASE t > 1
    <3> DEFINE c == order[t - 1]
    <3>1. t - 1 \in 1 .. n
      BY <1>1, <1>4, <2>2
    <3>2. c \in Index /\ Named(c)
      BY <1>5, <1>6, <2>2, <3>1
    <3>3. p = directory[c].start + directory[c].reserved
      BY <1>p, <2>2
    <3>4. p \in Nat /\ p >= 1 /\ p <= last
      <4> DEFINE s == directory[c].start
                 r == directory[c].reserved
      <4>1. s \in Nat /\ r \in Nat /\ s >= 1 /\ s + r <= last /\ p = s + r
        BY <1>8, <3>2, <3>3
      <4> HIDE DEF s, r
      <4> QED
        BY <4>1
    <3>5. ASSUME NEW u \in 1 .. n, u < t, Named(order[u])
          PROVE  directory[order[u]].start + directory[order[u]].reserved <= p
      <4>1. CASE u = t - 1
        <5>1. order[u] = c
          BY <4>1
        <5> HIDE DEF c
        <5>2. directory[order[u]].start + directory[order[u]].reserved = p
          BY <3>3, <5>1
        <5> QED
          BY <3>4, <5>2
      <4>2. CASE u < t - 1
        <5>1. directory[order[u]].start <= directory[c].start
          BY <1>3, <2>2, <3>1, <4>2
        <5>2. order[u] # c
          <6>1. DOMAIN order = 1 .. n /\ u # t - 1
            BY <1>3, <4>2
          <6> QED
            BY <1>3, <3>1, <6>1 DEF IsInjective
        <5>3. order[u] \in Index
          BY <1>5
        <5> DEFINE s == directory[order[u]].start
                   r == directory[order[u]].reserved
                   s2 == directory[c].start
                   r2 == directory[c].reserved
        <5> HIDE DEF c
        <5>4. s + r <= s2
          BY <1>9, <3>2, <3>5, <5>1, <5>2, <5>3
        <5>5. s \in Nat /\ r \in Nat /\ s2 \in Nat /\ r2 \in Nat /\ p = s2 + r2
          BY <1>8, <3>2, <3>3, <3>5, <5>3
        <5> HIDE DEF s, r, s2, r2
        <5>6. s + r <= p
          BY <5>4, <5>5
        <5> QED
          BY <5>6 DEF s, r
      <4>3. u = t - 1 \/ u < t - 1
        BY <1>1, <1>4, <3>5
      <4> QED
        BY <4>1, <4>2, <4>3
    <3> QED
      BY <3>4, <3>5
  <2> QED
    BY <1>4, <2>1, <2>2
(* What follows it begins behind the room there is. *)
<1>11. /\ behind \in Int /\ p <= behind /\ behind <= last
       /\ \A u \in 1 .. n : u >= t /\ Named(order[u]) => behind <= directory[order[u]].start
  <2>1. CASE t > n
    <3>1. \A u \in 1 .. n : ~(u >= t)
      BY <1>1, <1>4, <2>1
    <3> QED
      BY <1>2, <1>10, <1>n, <2>1, <3>1
  <2>2. CASE t <= n /\ directory[order[t]].name = Deleted
    <3>1. t \in 1 .. n
      BY <1>1, <1>4, <2>2
    <3>2. ASSUME NEW u \in 1 .. n, u >= t, Named(order[u]) PROVE FALSE
      <4>1. directory[order[u]].name # Deleted
        BY <3>2, NamesAreNoMarks DEF Named
      <4>2. u # t
        BY <2>2, <4>1
      <4>3. t < u
        BY <1>4, <3>2, <4>2
      <4> QED
        BY <1>3, <2>2, <3>1, <4>1, <4>3
    <3> QED
      BY <1>2, <1>10, <1>n, <2>2, <3>2
  <2>3. CASE t <= n /\ directory[order[t]].name # Deleted
    <3> DEFINE d == order[t]
    <3>1. t \in 1 .. n
      BY <1>1, <1>4, <2>3
    <3>2. d \in Index /\ Named(d)
      BY <1>5, <1>6, <2>3, <3>1
    <3>3. behind = directory[d].start
      BY <1>1, <1>4, <1>n, <2>3
    <3>4. behind \in Nat /\ behind >= 1 /\ behind <= last
      <4> DEFINE s == directory[d].start
                 r == directory[d].reserved
      <4>1. s \in Nat /\ r \in Nat /\ s >= 1 /\ s + r <= last /\ behind = s
        BY <1>8, <3>2, <3>3
      <4> HIDE DEF s, r
      <4> QED
        BY <1>2, <4>1
    <3>5. p <= behind
      <4>1. CASE t = 1
        BY <1>p, <3>4, <4>1
      <4>2. CASE t > 1
        <5> DEFINE c == order[t - 1]
        <5>1. t - 1 \in 1 .. n /\ t - 1 < t
          BY <1>1, <1>4, <4>2
        <5>2. c \in Index /\ Named(c)
          BY <1>5, <1>6, <4>2, <5>1
        <5>3. directory[c].start <= directory[d].start
          BY <1>3, <2>3, <3>1, <5>1
        <5>4. c # d
          <6>1. DOMAIN order = 1 .. n /\ t # t - 1
            BY <1>3, <5>1
          <6> QED
            BY <1>3, <3>1, <5>1, <6>1 DEF IsInjective
        <5>5. p = directory[c].start + directory[c].reserved
          BY <1>p, <4>2
        <5> HIDE DEF c, d
        <5>6. directory[c].start + directory[c].reserved <= directory[d].start
          BY <1>9, <3>2, <5>2, <5>3, <5>4
        <5> QED
          BY <3>3, <5>5, <5>6
      <4> QED
        BY <1>4, <4>1, <4>2
    <3>6. ASSUME NEW u \in 1 .. n, u >= t, Named(order[u]) PROVE behind <= directory[order[u]].start
      <4>1. directory[order[u]].name # Deleted
        BY <3>6, NamesAreNoMarks DEF Named
      <4>2. CASE u = t
        <5>1. directory[order[u]].start = behind
          BY <3>3, <4>2
        <5> QED
          BY <3>4, <5>1
      <4>3. CASE u # t
        <5>1. t < u
          BY <1>4, <3>6, <4>3
        <5> QED
          BY <1>3, <3>1, <3>3, <4>1, <5>1
      <4> QED
        BY <4>2, <4>3
    <3> QED
      BY <3>4, <3>5, <3>6
  <2> QED
    BY <1>1, <1>4, <2>1, <2>2, <2>3
<1>12. p + blocks <= behind
  BY <1>10, <1>11, <1>r
<1>13. p + blocks <= last
  BY <1>2, <1>10, <1>11, <1>12
<1>14. ASSUME NEW i \in Index, Named(i)
       PROVE  \/ directory[i].start + directory[i].reserved <= p
              \/ p + blocks <= directory[i].start
  <2>1. PICK u \in 1 .. n : order[u] = i
    BY <1>7, <1>14
  <2>2. CASE u < t
    BY <1>10, <1>14, <2>1, <2>2
  <2>3. CASE u >= t
    <3> DEFINE s == directory[i].start
    <3>1. behind <= s /\ s \in Nat
      BY <1>8, <1>11, <1>14, <2>1, <2>3
    <3> HIDE DEF s
    <3>2. p + blocks <= s
      BY <1>10, <1>11, <1>12, <3>1
    <3> QED
      BY <3>2 DEF s
  <2> QED
    BY <1>4, <2>2, <2>3
<1> QED
  BY <1>10, <1>13, <1>14 DEF last

LEMMA DataAreSequences ==
  ASSUME NEW content \in SeqOf(Datum, Max(MaxSizes) \div 2 + 1)
  PROVE  content \in Seq(Datum) /\ Len(content) \in Nat /\ content = [k \in 1 .. Len(content) |-> content[k]]
<1>1. PICK n \in MaxSizes : \A m \in MaxSizes : m <= n
  BY BmfsAssumption
<1>2. MaxSizes \subseteq Nat
  BY BmfsAssumption
<1>3. Max(MaxSizes) \in MaxSizes
  <2>1. \A m \in MaxSizes : n >= m
    BY <1>1, <1>2
  <2>2. Max(MaxSizes) = CHOOSE x \in MaxSizes : \A y \in MaxSizes : x >= y
    BY DEF Max
  <2> QED
    BY <2>1, <2>2
<1> DEFINE N == Max(MaxSizes) \div 2 + 1
<1>4. N \in Int
  <2>1. \A m \in Nat : m \div 2 + 1 \in Int
    OBVIOUS
  <2>2. Max(MaxSizes) \in Nat
    BY <1>2, <1>3
  <2> QED
    BY <2>1, <2>2
<1>5. content \in SeqOf(Datum, N)
  OBVIOUS
<1> HIDE DEF N
<1>6. PICK m \in 0 .. N : content \in [1 .. m -> Datum]
  BY <1>5 DEF SeqOf
<1>7. m \in Nat
  BY <1>4, <1>6
<1>8. content \in Seq(Datum)
  BY <1>6, <1>7, SeqDef
<1> QED
  BY <1>8, LenProperties

LEMMA OrdersAreIndexes ==
  ASSUME DirectoryType, NEW order \in SortedCopies, NEW u \in 1 .. numUsedEntries
  PROVE  order[u] \in Index /\ numUsedEntries \in Nat
<1>1. numUsedEntries \in Nat /\ numUsedEntries < Records
  <2>1. CASE Ends = {}
    BY <2>1, DiskConstants DEF numUsedEntries
  <2>2. CASE Ends # {}
    <3>1. Ends \subseteq Index
      BY DEF Ends
    <3>2. Min(Ends) \in Index
      BY <2>2, <3>1, LeastOf, IndexIsNatural
    <3> QED
      BY <2>2, <3>2, IndexIsNatural DEF numUsedEntries
  <2> QED
    BY <2>1, <2>2
<1> DEFINE n == numUsedEntries
<1>2. order \in [1 .. n -> 0 .. n - 1] /\ u \in 1 .. n /\ n \in Nat /\ n < Records
  BY <1>1 DEF SortedCopies
<1> HIDE DEF n
<1>3. order[u] \in 0 .. n - 1
  BY <1>2
<1>4. order[u] \in Index
  BY <1>2, <1>3, DiskConstants DEF Index
<1> QED
  BY <1>1, <1>4

LEMMA FileEndType ==
  ASSUME DirectoryType, NEW order \in SortedCopies, NEW t \in 1 .. numUsedEntries + 1,
         numUsedEntries \in Nat
  PROVE  prevFileEnd(order, t) \in Nat
<1>1. CASE t = 1
  BY <1>1 DEF prevFileEnd
<1>2. CASE t # 1
  <2>1. t - 1 \in 1 .. numUsedEntries
    BY <1>2
  <2> DEFINE s == directory[order[t - 1]].start
             r == directory[order[t - 1]].reserved
  <2>2. s \in Nat /\ r \in Nat
    BY <2>1, OrdersAreIndexes, RecordTypes
  <2>3. prevFileEnd(order, t) = s + r
    BY <1>2 DEF prevFileEnd
  <2> HIDE DEF s, r
  <2> QED
    BY <2>2, <2>3
<1> QED
  BY <1>1, <1>2

LEMMA UsedEntriesType ==
  ASSUME DirectoryType
  PROVE  numUsedEntries \in Nat
<1>1. CASE Ends = {}
  BY <1>1 DEF numUsedEntries
<1>2. CASE Ends # {}
  <2>1. Ends \subseteq Nat
    BY IndexIsNatural DEF Ends
  <2> QED
    BY <1>2, <2>1, LeastOf DEF numUsedEntries
<1> QED
  BY <1>1, <1>2

LEMMA BlocksOf ==
  ASSUME NEW maxsize \in MaxSizes
  PROVE  (maxsize + 1) \div 2 \in Nat /\ (maxsize + 1) \div 2 >= 1
  BY BmfsAssumption

(* What create() does, without the search. *)
Created(f, slot, p, blocks) ==
  /\ slot \in Index /\ directory[slot].name \in {End, Deleted} /\ findfile(f) = {}
  /\ \A i \in Index : directory[i].name \in {End, Deleted} => slot <= i
  /\ p \in Nat /\ blocks \in Nat /\ blocks >= 1 /\ p + blocks <= DiskBound
  /\ directory' = withRecord(slot, [name |-> f, start |-> p, reserved |-> blocks, size |-> 0])
  /\ stored' = [stored EXCEPT ![f] = <<>>]
  /\ UNCHANGED <<disksize, block>>
  /\ DirectoryInv /\ ~strayed' =>
       /\ ~strayed /\ Ends # {}
       /\ p >= 1 /\ p + blocks <= disksize \div 2 - 1
       /\ \A i \in Index : Named(i) =>
            \/ directory[i].start + directory[i].reserved <= p
            \/ p + blocks <= directory[i].start

LEMMA CreateSteps ==
  ASSUME DirectoryType, Create
  PROVE  \E f \in FileName : \E slot, p, blocks : Created(f, slot, p, blocks)
<1>1. PICK f \in FileName, maxsize \in MaxSizes, order \in SortedCopies :
        LET blocks == (maxsize + 1) \div 2
            fitting == {t \in 1..numUsedEntries + 1 : fitsBefore(order, t, blocks)}
            t == Min(fitting)
        IN /\ formatted
           /\ findfile(f) = {} /\ freeEntries # {} /\ fitting # {}
           /\ prevFileEnd(order, t) + blocks <= DiskBound
           /\ directory' = withRecord(Min(freeEntries),
                [name |-> f, start |-> prevFileEnd(order, t), reserved |-> blocks, size |-> 0])
           /\ stored' = [stored EXCEPT ![f] = <<>>]
           /\ strayed' = \/ strayed \/ Ends = {} \/ disksize * MiB < minimumDiskSize
                         \/ t > 1 /\ directory[order[t - 1]].name = Deleted
           /\ UNCHANGED <<sizeArg, diskBytes, disksize, formatted, block>>
  BY DEF Create
<1> DEFINE blocks == (maxsize + 1) \div 2
           fitting == {t \in 1..numUsedEntries + 1 : fitsBefore(order, t, blocks)}
           t == Min(fitting)
           slot == Min(freeEntries)
           p == prevFileEnd(order, t)
<1>2. /\ findfile(f) = {} /\ freeEntries # {} /\ fitting # {}
      /\ p + blocks <= DiskBound
      /\ directory' = withRecord(slot, [name |-> f, start |-> p, reserved |-> blocks, size |-> 0])
      /\ stored' = [stored EXCEPT ![f] = <<>>]
      /\ strayed' = \/ strayed \/ Ends = {} \/ disksize * MiB < minimumDiskSize
                    \/ t > 1 /\ directory[order[t - 1]].name = Deleted
      /\ UNCHANGED <<disksize, block>>
  BY <1>1
<1>3. blocks \in Nat /\ blocks >= 1
  BY BlocksOf
<1> HIDE DEF blocks
<1>4. numUsedEntries \in Nat
  BY UsedEntriesType
<1>5. t \in 1 .. numUsedEntries + 1 /\ fitsBefore(order, t, blocks)
  <2>1. fitting \subseteq Nat
    BY <1>4
  <2>2. t \in fitting
    <3> HIDE DEF fitting
    <3> QED
      BY <1>2, <2>1, LeastOf
  <2> HIDE DEF t
  <2> QED
    BY <2>2
<1> HIDE DEF t, fitting
<1>6. p \in Nat
  BY <1>4, <1>5, FileEndType
<1>7. /\ slot \in Index /\ directory[slot].name \in {End, Deleted}
      /\ \A i \in Index : directory[i].name \in {End, Deleted} => slot <= i
  <2>1. freeEntries \subseteq Nat
    BY IndexIsNatural DEF freeEntries
  <2>2. slot \in freeEntries /\ \A i \in freeEntries : slot <= i
    BY <1>2, <2>1, LeastOf
  <2> HIDE DEF slot
  <2> QED
    BY <2>2 DEF freeEntries
<1>8. ASSUME DirectoryInv, ~strayed'
      PROVE  /\ ~strayed /\ Ends # {}
             /\ p >= 1 /\ p + blocks <= disksize \div 2 - 1
             /\ \A i \in Index : Named(i) =>
                  \/ directory[i].start + directory[i].reserved <= p
                  \/ p + blocks <= directory[i].start
  <2>1. /\ ~strayed /\ Ends # {} /\ ~(disksize * MiB < minimumDiskSize)
        /\ t > 1 => directory[order[t - 1]].name # Deleted
    BY <1>2, <1>8
  <2>2. disksize >= 6
    <3> SUFFICES ASSUME disksize < 6 PROVE FALSE
      BY DEF DirectoryType
    <3>1. disksize \in Int /\ MiB \in Nat /\ MiB > 0
      BY DiskConstants DEF DirectoryType
    <3>2. disksize * MiB < 6 * MiB
      BY <3>1
    <3> QED
      BY <2>1, <3>2 DEF minimumDiskSize
  <2>3. NothingBehindTheEnd /\ NamesDiffer /\ OnTheDisk /\ Apart
    BY <1>8 DEF DirectoryInv
  <2>4. p = prevFileEnd(order, t)
    OBVIOUS
  <2> HIDE DEF p, slot
  <2> QED
    BY <1>3, <1>5, <2>1, <2>2, <2>3, <2>4, PlaceIsFree
<1> HIDE DEF p, slot
<1>9. Created(f, slot, p, blocks)
  BY <1>2, <1>3, <1>6, <1>7, <1>8 DEF Created
<1> QED
  BY <1>9

(* What write() does. *)
Written(f, slot, content) ==
  /\ slot \in Index /\ directory[slot].name = f
  /\ content \in Seq(Datum) /\ Len(content) \in Nat /\ content = [k \in 1 .. Len(content) |-> content[k]]
  /\ Len(content) <= directory[slot].reserved
  /\ directory[slot].start + Len(content) <= DiskBound + 1
  /\ block' = [b \in 0..DiskBound |->
        IF b \in directory[slot].start..directory[slot].start + Len(content) - 1
        THEN content[b - directory[slot].start + 1] ELSE block[b]]
  /\ directory' = [directory EXCEPT ![slot].size = Len(content)]
  /\ disksize' \in Int /\ disksize' >= disksize
  /\ stored' = [stored EXCEPT ![f] = content]
  /\ strayed' = strayed

WriteTo(f, slot, content) ==
  LET start == directory[slot].start
  IN /\ formatted
     /\ hasRoom(directory[slot], content) /\ start + Len(content) <= DiskBound + 1
     /\ block' = [b \in 0..DiskBound |->
          IF b \in start..start + Len(content) - 1 THEN content[b - start + 1] ELSE block[b]]
     /\ directory' = [directory EXCEPT ![slot].size = Len(content)]
     /\ disksize' = IF content = <<>> THEN disksize ELSE Max({disksize, 2 * (start + Len(content))})
     /\ stored' = [stored EXCEPT ![f] = content]
     /\ UNCHANGED <<sizeArg, diskBytes, formatted, strayed>>

LEMMA WriteSteps ==
  ASSUME DirectoryType, Write
  PROVE  \E f \in FileName : \E slot, content : Written(f, slot, content)
<1>0. PICK f \in FileName : \E slot \in findfile(f) :
        \E content \in SeqOf(Datum, Max(MaxSizes) \div 2 + 1) :
          WriteTo(f, slot, content)
  BY DEF Write, WriteTo
<1>1. PICK slot \in findfile(f), content \in SeqOf(Datum, Max(MaxSizes) \div 2 + 1) :
        WriteTo(f, slot, content)
  BY <1>0
<1>2. content \in Seq(Datum) /\ Len(content) \in Nat /\ content = [k \in 1 .. Len(content) |-> content[k]]
  BY DataAreSequences
<1>3. slot \in Index /\ directory[slot].name = f
  BY <1>1 DEF findfile, Listed
<1>4. disksize' \in Int /\ disksize' >= disksize
  <2> DEFINE e == 2 * (directory[slot].start + Len(content))
             s == directory[slot].start
             l == Len(content)
  <2>1. e \in Int
    <3>1. s \in Nat /\ l \in Nat /\ e = 2 * (s + l)
      BY <1>2, <1>3, RecordTypes
    <3> HIDE DEF s, l, e
    <3> QED
      BY <3>1
  <2>2. disksize \in Int
    BY DEF DirectoryType
  <2>3. disksize' = IF content = <<>> THEN disksize ELSE Max({disksize, e})
    BY <1>1 DEF WriteTo
  <2> HIDE DEF e, s, l
  <2>4. Max({disksize, e}) = CHOOSE m \in {disksize, e} : \A y \in {disksize, e} : m >= y
    BY DEF Max
  <2>5. \E m \in {disksize, e} : \A y \in {disksize, e} : m >= y
    BY <2>1, <2>2
  <2>6. Max({disksize, e}) \in {disksize, e} /\ Max({disksize, e}) >= disksize
    BY <2>4, <2>5
  <2> QED
    BY <2>1, <2>2, <2>3, <2>6
<1>5. Written(f, slot, content)
  BY <1>1, <1>2, <1>3, <1>4 DEF Written, WriteTo, hasRoom
<1> QED
  BY <1>5

(* The types are kept, whether create() has strayed or not. *)
LEMMA DirectoryTypeKept ==
  ASSUME DirectoryType, [BmfsNext]_diskVars
  PROVE  DirectoryType'
<1> DEFINE Record == [name : FileName \cup {End, Deleted}, start : Nat, reserved : Nat, size : Nat]
<1>1. EmptyRecord \in Record
  BY DEF EmptyRecord
<1>2. CASE Initialize
  <2>1. PICK arg \in SizeArgs :
          disksize' \in ShortSizes \cup {diskSizeOf(arg) \div MiB}
    BY <1>2 DEF Initialize
  <2>2. diskSizeOf(arg) \in Int
    BY <2>1, SizeIsRead DEF SizeArg
  <2>3. disksize' \in Int
    BY <2>1, <2>2, DiskConstants, BmfsAssumption
  <2>4. /\ directory' = [i \in Index |-> EmptyRecord]
        /\ stored' = [f \in FileName |-> NoFile]
    BY <1>2 DEF Initialize, format
  <2> HIDE DEF Record
  <2>5. directory' \in [Index -> Record] /\ DOMAIN stored' = FileName
    BY <1>1, <2>4
  <2> QED
    BY <2>3, <2>5 DEF DirectoryType, Record
<1>3. CASE Format
  <2>1. /\ directory' = [i \in Index |-> EmptyRecord]
        /\ stored' = [f \in FileName |-> NoFile] /\ disksize' = disksize
    BY <1>3 DEF Format, format
  <2> HIDE DEF Record
  <2>2. directory' \in [Index -> Record] /\ DOMAIN stored' = FileName /\ disksize' \in Int
    BY <1>1, <2>1 DEF DirectoryType
  <2> QED
    BY <2>2 DEF DirectoryType, Record
<1>4. CASE Create
  <2>0. PICK f \in FileName : \E slot, p, blocks : Created(f, slot, p, blocks)
    BY <1>4, CreateSteps
  <2>1. PICK slot, p, blocks : Created(f, slot, p, blocks)
    BY <2>0
  <2> DEFINE new == [name |-> f, start |-> p, reserved |-> blocks, size |-> 0]
  <2>2. new \in Record
    BY <2>1 DEF Created
  <2>3. \A i \in Index : directory[i] \in Record /\ [directory[i] EXCEPT !.name = End] \in Record
    BY DEF DirectoryType
  <2>4. directory' = withRecord(slot, new) /\ disksize' = disksize /\ stored' = [stored EXCEPT ![f] = <<>>]
    BY <2>1 DEF Created
  <2> HIDE DEF new, Record
  <2>5. directory' \in [Index -> Record]
    BY <2>2, <2>3, <2>4 DEF withRecord
  <2>6. DOMAIN stored' = FileName /\ disksize' \in Int
    BY <2>4 DEF DirectoryType
  <2> QED
    BY <2>5, <2>6 DEF DirectoryType, Record
<1>5. CASE Write
  <2>0. PICK f \in FileName : \E slot, content : Written(f, slot, content)
    BY <1>5, WriteSteps
  <2>1. PICK slot, content : Written(f, slot, content)
    BY <2>0
  <2>2. /\ slot \in Index /\ Len(content) \in Nat /\ directory' = [directory EXCEPT ![slot].size = Len(content)]
        /\ stored' = [stored EXCEPT ![f] = content] /\ disksize' \in Int
    BY <2>1 DEF Written
  <2> QED
    BY <2>2 DEF DirectoryType
<1>6. CASE Delete
  BY <1>6 DEF Delete, findfile, Listed, DirectoryType
<1>7. CASE UNCHANGED diskVars
  BY <1>7 DEF diskVars, DirectoryType
<1> QED
  BY <1>2, <1>3, <1>4, <1>5, <1>6, <1>7 DEF BmfsNext

(* A directory that was just written is empty. *)
LEMMA FreshDirectory ==
  ASSUME NEW d, NEW s, d = [i \in Index |-> EmptyRecord], s = [f \in FileName |-> NoFile]
  PROVE  /\ \A i \in Index : d[i].name = End /\ d[i].name \notin FileName
         /\ \A f \in FileName : s[f] = NoFile
  BY NamesAreNoMarks DEF EmptyRecord

LEMMA FreshInv ==
  ASSUME directory' = [i \in Index |-> EmptyRecord], stored' = [f \in FileName |-> NoFile]
  PROVE  DirectoryInv'
<1>1. /\ \A i \in Index : directory'[i].name = End /\ ~Named(i)'
      /\ \A f \in FileName : stored'[f] = NoFile
  BY FreshDirectory DEF Named
<1>2. NothingBehindTheEnd'
  BY <1>1 DEF NothingBehindTheEnd
<1>3. NamesDiffer' /\ OnTheDisk' /\ Apart' /\ StoredIsRead'
  BY <1>1 DEF NamesDiffer, OnTheDisk, Apart, StoredIsRead
<1>4. StoredIsNamed'
  BY <1>1 DEF StoredIsNamed
<1> QED
  BY <1>2, <1>3, <1>4 DEF DirectoryInv

LEMMA CreateKeeps ==
  ASSUME DirectoryType, DirectoryInv, NEW f \in FileName, NEW slot, NEW p, NEW blocks,
         Created(f, slot, p, blocks), ~strayed'
  PROVE  DirectoryInv'
<1> DEFINE new == [name |-> f, start |-> p, reserved |-> blocks, size |-> 0]
<1>1. /\ slot \in Index /\ directory[slot].name \in {End, Deleted} /\ findfile(f) = {}
      /\ \A i \in Index : directory[i].name \in {End, Deleted} => slot <= i
      /\ p \in Nat /\ blocks \in Nat /\ blocks >= 1 /\ p + blocks <= DiskBound
      /\ directory' = withRecord(slot, new)
      /\ stored' = [stored EXCEPT ![f] = <<>>]
      /\ disksize' = disksize /\ block' = block
      /\ Ends # {}
      /\ p >= 1 /\ p + blocks <= disksize \div 2 - 1
      /\ \A i \in Index : Named(i) =>
           \/ directory[i].start + directory[i].reserved <= p
           \/ p + blocks <= directory[i].start
  BY DEF Created
<1>2. /\ NothingBehindTheEnd /\ NamesDiffer /\ OnTheDisk /\ Apart /\ StoredIsRead /\ StoredIsNamed
  BY DEF DirectoryInv
<1>3. ASSUME NEW i \in Index PROVE directory'[i] = IF i = slot THEN new ELSE directory[i]
  <2>1. CASE i = slot + 1 /\ slot = numUsedEntries
    <3>1. i \in Nat /\ slot \in Nat
      BY <1>1, IndexIsNatural
    <3>2. directory[i].name = End
      BY <1>1, <1>2, <2>1, <3>1, EndIsFound
    <3>3. [directory[i] EXCEPT !.name = End] = directory[i]
      <4> DEFINE r == directory[i]
      <4>1. r \in [name : FileName \cup {End, Deleted}, start : Nat, reserved : Nat, size : Nat] /\ r.name = End
        BY <3>2, RecordTypes
      <4> HIDE DEF r
      <4>2. [r EXCEPT !.name = End] = r
        BY <4>1
      <4> QED
        BY <4>2 DEF r
    <3> HIDE DEF new
    <3> QED
      BY <1>1, <2>1, <3>1, <3>3 DEF withRecord
  <2>2. CASE ~(i = slot + 1 /\ slot = numUsedEntries)
    <3> HIDE DEF new
    <3> QED
      BY <1>1, <2>2 DEF withRecord
  <2> QED
    BY <2>1, <2>2
<1>4. /\ directory'[slot].name = f /\ directory'[slot].start = p
      /\ directory'[slot].reserved = blocks /\ directory'[slot].size = 0
  BY <1>1, <1>3
<1>5. \A i \in Index : i # slot => directory'[i] = directory[i] /\ (Named(i)' <=> Named(i))
  <2> HIDE DEF new
  <2> QED
    BY <1>3 DEF Named
<1> HIDE DEF new
<1>6. ASSUME NEW i \in Index, directory[i].name = f PROVE FALSE
  BY <1>1, <1>2, <1>6, FileIsFound
<1>7. slot \in Nat /\ ~Named(slot)
  BY <1>1, IndexIsNatural, NamesAreNoMarks DEF Named
<1>8. NothingBehindTheEnd'
  <2> SUFFICES ASSUME NEW i \in Index, NEW j \in Index, i < j, directory'[i].name = End
               PROVE  directory'[j].name = End
    BY DEF NothingBehindTheEnd
  <2>1. i # slot
    BY <1>4, NamesAreNoMarks
  <2>2. directory[i].name = End
    BY <1>5, <2>1
  <2>3. directory[j].name = End /\ slot <= i
    BY <1>1, <1>2, <2>2 DEF NothingBehindTheEnd
  <2>4. j # slot
    BY <1>7, <2>3, IndexIsNatural
  <2> QED
    BY <1>5, <2>3, <2>4
<1>9. NamesDiffer'
  <2> SUFFICES ASSUME NEW i \in Index, NEW j \in Index, Named(i)', Named(j)',
                      directory'[i].name = directory'[j].name
               PROVE  i = j
    BY DEF NamesDiffer
  <2>1. CASE i # slot /\ j # slot
    BY <1>2, <1>5, <2>1 DEF NamesDiffer
  <2>2. CASE i = slot /\ j # slot
    BY <1>4, <1>5, <1>6, <2>2
  <2>3. CASE i # slot /\ j = slot
    BY <1>4, <1>5, <1>6, <2>3
  <2> QED
    BY <2>1, <2>2, <2>3
<1>10. OnTheDisk'
  <2> SUFFICES ASSUME NEW i \in Index, Named(i)'
               PROVE  /\ directory'[i].start >= 1 /\ directory'[i].reserved >= 1
                      /\ directory'[i].size <= directory'[i].reserved
                      /\ directory'[i].start + directory'[i].reserved <= disksize' \div 2 - 1
                      /\ directory'[i].start + directory'[i].reserved <= DiskBound + 1
    BY DEF OnTheDisk
  <2>1. CASE i = slot
    <3>1. p + blocks <= DiskBound + 1 /\ 0 <= blocks
      BY <1>1, DiskConstants
    <3> QED
      BY <1>1, <1>4, <2>1, <3>1
  <2>2. CASE i # slot
    BY <1>1, <1>2, <1>5, <2>2 DEF OnTheDisk
  <2> QED
    BY <2>1, <2>2
<1>11. Apart'
  <2>1. ASSUME NEW i \in Index, NEW j \in Index, Named(i)', Named(j)', i # j
        PROVE  \/ directory'[i].start + directory'[i].reserved <= directory'[j].start
               \/ directory'[j].start + directory'[j].reserved <= directory'[i].start
    <3>1. CASE i # slot /\ j # slot
      BY <1>2, <1>5, <2>1, <3>1 DEF Apart, Before
    <3>2. CASE i = slot /\ j # slot
      <4>1. Named(j) /\ directory'[j] = directory[j]
        BY <1>5, <2>1, <3>2
      <4>2. directory[j].start + directory[j].reserved <= p \/ p + blocks <= directory[j].start
        BY <1>1, <4>1
      <4> QED
        BY <1>4, <3>2, <4>1, <4>2
    <3>3. CASE i # slot /\ j = slot
      <4>1. Named(i) /\ directory'[i] = directory[i]
        BY <1>5, <2>1, <3>3
      <4>2. directory[i].start + directory[i].reserved <= p \/ p + blocks <= directory[i].start
        BY <1>1, <4>1
      <4> QED
        BY <1>4, <3>3, <4>1, <4>2
    <3> QED
      BY <2>1, <3>1, <3>2, <3>3
  <2> QED
    BY <2>1 DEF Apart, Before
<1>12. StoredIsRead'
  <2> SUFFICES ASSUME NEW i \in Index, Named(i)' PROVE stored'[directory'[i].name] = read(i)'
    BY DEF StoredIsRead
  <2>1. CASE i = slot
    <3>1. stored'[f] = <<>>
      BY <1>1 DEF DirectoryType
    <3>2. read(i)' = [k \in 1 .. 0 |-> block'[directory'[slot].start + k - 1]]
      BY <1>4, <2>1 DEF read
    <3>3. read(i)' = <<>>
      BY <3>2
    <3> QED
      BY <1>4, <2>1, <3>1, <3>3
  <2>2. CASE i # slot
    <3>1. Named(i) /\ directory'[i] = directory[i] /\ directory[i].name # f
      BY <1>5, <1>6, <2>2
    <3>2. stored'[directory[i].name] = stored[directory[i].name]
      BY <1>1, <3>1 DEF DirectoryType, Named
    <3>3. read(i)' = read(i)
      BY <1>1, <3>1 DEF read
    <3> QED
      BY <1>2, <3>1, <3>2, <3>3 DEF StoredIsRead
  <2> QED
    BY <2>1, <2>2
<1>13. StoredIsNamed'
  <2> SUFFICES ASSUME NEW g \in FileName, stored'[g] # NoFile PROVE \E i \in Index : directory'[i].name = g
    BY DEF StoredIsNamed
  <2>1. CASE g = f
    BY <1>1, <1>4, <2>1
  <2>2. CASE g # f
    <3>1. stored[g] # NoFile
      BY <1>1, <2>2 DEF DirectoryType
    <3>2. PICK i \in Index : directory[i].name = g
      BY <1>2, <3>1 DEF StoredIsNamed
    <3>3. i # slot
      BY <1>7, <3>2 DEF Named
    <3> QED
      BY <1>5, <3>2, <3>3
  <2> QED
    BY <2>1, <2>2
<1> QED
  BY <1>8, <1>9, <1>10, <1>11, <1>12, <1>13 DEF DirectoryInv

LEMMA WriteKeeps ==
  ASSUME DirectoryType, DirectoryInv, NEW f \in FileName, NEW slot, NEW content,
         Written(f, slot, content)
  PROVE  DirectoryInv'
<1>1. /\ slot \in Index /\ directory[slot].name = f
      /\ content \in Seq(Datum) /\ Len(content) \in Nat /\ content = [k \in 1 .. Len(content) |-> content[k]]
      /\ Len(content) <= directory[slot].reserved
      /\ directory[slot].start + Len(content) <= DiskBound + 1
      /\ block' = [b \in 0..DiskBound |->
            IF b \in directory[slot].start..directory[slot].start + Len(content) - 1
            THEN content[b - directory[slot].start + 1] ELSE block[b]]
      /\ directory' = [directory EXCEPT ![slot].size = Len(content)]
      /\ disksize' \in Int /\ disksize' >= disksize
      /\ stored' = [stored EXCEPT ![f] = content]
  BY DEF Written
<1>2. /\ NothingBehindTheEnd /\ NamesDiffer /\ OnTheDisk /\ Apart /\ StoredIsRead /\ StoredIsNamed
  BY DEF DirectoryInv
<1>3. ASSUME NEW i \in Index
      PROVE  /\ directory'[i].name = directory[i].name /\ directory'[i].start = directory[i].start
             /\ directory'[i].reserved = directory[i].reserved
             /\ i # slot => directory'[i].size = directory[i].size
             /\ i = slot => directory'[i].size = Len(content)
             /\ Named(i)' <=> Named(i)
  BY <1>1 DEF DirectoryType, Named
<1>4. Named(slot)
  BY <1>1 DEF Named
<1>5. NothingBehindTheEnd' /\ NamesDiffer'
  BY <1>2, <1>3 DEF NothingBehindTheEnd, NamesDiffer
<1>6. OnTheDisk'
  <2> SUFFICES ASSUME NEW i \in Index, Named(i)'
               PROVE  /\ directory'[i].start >= 1 /\ directory'[i].reserved >= 1
                      /\ directory'[i].size <= directory'[i].reserved
                      /\ directory'[i].start + directory'[i].reserved <= disksize' \div 2 - 1
                      /\ directory'[i].start + directory'[i].reserved <= DiskBound + 1
    BY DEF OnTheDisk
  <2>1. /\ directory[i].start >= 1 /\ directory[i].reserved >= 1
        /\ directory[i].size <= directory[i].reserved
        /\ directory[i].start + directory[i].reserved <= disksize \div 2 - 1
        /\ directory[i].start + directory[i].reserved <= DiskBound + 1
    BY <1>2, <1>3 DEF OnTheDisk
  <2>2. directory[i].start + directory[i].reserved <= disksize' \div 2 - 1
    <3> DEFINE e == directory[i].start + directory[i].reserved
               s == directory[i].start
               r == directory[i].reserved
    <3>1. s \in Nat /\ r \in Nat /\ e = s + r
      BY RecordTypes
    <3>2. e <= disksize \div 2 - 1
      BY <2>1
    <3> HIDE DEF e, s, r
    <3>3. e <= disksize' \div 2 - 1
      BY <1>1, <3>1, <3>2 DEF DirectoryType
    <3> QED
      BY <3>3 DEF e
  <2>3. directory'[i].size <= directory'[i].reserved
    BY <1>1, <1>3, <2>1
  <2> QED
    BY <1>3, <2>1, <2>2, <2>3
<1>7. Apart'
  <2>1. ASSUME NEW i \in Index, NEW j \in Index, Named(i)', Named(j)', i # j
        PROVE  \/ directory'[i].start + directory'[i].reserved <= directory'[j].start
               \/ directory'[j].start + directory'[j].reserved <= directory'[i].start
    BY <1>2, <1>3, <2>1 DEF Apart, Before
  <2> QED
    BY <2>1 DEF Apart, Before
<1>8. StoredIsRead'
  <2> SUFFICES ASSUME NEW i \in Index, Named(i)' PROVE stored'[directory'[i].name] = read(i)'
    BY DEF StoredIsRead
  <2> DEFINE s == directory[slot].start
             l == Len(content)
  <2>0. s \in Nat /\ l \in Nat /\ s >= 1 /\ s + l <= DiskBound + 1
    BY <1>1, <1>2, <1>4, RecordTypes DEF OnTheDisk
  <2>b. \A b \in 0 .. DiskBound :
          block'[b] = IF b \in s .. s + l - 1 THEN content[b - s + 1] ELSE block[b]
    BY <1>1
  <2>1. CASE i = slot
    <3>1. stored'[f] = content
      BY <1>1 DEF DirectoryType
    <3>2. read(i)' = [k \in 1 .. l |-> block'[s + k - 1]]
      BY <1>1, <1>3, <2>1 DEF read
    <3>d. content = [k \in 1 .. l |-> content[k]]
      BY <1>1
    <3> HIDE DEF s, l
    <3>3. ASSUME NEW k \in 1 .. l PROVE block'[s + k - 1] = content[k]
      <4>1. /\ s + k - 1 \in 0 .. DiskBound /\ s + k - 1 \in s .. s + l - 1
            /\ (s + k - 1) - s + 1 = k
        BY <2>0, DiskConstants
      <4> QED
        BY <2>b, <4>1
    <3>4. read(i)' = [k \in 1 .. l |-> content[k]]
      BY <3>2, <3>3
    <3> QED
      BY <1>1, <1>3, <2>1, <3>1, <3>4, <3>d
  <2>2. CASE i # slot
    <3> DEFINE s2 == directory[i].start
               r2 == directory[i].reserved
               l2 == directory[i].size
               r == directory[slot].reserved
    <3>1. Named(i)
      BY <1>3
    <3>2. directory[i].name # f
      BY <1>1, <1>2, <1>4, <2>2, <3>1 DEF NamesDiffer
    <3>3. stored'[directory'[i].name] = stored[directory[i].name]
      BY <1>1, <1>3, <3>1, <3>2 DEF DirectoryType, Named
    <3>4. /\ s2 \in Nat /\ r2 \in Nat /\ l2 \in Nat /\ r \in Nat
          /\ l <= r /\ l2 <= r2 /\ s2 >= 1 /\ s2 + r2 <= DiskBound + 1
      BY <1>1, <1>2, <3>1, RecordTypes DEF OnTheDisk
    <3>5. s + r <= s2 \/ s2 + r2 <= s
      BY <1>1, <1>2, <1>4, <2>2, <3>1 DEF Apart, Before
    <3>6. /\ read(i)' = [k \in 1 .. l2 |-> block'[s2 + k - 1]]
          /\ read(i) = [k \in 1 .. l2 |-> block[s2 + k - 1]]
      BY <1>3, <2>2 DEF read
    <3> HIDE DEF s, l, s2, r2, l2, r
    <3>7. ASSUME NEW k \in 1 .. l2 PROVE block'[s2 + k - 1] = block[s2 + k - 1]
      <4>1. s2 + k - 1 \in 0 .. DiskBound /\ s2 + k - 1 \notin s .. s + l - 1
        BY <2>0, <3>4, <3>5, DiskConstants
      <4> QED
        BY <2>b, <4>1
    <3>8. read(i)' = read(i)
      BY <3>6, <3>7
    <3> QED
      BY <1>2, <3>1, <3>3, <3>8 DEF StoredIsRead
  <2> QED
    BY <2>1, <2>2
<1>9. StoredIsNamed'
  <2> SUFFICES ASSUME NEW g \in FileName, stored'[g] # NoFile PROVE \E i \in Index : directory'[i].name = g
    BY DEF StoredIsNamed
  <2>1. CASE g = f
    BY <1>1, <1>3, <2>1
  <2>2. CASE g # f
    <3>1. stored[g] # NoFile
      BY <1>1, <2>2 DEF DirectoryType
    <3> QED
      BY <1>2, <1>3, <3>1 DEF StoredIsNamed
  <2> QED
    BY <2>1, <2>2
<1> QED
  BY <1>5, <1>6, <1>7, <1>8, <1>9 DEF DirectoryInv

LEMMA DeleteKeeps ==
  ASSUME DirectoryType, DirectoryInv, Delete
  PROVE  DirectoryInv'
<1>1. PICK f \in FileName : \E slot \in findfile(f) :
        /\ directory' = [directory EXCEPT ![slot].name = Deleted]
        /\ stored' = [stored EXCEPT ![f] = NoFile]
        /\ UNCHANGED <<disksize, block>>
  BY DEF Delete
<1>2. PICK slot \in findfile(f) :
        /\ directory' = [directory EXCEPT ![slot].name = Deleted]
        /\ stored' = [stored EXCEPT ![f] = NoFile]
        /\ disksize' = disksize /\ block' = block
  BY <1>1
<1>3. /\ NothingBehindTheEnd /\ NamesDiffer /\ OnTheDisk /\ Apart /\ StoredIsRead /\ StoredIsNamed
  BY DEF DirectoryInv
<1>4. slot \in Index /\ directory[slot].name = f /\ Named(slot)
  BY <1>3, FileIsFound DEF Named
<1>5. ASSUME NEW i \in Index
      PROVE  /\ directory'[i].start = directory[i].start /\ directory'[i].size = directory[i].size
             /\ directory'[i].reserved = directory[i].reserved
             /\ i # slot => directory'[i].name = directory[i].name
             /\ i = slot => directory'[i].name = Deleted
             /\ Named(i)' <=> Named(i) /\ i # slot
  BY <1>2, <1>4, NamesAreNoMarks DEF DirectoryType, Named
<1>6. NothingBehindTheEnd'
  <2> SUFFICES ASSUME NEW i \in Index, NEW j \in Index, i < j, directory'[i].name = End
               PROVE  directory'[j].name = End
    BY DEF NothingBehindTheEnd
  <2>1. directory[i].name = End
    BY <1>5, NamesAreNoMarks
  <2>2. directory[j].name = End
    BY <1>3, <2>1 DEF NothingBehindTheEnd
  <2>3. j # slot
    BY <1>4, <2>2, NamesAreNoMarks
  <2> QED
    BY <1>5, <2>2, <2>3
<1>7. NamesDiffer'
  BY <1>3, <1>5 DEF NamesDiffer
<1>8. OnTheDisk'
  BY <1>2, <1>3, <1>5 DEF OnTheDisk
<1>9. Apart'
  <2>1. ASSUME NEW i \in Index, NEW j \in Index, Named(i)', Named(j)', i # j
        PROVE  \/ directory'[i].start + directory'[i].reserved <= directory'[j].start
               \/ directory'[j].start + directory'[j].reserved <= directory'[i].start
    BY <1>3, <1>5, <2>1 DEF Apart, Before
  <2> QED
    BY <2>1 DEF Apart, Before
<1>10. StoredIsRead'
  <2> SUFFICES ASSUME NEW i \in Index, Named(i)' PROVE stored'[directory'[i].name] = read(i)'
    BY DEF StoredIsRead
  <2>1. Named(i) /\ i # slot /\ directory'[i].name = directory[i].name
    BY <1>5
  <2>2. directory[i].name # f
    BY <1>3, <1>4, <2>1 DEF NamesDiffer
  <2>3. stored'[directory[i].name] = stored[directory[i].name]
    BY <1>2, <2>1, <2>2 DEF DirectoryType, Named
  <2>4. read(i)' = read(i)
    BY <1>2, <1>5 DEF read
  <2> QED
    BY <1>3, <2>1, <2>3, <2>4 DEF StoredIsRead
<1>11. StoredIsNamed'
  <2> SUFFICES ASSUME NEW g \in FileName, stored'[g] # NoFile PROVE \E i \in Index : directory'[i].name = g
    BY DEF StoredIsNamed
  <2>1. g # f /\ stored[g] # NoFile
    BY <1>2 DEF DirectoryType
  <2>2. PICK i \in Index : directory[i].name = g
    BY <1>3, <2>1 DEF StoredIsNamed
  <2> QED
    BY <1>4, <1>5, <2>1, <2>2
<1> QED
  BY <1>6, <1>7, <1>8, <1>9, <1>10, <1>11 DEF DirectoryInv

LEMMA DiskInvKept ==
  ASSUME DiskInv, [BmfsNext]_diskVars
  PROVE  DiskInv'
<1>1. DirectoryType /\ DirectoryType'
  BY DirectoryTypeKept DEF DiskInv
<1>2. ASSUME ~strayed' PROVE DirectoryInv'
  <2>1. CASE Initialize
    BY <2>1, FreshInv DEF Initialize, format
  <2>2. CASE Format
    BY <2>2, FreshInv DEF Format, format
  <2>3. CASE Create
    <3>0. PICK f \in FileName : \E slot, p, blocks : Created(f, slot, p, blocks)
      BY <1>1, <2>3, CreateSteps
    <3>1. PICK slot, p, blocks : Created(f, slot, p, blocks)
      BY <3>0
    <3>2. ~strayed
      BY <1>2, <2>3 DEF Create
    <3>3. DirectoryInv
      BY <3>2 DEF DiskInv
    <3> QED
      BY <1>1, <1>2, <3>1, <3>3, CreateKeeps
  <2>4. CASE Write
    <3>0. PICK f \in FileName : \E slot, content : Written(f, slot, content)
      BY <1>1, <2>4, WriteSteps
    <3>1. PICK slot, content : Written(f, slot, content)
      BY <3>0
    <3>2. DirectoryInv
      BY <1>2, <3>1 DEF DiskInv, Written
    <3> QED
      BY <1>1, <3>1, <3>2, WriteKeeps
  <2>5. CASE Delete
    <3>1. DirectoryInv
      BY <1>2, <2>5 DEF Delete, DiskInv
    <3> QED
      BY <1>1, <2>5, <3>1, DeleteKeeps
  <2>6. CASE UNCHANGED diskVars
    BY <1>2, <2>6 DEF diskVars, DiskInv, DirectoryInv, NothingBehindTheEnd, NamesDiffer, OnTheDisk,
       Apart, Before, StoredIsRead, StoredIsNamed, Named, read
  <2> QED
    BY <2>1, <2>2, <2>3, <2>4, <2>5, <2>6 DEF BmfsNext
<1> QED
  BY <1>1, <1>2 DEF DiskInv

LEMMA DiskInvInit ==
  ASSUME BmfsInit
  PROVE  DiskInv
<1>1. /\ directory = [i \in Index |-> EmptyRecord] /\ stored = [f \in FileName |-> NoFile]
      /\ disksize = 0
  BY DEF BmfsInit
<1>2. DirectoryType
  BY <1>1 DEF DirectoryType, EmptyRecord
<1>3. /\ \A i \in Index : directory[i].name = End /\ ~Named(i)
      /\ \A f \in FileName : stored[f] = NoFile
  BY <1>1, FreshDirectory DEF Named
<1>4. DirectoryInv
  BY <1>3 DEF DirectoryInv, NothingBehindTheEnd, NamesDiffer, OnTheDisk, Apart, StoredIsRead, StoredIsNamed
<1> QED
  BY <1>2, <1>4 DEF DiskInv

LEMMA WhatWasWrittenIsRead ==
  ASSUME DiskInv
  PROVE  ReadsWhatWasWritten
<1> SUFFICES ASSUME ~strayed, NEW f \in FileName, stored[f] # NoFile
             PROVE  \E i \in Index : /\ findfile(f) = {i}
                                     /\ read(i) = stored[f]
                                     /\ Reserved(i) \subseteq 1..disksize \div 2 - 2
  BY DEF ReadsWhatWasWritten
<1>1. /\ DirectoryType /\ NothingBehindTheEnd /\ NamesDiffer /\ OnTheDisk /\ StoredIsRead /\ StoredIsNamed
  BY DEF DiskInv, DirectoryInv
<1>2. PICK i \in Index : directory[i].name = f
  BY <1>1 DEF StoredIsNamed
<1>3. Named(i)
  BY <1>2 DEF Named
<1>4. findfile(f) = {i}
  <2>1. ASSUME NEW j PROVE j \in findfile(f) <=> j = i
    <3>1. j \in findfile(f) <=> j \in Index /\ directory[j].name = f
      BY <1>1, FileIsFound
    <3>2. j \in Index /\ directory[j].name = f => j = i
      BY <1>1, <1>2, <1>3 DEF NamesDiffer, Named
    <3> QED
      BY <1>2, <3>1, <3>2
  <2> QED
    BY <2>1
<1>5. read(i) = stored[f]
  BY <1>1, <1>2, <1>3 DEF StoredIsRead
<1>6. Reserved(i) \subseteq 1..disksize \div 2 - 2
  <2> DEFINE s == directory[i].start
             r == directory[i].reserved
  <2>1. s \in Nat /\ r \in Nat /\ s >= 1 /\ s + r <= disksize \div 2 - 1 /\ disksize \in Int
    BY <1>1, <1>3, RecordTypes DEF OnTheDisk, DirectoryType
  <2>2. Reserved(i) = s .. s + r - 1
    BY DEF Reserved
  <2> HIDE DEF s, r
  <2> QED
    BY <2>1, <2>2
<1> QED
  BY <1>4, <1>5, <1>6

(* Until create() looks for room where it cannot tell, every file that was  *)
(* created and not deleted is listed once, reads back what was last written *)
(* to it, and lies between the boot block and the last one: the directory   *)
(* of bmfs.c, for any number of records, names and blocks.                  *)
THEOREM FilesReadBack == BmfsSpec => []ReadsWhatWasWritten
<1>1. BmfsInit => DiskInv
  BY DiskInvInit
<1>2. DiskInv => ReadsWhatWasWritten
  BY WhatWasWrittenIsRead
<1> QED
  BY <1>1, <1>2, DiskInvKept, PTL DEF BmfsSpec

(* What FilesAreDisjoint says holds until then as well: create() looks for  *)
(* room between the files there are (bmfs.c:659).                           *)
THEOREM FilesShareNoBlock == BmfsSpec => [](~strayed => FilesAreDisjoint)
<1>1. ASSUME DiskInv PROVE ~strayed => FilesAreDisjoint
  <2> SUFFICES ASSUME ~strayed, NEW i \in Files, NEW j \in Files, i # j
               PROVE  Reserved(i) \cap Reserved(j) = {}
    BY DEF FilesAreDisjoint
  <2>1. DirectoryType /\ Apart
    BY <1>1 DEF DiskInv, DirectoryInv
  <2>2. ASSUME NEW k \in Files PROVE k \in Index /\ Named(k)
    <3>1. k \in Index /\ directory[k].name # Deleted /\ \A l \in 0 .. k : directory[l].name # End
      BY DEF Files, Listed
    <3>2. k \in 0 .. k
      BY <3>1, IndexIsNatural
    <3> QED
      BY <2>1, <3>1, <3>2, RecordTypes DEF Named
  <2> DEFINE s == directory[i].start
             r == directory[i].reserved
             s2 == directory[j].start
             r2 == directory[j].reserved
  <2>3. s \in Nat /\ r \in Nat /\ s2 \in Nat /\ r2 \in Nat
    BY <2>1, <2>2, RecordTypes
  <2>4. s + r <= s2 \/ s2 + r2 <= s
    BY <2>1, <2>2 DEF Apart, Before
  <2>5. Reserved(i) = s .. s + r - 1 /\ Reserved(j) = s2 .. s2 + r2 - 1
    BY DEF Reserved
  <2> HIDE DEF s, r, s2, r2
  <2> QED
    BY <2>3, <2>4, <2>5
<1>2. BmfsInit => DiskInv
  BY DiskInvInit
<1> QED
  BY <1>1, <1>2, DiskInvKept, PTL DEF BmfsSpec
=============================================================================
