--------------------------- MODULE PhilosopherProofs ---------------------------
(***************************************************************************)
(* Proofs about DiningPhilosophers, for any number of seats and of         *)
(* philosophers that come and go: the mutex lets one process in at a time, *)
(* and philosophers that sit side by side do not eat together unless a     *)
(* removal made them neighbours.                                           *)
(***************************************************************************)
EXTENDS DiningPhilosophers, TLAPS

Actor == Philosopher \cup {Manager}

Place == {"none", "start", "think", "hungry", "taken", "forks", "eat", "full", "putLeft", "put",
          "dead", "undefined"}
Step == {"open", "seat", "add", "post", "start", "remove", "close", "finish", "finishClose", "done"}

Live(p) == at[p] \notin {"none", "dead"}
Dead == {p \in Philosopher : at[p] = "dead"}

(* The clients in a queue. *)
Entries(W, s) == {W[s][k] : k \in 1 .. Len(W[s])}

SemTypes ==
  /\ value \in [Semaphore -> Nat] /\ waiters \in [Semaphore -> Seq(Client)]
  /\ asleep \in [Client -> Semaphore \cup {Awake}] /\ queued \subseteq Semaphore

TypePart ==
  /\ phylosCount \in 0 .. MAX_PHYLOS
  /\ state \in [Seat -> {"THINKING", "HUNGRY", "EATING"}]
  /\ philosopherPids \in [Seat -> Philosopher \cup {NoPid}]
  /\ at \in [Philosopher -> Place] /\ seatOf \in [Philosopher -> Seat]
  /\ manager \in [step: Step, i: Nat] /\ table \in {"whole", "reduced"}
  /\ SemTypes

(* The manager adds only where a seat is left, removes only where somebody  *)
(* sits, and finishes with those it has killed behind it.                   *)
ManagerPart ==
  /\ manager.step = "add" => phylosCount + manager.i < MAX_PHYLOS
  /\ manager.step \in {"open", "seat", "post"} => phylosCount + manager.i <= MAX_PHYLOS
  /\ manager.step \in {"start", "remove", "close"} => manager.i = 0
  /\ manager.step \in {"open", "done"} => phylosCount = 0
  /\ manager.step = "remove" => phylosCount > 0
  /\ manager.step = "close" => phylosCount < MAX_PHYLOS
  /\ manager.step \in {"finish", "finishClose"} =>
       manager.i <= phylosCount /\ \A j \in 0 .. manager.i - 1 : ~Live(philosopherPids[j])
  /\ manager.step = "finishClose" => manager.i < phylosCount /\ ~Live(philosopherPids[manager.i])
  /\ asleep[Manager] \in {Awake, MUTEX_ID}

(* philosopherPids and the philosophers' arguments agree. *)
SeatPart ==
  /\ \A i \in Seated : /\ philosopherPids[i] \in Philosopher /\ seatOf[philosopherPids[i]] = i
                       /\ at[philosopherPids[i]] # "none"
  /\ \A p \in Philosopher : Live(p) => seatOf[p] \in Seated /\ philosopherPids[seatOf[p]] = p

SleepPart ==
  \A p \in Philosopher :
    \/ asleep[p] = Awake
    \/ asleep[p] = MUTEX_ID /\ at[p] \in {"hungry", "full"}
    \/ asleep[p] = philosopherSemaphore(seatOf[p]) /\ at[p] = "eat"

(* A queue holds sleepers and the dead, each once. *)
GoodQueues(W, A, D) ==
  \A s \in Semaphore :
    /\ \A c \in Entries(W, s) : A[c] = s \/ c \in D
    /\ \A k, l \in 1 .. Len(W[s]) : W[s][k] = W[s][l] => k = l

(* The queue of a seat holds at most who sits there, and is empty when a    *)
(* philosopher is seated.                                                   *)
QueuePart ==
  /\ GoodQueues(waiters, asleep, Dead)
  /\ \A j \in Seat : Entries(waiters, philosopherSemaphore(j)) \subseteq {philosopherPids[j]}
  /\ manager.step # "done" =>
       \A j \in Seat : j >= phylosCount /\ (manager.step = "close" => j # phylosCount)
                         => waiters[philosopherSemaphore(j)] = <<>>
  /\ \A j \in Seated : Live(philosopherPids[j]) => philosopherSemaphore(j) \in queued

(* Where a philosopher is, what state[] says of its seat, and its semaphore:*)
(* whoever eats was granted both forks, and the grant is used once.         *)
SeatOK(i) ==
  LET q == philosopherPids[i]
      s == philosopherSemaphore(i)
  IN Live(q) /\ at[q] # "undefined" =>
       \/ at[q] \in {"start", "think", "hungry", "putLeft", "put"} /\ state[i] = "THINKING" /\ value[s] = 0
       \/ at[q] \in {"taken", "forks"} /\ state[i] = "HUNGRY" /\ value[s] = 0
       \/ at[q] \in {"taken", "forks"} /\ state[i] = "EATING" /\ value[s] = 1
       \/ at[q] = "eat" /\ asleep[q] = s /\ state[i] = "HUNGRY" /\ value[s] = 0 /\ waiters[s] # <<>>
       \/ at[q] = "eat" /\ asleep[q] = Awake /\ state[i] = "EATING" /\ value[s] = 0
       \/ at[q] = "full" /\ state[i] = "EATING" /\ value[s] = 0

ForksPart == \A i \in Seated : SeatOK(i)

(* Seats i and i + 1 are side by side as long as both exist, the first and  *)
(* the last only until the next one is taken or given up.                   *)
Separate(states, n, whole) ==
  /\ \A i \in Seat : i + 1 < n => ~(states[i] = "EATING" /\ states[i + 1] = "EATING")
  /\ whole /\ n > 1 => ~(states[0] = "EATING" /\ states[n - 1] = "EATING")

InSection(c) ==
  /\ Runs(c)
  /\ IF c = Manager THEN manager.step \in {"add", "remove", "close", "post"}
     ELSE at[c] \in {"hungry", "taken", "full", "putLeft", "put", "undefined"}

(* test() and the manager's changes are steps of their own because at most  *)
(* one process is between the wait and the post of the mutex.               *)
OneInSection == \A a, b \in Actor : InSection(a) /\ InSection(b) => a = b

MutexPart ==
  /\ value[MUTEX_ID] \in {0, 1}
  /\ value[MUTEX_ID] = 1 => \A c \in Actor : ~InSection(c)
  /\ OneInSection

IInv ==
  /\ TypePart /\ ManagerPart /\ SeatPart /\ SleepPart /\ QueuePart /\ ForksPart
  /\ Separate(state, phylosCount, table = "whole") /\ MutexPart

-----------------------------------------------------------------------------
LEMMA Ids ==
  /\ MUTEX_ID \in Semaphore /\ MUTEX_ID # Awake
  /\ \A i \in Seat : /\ philosopherSemaphore(i) \in Semaphore /\ philosopherSemaphore(i) # Awake
                     /\ philosopherSemaphore(i) # MUTEX_ID
                     /\ \A j \in Seat : philosopherSemaphore(j) = philosopherSemaphore(i) => j = i
  /\ Manager \in Client /\ Manager \notin Philosopher /\ Philosopher \subseteq Client
  /\ Actor \subseteq Client /\ NoPid \notin Philosopher
<1>1. \A i \in Seat : i \in Nat
  BY DEF Seat
<1> QED
  BY <1>1, PhilosophersAssumption
     DEF philosopherSemaphore, MUTEX_ID, Manager, Philosopher, Actor, NoPid

LEMMA ModSmall ==
  ASSUME NEW n \in Nat \ {0}, NEW x \in Nat, x < n
  PROVE  x % n = x
OBVIOUS

LEMMA ModOnce ==
  ASSUME NEW n \in Nat \ {0}, NEW x \in Nat, n <= x, x < n + n
  PROVE  x % n = x - n
OBVIOUS

LEMMA Around ==
  ASSUME phylosCount \in 0 .. MAX_PHYLOS, NEW i \in Seated
  PROVE  /\ RIGHT(i) = IF i + 1 = phylosCount THEN 0 ELSE i + 1
         /\ LEFT(i) = IF i = 0 THEN phylosCount - 1 ELSE i - 1
         /\ RIGHT(i) \in Seated /\ LEFT(i) \in Seated /\ i \in Seat /\ i \in Nat /\ i < phylosCount
<1> PICK n \in Nat : n = phylosCount
  BY PhilosophersAssumption
<1>1. i \in Nat /\ i < n /\ n \in Nat \ {0} /\ n <= MAX_PHYLOS
  BY PhilosophersAssumption DEF Seated
<1>2. RIGHT(i) = IF i + 1 = n THEN 0 ELSE i + 1
  <2>1. CASE i + 1 = n
    <3>1. (i + 1) % n = i + 1 - n
      BY <1>1, <2>1, ModOnce, i + 1 \in Nat
    <3> QED
      BY <1>1, <2>1, <3>1 DEF RIGHT
  <2>2. CASE i + 1 # n
    <3>1. (i + 1) % n = i + 1
      BY <1>1, <2>2, ModSmall, i + 1 \in Nat, i + 1 < n
    <3> QED
      BY <1>1, <2>2, <3>1 DEF RIGHT
  <2> QED
    BY <2>1, <2>2
<1>3. LEFT(i) = IF i = 0 THEN n - 1 ELSE i - 1
  <2>1. CASE i = 0
    <3>1. (i + n - 1) % n = n - 1
      BY <1>1, <2>1, ModSmall, n - 1 \in Nat, i + n - 1 = n - 1, n - 1 < n
    <3> QED
      BY <2>1, <3>1 DEF LEFT
  <2>2. CASE i # 0
    <3>1. i + n - 1 \in Nat /\ n <= i + n - 1 /\ i + n - 1 < n + n
      BY <1>1, <2>2
    <3> PICK x \in Nat : x = i + n - 1
      BY <3>1
    <3>2. x % n = x - n
      BY <1>1, <3>1, ModOnce
    <3>3. x - n = i - 1
      BY <1>1
    <3> QED
      BY <2>2, <3>2, <3>3 DEF LEFT
  <2> QED
    BY <2>1, <2>2
<1>4. i \in Seat
  BY <1>1, PhilosophersAssumption DEF Seat
<1> QED
  BY <1>1, <1>2, <1>3, <1>4 DEF Seated

-----------------------------------------------------------------------------
(* What a wait and a post do to the semaphores, seen from a caller that is  *)
(* awake and alive.                                                         *)
Waits(s, c) ==
  /\ queued' = queued
  /\ \A t \in Semaphore \ {s} : value'[t] = value[t] /\ waiters'[t] = waiters[t]
  /\ \A d \in Client \ {c} : asleep'[d] = asleep[d]
  /\ \/ value[s] > 0 /\ value'[s] = value[s] - 1 /\ asleep'[c] = Awake
     \/ /\ value[s] = 0 /\ value'[s] = 0 /\ asleep'[c] = s
        /\ s \in queued => c \in Entries(waiters', s)
  /\ Entries(waiters', s) \subseteq Entries(waiters, s) \cup {c}

LEMMA SleepersQueue ==
  ASSUME SemTypes, NEW D, GoodQueues(waiters, asleep, D),
         NEW s \in Semaphore, NEW c \in Client, asleep[c] = Awake, c \notin D, semWait(s, c)
  PROVE  SemTypes' /\ Waits(s, c) /\ GoodQueues(waiters', asleep', D)
<1>1. \A t \in Semaphore : c \notin Entries(waiters, t)
  BY PhilosophersAssumption DEF GoodQueues
<1>2. CASE WaitTakes(s)
  <2>1. value' \in [Semaphore -> Nat] /\ value[s] \in Nat
    BY <1>2 DEF WaitTakes, SemTypes
  <2> QED
    BY <1>2, <2>1 DEF WaitTakes, SemTypes, Waits, GoodQueues, Entries
<1>3. CASE WaitSleeps(s, c, FALSE)
  <2>1. waiters' \in [Semaphore -> Seq(Client)] /\ \A t \in Semaphore \ {s} : waiters'[t] = waiters[t]
    BY <1>3 DEF WaitSleeps, Enqueued, SemTypes
  <2>2. asleep' \in [Client -> Semaphore \cup {Awake}] /\ asleep'[c] = s
        /\ \A d \in Client \ {c} : asleep'[d] = asleep[d]
    BY <1>3 DEF WaitSleeps, SemTypes
  <2>3. \/ waiters'[s] = waiters[s] /\ s \notin queued
        \/ waiters'[s] = Append(waiters[s], c)
    BY <1>3 DEF WaitSleeps, Enqueued, SemTypes
  <2>4. /\ Entries(waiters', s) \subseteq Entries(waiters, s) \cup {c}
        /\ \A k, l \in 1 .. Len(waiters'[s]) : waiters'[s][k] = waiters'[s][l] => k = l
        /\ s \in queued => c \in Entries(waiters', s)
    <3>1. waiters[s] \in Seq(Client) /\ Len(waiters[s]) \in Nat
      BY DEF SemTypes
    <3>2. CASE waiters'[s] = waiters[s] /\ s \notin queued
      BY <3>2 DEF GoodQueues, Entries
    <3>3. CASE waiters'[s] = Append(waiters[s], c)
      <4>1. /\ Len(waiters'[s]) = Len(waiters[s]) + 1 /\ waiters'[s][Len(waiters[s]) + 1] = c
            /\ \A k \in 1 .. Len(waiters[s]) : waiters'[s][k] = waiters[s][k]
        BY <3>1, <3>3
      <4>2. \A k \in 1 .. Len(waiters[s]) : waiters[s][k] # c
        BY <1>1 DEF Entries
      <4>3. \A k, l \in 1 .. Len(waiters[s]) : waiters[s][k] = waiters[s][l] => k = l
        BY DEF GoodQueues
      <4>4. Entries(waiters', s) \subseteq Entries(waiters, s) \cup {c} /\ c \in Entries(waiters', s)
        BY <3>1, <4>1 DEF Entries
      <4>5. ASSUME NEW k \in 1 .. Len(waiters'[s]), NEW l \in 1 .. Len(waiters'[s]),
                   waiters'[s][k] = waiters'[s][l]
            PROVE  k = l
        <5> PICK n \in Nat : n = Len(waiters[s])
          BY <3>1
        <5>1. k \in 1 .. n \/ k = n + 1
          BY <4>1
        <5>2. l \in 1 .. n \/ l = n + 1
          BY <4>1
        <5> QED
          BY <4>1, <4>2, <4>3, <4>5, <5>1, <5>2
      <4> QED
        BY <4>4, <4>5
    <3> QED
      BY <2>3, <3>2, <3>3
  <2>5. \A t \in Semaphore \ {s} : Entries(waiters', t) = Entries(waiters, t)
    BY <2>1 DEF Entries
  <2>6. \A t \in Semaphore : \A d \in Entries(waiters', t) : d \in Client
    BY <2>1 DEF Entries
  <2>7. GoodQueues(waiters', asleep', D)
    <3>1. ASSUME NEW t \in Semaphore, NEW d \in Entries(waiters', t)
          PROVE  asleep'[d] = t \/ d \in D
      <4>1. d \in Client
        BY <2>6
      <4>2. d \in Entries(waiters, t) => asleep[d] = t \/ d \in D
        BY DEF GoodQueues
      <4> QED
        BY <1>1, <2>2, <2>4, <2>5, <4>1, <4>2
    <3>2. ASSUME NEW t \in Semaphore, NEW k \in 1 .. Len(waiters'[t]), NEW l \in 1 .. Len(waiters'[t]),
                 waiters'[t][k] = waiters'[t][l]
          PROVE  k = l
      BY <2>1, <2>4, <3>2 DEF GoodQueues
    <3> QED
      BY <3>1, <3>2 DEF GoodQueues
  <2> QED
    BY <1>3, <2>1, <2>2, <2>4, <2>7 DEF WaitSleeps, SemTypes, Waits
<1> QED
  BY <1>2, <1>3 DEF semWait

(* A post on s: a token, or the head of the queue, h, wakes up.             *)
Posts(s, h) ==
  /\ queued' = queued
  /\ \A t \in Semaphore \ {s} : value'[t] = value[t] /\ waiters'[t] = waiters[t]
  /\ \/ waiters[s] = <<>> /\ waiters'[s] = <<>> /\ value'[s] = value[s] + 1 /\ asleep' = asleep
     \/ /\ h \in Entries(waiters, s) /\ value'[s] = value[s] /\ asleep'[h] = Awake
        /\ \A d \in Client \ {h} : asleep'[d] = asleep[d]
  /\ Entries(waiters', s) \subseteq Entries(waiters, s)

LEMMA PostsWake ==
  ASSUME SemTypes, NEW D, GoodQueues(waiters, asleep, D), NEW s \in Semaphore, Post(s)
  PROVE  SemTypes' /\ GoodQueues(waiters', asleep', D) /\ \E h \in Client : Posts(s, h)
<1>1. waiters[s] \in Seq(Client) /\ value[s] \in Nat
  BY DEF SemTypes
<1>2. CASE waiters[s] = <<>>
  <2>1. value' = [value EXCEPT ![s] = @ + 1] /\ UNCHANGED <<queued, waiters, asleep>>
    BY <1>2 DEF Post
  <2>2. value' \in [Semaphore -> Nat]
    BY <1>1, <2>1 DEF SemTypes
  <2>3. Posts(s, Manager)
    BY <1>1, <1>2, <2>1 DEF SemTypes, Posts, Entries
  <2> QED
    BY <2>1, <2>2, <2>3, Ids DEF SemTypes, GoodQueues, Entries
<1>3. CASE waiters[s] # <<>>
  <2> PICK h \in Client : h = Head(waiters[s])
    BY <1>1, <1>3
  <2>1. /\ waiters' = [waiters EXCEPT ![s] = Tail(waiters[s])]
        /\ asleep' = [asleep EXCEPT ![h] = Awake] /\ value' = value /\ queued' = queued
    BY <1>3 DEF Post
  <2>2. SemTypes'
    BY <1>1, <1>3, <2>1 DEF SemTypes
  <2>3. waiters'[s] = Tail(waiters[s]) /\ asleep'[h] = Awake
        /\ (\A d \in Client \ {h} : asleep'[d] = asleep[d])
        /\ (\A t \in Semaphore \ {s} : waiters'[t] = waiters[t])
    BY <2>1 DEF SemTypes
  <2>4. /\ waiters[s][1] = h /\ Len(waiters[s]) \in Nat /\ Len(waiters[s]) >= 1
        /\ Len(waiters'[s]) = Len(waiters[s]) - 1
        /\ \A k \in 1 .. Len(waiters'[s]) : waiters'[s][k] = waiters[s][k + 1]
    BY <1>1, <1>3, <2>3
  <2>5. Entries(waiters', s) \subseteq Entries(waiters, s) \ {h} /\ h \in Entries(waiters, s)
    BY <2>4 DEF Entries, GoodQueues
  <2>6. \A k, l \in 1 .. Len(waiters'[s]) : waiters'[s][k] = waiters'[s][l] => k = l
    BY <2>4 DEF GoodQueues
  <2>7. \A t \in Semaphore \ {s} : Entries(waiters', t) = Entries(waiters, t)
    BY <2>3 DEF Entries
  <2>8. \A t \in Semaphore : \A d \in Entries(waiters', t) : d \in Client
    BY <2>2 DEF Entries, SemTypes
  <2>9. GoodQueues(waiters', asleep', D)
    BY <2>3, <2>5, <2>6, <2>7, <2>8 DEF GoodQueues
  <2> QED
    BY <2>1, <2>2, <2>3, <2>5, <2>9 DEF Posts
<1> QED
  BY <1>2, <1>3

-----------------------------------------------------------------------------
(* What a step that leaves a part alone leaves true.                        *)
LEMMA MutexKept ==
  ASSUME MutexPart, value'[MUTEX_ID] = value[MUTEX_ID],
         \A c \in Actor : InSection(c)' => InSection(c)
  PROVE  MutexPart'
BY DEF MutexPart, OneInSection

LEMMA SeatKept ==
  ASSUME NEW i \in Seated, SeatOK(i),
         philosopherPids'[i] = philosopherPids[i], state'[i] = state[i],
         value'[philosopherSemaphore(i)] = value[philosopherSemaphore(i)],
         waiters'[philosopherSemaphore(i)] = waiters[philosopherSemaphore(i)],
         at'[philosopherPids[i]] = at[philosopherPids[i]],
         at[philosopherPids[i]] = "eat" => asleep'[philosopherPids[i]] = asleep[philosopherPids[i]]
  PROVE  SeatOK(i)'
BY DEF SeatOK, Live, philosopherSemaphore, MUTEX_ID

LEMMA QueueKept ==
  ASSUME IInv, GoodQueues(waiters', asleep', Dead'),
         UNCHANGED <<phylosCount, philosopherPids, queued>>,
         manager'.step \in {"done", "close"} => manager.step = manager'.step,
         manager.step = "close" => manager'.step = "close",
         manager.step = "done" => manager'.step = "done",
         \A i \in Seated : Live(philosopherPids[i])' => Live(philosopherPids[i]),
         \A i \in Seat :
           /\ Entries(waiters', philosopherSemaphore(i)) \subseteq
                Entries(waiters, philosopherSemaphore(i)) \cup {philosopherPids[i]}
           /\ i \notin Seated =>
                waiters'[philosopherSemaphore(i)] = waiters[philosopherSemaphore(i)]
  PROVE  QueuePart'
<1>1. phylosCount \in Nat /\ \A i \in Seat : i \in Nat
  BY PhilosophersAssumption DEF IInv, TypePart, Seat
<1>2. \A i \in Seat : i >= phylosCount => i \notin Seated
  BY <1>1 DEF Seated
<1>3. \A i \in Seat : Entries(waiters', philosopherSemaphore(i)) \subseteq {philosopherPids'[i]}
  BY DEF IInv, QueuePart
<1>4. ASSUME manager'.step # "done", NEW i \in Seat, i >= phylosCount,
             manager'.step = "close" => i # phylosCount
      PROVE  waiters'[philosopherSemaphore(i)] = <<>>
  BY <1>2, <1>4 DEF IInv, QueuePart
<1>5. ASSUME NEW i \in Seated', Live(philosopherPids[i])'
      PROVE  philosopherSemaphore(i) \in queued'
  BY <1>5 DEF IInv, QueuePart, Seated
<1>6. \A i \in Seat : (philosopherSemaphore(i))' = philosopherSemaphore(i)
  BY DEF philosopherSemaphore, MUTEX_ID
<1> QED
  BY <1>3, <1>4, <1>5, <1>6 DEF QueuePart, Entries

LEMMA PhilosopherFrame ==
  ASSUME IInv, NEW p \in Philosopher, Live(p),
         NEW x \in Place, x \notin {"none", "dead"}, at' = [at EXCEPT ![p] = x],
         UNCHANGED <<phylosCount, philosopherPids, seatOf, manager, table>>,
         asleep'[Manager] \in {Awake, MUTEX_ID}
  PROVE  /\ at' \in [Philosopher -> Place] /\ at'[p] = x
         /\ \A q \in Philosopher \ {p} : at'[q] = at[q]
         /\ Dead' = Dead
         /\ \A q \in Philosopher : Live(q)' <=> Live(q)
         /\ ManagerPart' /\ SeatPart'
<1>1. at' \in [Philosopher -> Place] /\ at'[p] = x /\ \A q \in Philosopher \ {p} : at'[q] = at[q]
  BY DEF IInv, TypePart
<1>2. \A q \in Philosopher : (Live(q)' <=> Live(q)) /\ (at'[q] = "dead" <=> at[q] = "dead")
                             /\ (at'[q] = "none" <=> at[q] = "none")
  BY <1>1 DEF Live
<1>3. Dead' = Dead
  BY <1>2 DEF Dead
<1>4. SeatPart'
  BY <1>2 DEF IInv, SeatPart, Seated
<1>5. ManagerPart'
  <2>1. manager.i \in Nat /\ phylosCount \in Nat
    BY DEF IInv, TypePart
  <2>2. manager.step \in {"finish", "finishClose"} => \A j \in 0 .. manager.i - 1 : j \in Seated
    BY <2>1 DEF IInv, ManagerPart, Seated
  <2>3. manager.step = "finishClose" => manager.i \in Seated
    BY <2>1 DEF IInv, ManagerPart, Seated
  <2>4. \A j \in Seated : ~Live(philosopherPids[j]) => ~Live(philosopherPids[j])'
    BY <1>2 DEF IInv, SeatPart
  <2> QED
    BY <2>2, <2>3, <2>4 DEF IInv, ManagerPart, MUTEX_ID
<1> QED
  BY <1>1, <1>2, <1>3, <1>4, <1>5

LEMMA HisSeat ==
  ASSUME IInv, NEW p \in Philosopher, Live(p)
  PROVE  /\ seatOf[p] \in Seated /\ seatOf[p] \in Seat /\ philosopherPids[seatOf[p]] = p
         /\ p \in Client /\ p \notin Dead /\ p # Manager
         /\ philosopherSemaphore(seatOf[p]) \in Semaphore
         /\ philosopherSemaphore(seatOf[p]) # MUTEX_ID
         /\ \A i \in Seated : i # seatOf[p] => philosopherPids[i] # p
         /\ asleep[p] = Awake => \A s \in Semaphore : p \notin Entries(waiters, s)
BY Ids, PhilosophersAssumption
   DEF IInv, TypePart, SeatPart, Live, Dead, QueuePart, GoodQueues

LEMMA Granted ==
  ASSUME phylosCount \in 0 .. MAX_PHYLOS, NEW i \in Seated,
         NEW states \in [Seat -> {"THINKING", "HUNGRY", "EATING"}], NEW whole,
         Separate(states, phylosCount, whole), canEat(i, states)
  PROVE  Separate([states EXCEPT ![i] = "EATING"], phylosCount, whole)
<1> PICK n \in Nat : n = phylosCount
  BY PhilosophersAssumption
<1> DEFINE after == [states EXCEPT ![i] = "EATING"]
<1>1. i \in Nat /\ i < n /\ i \in Seat /\ n <= MAX_PHYLOS
  BY Around
<1>2. states[i] = "HUNGRY" /\ (i + 1 < n => states[i + 1] # "EATING")
      /\ (i > 0 => states[i - 1] # "EATING")
      /\ (i = 0 => states[n - 1] # "EATING") /\ (i = n - 1 => states[0] # "EATING")
  <2>1. RIGHT(i) = (IF i + 1 = n THEN 0 ELSE i + 1) /\ LEFT(i) = (IF i = 0 THEN n - 1 ELSE i - 1)
    BY Around
  <2> QED
    BY <1>1, <2>1 DEF canEat
<1>3. after[i] = "EATING" /\ \A j \in Seat \ {i} : after[j] = states[j]
  BY <1>1
<1> HIDE DEF after
<1>4. ASSUME NEW j \in Seat, j + 1 < n, after[j] = "EATING", after[j + 1] = "EATING"
      PROVE  FALSE
  <2>1. j \in Nat /\ j + 1 \in Seat /\ j + 1 # j
    BY <1>1, <1>4, PhilosophersAssumption DEF Seat
  <2>2. CASE j = i
    BY <1>1, <1>2, <1>3, <1>4, <2>1, <2>2
  <2>3. CASE j + 1 = i
    <3>1. j = i - 1 /\ i > 0
      BY <1>1, <2>1, <2>3
    <3> QED
      BY <1>2, <1>3, <1>4, <2>1, <2>3, <3>1
  <2>4. CASE j # i /\ j + 1 # i
    BY <1>3, <1>4, <2>1, <2>4 DEF Separate
  <2> QED
    BY <2>2, <2>3, <2>4
<1>5. ASSUME whole, n > 1, after[0] = "EATING", after[n - 1] = "EATING"
      PROVE  FALSE
  <2>1. 0 \in Seat /\ n - 1 \in Seat /\ n - 1 # 0
    BY <1>1, <1>5, PhilosophersAssumption DEF Seat
  <2>2. CASE i = 0
    BY <1>2, <1>3, <1>5, <2>1, <2>2
  <2>3. CASE i = n - 1
    BY <1>2, <1>3, <1>5, <2>1, <2>3
  <2>4. CASE i # 0 /\ i # n - 1
    BY <1>3, <1>5, <2>1, <2>4 DEF Separate
  <2> QED
    BY <2>2, <2>3, <2>4
<1> QED
  BY <1>4, <1>5 DEF Separate, after

-----------------------------------------------------------------------------
(* test(), from takeForks() and twice from putForks().                      *)
LEMMA Tested ==
  ASSUME IInv, NEW p \in Philosopher, Live(p), Runs(p), at[p] \in {"hungry", "full", "putLeft"},
         NEW next \in {"taken", "putLeft", "put"}, NEW l \in Seated,
         NEW states \in [Seat -> {"THINKING", "HUNGRY", "EATING"}],
         UNCHANGED <<phylosCount, philosopherPids, seatOf, manager, table>>,
         test(p, l, states, next),
         Separate(states, phylosCount, table = "whole"),
         \A j \in Seat \ {seatOf[p]} : states[j] = state[j],
         states[seatOf[p]] = IF next = "taken" THEN "HUNGRY" ELSE "THINKING",
         next = "taken" => l = seatOf[p],
         value[philosopherSemaphore(seatOf[p])] = 0
  PROVE  IInv'
<1> PICK i \in Seated : i = seatOf[p]
  BY HisSeat
<1> PICK s \in Semaphore : s = philosopherSemaphore(l)
  BY Ids, Around DEF IInv, TypePart
<1>0. SemTypes /\ phylosCount \in 0 .. MAX_PHYLOS /\ l \in Seat /\ i \in Seat
      /\ at \in [Philosopher -> Place]
  BY Around DEF IInv, TypePart
<1>1. philosopherPids[l] \in Philosopher /\ seatOf[philosopherPids[l]] = l /\ s # MUTEX_ID
  BY <1>0, Ids DEF IInv, SeatPart
(* What test() may do: nothing, lose the philosopher, or grant the forks.   *)
<1> DEFINE granted == canEat(l, states) /\ s \in queued
<1> PICK x \in {next, "undefined"} : x = IF canEat(l, states) /\ ~granted THEN "undefined" ELSE next
  OBVIOUS
<1>2. at' = [at EXCEPT ![p] = x]
  BY DEF test
<1>3. /\ ~canEat(l, states) => state' = states /\ at'[p] = next
      /\ canEat(l, states) => states[l] = "HUNGRY" /\ state' = [states EXCEPT ![l] = "EATING"]
      /\ ~granted => UNCHANGED semaphores
      /\ granted => Post(s)
  BY <1>0, <1>2 DEF test, canEat, semPost
<1>4. /\ SemTypes' /\ GoodQueues(waiters', asleep', Dead) /\ queued' = queued
      /\ \A t \in Semaphore \ {s} : value'[t] = value[t] /\ waiters'[t] = waiters[t]
      /\ \A t \in Semaphore : Entries(waiters', t) \subseteq Entries(waiters, t)
      /\ ~granted => UNCHANGED <<value, waiters, asleep>>
      /\ granted => Posts(s, philosopherPids[l])
      /\ asleep'[philosopherPids[l]] \in {asleep[philosopherPids[l]], Awake}
      /\ \A c \in Client \ {philosopherPids[l]} : asleep'[c] = asleep[c]
  <2>1. CASE ~granted
    <3>1. UNCHANGED <<value, queued, waiters, asleep>>
      BY <1>3, <2>1 DEF semaphores
    <3>2. SemTypes' /\ GoodQueues(waiters', asleep', Dead)
      BY <1>0, <3>1 DEF SemTypes, IInv, QueuePart
    <3> QED
      BY <2>1, <3>1, <3>2 DEF Entries
  <2>2. CASE granted
    <3> HIDE DEF granted
    <3>1. GoodQueues(waiters, asleep, Dead) /\ Post(s)
      BY <1>3, <2>2 DEF IInv, QueuePart
    <3>2. SemTypes' /\ GoodQueues(waiters', asleep', Dead) /\ \E h \in Client : Posts(s, h)
      BY ONLY <1>0, <3>1, PostsWake
    <3> PICK h \in Client : Posts(s, h)
      BY <3>2
    <3>3. Entries(waiters, s) \subseteq {philosopherPids[l]}
      BY <1>0 DEF IInv, QueuePart
    <3>4. Posts(s, philosopherPids[l])
      BY <3>3 DEF Posts
    <3>5. \A t \in Semaphore : Entries(waiters', t) \subseteq Entries(waiters, t)
      <4> SUFFICES ASSUME NEW t \in Semaphore
                   PROVE  Entries(waiters', t) \subseteq Entries(waiters, t)
        OBVIOUS
      <4>1. CASE t # s
        <5>1. waiters'[t] = waiters[t]
          BY <3>4, <4>1 DEF Posts
        <5> QED
          BY <5>1 DEF Entries
      <4>2. CASE t = s
        BY <3>4, <4>2 DEF Posts
      <4> QED
        BY <4>1, <4>2
    <3> QED
      BY <2>2, <3>2, <3>4, <3>5 DEF Posts
  <2> QED
    BY <2>1, <2>2
<1>5. /\ at' \in [Philosopher -> Place] /\ at'[p] = x
      /\ \A q \in Philosopher \ {p} : at'[q] = at[q]
      /\ Dead' = Dead /\ (\A q \in Philosopher : Live(q)' <=> Live(q))
      /\ ManagerPart' /\ SeatPart'
  <2>1. x \in Place /\ x \notin {"none", "dead"}
    BY DEF Place
  <2>2. Manager \in Client /\ Manager # philosopherPids[l] /\ asleep[Manager] \in {Awake, MUTEX_ID}
    BY <1>1, Ids DEF IInv, ManagerPart
  <2>3. asleep'[Manager] \in {Awake, MUTEX_ID}
    BY <1>4, <2>2
  <2> QED
    BY <1>2, <2>1, <2>3, PhilosopherFrame
<1> HIDE DEF granted
<1>6. state' \in [Seat -> {"THINKING", "HUNGRY", "EATING"}]
      /\ \A j \in Seat \ {l} : state'[j] = states[j]
  BY <1>0, <1>3
<1>7. TypePart'
  BY <1>4, <1>5, <1>6 DEF IInv, TypePart
<1>8. Separate(state', phylosCount', table' = "whole")
  BY <1>0, <1>3, Granted
<1>9. SleepPart'
  <2> SUFFICES ASSUME NEW q \in Philosopher
               PROVE  \/ asleep'[q] = Awake
                      \/ asleep'[q] = MUTEX_ID /\ at'[q] \in {"hungry", "full"}
                      \/ asleep'[q] = philosopherSemaphore(seatOf[q]) /\ at'[q] = "eat"
    BY DEF SleepPart, philosopherSemaphore, MUTEX_ID
  <2>1. asleep'[q] \in {asleep[q], Awake} /\ q \in Client
    BY <1>4, Ids
  <2>2. CASE q = p
    BY <2>1, <2>2 DEF Runs
  <2>3. CASE q # p
    BY <1>5, <2>1, <2>3 DEF IInv, SleepPart
  <2> QED
    BY <2>2, <2>3
<1>10. QueuePart'
  <2>1. l \in Seated /\ \A j \in Seat : j \notin Seated => philosopherSemaphore(j) \in Semaphore \ {s}
    BY <1>0, Ids
  <2>2. \A j \in Seat : Entries(waiters', philosopherSemaphore(j)) \subseteq
                          Entries(waiters, philosopherSemaphore(j)) \cup {philosopherPids[j]}
    BY <1>4, Ids
  <2>3. \A j \in Seated : philosopherPids[j] \in Philosopher
    BY DEF IInv, SeatPart
  <2>4. \A j \in Seated : Live(philosopherPids[j])' => Live(philosopherPids[j])
    BY <1>5, <2>3
  <2> QED
    BY <1>4, <1>5, <2>1, <2>2, <2>4, QueueKept
<1>11. ForksPart'
  <2> SUFFICES ASSUME NEW j \in Seated
               PROVE  SeatOK(j)'
    BY DEF ForksPart, Seated
  <2> PICK q \in Philosopher : q = philosopherPids[j]
    BY DEF IInv, SeatPart
  <2> PICK t \in Semaphore : t = philosopherSemaphore(j)
    BY Ids, <1>0, Around
  <2>1. j \in Seat /\ SeatOK(j) /\ seatOf[q] = j /\ q \in Client /\ (j # l => t # s)
    BY <1>0, Around, Ids DEF IInv, ForksPart, SeatPart
  <2>2. q' = q /\ (philosopherPids[j])' = q /\ (philosopherSemaphore(j))' = t
    BY DEF philosopherSemaphore, MUTEX_ID
  <2>3. CASE j = i
    <3>1. q = p /\ value[t] = 0 /\ at'[q] = x
      BY <1>5, <2>3, HisSeat
    <3>2. CASE j = l /\ granted
      <4>1. states[i] = "HUNGRY" /\ next = "taken" /\ x = "taken" /\ state'[j] = "EATING"
        BY <1>3, <1>6, <2>1, <2>3, <3>2, <1>0 DEF granted
      <4>2. p \notin Entries(waiters, s)
        BY HisSeat DEF Runs
      <4>3. value'[t] = 1
        BY <1>4, <2>3, <3>1, <3>2, <4>2, HisSeat DEF Posts
      <4> QED
        BY <2>2, <3>1, <4>1, <4>3 DEF SeatOK
    <3>3. CASE j # l \/ ~granted
      <4>1. value'[t] = 0
        BY <1>4, <2>1, <3>1, <3>3
      <4>2. x = "undefined" \/ (x = next /\ state'[j] = states[j])
        BY <1>3, <1>5, <1>6, <2>1, <3>3
      <4> QED
        BY <2>2, <2>3, <3>1, <4>1, <4>2 DEF SeatOK
    <3> QED
      BY <3>2, <3>3
  <2>4. CASE j # i
    <3>1. q # p /\ at'[q] = at[q] /\ states[j] = state[j]
      BY <1>5, <2>1, <2>4
    <3>2. CASE j = l /\ granted
      <4> SUFFICES ASSUME Live(q), at[q] # "undefined"
                   PROVE  SeatOK(j)'
        BY <1>5, <2>2, <3>1 DEF SeatOK
      <4>1. state[j] = "HUNGRY" /\ state'[j] = "EATING"
        BY <1>0, <1>3, <3>1, <3>2 DEF granted
      <4>2. \/ at[q] \in {"taken", "forks"} /\ value[t] = 0
            \/ at[q] = "eat" /\ asleep[q] = t /\ value[t] = 0 /\ waiters[t] # <<>>
        BY <2>1, <4>1 DEF SeatOK
      <4>3. CASE at[q] \in {"taken", "forks"} /\ value[t] = 0
        <5>1. asleep[q] = Awake
          BY <4>3 DEF IInv, SleepPart
        <5>2. q \notin Entries(waiters, s)
          BY <5>1, HisSeat
        <5>3. value'[t] = 1
          BY <1>4, <3>2, <4>3, <5>2 DEF Posts
        <5> QED
          BY <2>2, <3>1, <4>1, <4>3, <5>3 DEF SeatOK
      <4>4. CASE at[q] = "eat" /\ asleep[q] = t /\ value[t] = 0 /\ waiters[t] # <<>>
        <5>1. value'[t] = 0 /\ asleep'[q] = Awake
          BY <1>4, <3>2, <4>4 DEF Posts
        <5> QED
          BY <2>2, <3>1, <4>1, <4>4, <5>1 DEF SeatOK
      <4> QED
        BY <4>2, <4>3, <4>4
    <3>3. CASE j = l /\ ~granted
      <4>1. UNCHANGED <<value, waiters, asleep>>
        BY <1>4, <3>3
      <4>2. CASE ~canEat(l, states)
        BY <1>3, <2>1, <3>1, <4>1, <4>2, SeatKept
      <4>3. CASE canEat(l, states)
        <5>1. ~Live(q)
          BY <3>3, <4>3 DEF granted, IInv, QueuePart
        <5> QED
          BY <1>5, <2>2, <5>1 DEF SeatOK
      <4> QED
        BY <4>2, <4>3
    <3>4. CASE j # l
      <4>1. q # philosopherPids[l] /\ state'[j] = state[j] /\ asleep'[q] = asleep[q]
        BY <1>1, <1>4, <1>6, <2>1, <3>1, <3>4
      <4> QED
        BY <1>4, <2>1, <3>1, <3>4, <4>1, SeatKept
    <3> QED
      BY <3>2, <3>3, <3>4
  <2> QED
    BY <2>3, <2>4
<1>12. MutexPart'
  <2>1. value'[MUTEX_ID] = value[MUTEX_ID]
    BY <1>1, <1>4, Ids
  <2>2. ASSUME NEW c \in Actor, InSection(c)'
        PROVE  InSection(c)
    <3>1. CASE c = philosopherPids[l] /\ asleep[c] # Awake
      <4>1. c \in Philosopher /\ c \in Client /\ c # Manager /\ c # p
        BY <1>1, <3>1, Ids DEF Runs
      <4>2. granted /\ c \in Entries(waiters, s)
        BY <1>4, <2>2, <3>1, <4>1 DEF Posts, InSection, Runs
      <4>3. asleep[c] = s \/ c \in Dead
        BY <4>2 DEF IInv, QueuePart, GoodQueues
      <4>4. at[c] = "eat" \/ at[c] = "dead"
        BY <1>1, <4>1, <4>3, <3>1, Ids DEF IInv, SleepPart, Dead
      <4> QED
        BY <1>5, <2>2, <4>1, <4>4 DEF InSection
    <3>2. CASE c # philosopherPids[l] \/ asleep[c] = Awake
      <4>1. asleep[c] = Awake
        BY <1>4, <2>2, <3>2, Ids DEF InSection, Runs
      <4>2. CASE c = Manager
        BY <2>2, <4>1, <4>2 DEF InSection, Runs
      <4>3. CASE c = p
        BY <4>1, <4>3, Ids DEF InSection, Runs
      <4>4. CASE c \in Philosopher \ {p}
        BY <1>5, <2>2, <4>1, <4>4, Ids DEF InSection, Runs
      <4> QED
        BY <4>2, <4>3, <4>4 DEF Actor
    <3> QED
      BY <3>1, <3>2
  <2> QED
    BY <2>1, <2>2, MutexKept DEF IInv
<1> QED
  BY <1>5, <1>7, <1>8, <1>9, <1>10, <1>11, <1>12 DEF IInv

LEMMA FewerEat ==
  ASSUME phylosCount \in 0 .. MAX_PHYLOS, NEW states, NEW whole,
         Separate(state, phylosCount, whole),
         \A j \in Seated : states[j] = "EATING" => state[j] = "EATING"
  PROVE  Separate(states, phylosCount, whole)
<1> PICK n \in Nat : n = phylosCount /\ n <= MAX_PHYLOS
  BY PhilosophersAssumption
<1>1. ASSUME NEW j \in Seat, j + 1 < n
      PROVE  ~(states[j] = "EATING" /\ states[j + 1] = "EATING")
  <2>1. j \in Seated /\ j + 1 \in Seated
    BY <1>1, PhilosophersAssumption DEF Seat, Seated
  <2> QED
    BY <1>1, <2>1 DEF Separate
<1>2. ASSUME whole, n > 1
      PROVE  ~(states[0] = "EATING" /\ states[n - 1] = "EATING")
  <2>1. 0 \in Seated /\ n - 1 \in Seated
    BY <1>2 DEF Seated
  <2> QED
    BY <1>2, <2>1 DEF Separate
<1> QED
  BY <1>1, <1>2 DEF Separate

LEMMA takeForksStep ==
  ASSUME IInv, NEW p \in Philosopher, takeForks(p),
         UNCHANGED <<phylosCount, philosopherPids, seatOf, manager, table>>
  PROVE  IInv'
<1> PICK states : states = [state EXCEPT ![seatOf[p]] = "HUNGRY"]
  OBVIOUS
<1>1. /\ at[p] = "hungry" /\ Runs(p) /\ test(p, seatOf[p], states, "taken") /\ Live(p)
      /\ phylosCount \in 0 .. MAX_PHYLOS /\ state \in [Seat -> {"THINKING", "HUNGRY", "EATING"}]
  BY DEF takeForks, Live, IInv, TypePart
<1>2. seatOf[p] \in Seated /\ seatOf[p] \in Seat /\ philosopherPids[seatOf[p]] = p
  BY <1>1, HisSeat
<1>3. /\ states \in [Seat -> {"THINKING", "HUNGRY", "EATING"}] /\ states[seatOf[p]] = "HUNGRY"
      /\ \A j \in Seat \ {seatOf[p]} : states[j] = state[j]
  BY <1>1, <1>2
<1>4. \A j \in Seated : states[j] = "EATING" => state[j] = "EATING"
  BY <1>1, <1>3, Around
<1>5. Separate(states, phylosCount, table = "whole")
  BY <1>1, <1>4, FewerEat DEF IInv
<1>6. value[philosopherSemaphore(seatOf[p])] = 0
  BY <1>1, <1>2 DEF IInv, ForksPart, SeatOK
<1> QED
  BY ONLY IInv, <1>1, <1>2, <1>3, <1>5, <1>6, Tested,
          UNCHANGED <<phylosCount, philosopherPids, seatOf, manager, table>>, p \in Philosopher

LEMMA putForksStep ==
  ASSUME IInv, NEW p \in Philosopher, putForks(p),
         UNCHANGED <<phylosCount, philosopherPids, seatOf, manager, table>>
  PROVE  IInv'
<1>1. /\ at[p] \in {"full", "putLeft"} /\ Runs(p) /\ Live(p)
      /\ phylosCount \in 0 .. MAX_PHYLOS /\ state \in [Seat -> {"THINKING", "HUNGRY", "EATING"}]
  BY DEF putForks, Live, IInv, TypePart
<1>2. /\ seatOf[p] \in Seated /\ seatOf[p] \in Seat /\ philosopherPids[seatOf[p]] = p
      /\ LEFT(seatOf[p]) \in Seated /\ RIGHT(seatOf[p]) \in Seated
  BY <1>1, HisSeat, Around
<1>3. value[philosopherSemaphore(seatOf[p])] = 0 /\ (at[p] = "putLeft" => state[seatOf[p]] = "THINKING")
  BY <1>1, <1>2 DEF IInv, ForksPart, SeatOK
<1>4. CASE at[p] = "full"
  <2> PICK states : states = [state EXCEPT ![seatOf[p]] = "THINKING"]
    OBVIOUS
  <2>1. test(p, LEFT(seatOf[p]), states, "putLeft")
    BY <1>4 DEF putForks
  <2>2. /\ states \in [Seat -> {"THINKING", "HUNGRY", "EATING"}] /\ states[seatOf[p]] = "THINKING"
        /\ \A j \in Seat \ {seatOf[p]} : states[j] = state[j]
    BY <1>1, <1>2
  <2>3. \A j \in Seated : states[j] = "EATING" => state[j] = "EATING"
    BY <1>1, <2>2, Around
  <2>4. Separate(states, phylosCount, table = "whole")
    BY <1>1, <2>3, FewerEat DEF IInv
  <2> QED
    BY ONLY IInv, <1>1, <1>2, <1>3, <2>1, <2>2, <2>4, Tested,
            UNCHANGED <<phylosCount, philosopherPids, seatOf, manager, table>>, p \in Philosopher
<1>5. CASE at[p] = "putLeft"
  <2>1. test(p, RIGHT(seatOf[p]), state, "put")
    BY <1>5 DEF putForks
  <2>2. Separate(state, phylosCount, table = "whole")
    BY DEF IInv
  <2>3. state[seatOf[p]] = "THINKING"
    BY <1>3, <1>5
  <2> QED
    BY ONLY IInv, <1>1, <1>2, <1>3, <2>1, <2>2, <2>3, Tested,
            UNCHANGED <<phylosCount, philosopherPids, seatOf, manager, table>>, p \in Philosopher
<1> QED
  BY <1>1, <1>4, <1>5

-----------------------------------------------------------------------------
LEMMA MutexTaken ==
  ASSUME IInv, NEW c \in Actor, Waits(MUTEX_ID, c),
         \A d \in Actor \ {c} : InSection(d)' => InSection(d)
  PROVE  MutexPart'
<1>1. MUTEX_ID # Awake /\ value[MUTEX_ID] \in {0, 1}
  BY Ids DEF IInv, MutexPart
<1>2. CASE value[MUTEX_ID] > 0 /\ value'[MUTEX_ID] = value[MUTEX_ID] - 1
  <2>1. value[MUTEX_ID] = 1 /\ value'[MUTEX_ID] = 0
    BY <1>1, <1>2
  <2>2. \A d \in Actor : InSection(d)' => d = c
    BY <2>1 DEF IInv, MutexPart
  <2> QED
    BY <2>1, <2>2 DEF MutexPart, OneInSection
<1>3. CASE value'[MUTEX_ID] = 0 /\ asleep'[c] = MUTEX_ID
  <2>1. ~InSection(c)'
    BY <1>1, <1>3 DEF InSection, Runs
  <2> QED
    BY <1>3, <2>1 DEF IInv, MutexPart, OneInSection
<1> QED
  BY <1>2, <1>3 DEF Waits

LEMMA MutexGiven ==
  ASSUME IInv, NEW c \in Actor, InSection(c), NEW h \in Client, Posts(MUTEX_ID, h), ~InSection(c)',
         \A d \in Actor : InSection(d)' => InSection(d) \/ (d = h /\ asleep' # asleep)
  PROVE  MutexPart'
<1>1. value[MUTEX_ID] = 0 /\ \A d \in Actor : InSection(d) => d = c
  BY DEF IInv, MutexPart, OneInSection
<1>2. CASE asleep' = asleep /\ value'[MUTEX_ID] = value[MUTEX_ID] + 1
  BY <1>1, <1>2 DEF MutexPart, OneInSection
<1>3. CASE value'[MUTEX_ID] = value[MUTEX_ID]
  BY <1>1, <1>3 DEF MutexPart, OneInSection
<1> QED
  BY <1>2, <1>3 DEF Posts

LEMMA Woken ==
  ASSUME IInv, NEW s \in Semaphore, NEW h \in Client, Posts(s, h), NEW c \in Actor
  PROVE  asleep'[c] = asleep[c] \/ (c = h /\ asleep[c] = s /\ asleep'[c] = Awake /\ asleep' # asleep)
<1>1. c \in Client /\ c \in Philosopher \cup {Manager} /\ s # Awake /\ Manager \notin Philosopher
  BY Ids, PhilosophersAssumption DEF Actor
<1>2. c = h /\ h \in Entries(waiters, s) => asleep[c] = s \/ c \in Dead
  BY DEF IInv, QueuePart, GoodQueues
<1>3. c \in Dead => asleep[c] = Awake
  BY DEF Dead, IInv, SleepPart
<1> QED
  BY <1>1, <1>2, <1>3 DEF Posts

(* Steps of a philosopher that wait for the mutex or for its forks, or give *)
(* the mutex back, change nothing that belongs to the others.               *)
LEMMA SeatsKept ==
  ASSUME IInv, NEW p \in Philosopher, Live(p), NEW j \in Seated, j # seatOf[p],
         UNCHANGED <<philosopherPids, state>>,
         \A q \in Philosopher \ {p} : at'[q] = at[q],
         \A q \in Philosopher \ {p} : asleep'[q] = asleep[q] \/ asleep[q] = MUTEX_ID,
         value'[philosopherSemaphore(j)] = value[philosopherSemaphore(j)],
         waiters'[philosopherSemaphore(j)] = waiters[philosopherSemaphore(j)]
  PROVE  SeatOK(j)'
<1> PICK q \in Philosopher : q = philosopherPids[j]
  BY DEF IInv, SeatPart
<1>1. q # p /\ SeatOK(j)
  BY HisSeat DEF IInv, ForksPart
<1>2. at[q] = "eat" => asleep'[q] = asleep[q]
  BY <1>1, Ids, PhilosophersAssumption DEF IInv, SleepPart, TypePart
<1> QED
  BY <1>1, <1>2, SeatKept

LEMMA StartThinkingStep ==
  ASSUME IInv, NEW p \in Philosopher, StartThinking(p),
         UNCHANGED <<phylosCount, philosopherPids, seatOf, manager, table>>
  PROVE  IInv'
<1> PICK i \in Seated : i = seatOf[p]
  BY HisSeat DEF StartThinking, Go, Live
<1>1. /\ at[p] = "start" /\ at' = [at EXCEPT ![p] = "think"] /\ Live(p) /\ Runs(p)
      /\ state' = [state EXCEPT ![i] = "THINKING"] /\ UNCHANGED <<value, queued, waiters, asleep>>
      /\ phylosCount \in 0 .. MAX_PHYLOS /\ i \in Seat /\ philosopherPids[i] = p
  BY HisSeat DEF StartThinking, Go, Live, IInv, TypePart, semaphores
<1>2. state[i] = "THINKING" /\ value[philosopherSemaphore(i)] = 0
  BY <1>1 DEF IInv, ForksPart, SeatOK
<1>3. UNCHANGED state
  BY <1>1, <1>2 DEF IInv, TypePart
<1>4. asleep'[Manager] \in {Awake, MUTEX_ID}
  BY <1>1 DEF IInv, ManagerPart
<1>5. /\ at' \in [Philosopher -> Place] /\ at'[p] = "think"
      /\ \A q \in Philosopher \ {p} : at'[q] = at[q]
      /\ Dead' = Dead /\ (\A q \in Philosopher : Live(q)' <=> Live(q))
      /\ ManagerPart' /\ SeatPart'
  <2>1. "think" \in Place /\ "think" \notin {"none", "dead"}
    BY DEF Place
  <2> QED
    BY <1>1, <1>4, <2>1, PhilosopherFrame
<1>6. TypePart'
  BY <1>1, <1>3, <1>5 DEF IInv, TypePart, SemTypes
<1>7. SleepPart'
  BY <1>1, <1>5 DEF IInv, SleepPart, philosopherSemaphore, MUTEX_ID
<1>8. QueuePart'
  <2>1. GoodQueues(waiters', asleep', Dead')
    BY <1>1, <1>5 DEF IInv, QueuePart, GoodQueues, Entries
  <2>2. \A j \in Seated : Live(philosopherPids[j])' => Live(philosopherPids[j])
    BY <1>5 DEF IInv, SeatPart
  <2>3. \A j \in Seat : Entries(waiters', philosopherSemaphore(j)) = Entries(waiters, philosopherSemaphore(j))
    BY <1>1 DEF Entries
  <2> QED
    BY <1>1, <2>1, <2>2, <2>3, QueueKept
<1>9. ForksPart'
  <2>1. SeatOK(i)'
    BY <1>1, <1>2, <1>3, <1>5 DEF SeatOK, philosopherSemaphore, MUTEX_ID
  <2>2. ASSUME NEW j \in Seated, j # i
        PROVE  SeatOK(j)'
    BY <1>1, <1>3, <1>5, <2>2, SeatsKept
  <2> QED
    BY <2>1, <2>2 DEF ForksPart, Seated
<1>10. MutexPart'
  <2>1. ASSUME NEW c \in Actor, InSection(c)'
        PROVE  InSection(c)
    BY <1>1, <1>5, <2>1 DEF InSection, Runs, Actor
  <2> QED
    BY <1>1, <2>1, MutexKept DEF IInv
<1> QED
  BY <1>3, <1>5, <1>6, <1>7, <1>8, <1>9, <1>10 DEF IInv

LEMMA WaitMutexStep ==
  ASSUME IInv, NEW p \in Philosopher, WaitMutex(p),
         UNCHANGED <<phylosCount, philosopherPids, seatOf, manager, table>>
  PROVE  IInv'
<1> PICK x \in {"hungry", "full"} :
      at' = [at EXCEPT ![p] = x] /\ at[p] = (IF x = "hungry" THEN "think" ELSE "eat")
  BY DEF WaitMutex, Go
<1> PICK i \in Seated : i = seatOf[p]
  BY HisSeat DEF Live
<1>1. /\ Live(p) /\ Runs(p) /\ p \in Client /\ p # Manager /\ p \notin Dead
      /\ semWait(MUTEX_ID, p) /\ UNCHANGED <<state, swallowed>>
      /\ phylosCount \in 0 .. MAX_PHYLOS /\ i \in Seat /\ philosopherPids[i] = p
  BY HisSeat DEF WaitMutex, Go, Live, IInv, TypePart
<1>2. MUTEX_ID \in Semaphore
      /\ \A j \in Seat : philosopherSemaphore(j) \in Semaphore \ {MUTEX_ID}
  BY Ids
<1>3. SemTypes' /\ Waits(MUTEX_ID, p) /\ GoodQueues(waiters', asleep', Dead)
  <2>1. SemTypes /\ GoodQueues(waiters, asleep, Dead) /\ asleep[p] = Awake
    BY <1>1 DEF IInv, TypePart, QueuePart, Runs
  <2> QED
    BY <1>1, <1>2, <2>1, SleepersQueue
<1>4. /\ queued' = queued
      /\ \A t \in Semaphore \ {MUTEX_ID} : value'[t] = value[t] /\ waiters'[t] = waiters[t]
      /\ \A d \in Client \ {p} : asleep'[d] = asleep[d]
      /\ asleep'[p] \in {Awake, MUTEX_ID}
  BY <1>3 DEF Waits
<1>5. /\ at' \in [Philosopher -> Place] /\ at'[p] = x
      /\ \A q \in Philosopher \ {p} : at'[q] = at[q]
      /\ Dead' = Dead /\ (\A q \in Philosopher : Live(q)' <=> Live(q))
      /\ ManagerPart' /\ SeatPart'
  <2>1. x \in Place /\ x \notin {"none", "dead"}
    BY DEF Place
  <2>2. asleep'[Manager] \in {Awake, MUTEX_ID}
    BY <1>1, <1>4, Ids DEF IInv, ManagerPart
  <2> QED
    BY <1>1, <2>1, <2>2, PhilosopherFrame
<1>6. TypePart'
  BY <1>1, <1>3, <1>5 DEF IInv, TypePart
<1>7. SleepPart'
  <2> SUFFICES ASSUME NEW q \in Philosopher
               PROVE  \/ asleep'[q] = Awake
                      \/ asleep'[q] = MUTEX_ID /\ at'[q] \in {"hungry", "full"}
                      \/ asleep'[q] = philosopherSemaphore(seatOf[q]) /\ at'[q] = "eat"
    BY DEF SleepPart, philosopherSemaphore, MUTEX_ID
  <2> QED
    BY <1>4, <1>5, Ids DEF IInv, SleepPart
<1>8. QueuePart'
  <2>1. \A j \in Seated : Live(philosopherPids[j])' => Live(philosopherPids[j])
    BY <1>5 DEF IInv, SeatPart
  <2>2. \A j \in Seat : waiters'[philosopherSemaphore(j)] = waiters[philosopherSemaphore(j)]
    BY <1>2, <1>4
  <2>3. \A j \in Seat : Entries(waiters', philosopherSemaphore(j)) = Entries(waiters, philosopherSemaphore(j))
    BY <2>2 DEF Entries
  <2> QED
    BY <1>3, <1>4, <1>5, <2>1, <2>2, <2>3, QueueKept
<1>9. ForksPart'
  <2>1. SeatOK(i)'
    <3>1. /\ x = "hungry" => state[i] = "THINKING"
          /\ x = "full" => state[i] = "EATING"
          /\ value[philosopherSemaphore(i)] = 0
      BY <1>1, <1>2, Ids, PhilosophersAssumption DEF IInv, ForksPart, SeatOK, Runs
    <3>2. value'[philosopherSemaphore(i)] = 0
      BY <1>1, <1>2, <1>4, <3>1
    <3> QED
      BY <1>1, <1>5, <3>1, <3>2 DEF SeatOK, philosopherSemaphore, MUTEX_ID
  <2>2. ASSUME NEW j \in Seated, j # i
        PROVE  SeatOK(j)'
    <3>1. j \in Seat /\ \A q \in Philosopher \ {p} : asleep'[q] = asleep[q]
      BY <1>1, <1>4, Around, Ids
    <3> QED
      BY <1>1, <1>2, <1>4, <1>5, <2>2, <3>1, SeatsKept
  <2> QED
    BY <2>1, <2>2 DEF ForksPart, Seated
<1>10. MutexPart'
  <2>1. ASSUME NEW d \in Actor \ {p}, InSection(d)'
        PROVE  InSection(d)
    BY <1>4, <1>5, <2>1, Ids DEF InSection, Runs, Actor
  <2> QED
    BY <1>3, <2>1, MutexTaken DEF Actor
<1> QED
  BY <1>1, <1>5, <1>6, <1>7, <1>8, <1>9, <1>10 DEF IInv

LEMMA PostMutexStep ==
  ASSUME IInv, NEW p \in Philosopher, PostMutex(p),
         UNCHANGED <<phylosCount, philosopherPids, seatOf, manager, table>>
  PROVE  IInv'
<1> PICK x \in {"forks", "think"} :
      at' = [at EXCEPT ![p] = x] /\ at[p] = (IF x = "forks" THEN "taken" ELSE "put")
  BY DEF PostMutex, Go
<1> PICK i \in Seated : i = seatOf[p]
  BY HisSeat DEF Live
<1>1. /\ Live(p) /\ Runs(p) /\ p \in Client /\ p # Manager
      /\ Post(MUTEX_ID) /\ UNCHANGED state
      /\ phylosCount \in 0 .. MAX_PHYLOS /\ i \in Seat /\ philosopherPids[i] = p
  BY HisSeat DEF PostMutex, Go, Live, IInv, TypePart, semPost
<1>2. MUTEX_ID \in Semaphore
      /\ \A j \in Seat : philosopherSemaphore(j) \in Semaphore \ {MUTEX_ID}
  BY Ids
<1>3. SemTypes' /\ GoodQueues(waiters', asleep', Dead) /\ \E h \in Client : Posts(MUTEX_ID, h)
  <2>1. SemTypes /\ GoodQueues(waiters, asleep, Dead)
    BY DEF IInv, TypePart, QueuePart
  <2> QED
    BY <1>1, <1>2, <2>1, PostsWake
<1> PICK h \in Client : Posts(MUTEX_ID, h)
  BY <1>3
<1>4. /\ queued' = queued
      /\ \A t \in Semaphore \ {MUTEX_ID} : value'[t] = value[t] /\ waiters'[t] = waiters[t]
      /\ \A c \in Actor : \/ asleep'[c] = asleep[c]
                          \/ c = h /\ asleep[c] = MUTEX_ID /\ asleep'[c] = Awake /\ asleep' # asleep
  BY <1>2, Woken DEF Posts
<1>5. /\ at' \in [Philosopher -> Place] /\ at'[p] = x
      /\ \A q \in Philosopher \ {p} : at'[q] = at[q]
      /\ Dead' = Dead /\ (\A q \in Philosopher : Live(q)' <=> Live(q))
      /\ ManagerPart' /\ SeatPart'
  <2>1. x \in Place /\ x \notin {"none", "dead"}
    BY DEF Place
  <2>2. asleep'[Manager] \in {Awake, MUTEX_ID}
    BY <1>4 DEF IInv, ManagerPart, Actor
  <2> QED
    BY <1>1, <2>1, <2>2, PhilosopherFrame
<1>6. TypePart'
  BY <1>1, <1>3, <1>5 DEF IInv, TypePart
<1>7. SleepPart'
  <2> SUFFICES ASSUME NEW q \in Philosopher
               PROVE  \/ asleep'[q] = Awake
                      \/ asleep'[q] = MUTEX_ID /\ at'[q] \in {"hungry", "full"}
                      \/ asleep'[q] = philosopherSemaphore(seatOf[q]) /\ at'[q] = "eat"
    BY DEF SleepPart, philosopherSemaphore, MUTEX_ID
  <2>1. asleep'[q] = asleep[q] \/ asleep'[q] = Awake
    BY <1>4 DEF Actor
  <2>2. q = p => asleep[q] = Awake
    BY <1>1 DEF Runs
  <2> QED
    BY <1>5, <2>1, <2>2 DEF IInv, SleepPart
<1>8. QueuePart'
  <2>1. \A j \in Seated : Live(philosopherPids[j])' => Live(philosopherPids[j])
    BY <1>5 DEF IInv, SeatPart
  <2>2. \A j \in Seat : waiters'[philosopherSemaphore(j)] = waiters[philosopherSemaphore(j)]
    BY <1>2, <1>4
  <2>3. \A j \in Seat : Entries(waiters', philosopherSemaphore(j)) = Entries(waiters, philosopherSemaphore(j))
    BY <2>2 DEF Entries
  <2> QED
    BY <1>3, <1>4, <1>5, <2>1, <2>2, <2>3, QueueKept
<1>9. ForksPart'
  <2>1. SeatOK(i)'
    <3>1. /\ x = "think" => state[i] = "THINKING" /\ value[philosopherSemaphore(i)] = 0
          /\ x = "forks" => \/ state[i] = "HUNGRY" /\ value[philosopherSemaphore(i)] = 0
                            \/ state[i] = "EATING" /\ value[philosopherSemaphore(i)] = 1
      BY <1>1 DEF IInv, ForksPart, SeatOK
    <3>2. value'[philosopherSemaphore(i)] = value[philosopherSemaphore(i)]
      BY <1>1, <1>2, <1>4
    <3> QED
      BY <1>1, <1>5, <3>1, <3>2 DEF SeatOK, philosopherSemaphore, MUTEX_ID
  <2>2. ASSUME NEW j \in Seated, j # i
        PROVE  SeatOK(j)'
    <3>1. j \in Seat /\ \A q \in Philosopher \ {p} : asleep'[q] = asleep[q] \/ asleep[q] = MUTEX_ID
      BY <1>1, <1>4, Around DEF Actor
    <3> QED
      BY <1>1, <1>2, <1>4, <1>5, <2>2, <3>1, SeatsKept
  <2> QED
    BY <2>1, <2>2 DEF ForksPart, Seated
<1>10. MutexPart'
  <2>1. ASSUME NEW d \in Actor, InSection(d)'
        PROVE  InSection(d) \/ (d = h /\ asleep' # asleep)
    <3>1. CASE asleep'[d] = asleep[d]
      <4>1. d # p
        BY <1>1, <1>5, <2>1 DEF InSection
      <4> QED
        BY <1>5, <2>1, <3>1, <4>1 DEF InSection, Runs, Actor
    <3> QED
      BY <1>4, <3>1
  <2>2. InSection(p) /\ ~InSection(p)' /\ p \in Actor
    BY <1>1, <1>5 DEF InSection, Actor
  <2> QED
    BY <2>1, <2>2, MutexGiven
<1> QED
  BY <1>1, <1>5, <1>6, <1>7, <1>8, <1>9, <1>10 DEF IInv

LEMMA WaitForksStep ==
  ASSUME IInv, NEW p \in Philosopher, WaitForks(p),
         UNCHANGED <<phylosCount, philosopherPids, seatOf, manager, table>>
  PROVE  IInv'
<1> PICK i \in Seated : i = seatOf[p]
  BY HisSeat DEF WaitForks, Go, Live
<1> PICK s \in Semaphore : s = philosopherSemaphore(i)
  BY HisSeat DEF WaitForks, Go, Live
<1>1. /\ at[p] = "forks" /\ at' = [at EXCEPT ![p] = "eat"]
      /\ Live(p) /\ Runs(p) /\ p \in Client /\ p # Manager /\ p \notin Dead
      /\ semWait(s, p) /\ UNCHANGED <<state, swallowed>>
      /\ phylosCount \in 0 .. MAX_PHYLOS /\ i \in Seat /\ philosopherPids[i] = p
  BY HisSeat DEF WaitForks, Go, Live, IInv, TypePart
<1>2. MUTEX_ID \in Semaphore \ {s} /\ s # Awake
      /\ \A j \in Seat \ {i} : philosopherSemaphore(j) \in Semaphore \ {s}
  BY <1>1, Ids
<1>3. SemTypes' /\ Waits(s, p) /\ GoodQueues(waiters', asleep', Dead)
  <2>1. SemTypes /\ GoodQueues(waiters, asleep, Dead) /\ asleep[p] = Awake
    BY <1>1 DEF IInv, TypePart, QueuePart, Runs
  <2> QED
    BY <1>1, <2>1, SleepersQueue
<1>4. /\ queued' = queued
      /\ \A t \in Semaphore \ {s} : value'[t] = value[t] /\ waiters'[t] = waiters[t]
      /\ \A d \in Client \ {p} : asleep'[d] = asleep[d]
      /\ asleep'[p] \in {Awake, s}
      /\ Entries(waiters', s) \subseteq Entries(waiters, s) \cup {p}
  BY <1>3 DEF Waits
<1>5. /\ at' \in [Philosopher -> Place] /\ at'[p] = "eat"
      /\ \A q \in Philosopher \ {p} : at'[q] = at[q]
      /\ Dead' = Dead /\ (\A q \in Philosopher : Live(q)' <=> Live(q))
      /\ ManagerPart' /\ SeatPart'
  <2>1. "eat" \in Place /\ "eat" \notin {"none", "dead"}
    BY DEF Place
  <2>2. asleep'[Manager] \in {Awake, MUTEX_ID}
    BY <1>1, <1>4, Ids DEF IInv, ManagerPart
  <2> QED
    BY <1>1, <2>1, <2>2, PhilosopherFrame
<1>6. TypePart'
  BY <1>1, <1>3, <1>5 DEF IInv, TypePart
<1>7. SleepPart'
  <2> SUFFICES ASSUME NEW q \in Philosopher
               PROVE  \/ asleep'[q] = Awake
                      \/ asleep'[q] = MUTEX_ID /\ at'[q] \in {"hungry", "full"}
                      \/ asleep'[q] = philosopherSemaphore(seatOf[q]) /\ at'[q] = "eat"
    BY DEF SleepPart, philosopherSemaphore, MUTEX_ID
  <2> QED
    BY <1>4, <1>5, Ids DEF IInv, SleepPart
<1>8. QueuePart'
  <2>1. \A j \in Seated : Live(philosopherPids[j])' => Live(philosopherPids[j])
    BY <1>5 DEF IInv, SeatPart
  <2>2. \A j \in Seat \ {i} : waiters'[philosopherSemaphore(j)] = waiters[philosopherSemaphore(j)]
    BY <1>2, <1>4
  <2>3. ASSUME NEW j \in Seat
        PROVE  Entries(waiters', philosopherSemaphore(j)) \subseteq
                 Entries(waiters, philosopherSemaphore(j)) \cup {philosopherPids[j]}
    <3>1. CASE j = i
      BY <1>1, <1>4, <3>1
    <3>2. CASE j # i
      BY <2>2, <3>2 DEF Entries
    <3> QED
      BY <3>1, <3>2
  <2> QED
    BY <1>3, <1>4, <1>5, <2>1, <2>2, <2>3, QueueKept
<1>9. ForksPart'
  <2>1. SeatOK(i)'
    <3>1. \/ state[i] = "HUNGRY" /\ value[s] = 0
          \/ state[i] = "EATING" /\ value[s] = 1
      BY <1>1 DEF IInv, ForksPart, SeatOK
    <3>2. s \in queued
      BY <1>1 DEF IInv, QueuePart
    <3>3. \/ value[s] = 1 /\ value'[s] = 0 /\ asleep'[p] = Awake
          \/ value[s] = 0 /\ value'[s] = 0 /\ asleep'[p] = s /\ p \in Entries(waiters', s)
      BY <1>3, <3>1, <3>2 DEF Waits
    <3>4. p \in Entries(waiters', s) => waiters'[s] # <<>>
      BY DEF Entries
    <3>5. (philosopherPids[i])' = p /\ (philosopherSemaphore(i))' = s
      BY <1>1 DEF philosopherSemaphore, MUTEX_ID
    <3> QED
      BY <1>1, <1>5, <3>1, <3>3, <3>4, <3>5 DEF SeatOK
  <2>2. ASSUME NEW j \in Seated, j # i
        PROVE  SeatOK(j)'
    <3>1. j \in Seat /\ \A q \in Philosopher \ {p} : asleep'[q] = asleep[q]
      BY <1>1, <1>4, Around, Ids
    <3> QED
      BY <1>1, <1>2, <1>4, <1>5, <2>2, <3>1, SeatsKept
  <2> QED
    BY <2>1, <2>2 DEF ForksPart, Seated
<1>10. MutexPart'
  <2>1. ASSUME NEW c \in Actor, InSection(c)'
        PROVE  InSection(c)
    <3>1. c # p
      BY <1>1, <1>5, <2>1 DEF InSection
    <3> QED
      BY <1>4, <1>5, <2>1, <3>1, Ids DEF InSection, Runs, Actor
  <2> QED
    BY <1>2, <1>4, <2>1, MutexKept DEF IInv
<1> QED
  BY <1>1, <1>5, <1>6, <1>7, <1>8, <1>9, <1>10 DEF IInv

-----------------------------------------------------------------------------
(* The manager.                                                             *)
LEMMA OpenMutexStep ==
  ASSUME IInv, OpenMutex
  PROVE  IInv'
<1>1. /\ manager.step = "open" /\ manager' = [manager EXCEPT !.step = "seat"] /\ Runs(Manager)
      /\ value' = [value EXCEPT ![MUTEX_ID] = 1] /\ queued' = queued \cup {MUTEX_ID}
      /\ UNCHANGED <<waiters, asleep, phylosCount, state, philosopherPids, at, seatOf, swallowed, table>>
  BY DEF OpenMutex, Open, Manage, To
<1>2. /\ manager.i \in Nat /\ phylosCount = 0 /\ phylosCount + manager.i <= MAX_PHYLOS
      /\ manager' \in [step: Step, i: Nat] /\ manager'.step = "seat" /\ manager'.i = manager.i
  BY <1>1 DEF IInv, TypePart, ManagerPart, Step
<1>3. MUTEX_ID \in Semaphore
      /\ \A j \in Seat : philosopherSemaphore(j) \in Semaphore \ {MUTEX_ID}
  BY Ids
<1>4. Seated = {} /\ Seated' = {} /\ \A p \in Philosopher : ~Live(p)
  BY <1>1, <1>2 DEF Seated, IInv, SeatPart
<1>5. TypePart'
  BY <1>1, <1>2, <1>3 DEF IInv, TypePart, SemTypes
<1>6. ManagerPart'
  BY <1>1, <1>2 DEF IInv, ManagerPart, MUTEX_ID
<1>7. SeatPart' /\ ForksPart'
  BY <1>1, <1>4 DEF SeatPart, ForksPart, Live
<1>8. SleepPart'
  BY <1>1 DEF IInv, SleepPart, philosopherSemaphore, MUTEX_ID
<1>9. QueuePart'
  <2>1. GoodQueues(waiters', asleep', Dead')
    BY <1>1 DEF IInv, QueuePart, Dead
  <2> QED
    BY <1>1, <1>2, <1>4, <2>1 DEF IInv, QueuePart, philosopherSemaphore, MUTEX_ID
<1>10. MutexPart'
  <2>1. \A c \in Actor : ~InSection(c)'
    BY <1>1, <1>2, <1>4 DEF InSection, Actor, Live
  <2>2. value'[MUTEX_ID] = 1
    BY <1>1, <1>3 DEF IInv, TypePart, SemTypes
  <2> QED
    BY <2>1, <2>2 DEF MutexPart, OneInSection
<1> QED
  BY <1>1, <1>5, <1>6, <1>7, <1>8, <1>9, <1>10 DEF IInv

(* A step of the manager that leaves table and semaphores' ids alone, but   *)
(* for the mutex.                                                           *)
LEMMA ManagerKeeps ==
  ASSUME IInv, UNCHANGED <<phylosCount, state, philosopherPids, at, seatOf, table>>,
         SemTypes', queued' = queued, GoodQueues(waiters', asleep', Dead),
         manager' \in [step: Step, i: Nat], ManagerPart',
         manager'.step \notin {"done", "close"}, manager.step \notin {"done", "close"},
         \A t \in Semaphore \ {MUTEX_ID} : value'[t] = value[t] /\ waiters'[t] = waiters[t],
         \A p \in Philosopher : asleep'[p] = asleep[p] \/ (asleep[p] = MUTEX_ID /\ asleep'[p] = Awake),
         MutexPart'
  PROVE  IInv'
<1>1. /\ \A j \in Seat : philosopherSemaphore(j) \in Semaphore \ {MUTEX_ID}
      /\ phylosCount \in 0 .. MAX_PHYLOS
  BY Ids DEF IInv, TypePart
<1>2. TypePart'
  BY DEF IInv, TypePart
<1>3. SeatPart'
  BY DEF IInv, SeatPart, Live, Seated
<1>4. SleepPart'
  BY DEF IInv, SleepPart, philosopherSemaphore, MUTEX_ID
<1>5. QueuePart'
  <2>1. Dead' = Dead
    BY DEF Dead
  <2>2. \A j \in Seated : Live(philosopherPids[j])' => Live(philosopherPids[j])
    BY DEF Live
  <2>3. \A j \in Seat : waiters'[philosopherSemaphore(j)] = waiters[philosopherSemaphore(j)]
    BY <1>1
  <2>4. \A j \in Seat : Entries(waiters', philosopherSemaphore(j)) = Entries(waiters, philosopherSemaphore(j))
    BY <2>3 DEF Entries
  <2> QED
    BY <2>1, <2>2, <2>3, <2>4, QueueKept
<1>6. ForksPart'
  <2> SUFFICES ASSUME NEW j \in Seated
               PROVE  SeatOK(j)'
    BY DEF ForksPart, Seated
  <2> PICK q \in Philosopher : q = philosopherPids[j]
    BY DEF IInv, SeatPart
  <2>1. j \in Seat /\ SeatOK(j)
    BY <1>1, Around DEF IInv, ForksPart
  <2>2. at[q] = "eat" => asleep'[q] = asleep[q]
    BY <1>1, Ids DEF IInv, SleepPart, TypePart
  <2> QED
    BY <1>1, <2>1, <2>2, SeatKept
<1> QED
  BY <1>2, <1>3, <1>4, <1>5, <1>6 DEF IInv

LEMMA EnterStep ==
  ASSUME IInv, Enter
  PROVE  IInv'
<1> PICK step, i : step = manager.step /\ i = manager.i
  OBVIOUS
<1> PICK step1, i1 : step1 = manager'.step /\ i1 = manager'.i
  OBVIOUS
<1>1. /\ step \in {"seat", "start"} /\ Runs(Manager) /\ i \in Nat /\ phylosCount \in Nat
      /\ manager' \in [step: Step, i: Nat]
      /\ \/ step = "seat" /\ step1 = "add" /\ i1 = i - 1 /\ i > 0
         \/ step = "seat" /\ step1 = "start" /\ i1 = i /\ i = 0
         \/ step = "start" /\ step1 = "add" /\ i1 = i /\ phylosCount < MAX_PHYLOS
         \/ step = "start" /\ step1 = "remove" /\ i1 = i /\ phylosCount > MIN_PHYLOS
         \/ step = "start" /\ step1 = "finish" /\ i1 = 0
      /\ UNCHANGED <<phylosCount, state, philosopherPids, at, seatOf, swallowed, table>>
  <2>1. manager \in [step: Step, i: Nat] /\ phylosCount \in Nat
    BY PhilosophersAssumption DEF IInv, TypePart
  <2> QED
    BY <2>1 DEF Enter, Manage, To, Step
<1>2. \/ step1 \in {"add", "remove"} /\ semWait(MUTEX_ID, Manager)
      \/ step1 \in {"start", "finish"} /\ UNCHANGED <<value, queued, waiters, asleep>>
  BY <1>1 DEF Enter, semaphores
<1>3. /\ MUTEX_ID \in Semaphore /\ Manager \in Client /\ Manager \notin Dead
      /\ SemTypes /\ GoodQueues(waiters, asleep, Dead) /\ asleep[Manager] = Awake
  BY <1>1, Ids DEF IInv, TypePart, QueuePart, Runs, Dead
<1>4. /\ SemTypes' /\ GoodQueues(waiters', asleep', Dead) /\ queued' = queued
      /\ \A t \in Semaphore \ {MUTEX_ID} : value'[t] = value[t] /\ waiters'[t] = waiters[t]
      /\ \A d \in Client \ {Manager} : asleep'[d] = asleep[d]
      /\ asleep'[Manager] \in {Awake, MUTEX_ID}
      /\ step1 \in {"add", "remove"} => Waits(MUTEX_ID, Manager)
  <2>1. CASE semWait(MUTEX_ID, Manager)
    <3>1. SemTypes' /\ Waits(MUTEX_ID, Manager) /\ GoodQueues(waiters', asleep', Dead)
      BY <1>3, <2>1, SleepersQueue
    <3> QED
      BY <3>1 DEF Waits
  <2>2. CASE step1 \in {"start", "finish"} /\ UNCHANGED <<value, queued, waiters, asleep>>
    BY <1>3, <2>2 DEF SemTypes
  <2> QED
    BY <1>2, <2>1, <2>2
<1>5. MutexPart'
  <2>1. ASSUME NEW d \in Actor \ {Manager}, InSection(d)'
        PROVE  InSection(d)
    BY <1>1, <1>4, <2>1, Ids DEF InSection, Runs
  <2>2. CASE step1 \in {"add", "remove"}
    BY <1>4, <2>1, <2>2, MutexTaken DEF Actor
  <2>3. CASE step1 \in {"start", "finish"} /\ UNCHANGED <<value, queued, waiters, asleep>>
    <3>1. ~InSection(Manager)'
      BY <2>3 DEF InSection
    <3> QED
      BY <2>1, <2>3, <3>1, MutexKept DEF IInv
  <2> QED
    BY <1>2, <2>2, <2>3
<1>6. ManagerPart'
  <2>1. /\ step \in {"seat", "post"} => phylosCount + i <= MAX_PHYLOS
        /\ step = "start" => i = 0
    BY DEF IInv, ManagerPart
  <2>2. MAX_PHYLOS \in Nat /\ MIN_PHYLOS \in Nat
    BY PhilosophersAssumption
  <2> QED
    BY <1>1, <1>4, <2>1, <2>2 DEF ManagerPart, MUTEX_ID
<1>7. \A p \in Philosopher : asleep'[p] = asleep[p]
  BY <1>4, Ids
<1> QED
  BY <1>1, <1>4, <1>5, <1>6, <1>7, ManagerKeeps

LEMMA ManagerPostsStep ==
  ASSUME IInv, ManagerPosts
  PROVE  IInv'
<1>1. /\ manager.step = "post" /\ Runs(Manager) /\ Post(MUTEX_ID)
      /\ manager' \in [step: Step, i: Nat] /\ manager'.i = manager.i /\ manager.i \in Nat
      /\ manager'.step = IF manager.i > 0 THEN "seat" ELSE "start"
      /\ UNCHANGED <<phylosCount, state, philosopherPids, at, seatOf, table>>
  <2>1. manager \in [step: Step, i: Nat]
    BY DEF IInv, TypePart
  <2> QED
    BY <2>1 DEF ManagerPosts, Manage, To, Step, semPost
<1>2. SemTypes' /\ GoodQueues(waiters', asleep', Dead) /\ \E h \in Client : Posts(MUTEX_ID, h)
  <2>1. SemTypes /\ GoodQueues(waiters, asleep, Dead) /\ MUTEX_ID \in Semaphore
    BY Ids DEF IInv, TypePart, QueuePart
  <2> QED
    BY <1>1, <2>1, PostsWake
<1> PICK h \in Client : Posts(MUTEX_ID, h)
  BY <1>2
<1>3. /\ queued' = queued
      /\ \A t \in Semaphore \ {MUTEX_ID} : value'[t] = value[t] /\ waiters'[t] = waiters[t]
      /\ \A c \in Actor : \/ asleep'[c] = asleep[c]
                          \/ c = h /\ asleep[c] = MUTEX_ID /\ asleep'[c] = Awake /\ asleep' # asleep
  BY Ids, Woken DEF Posts
<1>4. MutexPart'
  <2>1. ASSUME NEW d \in Actor, InSection(d)'
        PROVE  InSection(d) \/ (d = h /\ asleep' # asleep)
    <3>1. CASE asleep'[d] = asleep[d]
      BY <1>1, <2>1, <3>1 DEF InSection, Runs
    <3> QED
      BY <1>3, <3>1
  <2>2. InSection(Manager) /\ ~InSection(Manager)' /\ Manager \in Actor
    BY <1>1 DEF InSection, Actor
  <2> QED
    BY <2>1, <2>2, MutexGiven
<1>5. ManagerPart'
  <2>1. asleep'[Manager] \in {Awake, MUTEX_ID}
    BY <1>3 DEF Actor, IInv, ManagerPart
  <2>2. phylosCount + manager.i <= MAX_PHYLOS
    BY <1>1 DEF IInv, ManagerPart
  <2> QED
    BY <1>1, <2>1, <2>2 DEF ManagerPart, MUTEX_ID
<1>6. \A p \in Philosopher : asleep'[p] = asleep[p] \/ (asleep[p] = MUTEX_ID /\ asleep'[p] = Awake)
  BY <1>3 DEF Actor
<1> QED
  BY <1>1, <1>2, <1>3, <1>4, <1>5, <1>6, ManagerKeeps

LEMMA addPhilosopherStep ==
  ASSUME IInv, addPhilosopher
  PROVE  IInv'
<1> PICK n \in Nat : n = phylosCount
  BY PhilosophersAssumption DEF IInv, TypePart
<1>1. /\ manager.step = "add" /\ Runs(Manager) /\ state' = [state EXCEPT ![n] = "THINKING"]
      /\ manager.i \in Nat /\ manager' \in [step: Step, i: Nat]
      /\ manager'.step = "post" /\ manager'.i = manager.i /\ UNCHANGED table
  <2>1. manager \in [step: Step, i: Nat]
    BY DEF IInv, TypePart
  <2> QED
    BY <2>1 DEF addPhilosopher, Manage, To, Step
<1>2. n + manager.i < MAX_PHYLOS /\ n < MAX_PHYLOS /\ n \in Seat /\ n \notin Seated
      /\ phylosCount \in 0 .. MAX_PHYLOS
  BY <1>1, PhilosophersAssumption DEF IInv, ManagerPart, TypePart, Seat, Seated
<1>3. /\ state' \in [Seat -> {"THINKING", "HUNGRY", "EATING"}] /\ state'[n] = "THINKING"
      /\ \A j \in Seat \ {n} : state'[j] = state[j]
  BY <1>1, <1>2 DEF IInv, TypePart
<1>4. /\ \A j \in Seat : philosopherSemaphore(j) \in Semaphore \ {MUTEX_ID}
      /\ \A j, k \in Seat : philosopherSemaphore(j) = philosopherSemaphore(k) => j = k
  BY Ids
<1>5. CASE UNCHANGED <<phylosCount, philosopherPids, at, seatOf, semaphores>>
  <2>0. UNCHANGED <<value, queued, waiters, asleep>>
    BY <1>5 DEF semaphores
  <2>1. TypePart'
    BY <1>1, <1>3, <1>5, <2>0 DEF IInv, TypePart, SemTypes
  <2>2. ManagerPart' /\ SeatPart' /\ SleepPart'
    <3>1. ManagerPart'
      BY <1>1, <1>2, <1>5, <2>0, PhilosophersAssumption DEF IInv, ManagerPart, MUTEX_ID
    <3>2. SeatPart'
      BY <1>5 DEF IInv, SeatPart, Live, Seated
    <3>3. SleepPart'
      BY <1>5, <2>0 DEF IInv, SleepPart, philosopherSemaphore, MUTEX_ID
    <3> QED
      BY <3>1, <3>2, <3>3
  <2>3. QueuePart'
    <3>1. Dead' = Dead /\ \A j \in Seated : Live(philosopherPids[j])' => Live(philosopherPids[j])
      BY <1>5 DEF Dead, Live
    <3>2. GoodQueues(waiters', asleep', Dead')
      BY <2>0, <3>1 DEF IInv, QueuePart
    <3>3. \A j \in Seat : Entries(waiters', philosopherSemaphore(j)) = Entries(waiters, philosopherSemaphore(j))
      BY <2>0 DEF Entries
    <3> QED
      BY <1>1, <1>5, <2>0, <3>1, <3>2, <3>3, QueueKept
  <2>4. ForksPart'
    <3> SUFFICES ASSUME NEW j \in Seated
                 PROVE  SeatOK(j)'
      BY <1>5 DEF ForksPart, Seated
    <3>1. state'[j] = state[j] /\ SeatOK(j)
      BY <1>2, <1>3, Around DEF IInv, ForksPart
    <3> QED
      BY <1>5, <2>0, <3>1, SeatKept
  <2>5. Separate(state', phylosCount', table' = "whole")
    <3>1. \A j \in Seated : state'[j] = "EATING" => state[j] = "EATING"
      BY <1>2, <1>3, Around
    <3> QED
      BY <1>1, <1>2, <1>5, <3>1, FewerEat DEF IInv
  <2>6. MutexPart'
    <3>1. \A c \in Actor : InSection(c)' => InSection(c)
      BY <1>1, <1>5, <2>0 DEF InSection, Runs
    <3> QED
      BY <2>0, <3>1, MutexKept DEF IInv
  <2> QED
    BY <2>1, <2>2, <2>3, <2>4, <2>5, <2>6 DEF IInv
<1>6. ASSUME NEW p \in Philosopher, at[p] = "none",
             Open(philosopherSemaphore(phylosCount), 0),
             at' = [at EXCEPT ![p] = "start"],
             seatOf' = [seatOf EXCEPT ![p] = phylosCount],
             philosopherPids' = [philosopherPids EXCEPT ![phylosCount] = p],
             phylosCount' = phylosCount + 1
      PROVE  IInv'
  <2> PICK s \in Semaphore : s = philosopherSemaphore(n)
    BY <1>2, <1>4
  <2>1. /\ value' = [value EXCEPT ![s] = 0] /\ queued' = queued \cup {s} /\ UNCHANGED <<waiters, asleep>>
        /\ s # MUTEX_ID
    BY <1>2, <1>4, <1>6 DEF Open
  <2>2. /\ at' \in [Philosopher -> Place] /\ at'[p] = "start"
        /\ seatOf' \in [Philosopher -> Seat] /\ seatOf'[p] = n
        /\ \A q \in Philosopher \ {p} : at'[q] = at[q] /\ seatOf'[q] = seatOf[q]
        /\ philosopherPids' \in [Seat -> Philosopher \cup {NoPid}] /\ philosopherPids'[n] = p
        /\ \A j \in Seat \ {n} : philosopherPids'[j] = philosopherPids[j]
        /\ phylosCount' = n + 1 /\ phylosCount' \in 0 .. MAX_PHYLOS
        /\ value' \in [Semaphore -> Nat] /\ value'[s] = 0
        /\ \A t \in Semaphore \ {s} : value'[t] = value[t]
    BY <1>2, <1>6, <2>1, PhilosophersAssumption DEF IInv, TypePart, Place, SemTypes
  <2>3. \A j \in Seated' : j \in Seat /\ (j \in Seated \/ j = n)
    BY <1>2, <2>2, PhilosophersAssumption DEF Seated, Seat
  <2>3a. \A j \in Seated : j \in Seat \ {n} /\ j \in Seated' /\ philosopherPids[j] \in Philosopher \ {p}
    BY <1>2, <1>6, <2>2, Around DEF IInv, SeatPart, Seated
  <2>4. Dead' = Dead
    BY <1>6, <2>2 DEF Dead
  <2>5. TypePart'
    BY <1>1, <1>3, <2>1, <2>2 DEF IInv, TypePart, SemTypes
  <2>6. ManagerPart'
    BY <1>1, <1>2, <2>1, <2>2, PhilosophersAssumption DEF IInv, ManagerPart, MUTEX_ID
  <2>7. SeatPart'
    <3>1. ASSUME NEW j \in Seated'
          PROVE  /\ philosopherPids'[j] \in Philosopher /\ seatOf'[philosopherPids'[j]] = j
                 /\ at'[philosopherPids'[j]] # "none"
      BY <2>2, <2>3, <2>3a DEF IInv, SeatPart
    <3>2. ASSUME NEW q \in Philosopher, Live(q)'
          PROVE  seatOf'[q] \in Seated' /\ philosopherPids'[seatOf'[q]] = q
      <4>1. CASE q = p
        BY <1>2, <2>2, <4>1, PhilosophersAssumption DEF Seated
      <4>2. CASE q # p
        BY <2>2, <2>3a, <3>2, <4>2 DEF Live, IInv, SeatPart
      <4> QED
        BY <4>1, <4>2
    <3> QED
      BY <3>1, <3>2 DEF SeatPart
  <2>8. SleepPart'
    <3> SUFFICES ASSUME NEW q \in Philosopher
                 PROVE  \/ asleep'[q] = Awake
                        \/ asleep'[q] = MUTEX_ID /\ at'[q] \in {"hungry", "full"}
                        \/ asleep'[q] = philosopherSemaphore(seatOf'[q]) /\ at'[q] = "eat"
      BY DEF SleepPart, philosopherSemaphore, MUTEX_ID
    <3>1. q = p => asleep[q] = Awake
      BY <1>6 DEF IInv, SleepPart
    <3> QED
      BY <2>1, <2>2, <3>1 DEF IInv, SleepPart
  <2>9. QueuePart'
    <3>1. GoodQueues(waiters', asleep', Dead')
      BY <2>1, <2>4 DEF IInv, QueuePart
    <3>2. waiters[s] = <<>> /\ Entries(waiters, s) = {}
      BY <1>1, <1>2 DEF IInv, QueuePart, Entries
    <3>3. ASSUME NEW j \in Seat
          PROVE  Entries(waiters', philosopherSemaphore(j)) \subseteq {philosopherPids'[j]}
      BY <2>1, <2>2, <3>2 DEF IInv, QueuePart
    <3>4. ASSUME NEW j \in Seat, j >= phylosCount'
          PROVE  waiters'[philosopherSemaphore(j)] = <<>>
      <4>1. j >= phylosCount
        BY <2>2, <3>4 DEF Seat
      <4> QED
        BY <1>1, <2>1, <4>1 DEF IInv, QueuePart
    <3>5. ASSUME NEW j \in Seated', Live(philosopherPids[j])'
          PROVE  philosopherSemaphore(j) \in queued'
      <4>1. CASE j = n
        BY <2>1, <4>1
      <4>2. CASE j \in Seated
        BY <2>1, <2>2, <2>3a, <3>5, <4>2 DEF IInv, QueuePart, Live
      <4> QED
        BY <2>3, <4>1, <4>2
    <3>6. \A j \in Seat : (philosopherSemaphore(j))' = philosopherSemaphore(j)
      BY DEF philosopherSemaphore, MUTEX_ID
    <3> QED
      BY <3>1, <3>3, <3>4, <3>5, <3>6 DEF QueuePart, Entries
  <2>10. ForksPart'
    <3>1. SeatOK(n)'
      BY <1>2, <1>3, <2>2 DEF SeatOK, philosopherSemaphore, MUTEX_ID
    <3>2. ASSUME NEW j \in Seated
          PROVE  SeatOK(j)'
      <4>1. /\ SeatOK(j) /\ philosopherSemaphore(j) \in Semaphore \ {s}
        BY <1>2, <1>4, <2>3a DEF IInv, ForksPart
      <4>2. /\ philosopherPids'[j] = philosopherPids[j] /\ state'[j] = state[j]
            /\ at'[philosopherPids[j]] = at[philosopherPids[j]]
            /\ value'[philosopherSemaphore(j)] = value[philosopherSemaphore(j)]
        BY <1>3, <2>2, <2>3a, <4>1
      <4> QED
        BY <2>1, <4>1, <4>2, SeatKept
    <3> QED
      BY <2>3, <3>1, <3>2 DEF ForksPart
  <2>11. Separate(state', phylosCount', table' = "whole")
    <3>1. ASSUME NEW j \in Seat, j + 1 < n + 1, state'[j] = "EATING", state'[j + 1] = "EATING"
          PROVE  FALSE
      <4>1. j \in Nat
        BY DEF Seat
      <4>2. j + 1 = n \/ j + 1 < n
        BY <3>1, <4>1
      <4>3. CASE j + 1 = n
        BY <1>3, <3>1, <4>3
      <4>4. CASE j + 1 < n
        <5>1. j + 1 \in Seat \ {n} /\ j \in Seat \ {n}
          BY <1>2, <4>1, <4>4, PhilosophersAssumption DEF Seat
        <5> QED
          BY <1>3, <3>1, <4>4, <5>1 DEF IInv, Separate
      <4> QED
        BY <4>2, <4>3, <4>4
    <3>2. n + 1 - 1 = n
      OBVIOUS
    <3> QED
      BY <1>3, <2>2, <3>1, <3>2 DEF Separate
  <2>12. MutexPart'
    <3>1. value'[MUTEX_ID] = value[MUTEX_ID]
      BY <2>1, <2>2, Ids
    <3>2. \A c \in Actor : InSection(c)' => InSection(c)
      BY <1>1, <2>1, <2>2 DEF InSection, Runs, Actor
    <3> QED
      BY <3>1, <3>2, MutexKept DEF IInv
  <2> QED
    BY <2>5, <2>6, <2>7, <2>8, <2>9, <2>10, <2>11, <2>12 DEF IInv
<1> QED
  BY <1>5, <1>6 DEF addPhilosopher

(* A kill, with or without the mutex.                                       *)
LEMMA Killed ==
  ASSUME IInv, NEW i \in Seated, killed(i), UNCHANGED seatOf,
         InSection(Manager)' => InSection(Manager)
  PROVE  LET q == philosopherPids[i]
         IN /\ q \in Philosopher /\ seatOf[q] = i
            /\ at' \in [Philosopher -> Place] /\ at'[q] = "dead"
            /\ \A r \in Philosopher \ {q} : at'[r] = at[r]
            /\ SemTypes' /\ UNCHANGED <<value, queued, waiters>>
            /\ asleep'[q] = Awake /\ (\A c \in Client \ {q} : asleep'[c] = asleep[c])
            /\ asleep'[Manager] = asleep[Manager]
            /\ GoodQueues(waiters', asleep', Dead') /\ SleepPart' /\ MutexPart'
<1> PICK q \in Philosopher : q = philosopherPids[i]
  BY DEF IInv, SeatPart
<1>1. seatOf[q] = i /\ at[q] # "none" /\ q \in Client /\ q # Manager /\ Manager \in Client
  BY Ids DEF IInv, SeatPart
<1>2. at' = [at EXCEPT ![q] = "dead"] /\ asleep' = [asleep EXCEPT ![q] = Awake]
      /\ UNCHANGED <<value, queued, waiters>>
  BY DEF killed, Leave
<1>3. /\ at' \in [Philosopher -> Place] /\ at'[q] = "dead"
      /\ \A r \in Philosopher \ {q} : at'[r] = at[r]
  BY <1>2 DEF IInv, TypePart, Place
<1>4. /\ SemTypes' /\ asleep'[q] = Awake /\ \A c \in Client \ {q} : asleep'[c] = asleep[c]
  BY <1>1, <1>2 DEF IInv, TypePart, SemTypes
<1>5. Dead \subseteq Dead' /\ q \in Dead'
  BY <1>3 DEF Dead
<1>6. GoodQueues(waiters', asleep', Dead')
  <2>1. \A s \in Semaphore : \A c \in Entries(waiters, s) : c \in Client
    BY DEF IInv, TypePart, SemTypes, Entries
  <2>2. \A s \in Semaphore : \A c \in Entries(waiters, s) : asleep'[c] = s \/ c \in Dead'
    BY <1>4, <1>5, <2>1 DEF IInv, QueuePart, GoodQueues
  <2>3. \A s \in Semaphore : \A k, l \in 1 .. Len(waiters[s]) : waiters[s][k] = waiters[s][l] => k = l
    BY DEF IInv, QueuePart, GoodQueues
  <2>4. waiters' = waiters
    BY <1>2
  <2> QED
    BY <2>2, <2>3, <2>4 DEF GoodQueues, Entries
<1>7. SleepPart'
  <2> SUFFICES ASSUME NEW r \in Philosopher
               PROVE  \/ asleep'[r] = Awake
                      \/ asleep'[r] = MUTEX_ID /\ at'[r] \in {"hungry", "full"}
                      \/ asleep'[r] = philosopherSemaphore(seatOf[r]) /\ at'[r] = "eat"
    BY DEF SleepPart, philosopherSemaphore, MUTEX_ID
  <2> QED
    BY <1>3, <1>4, Ids DEF IInv, SleepPart
<1>8. MutexPart'
  <2>1. ASSUME NEW c \in Actor, InSection(c)'
        PROVE  InSection(c)
    <3>1. CASE c = Manager
      BY <2>1, <3>1
    <3>2. CASE c \in Philosopher
      <4>1. c # q
        BY <1>1, <1>3, <2>1, <3>2, Ids DEF InSection
      <4> QED
        BY <1>3, <1>4, <2>1, <3>2, <4>1, Ids DEF InSection, Runs
    <3> QED
      BY <3>1, <3>2 DEF Actor
  <2> QED
    BY <1>2, <2>1, MutexKept DEF IInv
<1> QED
  BY <1>1, <1>2, <1>3, <1>4, <1>6, <1>7, <1>8

LEMMA RemoveKillsStep ==
  ASSUME IInv, RemoveKills
  PROVE  IInv'
<1> PICK n \in Nat : n = phylosCount
  BY PhilosophersAssumption DEF IInv, TypePart
<1> PICK i : i = n - 1
  OBVIOUS
<1>1. /\ manager.step = "remove" /\ Runs(Manager) /\ phylosCount' = i /\ table' = "reduced"
      /\ manager.i = 0 /\ manager' \in [step: Step, i: Nat]
      /\ manager'.step = "close" /\ manager'.i = 0 /\ UNCHANGED <<state, philosopherPids, seatOf>>
  <2>1. manager \in [step: Step, i: Nat] /\ (manager.step = "remove" => manager.i = 0)
    BY DEF IInv, TypePart, ManagerPart
  <2> QED
    BY <2>1 DEF RemoveKills, Manage, To, Step
<1>2. /\ i \in Seated /\ i \in Nat /\ n = i + 1 /\ n <= MAX_PHYLOS /\ i < MAX_PHYLOS
      /\ phylosCount \in 0 .. MAX_PHYLOS /\ i \in 0 .. MAX_PHYLOS
  BY <1>1, PhilosophersAssumption DEF IInv, TypePart, ManagerPart, Seated
<1>3. Seated' = Seated \ {i}
  BY <1>1, <1>2 DEF Seated
<1> PICK q \in Philosopher : q = philosopherPids[i]
  BY <1>2 DEF IInv, SeatPart
<1>4. killed(i) /\ (InSection(Manager)' => InSection(Manager))
  <2>1. killed(i)
    BY DEF RemoveKills
  <2>2. asleep[Manager] = Awake
    BY <1>1 DEF Runs
  <2> QED
    BY <1>1, <2>1, <2>2 DEF InSection, Runs
<1>5. /\ seatOf[q] = i
      /\ at' \in [Philosopher -> Place] /\ at'[q] = "dead"
      /\ \A r \in Philosopher \ {q} : at'[r] = at[r]
      /\ SemTypes' /\ UNCHANGED <<value, queued, waiters>>
      /\ asleep'[q] = Awake /\ (\A c \in Client \ {q} : asleep'[c] = asleep[c])
      /\ asleep'[Manager] = asleep[Manager]
      /\ GoodQueues(waiters', asleep', Dead') /\ SleepPart' /\ MutexPart'
  BY <1>1, <1>2, <1>4, Killed
<1>6. \A j \in Seated' : philosopherPids[j] \in Philosopher \ {q}
  BY <1>3, <1>5 DEF IInv, SeatPart
<1>7. TypePart'
  BY <1>1, <1>2, <1>5 DEF IInv, TypePart
<1>8. ManagerPart'
  BY <1>1, <1>2, <1>5 DEF IInv, ManagerPart, MUTEX_ID
<1>9. SeatPart'
  <2>1. \A j \in Seated' : /\ seatOf[philosopherPids[j]] = j /\ at'[philosopherPids[j]] # "none"
    BY <1>3, <1>5, <1>6 DEF IInv, SeatPart
  <2>2. ASSUME NEW r \in Philosopher, Live(r)'
        PROVE  seatOf[r] \in Seated' /\ philosopherPids[seatOf[r]] = r
    <3>1. r # q /\ Live(r)
      BY <1>5, <2>2 DEF Live
    <3> QED
      BY <1>3, <3>1 DEF IInv, SeatPart
  <2> QED
    BY <1>1, <1>6, <2>1, <2>2 DEF SeatPart
<1>10. QueuePart'
  <2>1. \A j \in Seat : Entries(waiters', philosopherSemaphore(j)) \subseteq {philosopherPids'[j]}
    <3>1. \A j \in Seat : Entries(waiters', philosopherSemaphore(j)) = Entries(waiters, philosopherSemaphore(j))
      BY <1>5 DEF Entries
    <3> QED
      BY <1>1, <3>1 DEF IInv, QueuePart
  <2>2. ASSUME NEW j \in Seat, j >= i, j # i
        PROVE  waiters'[philosopherSemaphore(j)] = <<>>
    <3>1. j >= phylosCount
      BY <1>2, <2>2 DEF Seat
    <3> QED
      BY <1>1, <1>5, <3>1 DEF IInv, QueuePart
  <2>3. ASSUME NEW j \in Seated', Live(philosopherPids[j])'
        PROVE  philosopherSemaphore(j) \in queued'
    BY <1>1, <1>3, <1>5, <1>6, <2>3 DEF IInv, QueuePart, Live
  <2>4. \A j \in Seat : (philosopherSemaphore(j))' = philosopherSemaphore(j)
    BY DEF philosopherSemaphore, MUTEX_ID
  <2> QED
    BY <1>1, <1>5, <2>1, <2>2, <2>3, <2>4 DEF QueuePart, Entries
<1>11. ForksPart'
  <2>1. ASSUME NEW j \in Seated'
        PROVE  SeatOK(j)'
    <3>1. j \in Seated /\ SeatOK(j) /\ asleep'[philosopherPids[j]] = asleep[philosopherPids[j]]
          /\ at'[philosopherPids[j]] = at[philosopherPids[j]]
      BY <1>3, <1>5, <1>6, Ids DEF IInv, ForksPart
    <3> QED
      BY <1>1, <1>5, <3>1, SeatKept
  <2> QED
    BY <2>1 DEF ForksPart
<1>12. Separate(state', phylosCount', table' = "whole")
  <2>1. ASSUME NEW j \in Seat, j + 1 < i
        PROVE  ~(state[j] = "EATING" /\ state[j + 1] = "EATING")
    <3>1. j + 1 < n
      BY <1>2, <2>1 DEF Seat
    <3> QED
      BY <3>1 DEF IInv, Separate
  <2> QED
    BY <1>1, <2>1 DEF Separate
<1> QED
  BY <1>5, <1>7, <1>8, <1>9, <1>10, <1>11, <1>12 DEF IInv

LEMMA FinishKillsStep ==
  ASSUME IInv, FinishKills
  PROVE  IInv'
<1> PICK i \in Nat : i = manager.i
  BY DEF IInv, TypePart
<1>1. /\ manager.step = "finish" /\ Runs(Manager) /\ i < phylosCount
      /\ manager' \in [step: Step, i: Nat] /\ manager'.step = "finishClose" /\ manager'.i = i
      /\ UNCHANGED <<phylosCount, state, philosopherPids, seatOf, table>>
  <2>1. manager \in [step: Step, i: Nat]
    BY DEF IInv, TypePart
  <2> QED
    BY <2>1 DEF FinishKills, Manage, To, Step
<1>2. i \in Seated /\ phylosCount \in 0 .. MAX_PHYLOS /\ phylosCount \in Nat
  BY <1>1, PhilosophersAssumption DEF Seated, IInv, TypePart
<1> PICK q \in Philosopher : q = philosopherPids[i]
  BY <1>2 DEF IInv, SeatPart
<1>3. killed(i) /\ ~InSection(Manager)'
  BY <1>1 DEF FinishKills, InSection
<1>4. /\ seatOf[q] = i
      /\ at' \in [Philosopher -> Place] /\ at'[q] = "dead"
      /\ \A r \in Philosopher \ {q} : at'[r] = at[r]
      /\ SemTypes' /\ UNCHANGED <<value, queued, waiters>>
      /\ asleep'[q] = Awake /\ (\A c \in Client \ {q} : asleep'[c] = asleep[c])
      /\ asleep'[Manager] = asleep[Manager]
      /\ GoodQueues(waiters', asleep', Dead') /\ SleepPart' /\ MutexPart'
  BY <1>1, <1>2, <1>3, Killed
<1>5. \A r \in Philosopher : Live(r)' => Live(r) /\ r # q
  BY <1>4 DEF Live
<1>6. \A j \in Seated : philosopherPids[j] \in Philosopher
  BY DEF IInv, SeatPart
<1>7. TypePart'
  BY <1>1, <1>4 DEF IInv, TypePart
<1>8. ManagerPart'
  <2>1. \A j \in 0 .. i - 1 : ~Live(philosopherPids[j])'
    <3>1. \A j \in 0 .. i - 1 : j \in Seated /\ ~Live(philosopherPids[j])
      BY <1>1, <1>2 DEF IInv, ManagerPart, Seated
    <3> QED
      BY <1>1, <1>5, <1>6, <3>1
  <2>2. ~Live(philosopherPids[i])'
    BY <1>1, <1>5
  <2> QED
    BY <1>1, <1>2, <1>4, <2>1, <2>2 DEF IInv, ManagerPart, MUTEX_ID
<1>9. SeatPart'
  <2>1. \A j \in Seated : at'[philosopherPids[j]] # "none"
    BY <1>4, <1>6 DEF IInv, SeatPart
  <2> QED
    BY <1>1, <1>5, <2>1 DEF IInv, SeatPart, Seated
<1>10. QueuePart'
  <2>1. \A j \in Seated : Live(philosopherPids[j])' => Live(philosopherPids[j])
    BY <1>1, <1>5, <1>6
  <2>2. \A j \in Seat : Entries(waiters', philosopherSemaphore(j)) = Entries(waiters, philosopherSemaphore(j))
    BY <1>4 DEF Entries
  <2> QED
    BY <1>1, <1>4, <2>1, <2>2, QueueKept
<1>11. ForksPart'
  <2>1. ASSUME NEW j \in Seated
        PROVE  SeatOK(j)'
    <3>1. CASE j = i
      BY <1>1, <1>4, <3>1 DEF SeatOK, Live
    <3>2. CASE j # i
      <4>1. SeatOK(j) /\ asleep'[philosopherPids[j]] = asleep[philosopherPids[j]]
            /\ at'[philosopherPids[j]] = at[philosopherPids[j]]
        BY <1>4, <1>6, <3>2, Ids DEF IInv, ForksPart, SeatPart
      <4> QED
        BY <1>1, <1>4, <4>1, SeatKept
    <3> QED
      BY <3>1, <3>2
  <2> QED
    BY <1>1, <2>1 DEF ForksPart, Seated
<1> QED
  BY <1>1, <1>4, <1>7, <1>8, <1>9, <1>10, <1>11 DEF IInv

LEMMA Closed ==
  ASSUME IInv, NEW s \in Semaphore, Close(s)
  PROVE  /\ SemTypes' /\ asleep' = asleep /\ queued' = queued \ {s}
         /\ value'[s] = 0 /\ waiters'[s] = <<>> /\ Entries(waiters', s) = {}
         /\ \A t \in Semaphore \ {s} :
              /\ value'[t] = value[t] /\ waiters'[t] = waiters[t]
              /\ Entries(waiters', t) = Entries(waiters, t)
         /\ GoodQueues(waiters', asleep', Dead)
<1>1. /\ SemTypes' /\ asleep' = asleep /\ queued' = queued \ {s}
      /\ value'[s] = 0 /\ waiters'[s] = <<>>
      /\ \A t \in Semaphore \ {s} : value'[t] = value[t] /\ waiters'[t] = waiters[t]
  BY DEF Close, IInv, TypePart, SemTypes
<1>2. Entries(waiters', s) = {} /\ \A k, l \in 1 .. Len(waiters'[s]) : waiters'[s][k] = waiters'[s][l] => k = l
  BY <1>1 DEF Entries
<1>3. \A t \in Semaphore \ {s} : Entries(waiters', t) = Entries(waiters, t)
  BY <1>1 DEF Entries
<1>4. GoodQueues(waiters', asleep', Dead)
  <2> SUFFICES ASSUME NEW t \in Semaphore
               PROVE  /\ \A c \in Entries(waiters', t) : asleep'[c] = t \/ c \in Dead
                      /\ \A k, l \in 1 .. Len(waiters'[t]) : waiters'[t][k] = waiters'[t][l] => k = l
    BY DEF GoodQueues
  <2>1. CASE t = s
    BY <1>2, <2>1
  <2>2. CASE t # s
    BY <1>1, <1>3, <2>2 DEF IInv, QueuePart, GoodQueues
  <2> QED
    BY <2>1, <2>2
<1> QED
  BY <1>1, <1>2, <1>3, <1>4

LEMMA RemoveClosesStep ==
  ASSUME IInv, RemoveCloses
  PROVE  IInv'
<1> PICK n \in Nat : n = phylosCount
  BY PhilosophersAssumption DEF IInv, TypePart
<1>1. /\ manager.step = "close" /\ Runs(Manager) /\ manager.i = 0
      /\ manager' \in [step: Step, i: Nat] /\ manager'.step = "post" /\ manager'.i = 0
      /\ UNCHANGED <<phylosCount, state, philosopherPids, at, seatOf, table>>
      /\ n < MAX_PHYLOS /\ phylosCount \in 0 .. MAX_PHYLOS
  <2>1. manager \in [step: Step, i: Nat] /\ (manager.step = "close" => manager.i = 0 /\ n < MAX_PHYLOS)
        /\ phylosCount \in 0 .. MAX_PHYLOS
    BY DEF IInv, TypePart, ManagerPart
  <2> QED
    BY <2>1 DEF RemoveCloses, Manage, afterRemoval, To, Step
<1>2. n \in Seat /\ n \notin Seated /\ \A j \in Seated : j \in Seat /\ j # n
  BY <1>1, Around, PhilosophersAssumption DEF Seat, Seated
<1> PICK s \in Semaphore : s = philosopherSemaphore(n)
  BY <1>2, Ids
<1>3. s # MUTEX_ID /\ MUTEX_ID \in Semaphore
      /\ \A j \in Seat \ {n} : philosopherSemaphore(j) \in Semaphore \ {s}
  BY <1>2, Ids
<1>4. /\ SemTypes' /\ asleep' = asleep /\ queued' = queued \ {s}
      /\ value'[s] = 0 /\ waiters'[s] = <<>> /\ Entries(waiters', s) = {}
      /\ \A t \in Semaphore \ {s} :
           /\ value'[t] = value[t] /\ waiters'[t] = waiters[t]
           /\ Entries(waiters', t) = Entries(waiters, t)
      /\ GoodQueues(waiters', asleep', Dead)
  <2>1. Close(s)
    BY DEF RemoveCloses
  <2> QED
    BY <2>1, Closed
<1>5. TypePart'
  BY <1>1, <1>4 DEF IInv, TypePart
<1>6. ManagerPart'
  BY <1>1, <1>4 DEF IInv, ManagerPart, MUTEX_ID
<1>7. SeatPart'
  BY <1>1 DEF IInv, SeatPart, Live, Seated
<1>8. SleepPart'
  BY <1>1, <1>4 DEF IInv, SleepPart, philosopherSemaphore, MUTEX_ID
<1>9. QueuePart'
  <2>1. GoodQueues(waiters', asleep', Dead')
    BY <1>1, <1>4 DEF Dead
  <2>2. ASSUME NEW j \in Seat
        PROVE  /\ Entries(waiters', philosopherSemaphore(j)) \subseteq {philosopherPids'[j]}
               /\ j >= n => waiters'[philosopherSemaphore(j)] = <<>>
    <3>1. CASE j = n
      BY <1>4, <3>1
    <3>2. CASE j # n
      BY <1>1, <1>3, <1>4, <3>2 DEF IInv, QueuePart
    <3> QED
      BY <3>1, <3>2
  <2>3. ASSUME NEW j \in Seated', Live(philosopherPids[j])'
        PROVE  philosopherSemaphore(j) \in queued'
    <3>1. j \in Seated /\ Live(philosopherPids[j])
      BY <1>1, <2>3 DEF Live, Seated
    <3> QED
      BY <1>2, <1>3, <1>4, <3>1 DEF IInv, QueuePart
  <2>4. \A j \in Seat : (philosopherSemaphore(j))' = philosopherSemaphore(j)
    BY DEF philosopherSemaphore, MUTEX_ID
  <2> QED
    BY <1>1, <2>1, <2>2, <2>3, <2>4 DEF QueuePart, Entries
<1>10. ForksPart'
  <2>1. ASSUME NEW j \in Seated
        PROVE  SeatOK(j)'
    BY <1>1, <1>2, <1>3, <1>4, SeatKept DEF IInv, ForksPart
  <2> QED
    BY <1>1, <2>1 DEF ForksPart, Seated
<1>11. MutexPart'
  <2>1. \A c \in Actor : InSection(c)' => InSection(c)
    BY <1>1, <1>4 DEF InSection, Runs
  <2> QED
    BY <1>3, <1>4, <2>1, MutexKept DEF IInv
<1> QED
  BY <1>1, <1>5, <1>6, <1>7, <1>8, <1>9, <1>10, <1>11 DEF IInv

LEMMA FinishClosesStep ==
  ASSUME IInv, FinishCloses
  PROVE  IInv'
<1> PICK i \in Nat : i = manager.i
  BY DEF IInv, TypePart
<1>1. /\ manager.step = "finishClose" /\ Runs(Manager)
      /\ manager' \in [step: Step, i: Nat] /\ manager'.step = "finish" /\ manager'.i = i + 1
      /\ UNCHANGED <<phylosCount, state, philosopherPids, at, seatOf, table>>
      /\ i < phylosCount /\ phylosCount \in 0 .. MAX_PHYLOS /\ phylosCount \in Nat
      /\ ~Live(philosopherPids[i]) /\ \A j \in 0 .. i - 1 : ~Live(philosopherPids[j])
  BY PhilosophersAssumption DEF FinishCloses, Manage, IInv, TypePart, ManagerPart, Step
<1>2. i \in Seated /\ i \in Seat
  BY <1>1, Around DEF Seated
<1> PICK s \in Semaphore : s = philosopherSemaphore(i)
  BY <1>2, Ids
<1>3. s # MUTEX_ID /\ MUTEX_ID \in Semaphore
      /\ \A j \in Seat \ {i} : philosopherSemaphore(j) \in Semaphore \ {s}
  BY <1>2, Ids
<1>4. /\ SemTypes' /\ asleep' = asleep /\ queued' = queued \ {s}
      /\ value'[s] = 0 /\ waiters'[s] = <<>> /\ Entries(waiters', s) = {}
      /\ \A t \in Semaphore \ {s} :
           /\ value'[t] = value[t] /\ waiters'[t] = waiters[t]
           /\ Entries(waiters', t) = Entries(waiters, t)
      /\ GoodQueues(waiters', asleep', Dead)
  <2>1. Close(s)
    BY DEF FinishCloses
  <2> QED
    BY <2>1, Closed
<1>5. TypePart'
  BY <1>1, <1>4 DEF IInv, TypePart
<1>6. ManagerPart'
  <2>1. \A j \in 0 .. manager'.i - 1 : ~Live(philosopherPids[j])
    BY <1>1
  <2> QED
    BY <1>1, <1>4, <2>1 DEF IInv, ManagerPart, MUTEX_ID, Live
<1>7. SeatPart'
  BY <1>1 DEF IInv, SeatPart, Live, Seated
<1>8. SleepPart'
  BY <1>1, <1>4 DEF IInv, SleepPart, philosopherSemaphore, MUTEX_ID
<1>9. QueuePart'
  <2>1. GoodQueues(waiters', asleep', Dead')
    BY <1>1, <1>4 DEF Dead
  <2>2. ASSUME NEW j \in Seat
        PROVE  /\ Entries(waiters', philosopherSemaphore(j)) \subseteq {philosopherPids'[j]}
               /\ j >= phylosCount => waiters'[philosopherSemaphore(j)] = <<>>
    <3>1. CASE j = i
      BY <1>4, <3>1
    <3>2. CASE j # i
      BY <1>1, <1>3, <1>4, <3>2 DEF IInv, QueuePart
    <3> QED
      BY <3>1, <3>2
  <2>3. ASSUME NEW j \in Seated', Live(philosopherPids[j])'
        PROVE  philosopherSemaphore(j) \in queued'
    <3>1. j \in Seated /\ Live(philosopherPids[j])
      BY <1>1, <2>3 DEF Live, Seated
    <3>2. j \in Seat \ {i}
      BY <1>1, <3>1, Around
    <3> QED
      BY <1>3, <1>4, <3>1, <3>2 DEF IInv, QueuePart
  <2>4. \A j \in Seat : (philosopherSemaphore(j))' = philosopherSemaphore(j)
    BY DEF philosopherSemaphore, MUTEX_ID
  <2> QED
    BY <1>1, <2>1, <2>2, <2>3, <2>4 DEF QueuePart, Entries
<1>10. ForksPart'
  <2>1. ASSUME NEW j \in Seated
        PROVE  SeatOK(j)'
    <3>1. CASE j = i
      BY <1>1, <3>1 DEF SeatOK, Live
    <3>2. CASE j # i
      <4>1. j \in Seat \ {i} /\ SeatOK(j)
        BY <1>1, <3>2, Around DEF IInv, ForksPart
      <4> QED
        BY <1>1, <1>3, <1>4, <4>1, SeatKept
    <3> QED
      BY <3>1, <3>2
  <2> QED
    BY <1>1, <2>1 DEF ForksPart, Seated
<1>11. MutexPart'
  <2>1. \A c \in Actor : InSection(c)' => InSection(c)
    BY <1>1, <1>4 DEF InSection, Runs
  <2> QED
    BY <1>3, <1>4, <2>1, MutexKept DEF IInv
<1> QED
  BY <1>1, <1>5, <1>6, <1>7, <1>8, <1>9, <1>10, <1>11 DEF IInv

LEMMA FinishStep ==
  ASSUME IInv, Finish
  PROVE  IInv'
<1>1. /\ manager.step = "finish" /\ Runs(Manager) /\ manager.i = phylosCount
      /\ manager' \in [step: Step, i: Nat] /\ manager'.step = "done" /\ phylosCount' = 0
      /\ UNCHANGED <<state, philosopherPids, at, seatOf, table>>
      /\ phylosCount \in Nat /\ \A j \in 0 .. phylosCount - 1 : ~Live(philosopherPids[j])
  <2>1. manager \in [step: Step, i: Nat] /\ phylosCount \in Nat
    BY PhilosophersAssumption DEF IInv, TypePart
  <2> QED
    BY <2>1 DEF Finish, Manage, To, IInv, ManagerPart, Step
<1>2. /\ MUTEX_ID \in Semaphore /\ \A j \in Seat : philosopherSemaphore(j) \in Semaphore \ {MUTEX_ID}
  BY Ids
<1>3. /\ SemTypes' /\ asleep' = asleep /\ value'[MUTEX_ID] = 0
      /\ \A t \in Semaphore \ {MUTEX_ID} : Entries(waiters', t) = Entries(waiters, t)
      /\ GoodQueues(waiters', asleep', Dead)
  <2>1. Close(MUTEX_ID)
    BY DEF Finish
  <2> QED
    BY <1>2, <2>1, Closed
<1>4. Seated' = {} /\ \A p \in Philosopher : ~Live(p)
  BY <1>1 DEF IInv, SeatPart, Seated
<1>5. TypePart'
  BY <1>1, <1>3, PhilosophersAssumption DEF IInv, TypePart
<1>6. ManagerPart'
  BY <1>1, <1>3 DEF IInv, ManagerPart, MUTEX_ID
<1>7. SeatPart' /\ ForksPart'
  BY <1>1, <1>4 DEF SeatPart, ForksPart, Live
<1>8. SleepPart'
  BY <1>1, <1>3 DEF IInv, SleepPart, philosopherSemaphore, MUTEX_ID
<1>9. QueuePart'
  <2>1. GoodQueues(waiters', asleep', Dead')
    BY <1>1, <1>3 DEF Dead
  <2>2. \A j \in Seat : Entries(waiters', philosopherSemaphore(j)) \subseteq {philosopherPids'[j]}
    BY <1>1, <1>2, <1>3 DEF IInv, QueuePart
  <2>3. \A j \in Seat : (philosopherSemaphore(j))' = philosopherSemaphore(j)
    BY DEF philosopherSemaphore, MUTEX_ID
  <2> QED
    BY <1>1, <1>4, <2>1, <2>2, <2>3 DEF QueuePart, Entries
<1>10. Separate(state', phylosCount', table' = "whole")
  BY <1>1 DEF Separate, Seat
<1>11. MutexPart'
  <2>1. \A c \in Actor : InSection(c)' => InSection(c)
    BY <1>1, <1>3 DEF InSection, Runs
  <2> QED
    BY <1>3, <2>1 DEF IInv, MutexPart, OneInSection
<1> QED
  BY <1>5, <1>6, <1>7, <1>8, <1>9, <1>10, <1>11 DEF IInv

-----------------------------------------------------------------------------
LEMMA InitHolds ==
  ASSUME TableInit, NoSemaphores
  PROVE  IInv
<1>1. Manager \in Client /\ Manager \notin Philosopher /\ Philosopher \subseteq Client
      /\ \A j \in Seat : philosopherSemaphore(j) \in Semaphore
  BY Ids
<1>2. Aux \in Nat /\ Aux <= MAX_PHYLOS /\ MAX_PHYLOS \in Nat /\ 0 \in Seat
  BY PhilosophersAssumption DEF Seat
<1>3. Seated = {} /\ \A p \in Philosopher : ~Live(p) /\ at[p] = "none"
  BY DEF TableInit, Seated, Live
<1>4. \A s \in Semaphore : waiters[s] = <<>> /\ Entries(waiters, s) = {} /\ 1 .. Len(waiters[s]) = {}
  BY DEF NoSemaphores, Entries
<1>5. TypePart
  BY <1>2 DEF TableInit, NoSemaphores, TypePart, SemTypes, Step, Place
<1>6. ManagerPart
  BY <1>1, <1>2 DEF TableInit, NoSemaphores, ManagerPart
<1>7. SeatPart /\ ForksPart
  BY <1>3 DEF SeatPart, ForksPart
<1>8. SleepPart
  BY <1>1 DEF SleepPart, NoSemaphores
<1>9. QueuePart
  BY <1>1, <1>3, <1>4 DEF QueuePart, GoodQueues
<1>10. Separate(state, phylosCount, table = "whole")
  BY DEF TableInit, Separate, Seat
<1>11. MutexPart
  <2>1. \A c \in Actor : ~InSection(c)
    BY <1>1, <1>3 DEF InSection, Actor, TableInit
  <2>2. value[MUTEX_ID] = 0
    BY Ids DEF NoSemaphores
  <2> QED
    BY <2>1, <2>2 DEF MutexPart, OneInSection
<1> QED
  BY <1>5, <1>6, <1>7, <1>8, <1>9, <1>10, <1>11 DEF IInv

LEMMA StutterHolds ==
  ASSUME IInv, UNCHANGED philosopherVars
  PROVE  IInv'
<1>1. /\ UNCHANGED <<phylosCount, state, philosopherPids, at, seatOf, manager, table>>
      /\ UNCHANGED <<value, queued, waiters, asleep>>
  BY DEF philosopherVars, tableVars, semaphores
<1>2. TypePart' /\ ManagerPart'
  BY <1>1 DEF IInv, TypePart, SemTypes, ManagerPart, Live, MUTEX_ID
<1>3. SeatPart' /\ SleepPart'
  BY <1>1 DEF IInv, SeatPart, Seated, Live, SleepPart, philosopherSemaphore, MUTEX_ID
<1>4. QueuePart'
  <2>1. GoodQueues(waiters', asleep', Dead')
    BY <1>1 DEF IInv, QueuePart, Dead
  <2>2. \A j \in Seated : Live(philosopherPids[j])' => Live(philosopherPids[j])
    BY <1>1 DEF Live
  <2>3. \A j \in Seat : Entries(waiters', philosopherSemaphore(j)) = Entries(waiters, philosopherSemaphore(j))
    BY <1>1 DEF Entries
  <2> QED
    BY <1>1, <2>1, <2>2, <2>3, QueueKept
<1>5. ForksPart'
  BY <1>1 DEF IInv, ForksPart, SeatOK, Seated, Live, philosopherSemaphore, MUTEX_ID
<1>6. MutexPart'
  BY <1>1 DEF IInv, MutexPart, OneInSection, InSection, Runs, MUTEX_ID
<1> QED
  BY <1>1, <1>2, <1>3, <1>4, <1>5, <1>6 DEF IInv

LEMMA NextHolds ==
  ASSUME IInv, TableNext
  PROVE  IInv'
<1>1. ASSUME NEW p \in Philosopher, PhilosopherStep(p)
      PROVE  IInv'
  <2>1. UNCHANGED <<phylosCount, philosopherPids, seatOf, manager, table>>
    BY <1>1 DEF PhilosopherStep
  <2>2. CASE StartThinking(p)
    BY <2>1, <2>2, StartThinkingStep
  <2>3. CASE WaitMutex(p)
    BY <2>1, <2>3, WaitMutexStep
  <2>4. CASE takeForks(p)
    BY <2>1, <2>4, takeForksStep
  <2>5. CASE putForks(p)
    BY <2>1, <2>5, putForksStep
  <2>6. CASE PostMutex(p)
    BY <2>1, <2>6, PostMutexStep
  <2>7. CASE WaitForks(p)
    BY <2>1, <2>7, WaitForksStep
  <2> QED
    BY <1>1, <2>2, <2>3, <2>4, <2>5, <2>6, <2>7 DEF PhilosopherStep
<1>2. CASE Enter
  BY <1>2, EnterStep
<1>3. CASE ManagerStep
  BY <1>3, OpenMutexStep, addPhilosopherStep, RemoveKillsStep, RemoveClosesStep, ManagerPostsStep,
     FinishKillsStep, FinishClosesStep, FinishStep DEF ManagerStep
<1> QED
  BY <1>1, <1>2, <1>3 DEF TableNext

LEMMA Invariant == TableSpec => []IInv
<1>1. TableInit /\ NoSemaphores => IInv
  BY InitHolds
<1>2. IInv /\ [TableNext]_philosopherVars => IInv'
  BY NextHolds, StutterHolds
<1> QED
  BY <1>1, <1>2, PTL DEF TableSpec

LEMMA EatersHaveForks ==
  ASSUME IInv, NEW i \in Seated, Eats(i)
  PROVE  state[i] = "EATING"
<1>1. i \in Seat /\ philosopherPids[i] \in Philosopher /\ SeatOK(i)
  BY Around DEF IInv, TypePart, SeatPart, ForksPart
<1>2. philosopherSemaphore(i) # Awake
  BY <1>1, Ids
<1> QED
  BY <1>1, <1>2 DEF SeatOK, Eats, Live, Runs

(* phylo.c, test(): philosophers that sit side by side never eat together,  *)
(* whatever the manager adds, removes or kills meanwhile, but for the first *)
(* and the last after removePhilosopher() has made them neighbours.         *)
THEOREM EatersAreApart == TableSpec => []OnlyRemovalJoinsEaters
<1>1. IInv => OnlyRemovalJoinsEaters
  <2> SUFFICES ASSUME IInv, NEW i \in Seated, NEW j \in Seated,
                      i < j, SideBySide(i, j), Eats(i), Eats(j)
               PROVE  table = "reduced" /\ i = 0 /\ j = phylosCount - 1 /\ j > 1
    BY DEF OnlyRemovalJoinsEaters
  <2> PICK n \in Nat : n = phylosCount
    BY PhilosophersAssumption DEF IInv, TypePart
  <2>1. state[i] = "EATING" /\ state[j] = "EATING"
    BY EatersHaveForks
  <2>2. /\ i \in Seat /\ i \in Nat /\ j \in Nat /\ i < n /\ j < n
        /\ RIGHT(i) = IF i + 1 = n THEN 0 ELSE i + 1
        /\ RIGHT(j) = IF j + 1 = n THEN 0 ELSE j + 1
    BY Around DEF IInv, TypePart
  <2>3. i + 1 # j
    BY <2>1, <2>2 DEF IInv, Separate
  <2>4. i = 0 /\ j = n - 1 /\ j > 1
    BY <2>2, <2>3 DEF SideBySide
  <2>5. table # "whole"
    BY <2>1, <2>2, <2>4 DEF IInv, Separate
  <2> QED
    BY <2>4, <2>5 DEF IInv, TypePart
<1> QED
  BY <1>1, Invariant, PTL

(* phylo.c, between syscall_sem_wait(MUTEX_ID) and syscall_sem_post(MUTEX_ID):*)
(* one philosopher or the manager, whoever is killed there.  This is what   *)
(* makes takeForks(), putForks() and addPhilosopher() steps of their own.   *)
THEOREM MutexIsExclusive == TableSpec => []OneInSection
<1>1. IInv => OneInSection
  BY DEF IInv, MutexPart
<1> QED
  BY <1>1, Invariant, PTL
=============================================================================
