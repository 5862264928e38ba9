--------------------------- MODULE SchedulerProofs ---------------------------
(***************************************************************************)
(* Proofs about Scheduler, for every number of pids, quantum, number of    *)
(* priorities and set of failing allocations: its variables keep their     *)
(* types and the four process queues agree with the PCBs.                  *)
(***************************************************************************)
EXTENDS Scheduler, SequenceTheorems, TLAPS

-----------------------------------------------------------------------------
(* What enqueue(), dequeue() and removeFromQueue() do to a queue that holds *)
(* no process twice.                                                        *)

(* enqueue() adds one process at the tail. *)
LEMMA EnqueueFacts ==
  ASSUME NEW S, NEW s \in Seq(S), NEW p \in S, IsInjective(s), p \notin ToSet(s)
  PROVE  /\ Append(s, p) \in Seq(S)
         /\ IsInjective(Append(s, p))
         /\ ToSet(Append(s, p)) = ToSet(s) \cup {p}
<1>1. /\ Append(s, p) \in Seq(S)
      /\ Len(Append(s, p)) = Len(s) + 1
      /\ \A i \in 1 .. Len(s) : Append(s, p)[i] = s[i]
      /\ Append(s, p)[Len(s) + 1] = p
  BY AppendProperties
<1>2. DOMAIN s = 1 .. Len(s) /\ DOMAIN Append(s, p) = 1 .. Len(s) + 1 /\ Len(s) \in Nat
  BY <1>1, LenProperties
<1> QED
  BY <1>1, <1>2 DEF IsInjective, ToSet

(* dequeue() followed by enqueue() of the same process keeps the members. *)
LEMMA RotateFacts ==
  ASSUME NEW S, NEW s \in Seq(S), s # <<>>, IsInjective(s)
  PROVE  /\ Append(Tail(s), Head(s)) \in Seq(S)
         /\ IsInjective(Append(Tail(s), Head(s)))
         /\ ToSet(Append(Tail(s), Head(s))) = ToSet(s)
         /\ Head(s) \in ToSet(s)
<1> DEFINE t == Tail(s)
<1>1. /\ Head(s) \in S /\ t \in Seq(S) /\ Len(t) = Len(s) - 1
      /\ \A i \in 1 .. Len(t) : t[i] = s[i + 1]
  BY HeadTailProperties
<1>2. /\ DOMAIN s = 1 .. Len(s) /\ DOMAIN t = 1 .. Len(t) /\ Len(s) \in Nat /\ Len(t) \in Nat
      /\ Head(s) = s[1]
  BY <1>1, LenProperties
<1>3. Len(s) >= 1
  BY <1>1, <1>2
<1>4. IsInjective(t) /\ Head(s) \notin ToSet(t)
  BY <1>1, <1>2, <1>3 DEF IsInjective, ToSet
<1>5. ToSet(s) = ToSet(t) \cup {Head(s)}
  <2>1. ToSet(s) \subseteq ToSet(t) \cup {Head(s)}
    <3> SUFFICES ASSUME NEW i \in 1 .. Len(s) PROVE s[i] \in ToSet(t) \cup {Head(s)}
      BY <1>2 DEF ToSet
    <3>1. CASE i = 1
      BY <3>1, <1>2
    <3>2. CASE i # 1
      <4>1. i - 1 \in 1 .. Len(t) /\ t[i - 1] = s[i]
        BY <3>2, <1>1, <1>2
      <4> QED
        BY <4>1, <1>2 DEF ToSet
    <3> QED
      BY <3>1, <3>2
  <2>2. ToSet(t) \cup {Head(s)} \subseteq ToSet(s)
    BY <1>1, <1>2, <1>3 DEF ToSet
  <2> QED
    BY <2>1, <2>2
<1> HIDE DEF t
<1>6. /\ Append(t, Head(s)) \in Seq(S) /\ IsInjective(Append(t, Head(s)))
      /\ ToSet(Append(t, Head(s))) = ToSet(t) \cup {Head(s)}
  BY <1>1, <1>4, EnqueueFacts
<1> QED
  BY <1>5, <1>6 DEF t

(* removeFromQueue() takes out the one node that holds p. *)
LEMMA RemoveFacts ==
  ASSUME NEW S, NEW s \in Seq(S), NEW p, IsInjective(s), p \in ToSet(s)
  PROVE  /\ RemoveFirst(s, p) \in Seq(S)
         /\ IsInjective(RemoveFirst(s, p))
         /\ ToSet(RemoveFirst(s, p)) = ToSet(s) \ {p}
<1>1. DOMAIN s = 1 .. Len(s) /\ Len(s) \in Nat
  BY LenProperties
<1>2. PICK k \in 1 .. Len(s) : s[k] = p
  BY <1>1 DEF ToSet
<1>3. {i \in 1 .. Len(s) : s[i] = p} = {k}
  BY <1>1, <1>2 DEF IsInjective
<1>4. SelectInSeq(s, LAMBDA v : v = p) = k
  BY <1>2, <1>3 DEF SelectInSeq, Min
<1>5. RemoveFirst(s, p) = SubSeq(s, 1, k - 1) \o SubSeq(s, k + 1, Len(s))
  BY <1>2, <1>4 DEF RemoveFirst, RemoveAt
<1> DEFINE a == SubSeq(s, 1, k - 1)
           b == SubSeq(s, k + 1, Len(s))
<1>6. \A i \in 1 .. Len(s) : s[i] \in S
  BY <1>1, ElementOfSeq
<1>7. /\ a \in Seq(S) /\ Len(a) = k - 1
      /\ \A i \in 1 .. k - 1 : a[i] = s[i]
  <2>1. \A i \in 1 .. k - 1 : s[i] \in S
    BY <1>1, <1>2, <1>6
  <2>2. /\ a \in Seq(S) /\ Len(a) = IF 1 <= k - 1 THEN k - 1 - 1 + 1 ELSE 0
        /\ \A i \in 1 .. k - 1 - 1 + 1 : a[i] = s[1 + i - 1]
    BY <1>2, <2>1, SubSeqProperties
  <2> QED
    BY <1>2, <2>2
<1>8. /\ b \in Seq(S) /\ Len(b) = Len(s) - k
      /\ \A i \in 1 .. Len(s) - k : b[i] = s[k + i]
  <2>1. \A i \in k + 1 .. Len(s) : s[i] \in S
    BY <1>1, <1>2, <1>6
  <2>2. k + 1 \in Int /\ Len(s) \in Int
    BY <1>1, <1>2
  <2>3. /\ b \in Seq(S) /\ Len(b) = IF k + 1 <= Len(s) THEN Len(s) - (k + 1) + 1 ELSE 0
        /\ \A i \in 1 .. Len(s) - (k + 1) + 1 : b[i] = s[k + 1 + i - 1]
    BY <2>1, <2>2, SubSeqProperties
  <2> HIDE DEF b
  <2>4. Len(b) = Len(s) - k
    <3>1. Len(s) \in Int /\ k \in Int /\ k <= Len(s)
      BY <1>1, <1>2
    <3>2. Len(b) = IF k + 1 <= Len(s) THEN Len(s) - (k + 1) + 1 ELSE 0
      BY <2>3
    <3> QED
      BY <3>1, <3>2
  <2>5. ASSUME NEW i \in 1 .. Len(s) - k PROVE b[i] = s[k + i]
    <3>1. i \in 1 .. Len(s) - (k + 1) + 1 /\ k + 1 + i - 1 = k + i
      BY <1>1, <1>2
    <3> QED
      BY <2>3, <3>1
  <2> QED
    BY <2>3, <2>4, <2>5
<1> HIDE DEF a, b
<1> DEFINE r == a \o b
<1>9. /\ r \in Seq(S) /\ Len(r) = Len(s) - 1
      /\ \A i \in 1 .. Len(s) - 1 : r[i] = IF i < k THEN s[i] ELSE s[i + 1]
  <2>1. /\ r \in Seq(S) /\ Len(r) = Len(a) + Len(b)
        /\ \A i \in 1 .. Len(a) + Len(b) :
             r[i] = IF i <= Len(a) THEN a[i] ELSE b[i - Len(a)]
    BY <1>7, <1>8, ConcatProperties
  <2> HIDE DEF r
  <2>2. Len(a) + Len(b) = Len(s) - 1
    BY <1>1, <1>2, <1>7, <1>8
  <2>3. ASSUME NEW i \in 1 .. Len(s) - 1
        PROVE  r[i] = IF i < k THEN s[i] ELSE s[i + 1]
    <3>1. CASE i < k
      <4>1. i \in 1 .. k - 1 /\ i <= Len(a) /\ i \in 1 .. Len(a) + Len(b)
        BY <3>1, <1>1, <1>2, <1>7, <2>2
      <4>2. r[i] = a[i]
        BY <4>1, <2>1
      <4>3. a[i] = s[i]
        BY <4>1, <1>7
      <4> QED
        BY <3>1, <4>2, <4>3
    <3>2. CASE i >= k
      <4>1. i - Len(a) \in 1 .. Len(s) - k /\ k + (i - Len(a)) = i + 1 /\ ~(i <= Len(a))
        BY <3>2, <1>1, <1>2, <1>7
      <4> QED
        BY <4>1, <3>2, <1>2, <1>8, <2>1, <2>2
    <3> QED
      BY <3>1, <3>2, <1>1, <1>2
  <2> QED
    BY <2>1, <2>2, <2>3
<1>10. DOMAIN r = 1 .. Len(s) - 1
  BY <1>9, LenProperties
<1> HIDE DEF r
<1>11. IsInjective(r)
  <2> SUFFICES ASSUME NEW i \in 1 .. Len(s) - 1, NEW j \in 1 .. Len(s) - 1, r[i] = r[j]
               PROVE  i = j
    BY <1>10 DEF IsInjective
  <2> DEFINE u == IF i < k THEN i ELSE i + 1
             v == IF j < k THEN j ELSE j + 1
  <2>1. u \in 1 .. Len(s) /\ v \in 1 .. Len(s) /\ (u = v => i = j)
    BY <1>1, <1>2
  <2>2. r[i] = s[u] /\ r[j] = s[v]
    BY <1>9
  <2> HIDE DEF u, v
  <2> QED
    BY <2>1, <2>2, <1>1 DEF IsInjective
<1>12. ToSet(r) \subseteq ToSet(s) \ {p}
  <2> SUFFICES ASSUME NEW i \in 1 .. Len(s) - 1 PROVE r[i] \in ToSet(s) \ {p}
    BY <1>10 DEF ToSet
  <2> DEFINE j == IF i < k THEN i ELSE i + 1
  <2>1. j \in 1 .. Len(s) /\ j # k /\ r[i] = s[j]
    BY <1>1, <1>2, <1>9
  <2>2. s[j] # p
    BY <2>1, <1>1, <1>2 DEF IsInjective
  <2> QED
    BY <2>1, <2>2, <1>1 DEF ToSet
<1>13. ToSet(s) \ {p} \subseteq ToSet(r)
  <2> SUFFICES ASSUME NEW i \in 1 .. Len(s), s[i] # p PROVE s[i] \in ToSet(r)
    BY <1>1 DEF ToSet
  <2>1. CASE i < k
    <3>1. i \in 1 .. Len(s) - 1 /\ r[i] = s[i]
      BY <2>1, <1>1, <1>2, <1>9
    <3> QED
      BY <3>1, <1>10 DEF ToSet
  <2>2. CASE i > k
    <3>1. i - 1 \in 1 .. Len(s) - 1 /\ r[i - 1] = s[i]
      BY <2>2, <1>1, <1>2, <1>9
    <3> QED
      BY <3>1, <1>10 DEF ToSet
  <2> QED
    BY <2>1, <2>2, <1>2
<1> QED
  BY <1>5, <1>9, <1>11, <1>12, <1>13 DEF a, b, r

-----------------------------------------------------------------------------
(* The agreement of PCBs and queues as a predicate of any lists P and Q, so *)
(* that it can be stated of the intermediate lists of an operation.         *)
GoodLists(P, Q) ==
  /\ P \in [Pid -> PCB]
  /\ Q \in [QueueName -> Seq(Pid)]
  /\ \A n \in QueueName : IsInjective(Q[n])
  /\ \A n \in QueueName : \A p \in ToSet(Q[n]) : p # Idle /\ P[p].state \in StatesOf[n]
  /\ \A p \in Pid :
       P[p].state # "FREE" /\ p # Idle /\ (\A n \in QueueName : p \notin ToSet(Q[n]))
         => /\ P[p].state \in {"READY", "BLOCKED"}
            /\ P[p].priority = IDLE_PRIORITY \/ "node" \in AllocFails

(* What holds of the remaining variables. *)
GoodRest ==
  /\ current \in Pid
  /\ foreground \in Pid \cup {None}
  /\ currentPid \in Pid \cup {None}
  /\ quantum \in 0 .. QUANTUM * (MAX_PRIORITY + 1)
  /\ nextFreePid \in 2 .. MaxPid + 1
  /\ cpu \in Context
  /\ frame \in [Context -> Frame]

(* A pid that was not handed out yet has no PCB. *)
FreshPids == \A p \in Pid : p >= nextFreePid => pcb[p].state = "FREE"

IInv == GoodLists(pcb, queue) /\ GoodRest /\ CurrentIsRunnable /\ FreshPids

LEMMA ConstantFacts ==
  /\ Pid \subseteq Int /\ Idle \in Pid /\ SHELL_PID \in Pid /\ None \notin Pid
  /\ MAX_PRIORITY \in Nat /\ QUANTUM \in Nat /\ MaxPid \in Nat /\ MaxPid >= 2
  /\ Pid \subseteq Context /\ Boot \in Context
BY SchedulerAssumption DEF Pid, Idle, SHELL_PID, None, Context, Boot

(* Which states live in which queue. *)
LEMMA StatesOfFacts ==
  /\ \A n \in QueueName : "RUNNING" \in StatesOf[n] => n = "ready"
  /\ "READY" \in StatesOf["ready"] /\ "RUNNING" \in StatesOf["ready"]
  /\ "BLOCKED" \in StatesOf["blocked"]
  /\ "WAITING_SEM" \in StatesOf["blockedBySem"]
  /\ "ZOMBIE" \in StatesOf["zombie"]
  /\ \A n \in QueueName : "ZOMBIE" \in StatesOf[n] => n = "zombie"
  /\ \A n \in QueueName : "FREE" \notin StatesOf[n]
BY DEF StatesOf, QueueName, Living

(* A process is in one queue at most: the queues hold disjoint states. *)
LEMMA OneQueue ==
  ASSUME NEW P, NEW Q, GoodLists(P, Q),
         NEW n \in QueueName, NEW m \in QueueName, NEW p,
         p \in ToSet(Q[n]), p \in ToSet(Q[m])
  PROVE  n = m
BY DEF GoodLists, StatesOf, QueueName, Living

(* The quantum of any priority is in range. *)
LEMMA QuantumFacts ==
  ASSUME NEW priority \in 0 .. IDLE_PRIORITY
  PROVE  calculateQuantum(priority) \in 0 .. QUANTUM * (MAX_PRIORITY + 1)
<1>1. QUANTUM \in Nat /\ MAX_PRIORITY \in Nat /\ priority \in Nat
  BY ConstantFacts
<1>2. CASE priority = IDLE_PRIORITY
  <2>1. QUANTUM * (MAX_PRIORITY + 1) = QUANTUM * MAX_PRIORITY + QUANTUM
    BY <1>1
  <2>2. QUANTUM * MAX_PRIORITY \in Nat
    BY <1>1
  <2> QED
    BY <1>1, <1>2, <2>1, <2>2 DEF calculateQuantum
<1>3. CASE priority # IDLE_PRIORITY
  <2> DEFINE k == MAX_PRIORITY - priority + 1
  <2>1. k \in Nat /\ MAX_PRIORITY + 1 = k + priority
    BY <1>1, <1>3 DEF IDLE_PRIORITY
  <2>2. QUANTUM * k \in Nat /\ QUANTUM * priority \in Nat
    BY <1>1, <2>1
  <2>3. QUANTUM * (k + priority) = QUANTUM * k + QUANTUM * priority
    BY <1>1, <2>1
  <2>4. calculateQuantum(priority) = QUANTUM * k
    BY <1>3 DEF calculateQuantum
  <2> QED
    BY <2>1, <2>2, <2>3, <2>4
<1> QED
  BY <1>2, <1>3

(* switchProcess() together with the assignment of the state that goes with *)
(* the new queue keeps the lists in agreement.                              *)
LEMMA MoveFacts ==
  ASSUME NEW P, NEW Q, GoodLists(P, Q),
         NEW from \in QueueName, NEW to \in QueueName, from # to,
         NEW p \in ToSet(Q[from]),
         NEW P1 \in [Pid -> PCB], P1[p].state \in StatesOf[to],
         \A q \in Pid \ {p} : P1[q].state = P[q].state /\ P1[q].priority = P[q].priority
  PROVE  /\ GoodLists(P1, switchProcess(Q, from, to, p))
         /\ ToSet(switchProcess(Q, from, to, p)[from]) = ToSet(Q[from]) \ {p}
         /\ ToSet(switchProcess(Q, from, to, p)[to]) = ToSet(Q[to]) \cup {p}
         /\ \A n \in QueueName \ {from, to} : switchProcess(Q, from, to, p)[n] = Q[n]
<1> DEFINE R == switchProcess(Q, from, to, p)
<1>1. /\ Q \in [QueueName -> Seq(Pid)]
      /\ \A n \in QueueName : IsInjective(Q[n])
      /\ p \notin ToSet(Q[to])
  BY OneQueue DEF GoodLists
<1>2. p \in Pid
  BY <1>1, ElementOfSeq, LenProperties DEF ToSet
<1>3. /\ R[from] = RemoveFirst(Q[from], p)
      /\ R[to] = Append(Q[to], p)
      /\ \A n \in QueueName \ {from, to} : R[n] = Q[n]
      /\ DOMAIN R = QueueName
      /\ R = [n \in QueueName |-> R[n]]
  BY <1>1 DEF switchProcess
<1> HIDE DEF R
<1>4. /\ R[from] \in Seq(Pid) /\ IsInjective(R[from])
      /\ ToSet(R[from]) = ToSet(Q[from]) \ {p}
  BY <1>1, <1>3, RemoveFacts
<1>5. /\ R[to] \in Seq(Pid) /\ IsInjective(R[to])
      /\ ToSet(R[to]) = ToSet(Q[to]) \cup {p}
  BY <1>1, <1>2, <1>3, EnqueueFacts
<1>6. R \in [QueueName -> Seq(Pid)] /\ \A n \in QueueName : IsInjective(R[n])
  BY <1>1, <1>3, <1>4, <1>5
<1>7. ASSUME NEW n \in QueueName, NEW q \in ToSet(R[n])
      PROVE  q # Idle /\ P1[q].state \in StatesOf[n]
  <2>1. CASE q = p
    <3>1. n = to
      BY <2>1, <1>3, <1>4, OneQueue
    <3>2. p # Idle
      BY DEF GoodLists
    <3> QED
      BY <2>1, <3>1, <3>2
  <2>2. CASE q # p
    <3>1. q \in ToSet(Q[n])
      BY <2>2, <1>3, <1>4, <1>5
    <3>2. q \in Pid
      BY <3>1, <1>1, ElementOfSeq, LenProperties DEF ToSet
    <3> QED
      BY <2>2, <3>1, <3>2 DEF GoodLists
  <2> QED
    BY <2>1, <2>2
<1>8. ASSUME NEW q \in Pid, P1[q].state # "FREE", q # Idle,
             \A n \in QueueName : q \notin ToSet(R[n])
      PROVE  /\ P1[q].state \in {"READY", "BLOCKED"}
             /\ P1[q].priority = IDLE_PRIORITY \/ "node" \in AllocFails
  <2>1. q # p
    BY <1>5, <1>8
  <2>2. \A n \in QueueName : q \notin ToSet(Q[n])
    BY <2>1, <1>3, <1>4, <1>5, <1>8
  <2> QED
    BY <2>1, <2>2, <1>8 DEF GoodLists
<1> QED
  BY <1>3, <1>4, <1>5, <1>6, <1>7, <1>8 DEF GoodLists, R

(* Reaping takes a zombie out of its queue and frees its PCB. *)
LEMMA ReapFacts ==
  ASSUME NEW P, NEW Q, GoodLists(P, Q), NEW p \in ToSet(Q["zombie"]),
         NEW P1 \in [Pid -> PCB], P1[p].state = "FREE",
         \A q \in Pid \ {p} : P1[q].state = P[q].state /\ P1[q].priority = P[q].priority
  PROVE  /\ GoodLists(P1, removeZombieProcess(Q, p))
         /\ \A n \in QueueName : ToSet(removeZombieProcess(Q, p)[n]) = ToSet(Q[n]) \ {p}
<1> DEFINE R == removeZombieProcess(Q, p)
<1>1. /\ Q \in [QueueName -> Seq(Pid)] /\ "zombie" \in QueueName
      /\ \A n \in QueueName : IsInjective(Q[n])
  BY DEF GoodLists, QueueName
<1>2. /\ R["zombie"] = RemoveFirst(Q["zombie"], p)
      /\ \A n \in QueueName \ {"zombie"} : R[n] = Q[n]
      /\ R = [n \in QueueName |-> R[n]]
  BY <1>1 DEF removeZombieProcess
<1> HIDE DEF R
<1>3. /\ R["zombie"] \in Seq(Pid) /\ IsInjective(R["zombie"])
      /\ ToSet(R["zombie"]) = ToSet(Q["zombie"]) \ {p}
  BY <1>1, <1>2, RemoveFacts
<1>4. R \in [QueueName -> Seq(Pid)] /\ \A n \in QueueName : IsInjective(R[n])
  BY <1>1, <1>2, <1>3
<1>5. \A n \in QueueName : ToSet(R[n]) = ToSet(Q[n]) \ {p}
  <2> SUFFICES ASSUME NEW n \in QueueName PROVE ToSet(R[n]) = ToSet(Q[n]) \ {p}
    OBVIOUS
  <2>1. CASE n = "zombie"
    BY <2>1, <1>3
  <2>2. CASE n # "zombie"
    <3>1. p \notin ToSet(Q[n])
      BY <2>2, <1>1, OneQueue
    <3> QED
      BY <2>2, <3>1, <1>2
  <2> QED
    BY <2>1, <2>2
<1>6. \A n \in QueueName : ToSet(Q[n]) \subseteq Pid
  BY <1>1, ElementOfSeq, LenProperties DEF ToSet
<1>7. \A n \in QueueName : \A q \in ToSet(R[n]) : q # Idle /\ P1[q].state \in StatesOf[n]
  BY <1>5, <1>6 DEF GoodLists
<1>8. ASSUME NEW q \in Pid, P1[q].state # "FREE", q # Idle,
             \A n \in QueueName : q \notin ToSet(R[n])
      PROVE  /\ P1[q].state \in {"READY", "BLOCKED"}
             /\ P1[q].priority = IDLE_PRIORITY \/ "node" \in AllocFails
  BY <1>5, <1>8 DEF GoodLists
<1> QED
  BY <1>4, <1>5, <1>7, <1>8 DEF GoodLists, R

(* Giving the CPU away keeps the lists in agreement and the current process *)
(* runnable, whatever the lists were before.                                *)
LEMMA DispatchFacts ==
  ASSUME NEW P, NEW Q, GoodLists(P, Q),
         NEW cur \in Pid, NEW fg \in Pid \cup {None}, cpu \in Context,
         Dispatch(P, Q, cur, fg)
  PROVE  /\ GoodLists(pcb', queue')
         /\ current' \in Pid
         /\ current' = Idle \/ current' \in ToSet(queue'["ready"])
         /\ foreground' \in Pid \cup {None}
         /\ currentPid' \in Pid \cup {None}
         /\ quantum' \in 0 .. QUANTUM * (MAX_PRIORITY + 1)
         /\ cpu' \in Context
         /\ \A q \in Pid \ {Idle} : P[q].state = "FREE" => pcb'[q].state = "FREE"
<1> DEFINE next  == IF Q["ready"] = <<>> THEN Idle ELSE Head(Q["ready"])
           saved == saveContext(P, cur)
<1>1. /\ P \in [Pid -> PCB] /\ Q \in [QueueName -> Seq(Pid)] /\ "ready" \in QueueName
      /\ \A n \in QueueName : IsInjective(Q[n])
  BY DEF GoodLists, QueueName, Living
<1>2. \A n \in QueueName : ToSet(Q[n]) \subseteq Pid
  BY <1>1, ElementOfSeq, LenProperties DEF ToSet
<1>3. /\ next \in Pid
      /\ next # Idle => next \in ToSet(Q["ready"])
  BY <1>1, <1>2, RotateFacts, ConstantFacts
<1>4. /\ saved \in [Pid -> PCB]
      /\ \A q \in Pid \ {cur} : saved[q] = P[q]
      /\ saved[cur].priority = P[cur].priority
      /\ saved[cur].state = IF P[cur].state = "RUNNING" THEN "READY" ELSE P[cur].state
  <2> DEFINE r == [P[cur] EXCEPT !.rsp = IF cpu = Boot THEN @ ELSE cpu,
                                 !.state = IF @ = "RUNNING" THEN "READY" ELSE @]
  <2>1. P[cur] \in PCB
    BY <1>1
  <2>2. /\ r \in PCB /\ r.priority = P[cur].priority
        /\ r.state = IF P[cur].state = "RUNNING" THEN "READY" ELSE P[cur].state
    BY <2>1 DEF PCB, ProcessState
  <2>3. saved = [P EXCEPT ![cur] = r]
    BY DEF saveContext
  <2> HIDE DEF r
  <2> QED
    BY <1>1, <2>2, <2>3
<1> HIDE DEF saved, next
<1>5. /\ pcb' = [saved EXCEPT ![next].state = "RUNNING"]
      /\ queue' = rotateReady(Q)
      /\ current' = next
      /\ foreground' = IF P[next].foreground THEN next ELSE fg
      /\ currentPid' = next
      /\ quantum' = calculateQuantum(P[next].priority)
      /\ cpu' = saved[next].rsp
  BY DEF Dispatch, saved, next
<1>6. /\ pcb' \in [Pid -> PCB]
      /\ pcb'[next].state = "RUNNING" /\ pcb'[next].priority = P[next].priority
      /\ \A q \in Pid \ {next} : pcb'[q] = saved[q]
  BY <1>3, <1>4, <1>5 DEF PCB, ProcessState
<1>7. /\ queue' \in [QueueName -> Seq(Pid)]
      /\ \A n \in QueueName : IsInjective(queue'[n]) /\ ToSet(queue'[n]) = ToSet(Q[n])
  <2>1. CASE Q["ready"] = <<>>
    BY <2>1, <1>1, <1>5 DEF rotateReady
  <2>2. CASE Q["ready"] # <<>>
    <3>1. /\ queue'["ready"] = Append(Tail(Q["ready"]), Head(Q["ready"]))
          /\ \A n \in QueueName \ {"ready"} : queue'[n] = Q[n]
          /\ queue' = [n \in QueueName |-> queue'[n]]
      BY <2>2, <1>1, <1>5 DEF rotateReady
    <3>2. /\ queue'["ready"] \in Seq(Pid) /\ IsInjective(queue'["ready"])
          /\ ToSet(queue'["ready"]) = ToSet(Q["ready"])
      BY <2>2, <3>1, <1>1, RotateFacts
    <3> QED
      BY <3>1, <3>2, <1>1
  <2> QED
    BY <2>1, <2>2
<1>8. ASSUME NEW n \in QueueName, NEW q \in ToSet(queue'[n])
      PROVE  q # Idle /\ pcb'[q].state \in StatesOf[n]
  <2>1. q \in ToSet(Q[n]) /\ q \in Pid /\ q # Idle /\ P[q].state \in StatesOf[n]
    BY <1>2, <1>7 DEF GoodLists
  <2>2. CASE q = next
    <3>1. n = "ready"
      BY <2>1, <2>2, <1>1, <1>3, OneQueue
    <3> QED
      BY <2>1, <2>2, <3>1, <1>1, <1>6 DEF StatesOf
  <2>3. CASE q # next /\ q = cur
    <3>1. pcb'[q].state = IF P[q].state = "RUNNING" THEN "READY" ELSE P[q].state
      BY <2>1, <2>3, <1>4, <1>6
    <3>2. P[q].state = "RUNNING" => n = "ready"
      BY <2>1, StatesOfFacts
    <3> QED
      BY <2>1, <3>1, <3>2, StatesOfFacts
  <2>4. CASE q # next /\ q # cur
    BY <2>1, <2>4, <1>4, <1>6
  <2> QED
    BY <2>2, <2>3, <2>4
<1>9. ASSUME NEW q \in Pid, pcb'[q].state # "FREE", q # Idle,
             \A n \in QueueName : q \notin ToSet(queue'[n])
      PROVE  /\ pcb'[q].state \in {"READY", "BLOCKED"}
             /\ pcb'[q].priority = IDLE_PRIORITY \/ "node" \in AllocFails
  <2>1. \A n \in QueueName : q \notin ToSet(Q[n])
    BY <1>7, <1>9
  <2>2. q # next
    BY <2>1, <1>1, <1>3, <1>9
  <2>3. pcb'[q] = saved[q]
    BY <2>2, <1>6
  <2>4. P[q].state # "FREE" /\ saved[q].priority = P[q].priority
    BY <2>3, <1>4, <1>9
  <2>5. /\ P[q].state \in {"READY", "BLOCKED"}
        /\ P[q].priority = IDLE_PRIORITY \/ "node" \in AllocFails
    BY <2>1, <2>4, <1>9 DEF GoodLists
  <2>6. saved[q].state = P[q].state
    BY <2>5, <1>4
  <2> QED
    BY <2>3, <2>4, <2>5, <2>6
<1>10. quantum' \in 0 .. QUANTUM * (MAX_PRIORITY + 1)
  BY <1>1, <1>3, <1>5, QuantumFacts DEF PCB
<1>11. foreground' \in Pid \cup {None} /\ cpu' \in Context
  BY <1>3, <1>4, <1>5 DEF PCB
<1>12. current' = Idle \/ current' \in ToSet(queue'["ready"])
  BY <1>1, <1>3, <1>5, <1>7
<1>13. ASSUME NEW q \in Pid \ {Idle}, P[q].state = "FREE"
       PROVE  pcb'[q].state = "FREE"
  <2>1. q # next
    BY <1>1, <1>3, <1>13, StatesOfFacts DEF GoodLists
  <2> QED
    BY <2>1, <1>4, <1>6, <1>13
<1> QED
  BY <1>3, <1>5, <1>6, <1>7, <1>8, <1>9, <1>10, <1>11, <1>12, <1>13 DEF GoodLists

-----------------------------------------------------------------------------
(* The invariant holds when main() has created the shell. *)
LEMMA InitInv == Init => IInv
<1> SUFFICES ASSUME Init PROVE IInv
  OBVIOUS
<1>1. /\ pcb \in [Pid -> PCB]
      /\ pcb[Idle].state = "READY" /\ pcb[SHELL_PID].state = "READY"
      /\ \A p \in Pid \ {Idle, SHELL_PID} : pcb[p].state = "FREE"
  <2> DEFINE idle  == [state |-> "READY", parentPid |-> None, waitingForPid |-> None,
                       priority |-> IDLE_PRIORITY, foreground |-> FALSE, rsp |-> Idle]
             shell == [state |-> "READY", parentPid |-> Idle, waitingForPid |-> None,
                       priority |-> 0, foreground |-> TRUE, rsp |-> SHELL_PID]
  <2>1. pcb = [p \in Pid |-> IF p = Idle THEN idle ELSE IF p = SHELL_PID THEN shell ELSE FreePcb]
    BY DEF Init
  <2>2. 0 \in 0 .. IDLE_PRIORITY /\ IDLE_PRIORITY \in 0 .. IDLE_PRIORITY
    BY ConstantFacts DEF IDLE_PRIORITY
  <2>3. idle \in PCB /\ idle.state = "READY"
    BY <2>2, ConstantFacts DEF PCB, ProcessState
  <2>4. shell \in PCB /\ shell.state = "READY"
    BY <2>2, ConstantFacts DEF PCB, ProcessState
  <2>5. FreePcb \in PCB /\ FreePcb.state = "FREE"
    BY <2>2, ConstantFacts DEF PCB, ProcessState, FreePcb, Boot, None
  <2>6. Idle # SHELL_PID
    BY DEF Idle, SHELL_PID
  <2> HIDE DEF idle, shell
  <2> QED
    BY <2>1, <2>3, <2>4, <2>5, <2>6, ConstantFacts
<1>2. /\ queue \in [QueueName -> Seq(Pid)]
      /\ \A n \in QueueName : IsInjective(queue[n])
      /\ ToSet(queue["ready"]) = {SHELL_PID}
      /\ \A n \in QueueName \ {"ready"} : ToSet(queue[n]) = {}
  BY ConstantFacts DEF Init, QueueName, Living, IsInjective, ToSet
<1>3. GoodLists(pcb, queue)
  <2>1. \A n \in QueueName : \A p \in ToSet(queue[n]) : p # Idle /\ pcb[p].state \in StatesOf[n]
    <3>1. SHELL_PID # Idle
      BY DEF Idle, SHELL_PID
    <3> QED
      BY <3>1, <1>1, <1>2, StatesOfFacts
  <2>2. \A p \in Pid : pcb[p].state # "FREE" /\ p # Idle => p \in ToSet(queue["ready"])
    BY <1>1, <1>2
  <2>3. "ready" \in QueueName
    BY DEF QueueName, Living
  <2> QED
    BY <1>1, <1>2, <2>1, <2>2, <2>3 DEF GoodLists
<1>4. GoodRest
  <2>1. frame \in [Context -> Frame]
    BY ConstantFacts DEF Init, Frame, At
  <2>2. QUANTUM * (MAX_PRIORITY + 1) \in Nat
    BY ConstantFacts
  <2>3. quantum \in 0 .. QUANTUM * (MAX_PRIORITY + 1)
    BY <2>2 DEF Init
  <2>4. nextFreePid \in 2 .. MaxPid + 1
    BY ConstantFacts DEF Init
  <2> QED
    BY <2>1, <2>3, <2>4, ConstantFacts DEF Init, GoodRest
<1>5. CurrentIsRunnable
  BY <1>2 DEF Init, CurrentIsRunnable, InQueue
<1>6. FreshPids
  BY <1>1, ConstantFacts DEF Init, FreshPids, Idle, SHELL_PID
<1> QED
  BY <1>3, <1>4, <1>5, <1>6 DEF IInv

(* What the invariant says of the variables, in the form the steps use. *)
LEMMA InvFacts ==
  ASSUME IInv
  PROVE  /\ GoodLists(pcb, queue)
         /\ pcb \in [Pid -> PCB] /\ queue \in [QueueName -> Seq(Pid)]
         /\ cpu \in Context /\ current \in Pid /\ foreground \in Pid \cup {None}
         /\ frame[cpu] \in Frame
         /\ \A n \in QueueName : ToSet(queue[n]) \subseteq Pid
BY ElementOfSeq, LenProperties DEF IInv, GoodLists, GoodRest, ToSet

(* The lists P and Q left by an operation that moved p and perhaps woke     *)
(* somebody, compared with the lists it found.                              *)
Kept(P, Q, p) ==
  /\ GoodLists(P, Q)
  /\ \A q \in Pid \ {p} : q \in ToSet(queue["ready"]) => q \in ToSet(Q["ready"])
  /\ \A q \in Pid \ {p} : (\A n \in QueueName : q \notin ToSet(queue[n]))
       => P[q].state = pcb[q].state /\ \A n \in QueueName : q \notin ToSet(Q[n])

(* No PCB of P was made since. *)
NoneBorn(P) == \A q \in Pid : pcb[q].state = "FREE" => P[q].state = "FREE"

(* A current process that was not moved stays runnable. *)
LEMMA KeptRunnable ==
  ASSUME IInv, NEW p, Kept(pcb', queue', p), current' = current, current # p
  PROVE  CurrentIsRunnable'
<1>1. current \in Pid \ {p}
  BY InvFacts
<1>2. CASE current = Idle
  BY <1>2 DEF CurrentIsRunnable
<1>3. CASE InQueue("ready", current)
  <2>1. current' \in ToSet(queue'["ready"])
    BY <1>1, <1>3 DEF Kept, InQueue
  <2>2. InQueue("ready", current)'
    BY <2>1 DEF InQueue
  <2> QED
    BY <2>2 DEF CurrentIsRunnable
<1>4. CASE Lost(current) /\ "node" \in AllocFails
  <2>1. \A n \in QueueName : current \notin ToSet(queue[n])
    BY <1>4 DEF Lost, InSomeQueue, InQueue
  <2>2. /\ pcb'[current'].state = pcb[current].state
        /\ \A n \in QueueName : current' \notin ToSet(queue'[n])
    BY <2>1, <1>1 DEF Kept
  <2>3. Lost(current)'
    BY <2>2, <1>4 DEF Lost, InSomeQueue, InQueue
  <2> QED
    BY <2>3, <1>4 DEF CurrentIsRunnable
<1> QED
  BY <1>2, <1>3, <1>4 DEF IInv, CurrentIsRunnable

(* A step that ends in schedule() with lists in agreement keeps IInv. *)
LEMMA DispatchInv ==
  ASSUME IInv, NEW P, NEW Q, NEW cur \in Pid, NEW fg \in Pid \cup {None}, GoodLists(P, Q),
         NoneBorn(P), Dispatch(P, Q, cur, fg), nextFreePid' = nextFreePid,
         frame' \in [Context -> Frame]
  PROVE  IInv'
<1>1. cpu \in Context
  BY InvFacts
<1>2. /\ GoodLists(pcb', queue')
      /\ current' \in Pid
      /\ current' = Idle \/ current' \in ToSet(queue'["ready"])
      /\ foreground' \in Pid \cup {None}
      /\ currentPid' \in Pid \cup {None}
      /\ quantum' \in 0 .. QUANTUM * (MAX_PRIORITY + 1)
      /\ cpu' \in Context
      /\ \A q \in Pid \ {Idle} : P[q].state = "FREE" => pcb'[q].state = "FREE"
  BY <1>1, DispatchFacts
<1>3. nextFreePid' \in 2 .. MaxPid + 1
  BY DEF IInv, GoodRest
<1>4. (current = Idle \/ InQueue("ready", current))'
  BY <1>2 DEF InQueue
<1>5. FreshPids'
  <2> SUFFICES ASSUME NEW q \in Pid, q >= nextFreePid' PROVE pcb'[q].state = "FREE"
    BY DEF FreshPids
  <2>1. q # Idle
    BY <1>3, ConstantFacts DEF Idle
  <2>2. pcb[q].state = "FREE"
    BY DEF IInv, FreshPids
  <2> QED
    BY <2>1, <2>2, <1>2 DEF NoneBorn
<1> QED
  BY <1>2, <1>3, <1>4, <1>5 DEF IInv, GoodRest, CurrentIsRunnable

(* A step that changes only the lists keeps IInv when they stay in          *)
(* agreement and the current process stays runnable.                        *)
LEMMA ListsInv ==
  ASSUME IInv, NEW p, Kept(pcb', queue', p), NoneBorn(pcb'), CurrentIsRunnable', current' \in Pid,
         foreground' \in Pid \cup {None}, frame' \in [Context -> Frame],
         UNCHANGED <<currentPid, quantum, nextFreePid, cpu>>
  PROVE  IInv'
<1>1. FreshPids'
  BY DEF IInv, FreshPids, NoneBorn
<1> QED
  BY <1>1 DEF IInv, GoodRest, Kept

(* Moving p from one queue to another, for whoever does it. *)
LEMMA MoveKept ==
  ASSUME IInv, NEW from \in QueueName, NEW to \in QueueName, from # to,
         NEW p \in ToSet(queue[from]), NEW P1 \in [Pid -> PCB], P1[p].state \in StatesOf[to],
         \A q \in Pid \ {p} : P1[q].state = pcb[q].state /\ P1[q].priority = pcb[q].priority
  PROVE  Kept(P1, switchProcess(queue, from, to, p), p) /\ NoneBorn(P1)
<1> DEFINE R == switchProcess(queue, from, to, p)
<1>1. /\ GoodLists(P1, R)
      /\ ToSet(R[from]) = ToSet(queue[from]) \ {p}
      /\ ToSet(R[to]) = ToSet(queue[to]) \cup {p}
      /\ \A n \in QueueName \ {from, to} : R[n] = queue[n]
  BY MoveFacts DEF IInv
<1> HIDE DEF R
<1>2. p \in Pid /\ pcb[p].state # "FREE"
  BY InvFacts, StatesOfFacts DEF GoodLists
<1>3. \A n \in QueueName : ToSet(queue[n]) \ {p} = ToSet(R[n]) \ {p}
  BY <1>1
<1>4. "ready" \in QueueName
  BY DEF QueueName, Living
<1> QED
  BY <1>1, <1>2, <1>3, <1>4 DEF Kept, NoneBorn, R

-----------------------------------------------------------------------------
(* The queues a step can name. *)
LEMMA QueueNames ==
  /\ Living \subseteq QueueName
  /\ "ready" \in Living /\ "blocked" \in Living /\ "blockedBySem" \in Living
  /\ "ready" \in QueueName /\ "blocked" \in QueueName /\ "blockedBySem" \in QueueName
  /\ "zombie" \in QueueName /\ "zombie" \notin Living
BY DEF QueueName, Living

(* A step that writes one frame keeps the frames typed. *)
LEMMA FrameFacts ==
  ASSUME IInv, NEW c
  PROVE  /\ frame \in [Context -> Frame]
         /\ [frame EXCEPT ![c] = At("user")] \in [Context -> Frame]
         /\ [frame EXCEPT ![c] = At("hang")] \in [Context -> Frame]
         /\ [frame EXCEPT ![c] = At("kernel")] \in [Context -> Frame]
         /\ \A me \in Pid, p \in Pid :
              [frame EXCEPT ![c] = [at |-> "waitpid", me |-> me, target |-> p]]
                \in [Context -> Frame]
<1>1. frame \in [Context -> Frame]
  BY DEF IInv, GoodRest
<1>2. At("user") \in Frame /\ At("hang") \in Frame /\ At("kernel") \in Frame
  BY DEF At, Frame
<1>3. \A me \in Pid, p \in Pid : [at |-> "waitpid", me |-> me, target |-> p] \in Frame
  BY DEF Frame
<1> QED
  BY <1>1, <1>2, <1>3

(* The invariant speaks of the variables only. *)
LEMMA StutterInv == IInv /\ UNCHANGED schedVars => IInv'
BY DEF IInv, GoodLists, GoodRest, CurrentIsRunnable, FreshPids, schedVars, Lost,
       InSomeQueue, InQueue

LEMMA TimerTickInv == IInv /\ TimerTick => IInv'
<1> SUFFICES ASSUME IInv, TimerTick PROVE IInv'
  OBVIOUS
<1>1. nextFreePid' = nextFreePid /\ frame' = frame /\ frame' \in [Context -> Frame]
  BY DEF TimerTick, IInv, GoodRest
<1>2. CASE quantum > 0 /\ pcb[current].state = "RUNNING"
  <2>1. /\ quantum' = quantum - 1
        /\ UNCHANGED <<pcb, queue, current, foreground, currentPid, cpu, nextFreePid, frame>>
    BY <1>2 DEF TimerTick
  <2>2. quantum' \in 0 .. QUANTUM * (MAX_PRIORITY + 1)
    <3> DEFINE top == QUANTUM * (MAX_PRIORITY + 1)
    <3>1. quantum \in 0 .. top /\ top \in Int
      BY ConstantFacts DEF IInv, GoodRest
    <3> HIDE DEF top
    <3>2. quantum' \in 0 .. top
      BY <3>1, <2>1, <1>2
    <3> QED
      BY <3>2 DEF top
  <2> QED
    BY <2>1, <2>2 DEF IInv, GoodLists, GoodRest, CurrentIsRunnable, FreshPids, Lost,
                      InSomeQueue, InQueue
<1>3. CASE Dispatch(pcb, queue, current, foreground)
  <2>1. NoneBorn(pcb)
    BY DEF NoneBorn
  <2> QED
    BY <1>1, <1>3, <2>1, InvFacts, DispatchInv
<1> QED
  BY <1>2, <1>3 DEF TimerTick

LEMMA YieldInv == IInv /\ Yield => IInv'
<1> SUFFICES ASSUME IInv, Yield PROVE IInv'
  OBVIOUS
<1>1. frame' \in [Context -> Frame] /\ nextFreePid' = nextFreePid
  BY DEF Yield, IInv, GoodRest
<1>2. NoneBorn(pcb)
  BY DEF NoneBorn
<1> QED
  BY <1>1, <1>2, InvFacts, DispatchInv DEF Yield

(* createProcess() hands out a pid that no queue holds. *)
LEMMA CreateProcessInv == IInv /\ CreateProcess => IInv'
<1> SUFFICES ASSUME IInv,
                    NEW prio \in Priorities, NEW fg \in BOOLEAN, NEW tty \in BOOLEAN,
                    NEW alloc \in AllocFails \cup {"none"},
                    createProcess(prio, fg, tty, alloc)
             PROVE  IInv'
  BY DEF CreateProcess
<1>1. /\ nextFreePid \in Pid /\ nextFreePid >= 2
      /\ nextFreePid' = nextFreePid + 1 /\ nextFreePid' \in 2 .. MaxPid + 1
      /\ UNCHANGED <<foreground, currentPid, quantum, cpu>>
  BY ConstantFacts DEF createProcess, IInv, GoodRest, Pid
<1>2. CASE alloc = "stack"
  <2>1. UNCHANGED <<pcb, queue, current, frame>>
    BY <1>2 DEF createProcess
  <2>2. FreshPids'
    BY <1>1, <2>1, ConstantFacts DEF IInv, FreshPids, Pid
  <2> QED
    BY <1>1, <2>1, <2>2 DEF IInv, GoodLists, GoodRest, CurrentIsRunnable, Lost, InSomeQueue, InQueue
<1>3. CASE alloc # "stack"
  <2> DEFINE p        == nextFreePid
             asked    == prio % 256
             priority == IF asked > IDLE_PRIORITY THEN MAX_PRIORITY ELSE asked
             blocked  == ~fg /\ tty
             added    == ~blocked /\ priority # IDLE_PRIORITY
             dest     == IF blocked THEN "blocked" ELSE "ready"
             new      == [state |-> IF blocked THEN "BLOCKED" ELSE "READY",
                          parentPid |-> current, waitingForPid |-> None,
                          priority |-> priority, foreground |-> fg, rsp |-> p]
  <2>1. /\ pcb' = [pcb EXCEPT ![p] = new]
        /\ frame' = [frame EXCEPT ![p] = At("user")]
        /\ current' = IF added /\ current = Idle THEN p ELSE current
        /\ queue' = IF (blocked \/ added) /\ alloc # "node"
                    THEN [queue EXCEPT ![dest] = Append(@, p)] ELSE queue
    BY <1>3 DEF createProcess
  <2>2. priority \in 0 .. IDLE_PRIORITY
    <3>1. prio \in Int /\ prio % 256 \in 0 .. 255
      BY SchedulerAssumption
    <3> QED
      BY <3>1, ConstantFacts DEF IDLE_PRIORITY
  <2>3. new \in PCB /\ new.state = (IF blocked THEN "BLOCKED" ELSE "READY") /\ new.priority = priority
    BY <1>1, <2>2, InvFacts, ConstantFacts DEF PCB, ProcessState
  <2> HIDE DEF new, priority
  <2>4. /\ pcb' \in [Pid -> PCB] /\ pcb'[p] = new
        /\ \A q \in Pid \ {p} : pcb'[q] = pcb[q]
    BY <1>1, <2>1, <2>3, InvFacts
  <2>5. pcb[p].state = "FREE" /\ \A n \in QueueName : p \notin ToSet(queue[n])
    <3>1. pcb[p].state = "FREE"
      BY <1>1, ConstantFacts DEF IInv, FreshPids
    <3> QED
      BY <3>1, InvFacts, StatesOfFacts DEF GoodLists
  <2>6. p # Idle /\ dest \in QueueName /\ new.state \in StatesOf[dest]
    BY <1>1, <2>3, QueueNames, StatesOfFacts DEF Idle
  <2>7. frame' \in [Context -> Frame]
    BY <2>1, FrameFacts
  <2>8. FreshPids'
    <3> SUFFICES ASSUME NEW q \in Pid, q >= nextFreePid' PROVE pcb'[q].state = "FREE"
      BY DEF FreshPids
    <3>1. q # p /\ q >= nextFreePid
      BY <1>1, ConstantFacts DEF Pid
    <3> QED
      BY <3>1, <2>4 DEF IInv, FreshPids
  <2>9. current' \in Pid
    BY <1>1, <2>1, InvFacts
  <2> HIDE DEF p
  <2>10. CASE (blocked \/ added) /\ alloc # "node"
    <3>1. /\ queue' = [queue EXCEPT ![dest] = Append(queue[dest], p)]
          /\ queue \in [QueueName -> Seq(Pid)] /\ IsInjective(queue[dest])
      BY <2>1, <2>6, <2>10, InvFacts DEF GoodLists
    <3> HIDE DEF dest
    <3>2. /\ Append(queue[dest], p) \in Seq(Pid) /\ IsInjective(Append(queue[dest], p))
          /\ ToSet(Append(queue[dest], p)) = ToSet(queue[dest]) \cup {p}
      BY <3>1, <2>5, <2>6, <1>1, EnqueueFacts DEF p
    <3>3. /\ queue' \in [QueueName -> Seq(Pid)]
          /\ \A n \in QueueName : IsInjective(queue'[n])
          /\ ToSet(queue'[dest]) = ToSet(queue[dest]) \cup {p}
          /\ \A n \in QueueName \ {dest} : queue'[n] = queue[n]
      BY <3>1, <3>2, <2>6, InvFacts DEF GoodLists
    <3>4. ASSUME NEW n \in QueueName, NEW q \in ToSet(queue'[n])
          PROVE  q # Idle /\ pcb'[q].state \in StatesOf[n]
      <4>1. CASE q = p
        <5>1. n = dest
          BY <4>1, <3>3, <2>5
        <5> QED
          BY <4>1, <5>1, <2>4, <2>6
      <4>2. CASE q # p
        <5>1. q \in ToSet(queue[n]) /\ q \in Pid
          BY <4>2, <3>3, InvFacts
        <5> QED
          BY <4>2, <5>1, <2>4, InvFacts DEF GoodLists
      <4> QED
        BY <4>1, <4>2
    <3>5. ASSUME NEW q \in Pid, pcb'[q].state # "FREE", q # Idle,
                 \A n \in QueueName : q \notin ToSet(queue'[n])
          PROVE  /\ pcb'[q].state \in {"READY", "BLOCKED"}
                 /\ pcb'[q].priority = IDLE_PRIORITY \/ "node" \in AllocFails
      <4>1. q # p /\ \A n \in QueueName : q \notin ToSet(queue[n])
        BY <3>3, <3>5, <2>6
      <4> QED
        BY <4>1, <3>5, <2>4, InvFacts DEF GoodLists
    <3>6. GoodLists(pcb', queue')
      BY <2>4, <3>3, <3>4, <3>5 DEF GoodLists
    <3>7. CurrentIsRunnable'
      <4>1. CASE current' = p /\ dest = "ready"
        <5>1. current' \in ToSet(queue'["ready"])
          BY <4>1, <3>3
        <5>2. InQueue("ready", current)'
          BY <5>1 DEF InQueue
        <5> QED
          BY <5>2 DEF CurrentIsRunnable
      <4>2. CASE current' = current
        <5>1. current # p
          BY <2>5, <2>6, QueueNames DEF IInv, CurrentIsRunnable, Lost, InQueue
        <5>2. Kept(pcb', queue', p)
          BY <3>3, <3>6, <2>4, <2>6, QueueNames DEF Kept
        <5> QED
          BY <4>2, <5>1, <5>2, KeptRunnable
      <4> QED
        BY <4>1, <4>2, <2>1 DEF dest
    <3> QED
      BY <3>6, <3>7, <1>1, <2>7, <2>8, <2>9 DEF IInv, GoodRest
  <2>11. CASE ~((blocked \/ added) /\ alloc # "node")
    <3>1. queue' = queue
      BY <2>1, <2>11
    <3>2. "node" \in AllocFails \/ new.priority = IDLE_PRIORITY
      BY <2>3, <2>11
    <3>3. /\ new.state \in {"READY", "BLOCKED"}
      BY <2>3
    <3>4. \A n \in QueueName : \A q \in ToSet(queue'[n]) : q # Idle /\ pcb'[q].state \in StatesOf[n]
      BY <3>1, <2>4, <2>5, InvFacts DEF GoodLists
    <3>5. GoodLists(pcb', queue')
      BY <3>1, <3>2, <3>3, <3>4, <2>4, InvFacts DEF GoodLists
    <3>6. CurrentIsRunnable'
      <4>1. CASE current' = p
        <5>1. pcb'[current'].state # "FREE" /\ current' # Idle
              /\ \A n \in QueueName : current' \notin ToSet(queue'[n])
          BY <4>1, <3>1, <3>3, <2>4, <2>5, <2>6
        <5>2. Lost(current)'
          BY <5>1 DEF Lost, InSomeQueue, InQueue
        <5>3. "node" \in AllocFails
          <6>1. current # p
            BY <2>5, <2>6, QueueNames DEF IInv, CurrentIsRunnable, Lost, InQueue
          <6> QED
            BY <6>1, <4>1, <2>1, <2>11
        <5> QED
          BY <5>2, <5>3 DEF CurrentIsRunnable
      <4>2. CASE current' = current /\ current' # p
        <5>1. Kept(pcb', queue', p)
          BY <3>1, <3>5, <2>4 DEF Kept
        <5> QED
          BY <4>2, <5>1, KeptRunnable
      <4> QED
        BY <4>1, <4>2, <2>1
    <3> QED
      BY <3>5, <3>6, <1>1, <2>7, <2>8, <2>9 DEF IInv, GoodRest
  <2> QED
    BY <2>10, <2>11
<1> QED
  BY <1>2, <1>3

LEMMA ChangePrioInv == IInv /\ ChangePrio => IInv'
<1> SUFFICES ASSUME IInv, NEW p \in Pid, NEW newPrio \in Priorities, changePrio(p, newPrio)
             PROVE  IInv'
  BY DEF ChangePrio
<1> DEFINE prio == IF newPrio < MIN_PRIORITY THEN MIN_PRIORITY
                   ELSE IF newPrio > MAX_PRIORITY THEN MAX_PRIORITY ELSE newPrio
<1>1. /\ getProcess(p) /\ p # Idle
      /\ pcb' = [pcb EXCEPT ![p].priority = prio]
      /\ UNCHANGED <<queue, current, foreground, currentPid, quantum, nextFreePid, cpu, frame>>
  BY ConstantFacts DEF changePrio, Idle, SHELL_PID
<1>2. prio \in 0 .. IDLE_PRIORITY
  BY SchedulerAssumption, ConstantFacts DEF MIN_PRIORITY, IDLE_PRIORITY
<1> HIDE DEF prio
<1>3. /\ pcb' \in [Pid -> PCB]
      /\ \A q \in Pid : pcb'[q].state = pcb[q].state
      /\ \A q \in Pid \ {p} : pcb'[q] = pcb[q]
  BY <1>1, <1>2, InvFacts DEF PCB
<1>4. ASSUME NEW q \in Pid, pcb'[q].state # "FREE", q # Idle,
             \A n \in QueueName : q \notin ToSet(queue[n])
      PROVE  /\ pcb'[q].state \in {"READY", "BLOCKED"}
             /\ pcb'[q].priority = IDLE_PRIORITY \/ "node" \in AllocFails
  <2>1. /\ pcb[q].state \in {"READY", "BLOCKED"}
        /\ pcb[q].priority = IDLE_PRIORITY \/ "node" \in AllocFails
    BY <1>3, <1>4, InvFacts DEF GoodLists
  <2>2. CASE q # p
    BY <2>1, <2>2, <1>3
  <2>3. CASE q = p
    <3>1. p = current
      BY <2>3, <1>1, <1>4 DEF getProcess, InSomeQueue, InQueue
    <3>2. "node" \in AllocFails
      BY <3>1, <2>3, <1>1, <1>4, QueueNames DEF IInv, CurrentIsRunnable, InQueue
    <3> QED
      BY <3>2, <2>1, <2>3, <1>3
  <2> QED
    BY <2>2, <2>3
<1>5. GoodLists(pcb', queue')
  BY <1>1, <1>3, <1>4, InvFacts DEF GoodLists
<1>6. CurrentIsRunnable'
  BY <1>1, <1>3, InvFacts DEF IInv, CurrentIsRunnable, Lost, InSomeQueue, InQueue
<1> QED
  BY <1>1, <1>3, <1>5, <1>6 DEF IInv, GoodRest, FreshPids

-----------------------------------------------------------------------------
(* Whoever sits in another queue than the ready one is not running. *)
LEMMA NotCurrent ==
  ASSUME IInv, NEW n \in QueueName, n # "ready", NEW p \in ToSet(queue[n])
  PROVE  p # current
<1>1. p # Idle
  BY InvFacts DEF GoodLists
<1>2. p \notin ToSet(queue["ready"])
  BY InvFacts, OneQueue, QueueNames
<1> QED
  BY <1>1, <1>2 DEF IInv, CurrentIsRunnable, Lost, InSomeQueue, InQueue

(* blockProcess(), from the system call and from waitpid(). *)
LEMMA BlockProcessInv ==
  ASSUME IInv, NEW P \in [Pid -> PCB], NEW p \in Pid,
         \A q \in Pid : P[q].state = pcb[q].state /\ P[q].priority = pcb[q].priority,
         blockProcess(P, p), nextFreePid' = nextFreePid, frame' \in [Context -> Frame]
  PROVE  IInv'
<1> DEFINE from == IF InQueue("ready", p) THEN "ready" ELSE "blockedBySem"
           P1   == [P EXCEPT ![p].state = "BLOCKED"]
           Q1   == switchProcess(queue, from, "blocked", p)
<1>1. /\ from \in QueueName /\ from # "blocked" /\ p \in ToSet(queue[from])
      /\ IF p = current THEN Dispatch(P1, Q1, current, foreground)
         ELSE /\ pcb' = P1 /\ queue' = Q1
              /\ UNCHANGED <<current, foreground, currentPid, quantum, cpu>>
  BY QueueNames DEF blockProcess, CanBlock, InQueue
<1>2. /\ P1 \in [Pid -> PCB] /\ P1[p].state = "BLOCKED"
      /\ P1[p].state \in StatesOf["blocked"]
      /\ \A q \in Pid \ {p} : P1[q].state = pcb[q].state /\ P1[q].priority = pcb[q].priority
  BY StatesOfFacts DEF PCB, ProcessState
<1> HIDE DEF P1, from
<1>3. Kept(P1, Q1, p) /\ NoneBorn(P1)
  BY <1>1, <1>2, QueueNames, MoveKept
<1> HIDE DEF Q1
<1>4. CASE p = current
  BY <1>1, <1>3, <1>4, InvFacts, DispatchInv DEF Kept
<1>5. CASE p # current
  <2>1. /\ pcb' = P1 /\ queue' = Q1
        /\ UNCHANGED <<current, foreground, currentPid, quantum, cpu>>
    BY <1>1, <1>5
  <2>2. CurrentIsRunnable'
    BY <1>3, <1>5, <2>1, KeptRunnable
  <2> QED
    BY <1>3, <2>1, <2>2, InvFacts, ListsInv
<1> QED
  BY <1>4, <1>5

LEMMA BlockInv == IInv /\ Block => IInv'
<1> SUFFICES ASSUME IInv, NEW p \in BlockTargets, blockProcess(pcb, p),
                    nextFreePid' = nextFreePid, frame' = frame
             PROVE  IInv'
  BY DEF Block
<1>1. p \in Pid
  BY SchedulerAssumption DEF Pid
<1> QED
  BY <1>1, InvFacts, FrameFacts, BlockProcessInv

(* A sleeper that is made ready. *)
LEMMA MakeReadyInv ==
  ASSUME IInv, NEW from \in QueueName, from # "ready", NEW p \in Pid, MakeReady(from, p)
  PROVE  IInv'
<1> DEFINE P1 == [pcb EXCEPT ![p].state = "READY"]
           Q1 == switchProcess(queue, from, "ready", p)
<1>1. /\ p \in ToSet(queue[from]) /\ pcb' = P1 /\ queue' = Q1
      /\ UNCHANGED <<current, foreground, currentPid, quantum, nextFreePid, cpu, frame>>
  BY DEF MakeReady, InQueue
<1>2. /\ P1 \in [Pid -> PCB] /\ P1[p].state = "READY"
      /\ P1[p].state \in StatesOf["ready"]
      /\ \A q \in Pid \ {p} : P1[q].state = pcb[q].state /\ P1[q].priority = pcb[q].priority
  BY InvFacts, StatesOfFacts DEF PCB, ProcessState
<1> HIDE DEF P1
<1>3. Kept(P1, Q1, p) /\ NoneBorn(P1)
  BY <1>1, <1>2, QueueNames, MoveKept
<1> HIDE DEF Q1
<1>4. CurrentIsRunnable'
  BY <1>1, <1>3, NotCurrent, KeptRunnable
<1> QED
  BY <1>1, <1>3, <1>4, InvFacts, FrameFacts, ListsInv

LEMMA UnblockInv == IInv /\ Unblock => IInv'
<1> SUFFICES ASSUME IInv, NEW p \in BlockTargets, MakeReady("blocked", p) PROVE IInv'
  BY DEF Unblock
<1>1. p \in Pid
  BY SchedulerAssumption DEF Pid
<1> QED
  BY <1>1, QueueNames, MakeReadyInv

LEMMA UnblockBySemInv == IInv /\ UnblockBySem => IInv'
BY QueueNames, MakeReadyInv DEF UnblockBySem

LEMMA BlockBySemInv == IInv /\ BlockBySem => IInv'
<1> SUFFICES ASSUME IInv, BlockBySem PROVE IInv'
  OBVIOUS
<1> DEFINE P1 == [pcb EXCEPT ![current].state = "WAITING_SEM"]
           Q1 == switchProcess(queue, "ready", "blockedBySem", current)
<1>1. /\ current \in ToSet(queue["ready"])
      /\ Dispatch(P1, Q1, current, foreground)
      /\ frame' \in [Context -> Frame] /\ nextFreePid' = nextFreePid
  BY FrameFacts DEF BlockBySem, InQueue
<1>2. /\ P1 \in [Pid -> PCB] /\ P1[current].state = "WAITING_SEM"
      /\ P1[current].state \in StatesOf["blockedBySem"]
      /\ \A q \in Pid \ {current} : P1[q].state = pcb[q].state /\ P1[q].priority = pcb[q].priority
  BY InvFacts, StatesOfFacts DEF PCB, ProcessState
<1> HIDE DEF P1
<1>3. Kept(P1, Q1, current) /\ NoneBorn(P1)
  BY <1>1, <1>2, QueueNames, MoveKept
<1> HIDE DEF Q1
<1> QED
  BY <1>1, <1>3, InvFacts, DispatchInv DEF Kept

LEMMA KernelReturnInv == IInv /\ KernelReturn => IInv'
<1> SUFFICES ASSUME IInv, KernelReturn PROVE IInv'
  OBVIOUS
<1>1. /\ frame' \in [Context -> Frame]
      /\ UNCHANGED <<pcb, queue, current, foreground, currentPid, quantum, nextFreePid, cpu>>
  BY FrameFacts DEF KernelReturn
<1> QED
  BY <1>1 DEF IInv, GoodLists, GoodRest, CurrentIsRunnable, FreshPids, Lost, InSomeQueue, InQueue

-----------------------------------------------------------------------------
LEMMA FreePcbFacts == FreePcb \in PCB /\ FreePcb.state = "FREE"
<1>1. 0 \in 0 .. IDLE_PRIORITY
  BY ConstantFacts DEF IDLE_PRIORITY
<1> QED
  BY <1>1 DEF PCB, ProcessState, FreePcb, None, Context, Boot

(* wakeupWaitingParent(), on the lists that hold the new zombie. *)
LEMMA WokenKept ==
  ASSUME IInv, NEW P, NEW Q, NEW p \in Pid, Kept(P, Q, p), NoneBorn(P),
         p \in ToSet(Q["zombie"]), NEW parent \in Pid \cup {None}
  PROVE  /\ Kept(wakeupWaitingParent(P, Q, parent, p).pcb,
                 wakeupWaitingParent(P, Q, parent, p).queue, p)
         /\ NoneBorn(wakeupWaitingParent(P, Q, parent, p).pcb)
<1> DEFINE woken == wakeupWaitingParent(P, Q, parent, p)
<1>1. GoodLists(P, Q) /\ P \in [Pid -> PCB]
  BY DEF Kept, GoodLists
<1>2. CASE parent = Idle
  <2> DEFINE P1 == [P EXCEPT ![p] = FreePcb]
             Q1 == removeZombieProcess(Q, p)
  <2>1. woken = [pcb |-> P1, queue |-> Q1]
    BY <1>2 DEF wakeupWaitingParent
  <2>2. /\ P1 \in [Pid -> PCB] /\ P1[p].state = "FREE"
        /\ \A q \in Pid \ {p} : P1[q].state = P[q].state /\ P1[q].priority = P[q].priority
    BY <1>1, FreePcbFacts
  <2> HIDE DEF P1, woken
  <2>3. GoodLists(P1, Q1) /\ \A n \in QueueName : ToSet(Q1[n]) = ToSet(Q[n]) \ {p}
    BY <1>1, <2>2, ReapFacts
  <2> HIDE DEF Q1
  <2>4. NoneBorn(P1)
    BY <2>2 DEF NoneBorn
  <2>5. \A q \in Pid \ {p} : q \in ToSet(queue["ready"]) => q \in ToSet(Q1["ready"])
    BY <2>3, QueueNames DEF Kept
  <2>6. ASSUME NEW q \in Pid \ {p}, \A n \in QueueName : q \notin ToSet(queue[n])
        PROVE  P1[q].state = pcb[q].state /\ \A n \in QueueName : q \notin ToSet(Q1[n])
    <3>1. P[q].state = pcb[q].state /\ \A n \in QueueName : q \notin ToSet(Q[n])
      BY <2>6 DEF Kept
    <3> QED
      BY <3>1, <2>2, <2>3
  <2>7. Kept(P1, Q1, p)
    BY <2>3, <2>5, <2>6 DEF Kept
  <2> QED
    BY <2>1, <2>4, <2>7 DEF woken
<1>3. CASE parent # Idle /\ parent # None /\ parent \in ToSet(Q["blocked"])
           /\ P[parent].state = "BLOCKED" /\ P[parent].waitingForPid = p
  <2> DEFINE P1 == [P EXCEPT ![parent].state = "READY"]
             Q1 == switchProcess(Q, "blocked", "ready", parent)
  <2>1. woken = [pcb |-> P1, queue |-> Q1]
    BY <1>3 DEF wakeupWaitingParent
  <2>2. /\ P1 \in [Pid -> PCB] /\ P1[parent].state = "READY"
        /\ P1[parent].state \in StatesOf["ready"]
        /\ \A q \in Pid \ {parent} : P1[q].state = P[q].state /\ P1[q].priority = P[q].priority
    BY <1>1, <1>3, StatesOfFacts DEF PCB, ProcessState
  <2> HIDE DEF P1, woken
  <2>3. /\ GoodLists(P1, Q1)
        /\ ToSet(Q1["blocked"]) = ToSet(Q["blocked"]) \ {parent}
        /\ ToSet(Q1["ready"]) = ToSet(Q["ready"]) \cup {parent}
        /\ \A n \in QueueName \ {"blocked", "ready"} : Q1[n] = Q[n]
    <3>1. /\ GoodLists(P, Q) /\ "blocked" \in QueueName /\ "ready" \in QueueName
          /\ "blocked" # "ready" /\ parent \in ToSet(Q["blocked"])
      BY <1>1, <1>3, QueueNames
    <3>2. GoodLists(P1, Q1)
      BY ONLY <3>1, <2>2, MoveFacts
    <3>3. ToSet(Q1["blocked"]) = ToSet(Q["blocked"]) \ {parent}
      BY ONLY <3>1, <2>2, MoveFacts
    <3>4. ToSet(Q1["ready"]) = ToSet(Q["ready"]) \cup {parent}
      BY ONLY <3>1, <2>2, MoveFacts
    <3>5. \A n \in QueueName \ {"blocked", "ready"} : Q1[n] = Q[n]
      BY ONLY <3>1, <2>2, MoveFacts
    <3> QED
      BY <3>2, <3>3, <3>4, <3>5
  <2> HIDE DEF Q1
  <2>4. \A n \in QueueName : ToSet(Q1[n]) \subseteq ToSet(Q[n]) \cup {parent}
    BY <2>3
  <2>5. ASSUME NEW q \in Pid \ {p}, \A n \in QueueName : q \notin ToSet(queue[n])
        PROVE  P1[q].state = pcb[q].state /\ \A n \in QueueName : q \notin ToSet(Q1[n])
    <3>1. P[q].state = pcb[q].state /\ \A n \in QueueName : q \notin ToSet(Q[n])
      BY <2>5 DEF Kept
    <3>2. q # parent
      BY <3>1, <1>3, QueueNames
    <3> QED
      BY <3>1, <3>2, <2>2, <2>4
  <2>6. \A q \in Pid \ {p} : q \in ToSet(queue["ready"]) => q \in ToSet(Q1["ready"])
    BY <2>3 DEF Kept
  <2>7. NoneBorn(P1)
    BY <1>3, <2>2 DEF NoneBorn
  <2> QED
    BY <2>1, <2>3, <2>5, <2>6, <2>7 DEF woken, Kept
<1>4. CASE parent # Idle /\ ~(parent # None /\ parent \in ToSet(Q["blocked"])
                              /\ P[parent].state = "BLOCKED" /\ P[parent].waitingForPid = p)
  <2>1. woken = [pcb |-> P, queue |-> Q]
    BY <1>4 DEF wakeupWaitingParent
  <2> HIDE DEF woken
  <2> QED
    BY <2>1 DEF woken
<1> QED
  BY <1>2, <1>3, <1>4

(* kill(), whoever calls it. *)
LEMMA KillProcessInv ==
  ASSUME IInv, NEW p \in Pid, kill(p), frame' \in [Context -> Frame]
  PROVE  IInv'
<1> DEFINE cur == IF current = p THEN Idle ELSE current
           fg  == foregroundAfterKill(p)
<1>1. /\ cur \in Pid /\ fg \in Pid \cup {None}
      /\ cur # Idle => cur = current /\ current # p
      /\ nextFreePid' = nextFreePid
  BY InvFacts, ConstantFacts DEF foregroundAfterKill, kill
<1>2. ASSUME NEW n \in Living, InQueue(n, p),
             LET woken == wakeupWaitingParent([pcb EXCEPT ![p].state = "ZOMBIE"],
                                              switchProcess(queue, n, "zombie", p),
                                              pcb[p].parentPid, p)
             IN IF p = currentPid
                THEN Dispatch(woken.pcb, woken.queue, cur, fg)
                ELSE /\ pcb' = woken.pcb /\ queue' = woken.queue
                     /\ current' = cur /\ foreground' = fg
                     /\ UNCHANGED <<currentPid, quantum, cpu>>
      PROVE  IInv'
  <2> DEFINE P1 == [pcb EXCEPT ![p].state = "ZOMBIE"]
             Q1 == switchProcess(queue, n, "zombie", p)
             woken == wakeupWaitingParent(P1, Q1, pcb[p].parentPid, p)
  <2>1. /\ P1 \in [Pid -> PCB] /\ P1[p].state = "ZOMBIE"
        /\ P1[p].state \in StatesOf["zombie"]
        /\ \A q \in Pid \ {p} : P1[q].state = pcb[q].state /\ P1[q].priority = pcb[q].priority
    BY InvFacts, StatesOfFacts DEF PCB, ProcessState
  <2>2. IF p = currentPid
        THEN Dispatch(woken.pcb, woken.queue, cur, fg)
        ELSE /\ pcb' = woken.pcb /\ queue' = woken.queue
             /\ current' = cur /\ foreground' = fg
             /\ UNCHANGED <<currentPid, quantum, cpu>>
    BY <1>2
  <2>3. n \in QueueName /\ n # "zombie" /\ p \in ToSet(queue[n])
    BY <1>2, QueueNames DEF InQueue
  <2> HIDE DEF P1, cur, fg, woken
  <2>4. Kept(P1, Q1, p) /\ NoneBorn(P1)
    BY <2>1, <2>3, QueueNames, MoveKept
  <2>5. p \in ToSet(Q1["zombie"])
    <3>1. GoodLists(pcb, queue) /\ "zombie" \in QueueName
      BY InvFacts, QueueNames
    <3>2. ToSet(Q1["zombie"]) = ToSet(queue["zombie"]) \cup {p}
      BY ONLY <2>1, <2>3, <3>1, MoveFacts
    <3> QED
      BY <3>2
  <2>6. pcb[p].parentPid \in Pid \cup {None}
    BY InvFacts DEF PCB
  <2> HIDE DEF Q1
  <2>7. Kept(woken.pcb, woken.queue, p) /\ NoneBorn(woken.pcb)
    BY <2>4, <2>5, <2>6, WokenKept DEF woken
  <2>8. CASE p = currentPid
    BY <1>1, <2>2, <2>7, <2>8, DispatchInv DEF Kept
  <2>9. CASE p # currentPid
    <3>1. /\ pcb' = woken.pcb /\ queue' = woken.queue
          /\ current' = cur /\ foreground' = fg
          /\ UNCHANGED <<currentPid, quantum, cpu>>
      BY <2>2, <2>9
    <3>2. CurrentIsRunnable'
      <4>1. CASE cur = Idle
        BY <4>1, <3>1 DEF CurrentIsRunnable
      <4>2. CASE cur # Idle
        BY <4>2, <1>1, <2>7, <3>1, KeptRunnable
      <4> QED
        BY <4>1, <4>2
    <3> QED
      BY <1>1, <2>7, <3>1, <3>2, ListsInv
  <2> QED
    BY <2>8, <2>9
<1>3. CASE /\ current' = Idle
           /\ UNCHANGED <<pcb, queue, foreground, currentPid, quantum, cpu>>
  <2>1. CurrentIsRunnable'
    BY <1>3 DEF CurrentIsRunnable
  <2> QED
    BY <1>1, <1>3, <2>1, ConstantFacts DEF IInv, GoodLists, GoodRest, FreshPids
<1> QED
  BY <1>2, <1>3 DEF kill

LEMMA KillInv == IInv /\ Kill => IInv'
BY KillProcessInv, FrameFacts DEF Kill

LEMMA CtrlCInv == IInv /\ CtrlC => IInv'
<1> SUFFICES ASSUME IInv, CtrlC PROVE IInv'
  OBVIOUS
<1>1. kill(foreground) /\ frame' = frame /\ foreground > SHELL_PID
  BY DEF CtrlC, kill
<1>2. foreground \in Pid
  BY <1>1, InvFacts DEF SHELL_PID, None
<1> QED
  BY <1>1, <1>2, FrameFacts, KillProcessInv

LEMMA ExitInv == IInv /\ Exit => IInv'
<1> SUFFICES ASSUME IInv, Exit PROVE IInv'
  OBVIOUS
<1>1. frame' \in [Context -> Frame]
  BY FrameFacts DEF Exit
<1>2. CASE kill(current)
  BY <1>1, <1>2, InvFacts, KillProcessInv
<1>3. CASE UNCHANGED <<pcb, queue, current, foreground, currentPid, quantum, nextFreePid, cpu>>
  BY <1>1, <1>3 DEF IInv, GoodLists, GoodRest, CurrentIsRunnable, FreshPids, Lost, InSomeQueue, InQueue
<1> QED
  BY <1>2, <1>3 DEF Exit

-----------------------------------------------------------------------------
(* A process that is not in a queue is not taken out of it. *)
LEMMA RemoveAbsent ==
  ASSUME NEW S, NEW s \in Seq(S), NEW p, p \notin ToSet(s)
  PROVE  RemoveFirst(s, p) = s
BY LenProperties DEF RemoveFirst, ToSet

(* reapChild(), from both of its calls in waitpid().  The parent may be a   *)
(* PCB that was freed, or none: then its field is written to no effect.     *)
LEMMA ReapChildInv ==
  ASSUME IInv, NEW p \in Pid, pcb[p].state = "ZOMBIE", NEW parent \in Pid \cup {None},
         reapChild(parent, p), frame' \in [Context -> Frame]
  PROVE  IInv'
<1>1. /\ pcb' = [pcb EXCEPT ![parent].waitingForPid = None, ![p] = FreePcb]
      /\ queue' = removeZombieProcess(queue, p)
      /\ UNCHANGED <<current, foreground, currentPid, quantum, nextFreePid, cpu>>
  BY DEF reapChild
<1>2. /\ pcb' \in [Pid -> PCB] /\ pcb'[p].state = "FREE"
      /\ \A q \in Pid \ {p} : pcb'[q].state = pcb[q].state /\ pcb'[q].priority = pcb[q].priority
  <2> DEFINE P1 == [pcb EXCEPT ![parent].waitingForPid = None]
  <2>1. /\ P1 \in [Pid -> PCB]
        /\ \A q \in Pid : P1[q].state = pcb[q].state /\ P1[q].priority = pcb[q].priority
    BY InvFacts DEF PCB
  <2>2. pcb' = [P1 EXCEPT ![p] = FreePcb]
    BY <1>1
  <2> HIDE DEF P1
  <2> QED
    BY <2>1, <2>2, FreePcbFacts
<1>3. NoneBorn(pcb')
  BY <1>2 DEF NoneBorn
<1>4. GoodLists(pcb', queue') /\ \A n \in QueueName : ToSet(queue'[n]) = ToSet(queue[n]) \ {p}
  <2>1. CASE p = Idle
    <3>1. \A n \in QueueName : p \notin ToSet(queue[n])
      BY <2>1, InvFacts DEF GoodLists
    <3>2. queue' = queue
      <4>1. RemoveFirst(queue["zombie"], p) = queue["zombie"]
        BY <3>1, InvFacts, QueueNames, RemoveAbsent
      <4> QED
        BY <4>1, <1>1, InvFacts DEF removeZombieProcess
    <3>3. GoodLists(pcb', queue)
      BY <2>1, <1>2, InvFacts DEF GoodLists
    <3> QED
      BY <3>1, <3>2, <3>3
  <2>2. CASE p # Idle
    <3>1. p \in ToSet(queue["zombie"])
      <4>1. ~(\A n \in QueueName : p \notin ToSet(queue[n]))
        BY <2>2, InvFacts DEF GoodLists
      <4>2. PICK n \in QueueName : p \in ToSet(queue[n])
        BY <4>1
      <4>3. "ZOMBIE" \in StatesOf[n]
        BY <4>2, InvFacts DEF GoodLists
      <4> QED
        BY <4>2, <4>3, StatesOfFacts
    <3>2. GoodLists(pcb, queue)
      BY InvFacts
    <3>3. GoodLists(pcb', queue')
      BY ONLY <1>1, <1>2, <3>1, <3>2, ReapFacts
    <3>4. \A n \in QueueName : ToSet(removeZombieProcess(queue, p)[n]) = ToSet(queue[n]) \ {p}
      BY ONLY <1>2, <3>1, <3>2, ReapFacts
    <3> QED
      BY <1>1, <3>3, <3>4
  <2> QED
    BY <2>1, <2>2
<1>5. Kept(pcb', queue', p)
  BY <1>2, <1>4, QueueNames DEF Kept
<1>6. CurrentIsRunnable'
  <2>1. CASE current = p
    <3>1. p = Idle
      BY <2>1, InvFacts, QueueNames, StatesOfFacts
         DEF IInv, CurrentIsRunnable, InQueue, Lost, InSomeQueue, GoodLists
    <3> QED
      BY <2>1, <3>1, <1>1 DEF CurrentIsRunnable
  <2>2. CASE current # p
    BY <2>2, <1>1, <1>5, KeptRunnable
  <2> QED
    BY <2>1, <2>2
<1> QED
  BY <1>1, <1>3, <1>5, <1>6, InvFacts, ListsInv

LEMMA WaitpidReapInv == IInv /\ WaitpidReap => IInv'
<1> SUFFICES ASSUME IInv, NEW p \in Pid, pcb[p].state = "ZOMBIE", reapChild(current, p),
                    frame' = frame
             PROVE  IInv'
  BY DEF WaitpidReap
<1> QED
  BY InvFacts, FrameFacts, ReapChildInv

LEMMA WaitpidResumeInv == IInv /\ WaitpidResume => IInv'
<1> SUFFICES ASSUME IInv, WaitpidResume PROVE IInv'
  OBVIOUS
<1> DEFINE me == frame[cpu].me
           p  == frame[cpu].target
<1>1. /\ me \in Pid \cup {None} /\ p \in Pid \cup {None}
      /\ frame' \in [Context -> Frame]
  BY InvFacts, FrameFacts DEF Frame, WaitpidResume
<1>2. CASE getProcess(p) /\ pcb[p].state = "ZOMBIE" /\ reapChild(me, p)
  <2>1. p \in Pid
    BY <1>2, InvFacts, ConstantFacts DEF getProcess, InSomeQueue, InQueue
  <2> HIDE DEF me, p
  <2> QED
    BY <1>1, <1>2, <2>1, ReapChildInv
<1>3. CASE UNCHANGED <<pcb, queue, current, foreground, currentPid, quantum, nextFreePid, cpu>>
  BY <1>1, <1>3 DEF IInv, GoodLists, GoodRest, CurrentIsRunnable, FreshPids, Lost, InSomeQueue, InQueue
<1> QED
  BY <1>2, <1>3 DEF WaitpidResume

LEMMA WaitpidBlockInv == IInv /\ WaitpidBlock => IInv'
<1> SUFFICES ASSUME IInv, NEW p \in Pid, nextFreePid' = nextFreePid,
               \/ /\ blockProcess([pcb EXCEPT ![current].waitingForPid = p], current)
                  /\ frame' = [frame EXCEPT ![cpu] = [at |-> "waitpid", me |-> current, target |-> p]]
               \/ /\ ~CanBlock(current)
                  /\ pcb' = [pcb EXCEPT ![current].waitingForPid = None, ![current].state = "READY"]
                  /\ UNCHANGED <<queue, current, foreground, currentPid, quantum, cpu, frame>>
             PROVE  IInv'
  BY DEF WaitpidBlock
<1>1. CASE /\ blockProcess([pcb EXCEPT ![current].waitingForPid = p], current)
           /\ frame' = [frame EXCEPT ![cpu] = [at |-> "waitpid", me |-> current, target |-> p]]
  <2> DEFINE P == [pcb EXCEPT ![current].waitingForPid = p]
  <2>1. /\ P \in [Pid -> PCB]
        /\ \A q \in Pid : P[q].state = pcb[q].state /\ P[q].priority = pcb[q].priority
    <3> DEFINE r == [pcb[current] EXCEPT !.waitingForPid = p]
    <3>1. r \in PCB /\ r.state = pcb[current].state /\ r.priority = pcb[current].priority
      <4>1. pcb[current] \in PCB
        BY InvFacts
      <4> QED
        BY ONLY <4>1, p \in Pid DEF PCB
    <3>2. P = [pcb EXCEPT ![current] = r]
      OBVIOUS
    <3> HIDE DEF r, P
    <3> QED
      BY <3>1, <3>2, InvFacts
  <2>2. blockProcess(P, current)
    BY <1>1
  <2> HIDE DEF P
  <2> QED
    BY <1>1, <2>1, <2>2, InvFacts, FrameFacts, BlockProcessInv
<1>2. CASE /\ ~CanBlock(current)
           /\ pcb' = [pcb EXCEPT ![current].waitingForPid = None, ![current].state = "READY"]
           /\ UNCHANGED <<queue, current, foreground, currentPid, quantum, cpu, frame>>
  <2>1. current = Idle \/ (Lost(current) /\ "node" \in AllocFails)
    BY <1>2 DEF CanBlock, IInv, CurrentIsRunnable
  <2>2. \A n \in QueueName : current \notin ToSet(queue[n])
    BY <2>1, InvFacts DEF GoodLists, Lost, InSomeQueue, InQueue
  <2>3. /\ pcb' \in [Pid -> PCB] /\ pcb'[current].state = "READY"
        /\ \A q \in Pid \ {current} : pcb'[q] = pcb[q]
    <3> DEFINE r == [pcb[current] EXCEPT !.waitingForPid = None, !.state = "READY"]
    <3>1. pcb[current] \in PCB
      BY InvFacts
    <3>2. r \in PCB /\ r.state = "READY"
      BY <3>1 DEF PCB, ProcessState
    <3>3. pcb' = [pcb EXCEPT ![current] = r]
      BY <1>2
    <3> HIDE DEF r
    <3> QED
      BY <3>2, <3>3, InvFacts
  <2>4. \A n \in QueueName : \A q \in ToSet(queue[n]) : q # Idle /\ pcb'[q].state \in StatesOf[n]
    BY <2>2, <2>3, InvFacts DEF GoodLists
  <2>5. ASSUME NEW q \in Pid, pcb'[q].state # "FREE", q # Idle,
               \A n \in QueueName : q \notin ToSet(queue[n])
        PROVE  /\ pcb'[q].state \in {"READY", "BLOCKED"}
               /\ pcb'[q].priority = IDLE_PRIORITY \/ "node" \in AllocFails
    <3>1. CASE q = current
      BY <3>1, <2>1, <2>3, <2>5
    <3>2. CASE q # current
      BY <3>2, <2>3, <2>5, InvFacts DEF GoodLists
    <3> QED
      BY <3>1, <3>2
  <2>6. GoodLists(pcb', queue')
    BY <1>2, <2>3, <2>4, <2>5, InvFacts DEF GoodLists
  <2>7. CurrentIsRunnable'
    BY <1>2, <2>1, <2>2, <2>3 DEF CurrentIsRunnable, Lost, InSomeQueue, InQueue
  <2>8. FreshPids'
    <3>1. current >= nextFreePid => FALSE
      BY <2>1, ConstantFacts DEF IInv, GoodRest, FreshPids, Lost, Idle
    <3> QED
      BY <3>1, <2>3 DEF IInv, FreshPids
  <2> QED
    BY <1>2, <2>3, <2>6, <2>7, <2>8 DEF IInv, GoodRest
<1> QED
  BY <1>1, <1>2

-----------------------------------------------------------------------------
(* Every action keeps the invariant. *)
LEMMA NextInv == IInv /\ [Next]_schedVars => IInv'
<1> SUFFICES ASSUME IInv, [Next]_schedVars PROVE IInv'
  OBVIOUS
<1>1. CASE TimerTick
  BY <1>1, TimerTickInv
<1>2. CASE Yield
  BY <1>2, YieldInv
<1>3. CASE CreateProcess
  BY <1>3, CreateProcessInv
<1>4. CASE ChangePrio
  BY <1>4, ChangePrioInv
<1>5. CASE Block
  BY <1>5, BlockInv
<1>6. CASE Unblock
  BY <1>6, UnblockInv
<1>7. CASE BlockBySem
  BY <1>7, BlockBySemInv
<1>8. CASE UnblockBySem
  BY <1>8, UnblockBySemInv
<1>9. CASE KernelReturn
  BY <1>9, KernelReturnInv
<1>10. CASE Kill
  BY <1>10, KillInv
<1>11. CASE CtrlC
  BY <1>11, CtrlCInv
<1>12. CASE Exit
  BY <1>12, ExitInv
<1>13. CASE WaitpidReap
  BY <1>13, WaitpidReapInv
<1>14. CASE WaitpidBlock
  BY <1>14, WaitpidBlockInv
<1>15. CASE WaitpidResume
  BY <1>15, WaitpidResumeInv
<1>16. CASE UNCHANGED schedVars
  BY <1>16, StutterInv
<1> QED
  BY <1>1, <1>2, <1>3, <1>4, <1>5, <1>6, <1>7, <1>8, <1>9, <1>10, <1>11, <1>12, <1>13,
     <1>14, <1>15, <1>16 DEF Next

LEMMA InvImpliesTypes == IInv => TypeOK
BY DEF IInv, GoodLists, GoodRest, TypeOK

LEMMA InvImpliesDiscipline == IInv => QueueDiscipline
BY DEF IInv, GoodLists, QueueDiscipline, NoDuplicates, QueueMatchesState, OnlyUnqueuedAreLost,
       Lost, InSomeQueue, InQueue

(* The lists, counters and stack pointers of process.c and scheduler.c keep *)
(* their types, the quantum stays in the range calculateQuantum() gives it. *)
THEOREM TypeCorrect == Spec => []TypeOK
<1>1. Init => IInv
  BY InitInv
<1>2. IInv /\ [Next]_schedVars => IInv'
  BY NextInv
<1>3. IInv => TypeOK
  BY InvImpliesTypes
<1> QED
  BY <1>1, <1>2, <1>3, PTL DEF Spec

(* The queues agree with the PCBs in every reachable state: no process is   *)
(* in two queues or twice in one, each has a state of the queue it is in,   *)
(* and the current process is idle or ready (or one whose queue node could  *)
(* not be allocated).                                                       *)
THEOREM QueuesAgree == Spec => []QueueDiscipline
<1>1. Init => IInv
  BY InitInv
<1>2. IInv /\ [Next]_schedVars => IInv'
  BY NextInv
<1>3. IInv => QueueDiscipline
  BY InvImpliesDiscipline
<1> QED
  BY <1>1, <1>2, <1>3, PTL DEF Spec
=============================================================================
