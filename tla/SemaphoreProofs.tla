---------------------------- MODULE SemaphoreProofs ----------------------------
(***************************************************************************)
(* Proofs about Semaphores, for every set of semaphores and processes: it  *)
(* uses the scheduler as Scheduler specifies it, no token is left in a     *)
(* semaphore that somebody waits for, every step is one that               *)
(* CountingSemaphore allows, and with callers that keep to the protocol no *)
(* token is forged and none is lost.                                       *)
(***************************************************************************)
EXTENDS Semaphores, LifecycleProofs, FiniteSetTheorems, WellFoundedInduction

-----------------------------------------------------------------------------
(* Every step of the semaphores is a step of the scheduler, or leaves its   *)
(* variables alone.  The first waiter may be a stale pid: that a pid found  *)
(* in a process queue is one of Pid comes from the scheduler's invariant.   *)
LEMMA StepRefines ==
  ASSUME IInv, [SemNext]_vars
  PROVE  [Next]_schedVars
<1>1. CASE SchedulerStep
  BY <1>1 DEF SchedulerStep, Next
<1>2. CASE SemOpen \/ SemClose \/ TableReused \/ SemWaitTakes \/ SemWaitFails
  BY <1>2 DEF SemOpen, semInit, SemClose, TableReused, SemWaitTakes, SemWaitFails
<1>3. CASE SemWaitSleeps
  BY <1>3 DEF SemWaitSleeps, Next
<1>4. CASE SemPost
  <2>1. PICK s \in SemId :
          /\ Interruptible \/ InKernel
          /\ UNCHANGED schedVars \/ wakeFirst(s)
    BY <1>4 DEF SemPost
  <2>2. CASE UNCHANGED schedVars
    BY <2>2
  <2>3. CASE wakeFirst(s) /\ ~UNCHANGED schedVars
    <3> DEFINE p == Head(sem[s].blocked)
    <3>1. MakeReady("blockedBySem", p)
      BY <2>3 DEF wakeFirst
    <3> HIDE DEF p
    <3>2. p \in Pid
      BY <3>1, InvFacts, QueueNames DEF MakeReady, InQueue
    <3>3. UnblockBySem
      BY <2>1, <3>1, <3>2 DEF UnblockBySem
    <3> QED
      BY <3>3 DEF Next
  <2> QED
    BY <2>1, <2>2, <2>3
<1>5. CASE SemReturn
  BY <1>5 DEF SemReturn, Next
<1>6. CASE UNCHANGED vars
  BY <1>6 DEF vars
<1> QED
  BY <1>1, <1>2, <1>3, <1>4, <1>5, <1>6 DEF SemNext

(* The semaphores use the scheduler only as Scheduler specifies it: what is *)
(* proved and checked of the scheduler holds whatever the semaphores do.    *)
THEOREM SemaphoresUseScheduler == SemSpec => Spec
<1>1. SemInit => Init
  BY DEF SemInit
<1>2. Init => IInv
  BY InitInv
<1>3. IInv /\ [SemNext]_vars => [Next]_schedVars
  BY StepRefines
<1>4. IInv /\ [Next]_schedVars => IInv'
  BY NextInv
<1> QED
  BY <1>1, <1>2, <1>3, <1>4, PTL DEF SemSpec, Spec

-----------------------------------------------------------------------------
(* The parts of the semaphores' state the next theorem needs: types, and a  *)
(* semaphore without a live queue has no waiter.                            *)
SemInv ==
  /\ sem \in [SemId -> Sem]
  /\ NoWaiterWithTokens

LEMMA SemInitInv == SemInit => SemInv
BY DEF SemInit, semManager, SemInv, Sem, NoWaiterWithTokens

(* The table is freed once and for all. *)
LEMMA TableStays ==
  ASSUME [SemNext]_vars, TableKept'
  PROVE  TableKept /\ ~TableReused
BY DEF TableKept, SemNext, SchedulerStep, SemOpen, semInit, SemClose, TableReused, SemWaitTakes,
   SemWaitFails, SemWaitSleeps, SemPost, SemReturn, vars, semVars

(* One semaphore is replaced by r, the others keep their state. *)
LEMMA OneSemaphore ==
  ASSUME SemInv, NEW s \in SemId, NEW r \in Sem, sem' = [sem EXCEPT ![s] = r],
         TableKept' => TableKept /\ (r.value > 0 => r.blocked = <<>>)
  PROVE  SemInv'
BY DEF SemInv, NoWaiterWithTokens

LEMMA SemNextInv ==
  ASSUME SemInv, current \in Pid, [SemNext]_vars
  PROVE  SemInv'
<1>0. \A s \in SemId : /\ sem[s] \in Sem /\ sem[s].value \in Nat
                       /\ sem[s].blocked \in Seq(Pid)
                       /\ TableKept => (sem[s].value > 0 => sem[s].blocked = <<>>)
  BY DEF SemInv, Sem, NoWaiterWithTokens
<1>k. TableKept' => TableKept
  BY TableStays
<1>1. CASE UNCHANGED sem
  BY <1>1, <1>k DEF SemInv, NoWaiterWithTokens
<1>2. CASE SchedulerStep \/ SemWaitFails \/ SemReturn \/ UNCHANGED vars
  BY <1>1, <1>2 DEF SchedulerStep, SemWaitFails, SemReturn, vars, semVars
<1>3. CASE SemOpen
  <2>1. PICK s \in SemId : \E failed : semInit(s, failed)
    BY <1>3 DEF SemOpen
  <2>2. PICK failed : semInit(s, failed)
    BY <2>1
  <2> DEFINE r == [value |-> InitialValue, used |-> TRUE,
                   queue |-> IF failed THEN "none" ELSE "live", blocked |-> <<>>]
  <2>3. r \in Sem /\ r.blocked = <<>>
    BY SemaphoreAssumption DEF Sem
  <2>4. sem' = [sem EXCEPT ![s] = r]
    BY <2>2 DEF semInit
  <2> HIDE DEF r
  <2> QED
    BY <2>3, <2>4, <1>k, OneSemaphore
<1>4. CASE SemClose
  <2>1. PICK s \in SemId :
          sem' = [sem EXCEPT ![s] =
            [value |-> 0, used |-> FALSE,
             queue |-> IF @.queue = "none" THEN "none" ELSE "freed", blocked |-> <<>>]]
    BY <1>4 DEF SemClose
  <2> DEFINE r == [value |-> 0, used |-> FALSE,
                   queue |-> IF sem[s].queue = "none" THEN "none" ELSE "freed", blocked |-> <<>>]
  <2>2. r \in Sem /\ r.blocked = <<>>
    BY DEF Sem
  <2>3. sem' = [sem EXCEPT ![s] = r]
    BY <2>1, <1>0 DEF SemInv
  <2> HIDE DEF r
  <2> QED
    BY <2>2, <2>3, <1>k, OneSemaphore
<1>5. CASE SemWaitTakes
  <2>1. PICK s \in SemId : sem[s].value > 0 /\ sem' = [sem EXCEPT ![s].value = @ - 1]
    BY <1>5 DEF SemWaitTakes, HasToken, takeToken
  <2> DEFINE r == [sem[s] EXCEPT !.value = @ - 1]
  <2>2. r \in Sem /\ r.blocked = sem[s].blocked
    BY <2>1, <1>0 DEF Sem
  <2>3. sem' = [sem EXCEPT ![s] = r]
    BY <2>1
  <2> HIDE DEF r
  <2> QED
    BY <2>1, <2>2, <2>3, <1>0, <1>k, OneSemaphore
<1>6. CASE SemWaitSleeps
  <2>1. PICK s \in SemId :
          ~HasToken(s) /\ \E failed : sem' = enqueueWaiter(s, failed)
    BY <1>6 DEF SemWaitSleeps
  <2>2. CASE sem' = sem
    BY <1>1, <2>2
  <2>3. CASE sem' = [sem EXCEPT ![s].blocked = Append(@, current)]
    <3> DEFINE r == [sem[s] EXCEPT !.blocked = Append(@, current)]
    <3>1. Append(sem[s].blocked, current) \in Seq(Pid)
      BY <1>0
    <3>2. r \in Sem /\ r.value = sem[s].value
      BY <3>1, <1>0 DEF Sem
    <3>3. sem' = [sem EXCEPT ![s] = r]
      BY <2>3
    <3> HIDE DEF r
    <3> QED
      BY <2>1, <3>2, <3>3, <1>k, OneSemaphore DEF HasToken
  <2> QED
    BY <2>1, <2>2, <2>3 DEF enqueueWaiter
<1>7. CASE SemPost
  <2>1. PICK s \in SemId : sem' = afterPost(s)
    BY <1>7 DEF SemPost
  <2>2. CASE sem[s].blocked = <<>>
    <3> DEFINE r == [sem[s] EXCEPT !.value = @ + 1]
    <3>1. r \in Sem /\ r.blocked = sem[s].blocked
      BY <1>0 DEF Sem
    <3>2. sem' = [sem EXCEPT ![s] = r]
      BY <2>1, <2>2 DEF afterPost
    <3> HIDE DEF r
    <3> QED
      BY <2>2, <3>1, <3>2, <1>k, OneSemaphore
  <2>3. CASE sem[s].blocked # <<>>
    <3> DEFINE r == [sem[s] EXCEPT !.blocked = Tail(@)]
    <3>1. Tail(sem[s].blocked) \in Seq(Pid)
      BY <2>3, <1>0
    <3>2. r \in Sem /\ r.value = sem[s].value
      BY <3>1, <1>0 DEF Sem
    <3>3. sem' = [sem EXCEPT ![s] = r]
      BY <2>1, <2>3 DEF afterPost
    <3>4. TableKept => ~(r.value > 0)
      BY <2>3, <3>2, <1>0
    <3> HIDE DEF r
    <3> QED
      BY <3>2, <3>3, <3>4, <1>k, OneSemaphore
  <2> QED
    BY <2>2, <2>3
<1>8. CASE TableReused
  <2>1. PICK s \in SemId, v \in Garbage, u \in BOOLEAN : \E q \in {sem[s].queue, "none", "freed"} :
          sem' = [sem EXCEPT ![s] =
            [value |-> v, used |-> u, queue |-> q,
             blocked |-> IF q = "live" THEN @.blocked ELSE <<>>]]
    BY <1>8 DEF TableReused
  <2>2. PICK q \in {sem[s].queue, "none", "freed"} :
          sem' = [sem EXCEPT ![s] =
            [value |-> v, used |-> u, queue |-> q,
             blocked |-> IF q = "live" THEN @.blocked ELSE <<>>]]
    BY <2>1
  <2> DEFINE r == [value |-> v, used |-> u, queue |-> q,
                   blocked |-> IF q = "live" THEN sem[s].blocked ELSE <<>>]
  <2>3. r \in Sem
    BY <1>0, SemaphoreAssumption DEF Sem
  <2>4. sem' = [sem EXCEPT ![s] = r]
    BY <2>2 DEF SemInv
  <2>5. ~TableKept'
    BY <1>8, TableStays
  <2> HIDE DEF r
  <2> QED
    BY <2>3, <2>4, <2>5, OneSemaphore
<1> QED
  BY <1>8, <1>2, <1>3, <1>4, <1>5, <1>6, <1>7 DEF SemNext

(* Nobody waits for a token that is there: wait() and post() of any number  *)
(* of processes, on any number of semaphores, opened, closed or never       *)
(* opened, never leave a waiter in the queue of a semaphore above zero,     *)
(* unless a failing semInit() frees the table that they are all kept in.    *)
THEOREM NoTokenIsMissed == SemSpec => []NoWaiterWithTokens
<1>1. SemSpec => []TypeOK
  BY SemaphoresUseScheduler, TypeCorrect, PTL
<1>2. SemInit => SemInv
  BY SemInitInv
<1>3. TypeOK /\ SemInv /\ [SemNext]_vars => SemInv'
  BY SemNextInv DEF TypeOK
<1>4. SemInv => NoWaiterWithTokens
  BY DEF SemInv
<1> QED
  BY <1>1, <1>2, <1>3, <1>4, PTL DEF SemSpec

-----------------------------------------------------------------------------
(* The refinement.  wait() marks the context that sleeps, the scheduler the *)
(* process: the two agree because a process that is not idle runs in its    *)
(* own context, or in one whose own process is idle or dead (a process that *)
(* was killed in place leaves its stack to idle, and a process created by   *)
(* it inherits that stack).                                                 *)

Adrift(P, n, c) == c \in Pid \ {Idle} /\ c < n /\ P[c].state \in Gone

(* The context in use and the saved ones.  A current process that is in no  *)
(* queue was made current by createProcess(), and never had the CPU.        *)
Contexts(P, Q, cur, e, n) ==
  /\ e # Boot /\ e # cur => e = Idle \/ Adrift(P, n, e)
  /\ \A p \in Pid :
       P[p].state \notin Gone /\ P[p].rsp # p => P[p].rsp = Idle \/ Adrift(P, n, P[p].rsp)
  /\ cur # Idle /\ ~Queued(Q, cur) => e # cur

(* Who runs in a borrowed context never slept in its own.                   *)
Sleepers(W, P, cur, e, n) ==
  /\ \A p \in Pid : p >= n => W[p] = Nowhere
  /\ \A p \in Pid \ {Idle} :
       P[p].state \notin Gone /\ ContextOf(P, cur, e, p) # p => W[p] = Nowhere

ContextPart ==
  /\ sleepingOn \in [Context -> SemId \cup {Nowhere}]
  /\ Contexts(pcb, queue, current, cpu, nextFreePid)
  /\ Sleepers(sleepingOn, pcb, current, cpu, nextFreePid)

(* What the first stage of a step may do to the lists R and S.              *)
Steady(R, S, cur, m) ==
  /\ \A q \in Pid : q < nextFreePid /\ R[q].state \notin Gone
       => pcb[q].state \notin Gone /\ R[q].rsp = pcb[q].rsp
  /\ \A q \in Pid : q >= nextFreePid /\ R[q].state \notin Gone => q < m /\ R[q].rsp = q
  /\ cur = current /\ Queued(queue, current) => Queued(S, current)
  /\ \/ cur = current
     \/ cur = Idle /\ current # Idle /\ (R[current].state \in Gone \/ ~Queued(queue, current))
     \/ current = Idle /\ cur = nextFreePid

LEMMA FirstStageContexts ==
  ASSUME LifeInv, ContextPart, NEW R, NEW S, NEW cur, NEW m \in Int, nextFreePid <= m,
         Steady(R, S, cur, m)
  PROVE  Contexts(R, S, cur, cpu, m) /\ Sleepers(sleepingOn, R, cur, cpu, m)
<1>1. /\ nextFreePid \in Int /\ current < nextFreePid /\ current \in Pid /\ Pid \subseteq Int
      /\ \A q \in Pid : q < nextFreePid \/ q >= nextFreePid
      /\ \A q \in Pid : q < nextFreePid => q < m /\ q # nextFreePid
      /\ \A q \in Pid : q >= m => q >= nextFreePid
      /\ Idle \in Pid
  BY LifeFacts, InvFacts, ConstantFacts
<1>2. \A c : Adrift(pcb, nextFreePid, c) => Adrift(R, m, c)
  BY <1>1 DEF Adrift, Steady
<1>3. /\ cpu # Boot /\ cpu # current => cpu = Idle \/ Adrift(R, m, cpu)
      /\ current # Idle /\ ~Queued(queue, current) => cpu # current
  BY <1>2 DEF ContextPart, Contexts
<1>4. cpu # Boot /\ cpu # cur => cpu = Idle \/ Adrift(R, m, cpu)
  BY <1>1, <1>3 DEF Steady, Adrift
<1>5. ASSUME NEW p \in Pid, R[p].state \notin Gone, R[p].rsp # p
      PROVE  R[p].rsp = Idle \/ Adrift(R, m, R[p].rsp)
  BY <1>1, <1>2, <1>5 DEF Steady, ContextPart, Contexts
<1>6. cur # Idle /\ ~Queued(S, cur) => cpu # cur
  <2>1. CASE cur = current
    BY <2>1, <1>3 DEF Steady
  <2>2. CASE cur = nextFreePid
    <3>1. cpu = Boot \/ cpu = current \/ cpu = Idle \/ Adrift(pcb, nextFreePid, cpu)
      BY DEF ContextPart, Contexts
    <3>2. Boot < nextFreePid /\ Idle < nextFreePid
      BY LifeFacts DEF Boot, Idle, IInv, GoodRest
    <3>3. cpu < nextFreePid
      BY <3>1, <3>2, <1>1 DEF Adrift
    <3>4. ~(nextFreePid < nextFreePid)
      BY <1>1
    <3> QED
      BY <2>2, <3>3, <3>4
  <2> QED
    BY <2>1, <2>2 DEF Steady
<1>7. ASSUME NEW p \in Pid \ {Idle}, R[p].state \notin Gone, ContextOf(R, cur, cpu, p) # p
      PROVE  sleepingOn[p] = Nowhere
  <2>1. CASE p >= nextFreePid
    BY <2>1 DEF ContextPart, Sleepers
  <2>2. CASE p < nextFreePid
    <3>1. pcb[p].state \notin Gone /\ R[p].rsp = pcb[p].rsp
      BY <2>2, <1>7 DEF Steady
    <3>2. ContextOf(pcb, current, cpu, p) # p
      BY <2>2, <3>1, <1>1, <1>3, <1>7 DEF ContextOf, Steady
    <3> QED
      BY <3>1, <3>2 DEF ContextPart, Sleepers
  <2> QED
    BY <1>1, <2>1, <2>2
<1>8. \A p \in Pid : p >= m => sleepingOn[p] = Nowhere
  BY <1>1 DEF ContextPart, Sleepers
<1> QED
  BY <1>4, <1>5, <1>6, <1>7, <1>8 DEF Contexts, Sleepers

LEMMA DispatchContexts ==
  ASSUME NEW P, NEW Q, GoodLists(P, Q), NEW cur \in Pid, NEW fg \in Pid \cup {None}, cpu \in Context,
         P[Idle].state \in {"READY", "RUNNING"}, NEW n, NEW W,
         Contexts(P, Q, cur, cpu, n), Sleepers(W, P, cur, cpu, n), Dispatch(P, Q, cur, fg)
  PROVE  /\ Contexts(pcb', queue', current', cpu', n) /\ Sleepers(W, pcb', current', cpu', n)
         /\ \A q \in Pid : /\ pcb'[q].state = "WAITING_SEM" <=> P[q].state = "WAITING_SEM"
                           /\ pcb'[q].state \in Gone <=> P[q].state \in Gone
<1>1. /\ current' \in Pid /\ P[current'].state \in {"READY", "RUNNING"}
      /\ cpu' = pcb'[current'].rsp
      /\ \A q \in Pid :
           /\ pcb'[q].rsp = IF q = cur /\ cpu # Boot THEN cpu ELSE P[q].rsp
           /\ pcb'[q].state = IF q = current' THEN "RUNNING"
                              ELSE IF q = cur /\ P[q].state = "RUNNING" THEN "READY"
                              ELSE P[q].state
  BY DispatchEffect
<1>2. current' = Idle \/ current' \in ToSet(queue'["ready"])
  BY DispatchFacts
<1> DEFINE R == pcb'
           S == queue'
           c == cpu'
           q1 == current'
<1>3. \A q \in Pid : /\ R[q].state \in Gone <=> P[q].state \in Gone
                     /\ R[q].state = "WAITING_SEM" <=> P[q].state = "WAITING_SEM"
  BY <1>1 DEF Gone
<1>4. \A e : Adrift(P, n, e) => Adrift(R, n, e)
  BY <1>3 DEF Adrift
<1>5. q1 \in Pid /\ R[q1].state \notin Gone /\ c = R[q1].rsp
  BY <1>1 DEF Gone
<1>6. \A q \in Pid : R[q].rsp = IF q = cur /\ cpu # Boot THEN cpu ELSE P[q].rsp
  BY <1>1
<1>7. q1 # Idle => Queued(S, q1)
  BY <1>2, QueueNames DEF Queued
<1> HIDE DEF R, S, c, q1
<1>8. \A p \in Pid : R[p].state \notin Gone /\ R[p].rsp # p => R[p].rsp = Idle \/ Adrift(R, n, R[p].rsp)
  BY <1>3, <1>4, <1>6 DEF Contexts
<1>9. Contexts(R, S, q1, c, n)
  BY <1>5, <1>7, <1>8 DEF Contexts
<1>10. Sleepers(W, R, q1, c, n)
  <2>1. ASSUME NEW p \in Pid \ {Idle}, R[p].state \notin Gone, ContextOf(R, q1, c, p) # p
        PROVE  W[p] = Nowhere
    <3>1. P[p].state \notin Gone /\ R[p].rsp # p
      BY <2>1, <1>3, <1>5 DEF ContextOf
    <3>2. ContextOf(P, cur, cpu, p) # p
      BY <3>1, <1>6, ConstantFacts DEF ContextOf, Boot, Pid
    <3> QED
      BY <3>1, <3>2 DEF Sleepers
  <2> QED
    BY <2>1 DEF Sleepers
<1> QED
  BY <1>3, <1>9, <1>10 DEF R, S, c, q1

(* A step of the scheduler in its two stages: the lists R and S with the    *)
(* current process cur, and schedule() from them unless the CPU stays.      *)
Stages(R, S, cur) ==
  /\ Steady(R, S, cur, nextFreePid')
  /\ \/ pcb' = R /\ queue' = S /\ current' = cur /\ cpu' = cpu
     \/ /\ GoodLists(R, S) /\ cur \in Pid /\ R[Idle].state \in {"READY", "RUNNING"}
        /\ \E fg \in Pid \cup {None} : Dispatch(R, S, cur, fg)

Asleep(R) == {q \in Pid : R[q].state = "WAITING_SEM"}

(* At most one sleeper leaves, which died or was blocked by name, and nobody*)
(* falls asleep.                                                            *)
OneLeaves(R) ==
  \E c \in Pid : \/ Asleep(R) = Asleep(pcb)
                 \/ /\ Asleep(R) = Asleep(pcb) \ {c}
                    /\ R[c].state \in Gone \/ BlockTargets # {}

LEMMA StagesKeep ==
  ASSUME LifeInv, ContextPart, LifeInv', nextFreePid <= nextFreePid',
         NEW R, NEW S, NEW cur, Stages(R, S, cur)
  PROVE  /\ Contexts(pcb', queue', current', cpu', nextFreePid')
         /\ Sleepers(sleepingOn, pcb', current', cpu', nextFreePid')
         /\ Asleep(pcb') = Asleep(R)
         /\ \A q \in Pid : R[q].state \in Gone => pcb'[q].state \in Gone
<1>1. nextFreePid' \in Int /\ cpu \in Context
  BY LifeFacts, InvFacts DEF LifeInv, IInv, GoodRest
<1> DEFINE m == nextFreePid'
<1>2. m \in Int /\ nextFreePid <= m /\ Steady(R, S, cur, m)
  BY <1>1 DEF Stages
<1> HIDE DEF m
<1>3. Contexts(R, S, cur, cpu, m) /\ Sleepers(sleepingOn, R, cur, cpu, m)
  BY <1>2, FirstStageContexts
<1>4. CASE pcb' = R /\ queue' = S /\ current' = cur /\ cpu' = cpu
  BY <1>3, <1>4 DEF m
<1>5. ASSUME GoodLists(R, S), cur \in Pid, R[Idle].state \in {"READY", "RUNNING"},
             NEW fg \in Pid \cup {None}, Dispatch(R, S, cur, fg)
      PROVE  /\ Contexts(pcb', queue', current', cpu', m)
             /\ Sleepers(sleepingOn, pcb', current', cpu', m)
             /\ Asleep(pcb') = Asleep(R)
             /\ \A q \in Pid : R[q].state \in Gone => pcb'[q].state \in Gone
  <2>1. \A q \in Pid : /\ pcb'[q].state = "WAITING_SEM" <=> R[q].state = "WAITING_SEM"
                       /\ pcb'[q].state \in Gone <=> R[q].state \in Gone
    BY <1>1, <1>3, <1>5, DispatchContexts
  <2>2. Contexts(pcb', queue', current', cpu', m) /\ Sleepers(sleepingOn, pcb', current', cpu', m)
    BY <1>1, <1>3, <1>5, DispatchContexts
  <2> QED
    BY <2>1, <2>2 DEF Asleep
<1> QED
  BY <1>4, <1>5 DEF Stages, m

(* Lists in which nothing that matters here was changed. *)
LEMMA SameStages ==
  ASSUME LifeInv, NEW R, NEW S,
         \A q \in Pid : R[q].state = pcb[q].state /\ R[q].rsp = pcb[q].rsp,
         Queued(queue, current) => Queued(S, current)
  PROVE  Steady(R, S, current, nextFreePid) /\ OneLeaves(R)
<1>1. \A q \in Pid : q >= nextFreePid => R[q].state \in Gone
  BY LifeFacts DEF Gone
<1>2. Steady(R, S, current, nextFreePid)
  BY <1>1 DEF Steady
<1>3. Asleep(R) = Asleep(pcb)
  BY DEF Asleep
<1> QED
  BY <1>2, <1>3, LifeFacts, InvFacts DEF OneLeaves

LEMMA MoveAsleep ==
  ASSUME pcb \in [Pid -> PCB], NEW p \in Pid, NEW st, NEW P, P = [pcb EXCEPT ![p].state = st]
  PROVE  /\ st = "WAITING_SEM" => Asleep(P) = Asleep(pcb) \cup {p}
         /\ st # "WAITING_SEM" => Asleep(P) = Asleep(pcb) \ {p}
<1>1. P[p].state = st /\ \A q \in Pid \ {p} : P[q] = pcb[q]
  BY DEF PCB
<1> QED
  BY <1>1 DEF Asleep

(* Lists in which one living process was moved to another queue.            *)
LEMMA MoveStages ==
  ASSUME LifeInv, NEW from \in QueueName, NEW to \in QueueName, from # to, from # "zombie",
         NEW p \in ToSet(queue[from]), NEW st \in ProcessState \ Gone, st \in StatesOf[to],
         st = "BLOCKED" => p = current \/ p \in BlockTargets,
         NEW P, P = [pcb EXCEPT ![p].state = st]
  PROVE  /\ GoodLists(P, switchProcess(queue, from, to, p))
         /\ P[Idle].state \in {"READY", "RUNNING"}
         /\ Steady(P, switchProcess(queue, from, to, p), current, nextFreePid)
         /\ p \in Pid
<1> DEFINE S == switchProcess(queue, from, to, p)
<1>1. /\ p \in Pid /\ p # Idle /\ pcb \in [Pid -> PCB] /\ pcb[p] \in PCB
      /\ pcb[p].state \in StatesOf[from]
  BY LifeFacts, InvFacts DEF GoodLists
<1>2. /\ P[p].state = st /\ P[p].rsp = pcb[p].rsp
      /\ \A q \in Pid \ {p} : P[q] = pcb[q]
  BY <1>1 DEF PCB
<1>3. GoodLists(P, S) /\ ForegroundLives(P, foreground)
  BY MoveUndisturbed
<1>4. \A q \in Pid : Queued(queue, q) => Queued(S, q)
  <2>1. GoodLists(pcb, queue)
    BY LifeFacts, InvFacts
  <2> QED
    BY <2>1, MoveQueued
<1> HIDE DEF S
<1>5. pcb[p].state \notin Gone
  BY <1>1, StatesOfFacts DEF Gone
<1>6. \A q \in Pid : q >= nextFreePid => pcb[q].state \in Gone
  BY LifeFacts DEF Gone
<1>7. \A q \in Pid : q >= nextFreePid => P[q].state \in Gone
  BY <1>2, <1>5, <1>6
<1>8. Steady(P, S, current, nextFreePid)
  BY <1>2, <1>4, <1>5, <1>7, LifeFacts, InvFacts DEF Steady
<1> QED
  BY <1>1, <1>3, <1>8 DEF S, ForegroundLives

-----------------------------------------------------------------------------
(* The two stages of every step of the scheduler.                           *)

TwoStages == \E R, S, cur : Stages(R, S, cur) /\ OneLeaves(R)

LEMMA PlainDispatchStages ==
  ASSUME LifeInv, Dispatch(pcb, queue, current, foreground), nextFreePid' = nextFreePid
  PROVE  TwoStages
<1>1. Steady(pcb, queue, current, nextFreePid) /\ OneLeaves(pcb)
  BY SameStages
<1>2. /\ GoodLists(pcb, queue) /\ current \in Pid /\ pcb[Idle].state \in {"READY", "RUNNING"}
      /\ foreground \in Pid \cup {None}
  BY LifeFacts, InvFacts
<1> QED
  BY <1>1, <1>2 DEF TwoStages, Stages

LEMMA QuietStages ==
  ASSUME LifeInv, UNCHANGED <<queue, current, nextFreePid, cpu>>,
         \A q \in Pid : pcb'[q].state = pcb[q].state /\ pcb'[q].rsp = pcb[q].rsp
  PROVE  TwoStages
<1> DEFINE R == pcb'
<1>1. \A q \in Pid : R[q].state = pcb[q].state /\ R[q].rsp = pcb[q].rsp
  OBVIOUS
<1> HIDE DEF R
<1>2. Steady(R, queue, current, nextFreePid) /\ OneLeaves(R)
  BY <1>1, SameStages
<1> QED
  BY <1>2 DEF TwoStages, Stages, R

LEMMA TicksStages == LifeInv /\ (TimerTick \/ Yield) => TwoStages
<1> SUFFICES ASSUME LifeInv, TimerTick \/ Yield PROVE TwoStages
  OBVIOUS
<1>1. CASE UNCHANGED <<pcb, queue, current, nextFreePid, cpu>>
  BY <1>1, QuietStages
<1>2. CASE Dispatch(pcb, queue, current, foreground)
  BY <1>2, PlainDispatchStages DEF TimerTick, Yield
<1> QED
  BY <1>1, <1>2 DEF TimerTick, Yield

LEMMA ChangePrioStages == LifeInv /\ ChangePrio => TwoStages
<1> SUFFICES ASSUME LifeInv, NEW p \in Pid, NEW newPrio \in Priorities, changePrio(p, newPrio)
             PROVE  TwoStages
  BY DEF ChangePrio
<1> DEFINE prio == IF newPrio < MIN_PRIORITY THEN MIN_PRIORITY
                   ELSE IF newPrio > MAX_PRIORITY THEN MAX_PRIORITY ELSE newPrio
<1>1. /\ pcb' = [pcb EXCEPT ![p].priority = prio]
      /\ UNCHANGED <<queue, current, nextFreePid, cpu>>
  BY DEF changePrio
<1> HIDE DEF prio
<1>2. \A q \in Pid : pcb'[q].state = pcb[q].state /\ pcb'[q].rsp = pcb[q].rsp
  BY <1>1, LifeFacts, InvFacts DEF PCB
<1> QED
  BY <1>1, <1>2, QuietStages

(* MakeReady() of a sleeper or a blocked process. *)
LEMMA MakeReadyStages ==
  ASSUME LifeInv, NEW from \in {"blocked", "blockedBySem"}, NEW p, MakeReady(from, p)
  PROVE  /\ p \in Pid
         /\ \E R, S, cur : Stages(R, S, cur) /\ Asleep(R) = Asleep(pcb) \ {p}
<1> DEFINE P == [pcb EXCEPT ![p].state = "READY"]
           S == switchProcess(queue, from, "ready", p)
<1>1. /\ from \in QueueName /\ from # "ready" /\ from # "zombie" /\ p \in ToSet(queue[from])
      /\ pcb' = P /\ queue' = S /\ UNCHANGED <<current, cpu, nextFreePid>>
  BY QueueNames DEF MakeReady, InQueue
<1>2. "ready" \in QueueName /\ "READY" \in ProcessState \ Gone /\ "READY" \in StatesOf["ready"]
      /\ "READY" # "WAITING_SEM" /\ "READY" # "BLOCKED"
  BY QueueNames, StatesOfFacts DEF ProcessState, Gone
<1> HIDE DEF P
<1>3. p \in Pid /\ Asleep(P) = Asleep(pcb) \ {p}
  <2>1. /\ LifeInv /\ P = [pcb EXCEPT ![p].state = "READY"] /\ p \in ToSet(queue[from])
        /\ from \in QueueName /\ from # "ready" /\ from # "zombie"
    BY <1>1 DEF P
  <2>2. p \in Pid
    BY ONLY <1>2, <2>1, MoveStages
  <2> QED
    BY <1>2, <2>1, <2>2, LifeFacts, InvFacts, MoveAsleep
<1>4. Steady(P, S, current, nextFreePid)
  BY <1>1, <1>2, MoveStages DEF P
<1> HIDE DEF S
<1> QED
  BY <1>1, <1>3, <1>4 DEF Stages

LEMMA UnblockStages == LifeInv /\ Unblock => TwoStages
BY MakeReadyStages DEF Unblock, TwoStages, OneLeaves

LEMMA BlockStages == LifeInv /\ Block => TwoStages
<1> SUFFICES ASSUME LifeInv, NEW p \in BlockTargets, blockProcess(pcb, p), nextFreePid' = nextFreePid
             PROVE  TwoStages
  BY DEF Block
<1> DEFINE from == IF InQueue("ready", p) THEN "ready" ELSE "blockedBySem"
           P == [pcb EXCEPT ![p].state = "BLOCKED"]
           S == switchProcess(queue, from, "blocked", p)
<1>1. /\ from \in QueueName /\ from # "blocked" /\ from # "zombie" /\ p \in ToSet(queue[from])
      /\ \/ Dispatch(P, S, current, foreground)
         \/ pcb' = P /\ queue' = S /\ UNCHANGED <<current, cpu>>
  BY QueueNames DEF blockProcess, CanBlock, InQueue
<1>2. /\ "blocked" \in QueueName /\ "BLOCKED" \in ProcessState \ Gone
      /\ "BLOCKED" \in StatesOf["blocked"] /\ "BLOCKED" # "WAITING_SEM"
  BY QueueNames, StatesOfFacts DEF ProcessState, Gone
<1> HIDE DEF from, P
<1>3. /\ GoodLists(P, S) /\ P[Idle].state \in {"READY", "RUNNING"}
      /\ Steady(P, S, current, nextFreePid) /\ p \in Pid
      /\ Asleep(P) = Asleep(pcb) \ {p}
  <2>1. /\ LifeInv /\ P = [pcb EXCEPT ![p].state = "BLOCKED"] /\ p \in ToSet(queue[from])
        /\ from \in QueueName /\ from # "blocked" /\ from # "zombie" /\ p \in BlockTargets
    BY <1>1 DEF P
  <2>2. GoodLists(P, S) /\ P[Idle].state \in {"READY", "RUNNING"} /\ p \in Pid
    BY ONLY <1>2, <2>1, MoveStages
  <2>3. Steady(P, S, current, nextFreePid)
    BY ONLY <1>2, <2>1, MoveStages
  <2>4. Asleep(P) = Asleep(pcb) \ {p}
    BY <1>2, <2>1, <2>2, LifeFacts, InvFacts, MoveAsleep
  <2> QED
    BY <2>2, <2>3, <2>4
<1> HIDE DEF S
<1>4. OneLeaves(P)
  BY <1>3 DEF OneLeaves
<1> QED
  BY <1>1, <1>3, <1>4, LifeFacts, InvFacts DEF TwoStages, Stages

(* The caller of blockProcessBySem() falls asleep. *)
LEMMA BlockBySemStages ==
  ASSUME LifeInv, BlockBySem
  PROVE  /\ current \in Pid \ {Idle} /\ pcb[current].state \notin Gone
         /\ pcb[current].state # "WAITING_SEM"
         /\ \E R, S, cur : Stages(R, S, cur) /\ Asleep(R) = Asleep(pcb) \cup {current}
<1> DEFINE P == [pcb EXCEPT ![current].state = "WAITING_SEM"]
           S == switchProcess(queue, "ready", "blockedBySem", current)
<1>1. /\ current \in ToSet(queue["ready"]) /\ Dispatch(P, S, current, foreground)
      /\ nextFreePid' = nextFreePid
  BY DEF BlockBySem, InQueue
<1>2. /\ "ready" \in QueueName /\ "blockedBySem" \in QueueName
      /\ "WAITING_SEM" \in ProcessState \ Gone /\ "WAITING_SEM" \in StatesOf["blockedBySem"]
      /\ StatesOf["ready"] = {"READY", "RUNNING"}
  BY QueueNames, StatesOfFacts DEF ProcessState, Gone, StatesOf
<1> HIDE DEF P
<1>3. /\ GoodLists(P, S) /\ P[Idle].state \in {"READY", "RUNNING"}
      /\ Steady(P, S, current, nextFreePid)
      /\ Asleep(P) = Asleep(pcb) \cup {current}
  <2>1. /\ LifeInv /\ P = [pcb EXCEPT ![current].state = "WAITING_SEM"]
        /\ current \in ToSet(queue["ready"])
        /\ "ready" # "blockedBySem" /\ "ready" # "zombie" /\ "WAITING_SEM" # "BLOCKED"
    BY <1>1 DEF P
  <2>2. GoodLists(P, S) /\ P[Idle].state \in {"READY", "RUNNING"}
    BY ONLY <1>2, <2>1, MoveStages
  <2>3. Steady(P, S, current, nextFreePid)
    BY ONLY <1>2, <2>1, MoveStages
  <2>4. Asleep(P) = Asleep(pcb) \cup {current}
    BY <1>2, <2>1, LifeFacts, InvFacts, MoveAsleep
  <2> QED
    BY <2>2, <2>3, <2>4
<1>4. current # Idle /\ pcb[current].state \in {"READY", "RUNNING"}
  BY <1>1, <1>2, LifeFacts, InvFacts DEF GoodLists
<1> HIDE DEF S
<1> QED
  BY <1>1, <1>3, <1>4, LifeFacts, InvFacts DEF Stages, Gone

LEMMA CreateProcessStages == LifeInv /\ CreateProcess => TwoStages /\ nextFreePid <= nextFreePid'
<1> SUFFICES ASSUME LifeInv,
                    NEW prio \in Priorities, NEW fg \in BOOLEAN, NEW tty \in BOOLEAN,
                    NEW alloc \in AllocFails \cup {"none"},
                    createProcess(prio, fg, tty, alloc)
             PROVE  TwoStages /\ nextFreePid <= nextFreePid'
  BY DEF CreateProcess
<1>1. /\ nextFreePid \in Pid /\ nextFreePid \in Int
      /\ nextFreePid' = nextFreePid + 1 /\ cpu' = cpu
  BY LifeFacts, ConstantFacts DEF createProcess, IInv, GoodRest, Pid
<1>2. nextFreePid < nextFreePid' /\ nextFreePid <= nextFreePid'
  BY <1>1
<1> DEFINE p == nextFreePid
           R == pcb'
           S == queue'
           cur == current'
<1>3. pcb[p].state = "FREE" /\ pcb \in [Pid -> PCB] /\ current # p
      /\ \A q \in Pid : q >= p => pcb[q].state = "FREE"
  <2>1. p >= p /\ ~(p < p)
    BY <1>1
  <2> QED
    BY <2>1, <1>1, LifeFacts, InvFacts
<1>4. /\ \A q \in Pid \ {p} : R[q] = pcb[q]
      /\ R[p].state \in {"FREE", "BLOCKED", "READY"}
      /\ R[p].state # "FREE" => R[p].rsp = p
      /\ cur = current \/ (current = Idle /\ cur = p)
  <2>1. CASE alloc = "stack"
    BY <2>1, <1>3 DEF createProcess
  <2>2. CASE alloc # "stack"
    <3> DEFINE asked    == prio % 256
               priority == IF asked > IDLE_PRIORITY THEN MAX_PRIORITY ELSE asked
               blocked  == ~fg /\ tty
               added    == ~blocked /\ priority # IDLE_PRIORITY
               new      == [state |-> IF blocked THEN "BLOCKED" ELSE "READY",
                            parentPid |-> current, waitingForPid |-> None,
                            priority |-> priority, foreground |-> fg, rsp |-> p]
    <3>1. R = [pcb EXCEPT ![p] = new] /\ cur = IF added /\ current = Idle THEN p ELSE current
      BY <2>2 DEF createProcess
    <3>2. new.state \in {"BLOCKED", "READY"} /\ new.rsp = p
      OBVIOUS
    <3> HIDE DEF new, R, cur
    <3> QED
      BY <1>1, <1>3, <3>1, <3>2
  <2> QED
    BY <2>1, <2>2
<1>5. \A q \in Pid : Queued(queue, q) => Queued(S, q)
  <2> SUFFICES ASSUME NEW q \in Pid, NEW n \in QueueName, q \in ToSet(queue[n])
               PROVE  q \in ToSet(S[n])
    BY DEF Queued
  <2>1. queue[n] \in Seq(Pid) /\ queue \in [QueueName -> Seq(Pid)] /\ p \in Pid
    BY <1>1, LifeFacts, InvFacts
  <2>2. IsInjective(queue[n]) /\ p \notin ToSet(queue[n])
    BY <1>3, LifeFacts, InvFacts, StatesOfFacts DEF GoodLists
  <2>3. ToSet(Append(queue[n], p)) = ToSet(queue[n]) \cup {p}
    BY <2>1, <2>2, EnqueueFacts
  <2>4. S[n] = queue[n] \/ S[n] = Append(queue[n], p)
    BY <2>1, QueueNames DEF createProcess
  <2> QED
    BY <2>3, <2>4
<1> HIDE DEF R, S, cur
<1>6. Steady(R, S, cur, nextFreePid')
  <2>1. \A q \in Pid : q < p => q # p
    BY <1>1, ConstantFacts
  <2> QED
    BY <1>1, <1>2, <1>3, <1>4, <1>5, <2>1, LifeFacts, InvFacts DEF Steady, Gone
<1>7. OneLeaves(R)
  <2>1. Asleep(R) = Asleep(pcb)
    BY <1>3, <1>4 DEF Asleep
  <2> QED
    BY <2>1, <1>1 DEF OneLeaves
<1> QED
  BY <1>1, <1>2, <1>6, <1>7 DEF TwoStages, Stages, R, S, cur

(* kill(): the victim dies, its parent may be woken; when the victim is the *)
(* current process, idle takes its place.                                   *)
LEMMA KillStages ==
  ASSUME LifeInv, NEW p \in Pid, kill(p)
  PROVE  TwoStages
<1> DEFINE cur == IF current = p THEN Idle ELSE current
           fg  == foregroundAfterKill(p)
<1>1. /\ cur \in Pid /\ fg \in Pid \cup {None} /\ nextFreePid' = nextFreePid /\ p # Idle
      /\ (cur = current /\ current # p) \/ (cur = Idle /\ current = p)
  BY LifeFacts, InvFacts, ConstantFacts DEF foregroundAfterKill, kill, SHELL_PID, Idle
<1>2. ASSUME NEW n \in Living, InQueue(n, p),
             LET woken == wakeupWaitingParent([pcb EXCEPT ![p].state = "ZOMBIE"],
                                              switchProcess(queue, n, "zombie", p),
                                              pcb[p].parentPid, p)
             IN IF p = currentPid
                THEN Dispatch(woken.pcb, woken.queue, cur, fg)
                ELSE /\ pcb' = woken.pcb /\ queue' = woken.queue
                     /\ current' = cur /\ foreground' = fg
                     /\ UNCHANGED <<currentPid, quantum, cpu>>
      PROVE  TwoStages
  <2> DEFINE woken == wakeupWaitingParent([pcb EXCEPT ![p].state = "ZOMBIE"],
                                          switchProcess(queue, n, "zombie", p),
                                          pcb[p].parentPid, p)
             R == woken.pcb
             S == woken.queue
  <2>1. \/ Dispatch(R, S, cur, fg)
        \/ pcb' = R /\ queue' = S /\ current' = cur /\ cpu' = cpu
    BY <1>2
  <2>2. p \in ToSet(queue[n]) /\ IInv
    BY <1>2, LifeFacts DEF InQueue
  <2> HIDE DEF cur, fg
  <2>3. GoodLists(R, S)
    BY <2>2, KillEffect
  <2>4. R[p].state \in Gone
    BY <2>2, KillEffect
  <2>5. \A q \in Pid \ {p} :
           /\ R[q].rsp = pcb[q].rsp
           /\ \/ R[q].state = pcb[q].state
              \/ pcb[q].state = "BLOCKED" /\ R[q].state = "READY"
           /\ Queued(queue, q) => Queued(S, q)
    BY <2>2, KillEffect
  <2> HIDE DEF woken, R, S
  <2>6. \A q \in Pid : q >= nextFreePid => R[q].state \in Gone
    BY <2>4, <2>5, LifeFacts DEF Gone
  <2>7. Steady(R, S, cur, nextFreePid)
    BY <1>1, <2>4, <2>5, <2>6, LifeFacts, InvFacts DEF Steady, Gone
  <2>8. OneLeaves(R)
    <3>1. Asleep(R) = Asleep(pcb) \ {p}
      BY <2>4, <2>5 DEF Asleep, Gone
    <3> QED
      BY <2>4, <3>1 DEF OneLeaves
  <2>9. R[Idle].state \in {"READY", "RUNNING"}
    BY <1>1, <2>5, LifeFacts, ConstantFacts
  <2> QED
    BY <1>1, <2>1, <2>3, <2>7, <2>8, <2>9 DEF TwoStages, Stages
<1>3. CASE /\ \A n \in Living : ~InQueue(n, p)
           /\ current = p /\ current' = Idle
           /\ UNCHANGED <<pcb, queue, foreground, currentPid, quantum, cpu>>
  <2>1. ~Queued(queue, p)
    <3>1. p \notin ToSet(queue["zombie"])
      <4>1. pcb[p].state # "ZOMBIE"
        BY <1>3, LifeFacts DEF Gone
      <4> QED
        BY <4>1, LifeFacts, InvFacts, QueueNames DEF GoodLists, StatesOf
    <3> QED
      BY <1>3, <3>1 DEF Queued, InQueue, QueueName
  <2>2. \A q \in Pid : q >= nextFreePid => pcb[q].state \in Gone
    BY LifeFacts DEF Gone
  <2>3. Steady(pcb, queue, Idle, nextFreePid)
    BY <1>1, <1>3, <2>1, <2>2 DEF Steady
  <2>4. OneLeaves(pcb)
    BY DEF OneLeaves
  <2> QED
    BY <1>1, <1>3, <2>3, <2>4 DEF TwoStages, Stages
<1> QED
  BY <1>2, <1>3 DEF kill

LEMMA KillersStages == LifeInv /\ (Kill \/ CtrlC \/ Exit) => TwoStages
<1> SUFFICES ASSUME LifeInv, Kill \/ CtrlC \/ Exit PROVE TwoStages
  OBVIOUS
<1>1. CASE Kill
  BY <1>1, KillStages DEF Kill
<1>2. CASE CtrlC
  <2>1. kill(foreground) /\ foreground > SHELL_PID
    BY <1>2 DEF CtrlC, kill
  <2>2. foreground \in Pid
    BY <2>1, LifeFacts, InvFacts DEF SHELL_PID, None
  <2> QED
    BY <2>1, <2>2, KillStages
<1>3. CASE Exit
  <2>1. CASE kill(current)
    BY <2>1, LifeFacts, InvFacts, KillStages
  <2>2. CASE UNCHANGED <<pcb, queue, current, nextFreePid, cpu>>
    BY <2>2, QuietStages
  <2> QED
    BY <1>3, <2>1, <2>2 DEF Exit
<1> QED
  BY <1>1, <1>2, <1>3

LEMMA ReapStages ==
  ASSUME LifeInv, NEW p \in Pid, pcb[p].state = "ZOMBIE", NEW parent \in Pid, reapChild(parent, p)
  PROVE  TwoStages
<1> DEFINE R == pcb'
           S == queue'
<1>1. /\ p # current /\ R[p].state = "FREE"
      /\ \A q \in Pid \ {p} : /\ R[q].state = pcb[q].state /\ R[q].rsp = pcb[q].rsp
                              /\ Queued(queue, q) => Queued(S, q)
      /\ UNCHANGED <<current, nextFreePid, cpu>>
  BY ReapEffect
<1> HIDE DEF R, S
<1>2. \A q \in Pid : q >= nextFreePid => R[q].state \in Gone
  BY <1>1, LifeFacts DEF Gone
<1>3. Steady(R, S, current, nextFreePid)
  BY <1>1, <1>2, LifeFacts, InvFacts DEF Steady, Gone
<1>4. OneLeaves(R)
  <2>1. Asleep(R) = Asleep(pcb)
    BY <1>1 DEF Asleep
  <2> QED
    BY <2>1 DEF OneLeaves
<1> QED
  BY <1>1, <1>3, <1>4 DEF TwoStages, Stages, R, S

LEMMA WaitpidResumeStages == LifeInv /\ WaitpidResume => TwoStages
<1> SUFFICES ASSUME LifeInv, WaitpidResume PROVE TwoStages
  OBVIOUS
<1>1. frame[cpu].at = "waitpid" /\ cpu \in Context
  BY LifeFacts, InvFacts DEF WaitpidResume
<1>2. InWaitpid(pcb, queue, frame[cpu], cpu, current, cpu, nextFreePid)
  BY <1>1, LifeFacts DEF Waits
<1>3. CASE pcb[frame[cpu].target].state = "ZOMBIE" /\ reapChild(frame[cpu].me, frame[cpu].target)
  <2>1. frame[cpu].me \in Pid /\ frame[cpu].target \in Pid
    BY <1>2 DEF InWaitpid
  <2> QED
    BY <1>3, <2>1, ReapStages
<1>4. CASE UNCHANGED <<pcb, queue, current, nextFreePid, cpu>>
  BY <1>4, QuietStages
<1> QED
  BY <1>3, <1>4 DEF WaitpidResume

LEMMA CurrentAwake == ASSUME LifeInv PROVE pcb[current].state # "WAITING_SEM"
<1>1. CASE current = Idle
  BY <1>1, LifeFacts
<1>2. CASE InQueue("ready", current)
  <2>1. pcb[current].state \in StatesOf["ready"]
    BY <1>2, LifeFacts, InvFacts, QueueNames DEF GoodLists, InQueue
  <2> QED
    BY <2>1, QueueNames DEF StatesOf
<1>3. CASE Lost(current)
  BY <1>3, LifeFacts, InvFacts DEF Lost, InSomeQueue, InQueue, GoodLists
<1> QED
  BY <1>1, <1>2, <1>3, LifeFacts DEF IInv, CurrentIsRunnable

LEMMA WaitpidBlockStages == LifeInv /\ WaitpidBlock => TwoStages
<1> SUFFICES ASSUME LifeInv, NEW p \in Pid, nextFreePid' = nextFreePid,
                    \/ blockProcess([pcb EXCEPT ![current].waitingForPid = p], current)
                    \/ /\ pcb' = [pcb EXCEPT ![current].waitingForPid = None, ![current].state = "READY"]
                       /\ UNCHANGED <<queue, current, cpu>>
             PROVE  TwoStages
  BY DEF WaitpidBlock
<1>1. /\ current \in Pid /\ pcb \in [Pid -> PCB] /\ pcb[current].state \notin Gone
      /\ foreground \in Pid \cup {None}
      /\ \A q \in Pid : q >= nextFreePid => pcb[q].state \in Gone
  BY LifeFacts, InvFacts DEF Gone
<1>2. CASE blockProcess([pcb EXCEPT ![current].waitingForPid = p], current)
  <2>1. PICK P, S :
           /\ current \in Pid \ {Idle} /\ pcb[current].state # "BLOCKED"
           /\ Dispatch(P, S, current, foreground)
           /\ GoodLists(P, S) /\ ForegroundLives(P, foreground)
           /\ P[current].state = "BLOCKED"
           /\ P[current].waitingForPid = p /\ P[current].parentPid = pcb[current].parentPid
           /\ P[current].rsp = pcb[current].rsp
           /\ \A q \in Pid \ {current} : P[q] = pcb[q]
           /\ \A q \in Pid : Queued(queue, q) => Queued(S, q)
           /\ Queued(S, current)
    BY <1>2, SleepLists
  <2>2. \A q \in Pid : q >= nextFreePid => P[q].state \in Gone
    BY <1>1, <2>1
  <2>3. Steady(P, S, current, nextFreePid)
    BY <1>1, <2>1, <2>2 DEF Steady
  <2>4. OneLeaves(P)
    <3>1. Asleep(P) = Asleep(pcb)
      BY <2>1, CurrentAwake DEF Asleep
    <3> QED
      BY <1>1, <3>1 DEF OneLeaves
  <2> QED
    BY <1>1, <2>1, <2>3, <2>4 DEF TwoStages, Stages, ForegroundLives
<1>3. CASE /\ pcb' = [pcb EXCEPT ![current].waitingForPid = None, ![current].state = "READY"]
           /\ UNCHANGED <<queue, current, cpu>>
  <2> DEFINE R == pcb'
  <2>1. /\ R[current].state = "READY" /\ R[current].rsp = pcb[current].rsp
        /\ \A q \in Pid \ {current} : R[q] = pcb[q]
    <3> DEFINE r == [pcb[current] EXCEPT !.waitingForPid = None, !.state = "READY"]
    <3>1. pcb[current] \in PCB
      BY <1>1
    <3>2. r.state = "READY" /\ r.rsp = pcb[current].rsp
      BY <3>1 DEF PCB
    <3>3. R = [pcb EXCEPT ![current] = r]
      BY <1>3
    <3> HIDE DEF r, R
    <3> QED
      BY <1>1, <3>2, <3>3
  <2> HIDE DEF R
  <2>2. \A q \in Pid : q >= nextFreePid => R[q].state \in Gone
    BY <1>1, <2>1
  <2>3. Steady(R, queue, current, nextFreePid)
    BY <1>1, <2>1, <2>2 DEF Steady
  <2>4. OneLeaves(R)
    <3>1. Asleep(R) = Asleep(pcb)
      BY <2>1, CurrentAwake DEF Asleep
    <3> QED
      BY <1>1, <3>1 DEF OneLeaves
  <2> QED
    BY <1>3, <2>3, <2>4 DEF TwoStages, Stages, R
<1> QED
  BY <1>2, <1>3

(* Every step of the scheduler but blockProcessBySem(): nobody falls asleep,*)
(* and one at most leaves.                                                  *)
LEMMA SchedulerStages ==
  ASSUME LifeInv,
         \/ TimerTick \/ Yield \/ CreateProcess \/ ChangePrio \/ Block \/ Unblock
         \/ Kill \/ CtrlC \/ Exit \/ WaitpidReap \/ WaitpidBlock \/ WaitpidResume
  PROVE  TwoStages
<1>1. CASE WaitpidReap
  BY <1>1, LifeFacts, InvFacts, ReapStages DEF WaitpidReap
<1> QED
  BY <1>1, TicksStages, CreateProcessStages, ChangePrioStages, BlockStages, UnblockStages,
     KillersStages, WaitpidBlockStages, WaitpidResumeStages

LEMMA PidsGrow ==
  ASSUME LifeInv, [Next]_schedVars
  PROVE  nextFreePid <= nextFreePid'
<1>1. nextFreePid' = nextFreePid \/ CreateProcess
  BY DEF Next, TimerTick, Yield, ChangePrio, changePrio, Block, Unblock, BlockBySem,
     UnblockBySem, MakeReady, KernelReturn, Kill, CtrlC, Exit, kill, WaitpidReap, WaitpidBlock,
     WaitpidResume, reapChild, schedVars
<1>2. CASE nextFreePid' = nextFreePid
  BY <1>2, LifeFacts
<1> QED
  BY <1>1, <1>2, CreateProcessStages

LEMMA StagesContexts ==
  ASSUME LifeInv, ContextPart, [Next]_schedVars
  PROVE  /\ Contexts(pcb', queue', current', cpu', nextFreePid')
         /\ Sleepers(sleepingOn, pcb', current', cpu', nextFreePid')
<1>1. LifeInv'
  BY NextLife
<1>2. CASE UNCHANGED schedVars
  BY <1>2 DEF schedVars, ContextPart
<1>3. CASE Next
  <2>1. nextFreePid <= nextFreePid'
    BY PidsGrow
  <2>2. \E R, S, cur : Stages(R, S, cur)
    <3>1. CASE BlockBySem
      BY <3>1, BlockBySemStages
    <3>2. CASE UnblockBySem
      BY <3>2, MakeReadyStages DEF UnblockBySem
    <3>3. CASE KernelReturn
      BY <3>3, QuietStages DEF KernelReturn, TwoStages
    <3> QED
      BY <1>3, <3>1, <3>2, <3>3, SchedulerStages DEF Next, TwoStages
  <2> QED
    BY <1>1, <2>1, <2>2, StagesKeep
<1> QED
  BY <1>2, <1>3

(* Who is awake for sure: the current process, and the process whose own    *)
(* context is in use.                                                       *)
LEMMA AwakeFacts ==
  ASSUME LifeInv, ContextPart
  PROVE  /\ pcb[current].state # "WAITING_SEM"
         /\ pcb[Idle].state # "WAITING_SEM"
         /\ cpu \in Pid => cpu < nextFreePid /\ pcb[cpu].state # "WAITING_SEM"
         /\ cpu # Boot /\ cpu # current => cpu = Idle \/ (cpu \in Pid /\ pcb[cpu].state \in Gone)
<1>1. pcb[current].state # "WAITING_SEM"
  BY CurrentAwake
<1>2. pcb[Idle].state # "WAITING_SEM"
  BY LifeFacts
<1>3. cpu # Boot /\ cpu # current => cpu = Idle \/ Adrift(pcb, nextFreePid, cpu)
  BY DEF ContextPart, Contexts
<1>4. Idle < nextFreePid /\ Boot \notin Pid
  BY LifeFacts DEF Idle, IInv, GoodRest, Boot, Pid
<1> QED
  BY <1>1, <1>2, <1>3, <1>4, LifeFacts DEF Adrift, Gone

LEMMA BlockBySemContext ==
  ASSUME LifeInv, ContextPart, BlockBySem
  PROVE  cpu = current => current' # current /\ pcb'[current].rsp = current
<1> DEFINE P == [pcb EXCEPT ![current].state = "WAITING_SEM"]
           S == switchProcess(queue, "ready", "blockedBySem", current)
<1>1. current \in ToSet(queue["ready"]) /\ Dispatch(P, S, current, foreground)
  BY DEF BlockBySem, InQueue
<1>2. /\ "ready" \in QueueName /\ "blockedBySem" \in QueueName
      /\ "WAITING_SEM" \in ProcessState \ Gone /\ "WAITING_SEM" \in StatesOf["blockedBySem"]
  BY QueueNames, StatesOfFacts DEF ProcessState, Gone
<1>3. P[current].state = "WAITING_SEM" /\ current \in Pid /\ cpu \in Context
  BY LifeFacts, InvFacts DEF PCB
<1> HIDE DEF P
<1>4. GoodLists(P, S) /\ P[Idle].state \in {"READY", "RUNNING"}
  BY <1>1, <1>2, MoveStages DEF P
<1> HIDE DEF S
<1>5. /\ P[current'].state \in {"READY", "RUNNING"}
      /\ \A q \in Pid : pcb'[q].rsp = IF q = current /\ cpu # Boot THEN cpu ELSE P[q].rsp
  BY <1>1, <1>3, <1>4, DispatchEffect
<1> QED
  BY <1>3, <1>5, ConstantFacts DEF Boot, Pid

(* What a step does to sleepingOn. *)
LEMMA SleepingOnStep ==
  ASSUME [SemNext]_vars, sleepingOn \in [Context -> SemId \cup {Nowhere}]
  PROVE  \/ sleepingOn' = sleepingOn
         \/ sleepingOn' = [sleepingOn EXCEPT ![cpu] = Nowhere]
         \/ BlockBySem /\ \E s \in SemId : sleepingOn' = [sleepingOn EXCEPT ![cpu] = s]
BY DEF SemNext, SchedulerStep, SemOpen, semInit, SemClose, TableReused, SemWaitTakes, SemWaitFails,
       SemWaitSleeps, SemPost, SemReturn, Returned, vars, semVars

LEMMA NextContext ==
  ASSUME LifeInv, ContextPart, [SemNext]_vars
  PROVE  ContextPart'
<1>1. [Next]_schedVars
  BY StepRefines, LifeFacts
<1>2. Contexts(pcb', queue', current', cpu', nextFreePid')
  BY <1>1, StagesContexts
<1>3. Sleepers(sleepingOn, pcb', current', cpu', nextFreePid')
  BY <1>1, StagesContexts
<1>4. sleepingOn \in [Context -> SemId \cup {Nowhere}] /\ Pid \subseteq Context
  BY ConstantFacts DEF ContextPart
<1>5. CASE \A p \in Pid : sleepingOn'[p] \in {sleepingOn[p], Nowhere}
  <2>1. Sleepers(sleepingOn', pcb', current', cpu', nextFreePid')
    BY <1>3, <1>5 DEF Sleepers
  <2>2. sleepingOn' \in [Context -> SemId \cup {Nowhere}]
    BY <1>4, SleepingOnStep
  <2> QED
    BY <1>2, <2>1, <2>2 DEF ContextPart
<1>6. ASSUME BlockBySem, NEW s \in SemId, sleepingOn' = [sleepingOn EXCEPT ![cpu] = s]
      PROVE  ContextPart'
  <2>1. nextFreePid' = nextFreePid /\ nextFreePid \in Int /\ Pid \subseteq Int
    BY <1>6, LifeFacts, ConstantFacts DEF BlockBySem
  <2>2. \A p \in Pid : p # cpu => sleepingOn'[p] = sleepingOn[p]
    BY <1>4, <1>6
  <2>3. cpu \in Pid => ~(cpu >= nextFreePid)
    BY <2>1, AwakeFacts
  <2>4. ASSUME cpu \in Pid \ {Idle}, pcb'[cpu].state \notin Gone
        PROVE  ContextOf(pcb', current', cpu', cpu) = cpu
    <3>1. cpu = current
      <4>1. pcb[cpu].state \in Gone => pcb'[cpu].state \in Gone
        BY <1>1, <2>4, NextFate, AwakeFacts DEF FateRespected, Gone
      <4> QED
        BY <2>4, <4>1, AwakeFacts, ConstantFacts DEF Boot, Pid
    <3> QED
      BY <1>6, <3>1, BlockBySemContext DEF ContextOf
  <2>5. Sleepers(sleepingOn', pcb', current', cpu', nextFreePid')
    <3> DEFINE R == pcb'
               W == sleepingOn'
               c == cpu'
               q1 == current'
    <3>1. Sleepers(sleepingOn, R, q1, c, nextFreePid)
      BY <1>3, <2>1
    <3>2. \A p \in Pid : p # cpu => W[p] = sleepingOn[p]
      BY <2>2
    <3>3. cpu \in Pid \ {Idle} /\ R[cpu].state \notin Gone => ContextOf(R, q1, c, cpu) = cpu
      BY <2>4
    <3> HIDE DEF R, W, c, q1
    <3>4. Sleepers(W, R, q1, c, nextFreePid)
      BY <3>1, <3>2, <3>3, <2>3 DEF Sleepers
    <3> QED
      BY <3>4, <2>1 DEF R, W, c, q1
  <2>6. sleepingOn' \in [Context -> SemId \cup {Nowhere}]
    BY <1>4, <1>6
  <2> QED
    BY <1>2, <2>5, <2>6 DEF ContextPart
<1> QED
  BY <1>4, <1>5, <1>6, SleepingOnStep

LEMMA InitContext == SemInit => ContextPart
<1> SUFFICES ASSUME SemInit PROVE ContextPart
  OBVIOUS
<1>1. sleepingOn = [c \in Context |-> Nowhere] /\ cpu = Boot /\ current = SHELL_PID
  BY DEF SemInit, semManager, Init
<1>2. \A p \in Pid : pcb[p].state \notin Gone => pcb[p].rsp = p
  BY DEF SemInit, Init, Gone, FreePcb
<1>3. Pid \subseteq Context /\ cpu # current
  BY <1>1, ConstantFacts DEF Boot, SHELL_PID
<1> QED
  BY <1>1, <1>2, <1>3 DEF ContextPart, Contexts, Sleepers

-----------------------------------------------------------------------------
(* A queue exists only between semInit() and semClose() (in a table that    *)
(* was not freed), and nobody is in one that does not.                      *)
QueuePart ==
  \A s \in SemId : /\ TableKept /\ sem[s].queue = "live" => sem[s].used
                   /\ sem[s].queue # "live" => sem[s].blocked = <<>>

RefineInv == LifeInv /\ ContextPart /\ SemInv /\ QueuePart

(* What each operation does to the record of its semaphore.                 *)
LEMMA RecordStep ==
  ASSUME RefineInv, [SemNext]_vars
  PROVE  \/ sem' = sem
         \/ \E s \in SemId, r \in Sem :
              /\ sem' = [sem EXCEPT ![s] = r]
              /\ TableKept' /\ r.queue = "live" => r.used
              /\ r.queue # "live" => r.blocked = <<>>
<1>1. \A s \in SemId : /\ sem[s] \in Sem /\ sem[s].value \in Nat /\ sem[s].blocked \in Seq(Pid)
                       /\ TableKept /\ sem[s].queue = "live" => sem[s].used
                       /\ sem[s].queue # "live" => sem[s].blocked = <<>>
  BY DEF RefineInv, QueuePart, SemInv, Sem
<1>2. current \in Pid
  BY LifeFacts, InvFacts DEF RefineInv
<1>k. TableKept' => TableKept
  BY TableStays
<1>3. CASE SemOpen
  <2>1. PICK s \in SemId, failed \in BOOLEAN :
          sem' = [sem EXCEPT ![s] =
            [value |-> InitialValue, used |-> TRUE,
             queue |-> IF failed THEN "none" ELSE "live", blocked |-> <<>>]]
    BY <1>3 DEF SemOpen, semInit
  <2> DEFINE r == [value |-> InitialValue, used |-> TRUE,
                   queue |-> IF failed THEN "none" ELSE "live", blocked |-> <<>>]
  <2>2. r \in Sem /\ r.used /\ r.blocked = <<>> /\ sem' = [sem EXCEPT ![s] = r]
    BY <2>1, SemaphoreAssumption DEF Sem
  <2> HIDE DEF r
  <2> QED
    BY <2>2
<1>4. CASE SemClose
  <2>1. PICK s \in SemId :
          sem' = [sem EXCEPT ![s] =
            [value |-> 0, used |-> FALSE,
             queue |-> IF @.queue = "none" THEN "none" ELSE "freed", blocked |-> <<>>]]
    BY <1>4 DEF SemClose
  <2> DEFINE r == [value |-> 0, used |-> FALSE,
                   queue |-> IF sem[s].queue = "none" THEN "none" ELSE "freed", blocked |-> <<>>]
  <2>2. r \in Sem /\ r.queue # "live" /\ r.blocked = <<>>
    BY DEF Sem
  <2>3. sem' = [sem EXCEPT ![s] = r]
    BY <2>1 DEF RefineInv, SemInv
  <2> HIDE DEF r
  <2> QED
    BY <2>2, <2>3
<1>5. CASE SemWaitTakes
  <2>1. PICK s \in SemId : sem[s].value > 0 /\ sem' = [sem EXCEPT ![s].value = @ - 1]
    BY <1>5 DEF SemWaitTakes, HasToken, takeToken
  <2> DEFINE r == [sem[s] EXCEPT !.value = @ - 1]
  <2>2. r \in Sem /\ r.blocked = sem[s].blocked /\ r.queue = sem[s].queue /\ r.used = sem[s].used
    BY <2>1, <1>1 DEF Sem
  <2>3. sem' = [sem EXCEPT ![s] = r]
    BY <2>1
  <2> HIDE DEF r
  <2> QED
    BY <2>2, <2>3, <1>1, <1>k
<1>6. CASE SemWaitSleeps
  <2>1. PICK s \in SemId : \/ sem' = sem
                           \/ sem[s].queue = "live" /\ sem' = [sem EXCEPT ![s].blocked = Append(@, current)]
    BY <1>6 DEF SemWaitSleeps, enqueueWaiter
  <2>2. CASE sem[s].queue = "live" /\ sem' = [sem EXCEPT ![s].blocked = Append(@, current)]
    <3> DEFINE r == [sem[s] EXCEPT !.blocked = Append(@, current)]
    <3>1. Append(sem[s].blocked, current) \in Seq(Pid)
      BY <1>1, <1>2
    <3>2. r \in Sem /\ r.queue = sem[s].queue /\ r.used = sem[s].used
      BY <3>1, <1>1 DEF Sem
    <3>3. sem' = [sem EXCEPT ![s] = r]
      BY <2>2
    <3> HIDE DEF r
    <3> QED
      BY <2>2, <3>2, <3>3, <1>1, <1>k
  <2> QED
    BY <2>1, <2>2
<1>7. CASE SemPost
  <2>1. PICK s \in SemId : sem' = afterPost(s)
    BY <1>7 DEF SemPost
  <2>2. CASE sem[s].blocked = <<>>
    <3> DEFINE r == [sem[s] EXCEPT !.value = @ + 1]
    <3>1. r \in Sem /\ r.blocked = sem[s].blocked /\ r.queue = sem[s].queue /\ r.used = sem[s].used
      BY <1>1 DEF Sem
    <3>2. sem' = [sem EXCEPT ![s] = r]
      BY <2>1, <2>2 DEF afterPost
    <3> HIDE DEF r
    <3> QED
      BY <3>1, <3>2, <1>1, <1>k
  <2>3. CASE sem[s].blocked # <<>>
    <3> DEFINE r == [sem[s] EXCEPT !.blocked = Tail(@)]
    <3>1. Tail(sem[s].blocked) \in Seq(Pid)
      BY <2>3, <1>1
    <3>2. r \in Sem /\ r.queue = sem[s].queue /\ r.used = sem[s].used
      BY <3>1, <1>1 DEF Sem
    <3>3. sem' = [sem EXCEPT ![s] = r]
      BY <2>1, <2>3 DEF afterPost
    <3>4. sem[s].queue = "live"
      BY <2>3, <1>1
    <3> HIDE DEF r
    <3> QED
      BY <3>2, <3>3, <3>4, <1>1, <1>k
  <2> QED
    BY <2>2, <2>3
<1>8. CASE SchedulerStep \/ SemWaitFails \/ SemReturn \/ UNCHANGED vars
  BY <1>8 DEF SchedulerStep, SemWaitFails, SemReturn, vars, semVars
<1>9. CASE TableReused
  <2>1. PICK s \in SemId, v \in Garbage, u \in BOOLEAN : \E q \in {sem[s].queue, "none", "freed"} :
          sem' = [sem EXCEPT ![s] =
            [value |-> v, used |-> u, queue |-> q,
             blocked |-> IF q = "live" THEN @.blocked ELSE <<>>]]
    BY <1>9 DEF TableReused
  <2>2. PICK q \in {sem[s].queue, "none", "freed"} :
          sem' = [sem EXCEPT ![s] =
            [value |-> v, used |-> u, queue |-> q,
             blocked |-> IF q = "live" THEN @.blocked ELSE <<>>]]
    BY <2>1
  <2> DEFINE r == [value |-> v, used |-> u, queue |-> q,
                   blocked |-> IF q = "live" THEN sem[s].blocked ELSE <<>>]
  <2>3. r \in Sem /\ (r.queue # "live" => r.blocked = <<>>)
    BY <1>1, SemaphoreAssumption DEF Sem
  <2>4. sem' = [sem EXCEPT ![s] = r]
    BY <2>2 DEF RefineInv, SemInv
  <2>5. ~TableKept'
    BY <1>9, TableStays
  <2> HIDE DEF r
  <2> QED
    BY <2>3, <2>4, <2>5
<1> QED
  BY <1>3, <1>4, <1>5, <1>6, <1>7, <1>8, <1>9 DEF SemNext

LEMMA NextRefine == RefineInv /\ [SemNext]_vars => RefineInv'
<1> SUFFICES ASSUME RefineInv, [SemNext]_vars PROVE RefineInv'
  OBVIOUS
<1>1. LifeInv /\ IInv /\ ContextPart /\ SemInv /\ QueuePart
  BY DEF RefineInv, LifeInv
<1>2. LifeInv'
  BY <1>1, StepRefines, NextLife
<1>3. ContextPart'
  BY <1>1, NextContext
<1>4. SemInv'
  BY <1>1, LifeFacts, InvFacts, SemNextInv
<1>5. QueuePart'
  <2>0. TableKept' => TableKept
    BY TableStays
  <2>1. CASE sem' = sem
    BY <1>1, <2>0, <2>1 DEF QueuePart
  <2>2. ASSUME NEW s \in SemId, NEW r \in Sem, sem' = [sem EXCEPT ![s] = r],
               TableKept' /\ r.queue = "live" => r.used, r.queue # "live" => r.blocked = <<>>
        PROVE  QueuePart'
    BY <1>1, <2>0, <2>2 DEF QueuePart, SemInv
  <2> QED
    BY <2>1, <2>2, RecordStep
<1> QED
  BY <1>2, <1>3, <1>4, <1>5 DEF RefineInv

LEMMA InitRefine == SemInit => RefineInv
<1>1. SemInit => LifeInv
  BY InitInv, InitLife DEF SemInit, LifeInv
<1>2. SemInit => QueuePart
  BY DEF SemInit, semManager, QueuePart
<1> QED
  BY <1>1, <1>2, InitContext, SemInitInv DEF RefineInv

-----------------------------------------------------------------------------
(* The abstract variables, as Abstract maps them.                           *)
ValueOf   == [s \in SemId |-> sem[s].value]
QueuesOf  == {s \in SemId : sem[s].queue = "live"}
WaitersOf == [s \in SemId |-> sem[s].blocked]
AsleepOf  == [p \in Pid |-> IF pcb[p].state = "WAITING_SEM" THEN sleepingOn[p] ELSE Nowhere]

LEMMA MappedRecord ==
  ASSUME SemInv, NEW s \in SemId, NEW r \in Sem, sem' = [sem EXCEPT ![s] = r]
  PROVE  /\ ValueOf' = [ValueOf EXCEPT ![s] = r.value]
         /\ WaitersOf' = [WaitersOf EXCEPT ![s] = r.blocked]
         /\ QueuesOf' = IF r.queue = "live" THEN QueuesOf \cup {s} ELSE QueuesOf \ {s}
BY DEF SemInv, ValueOf, WaitersOf, QueuesOf

(* Who sleeps where, when the context in use has returned from its wait().  *)
LEMMA AsleepKept ==
  ASSUME RefineInv, sleepingOn' = sleepingOn \/ sleepingOn' = Returned,
         Asleep(pcb') = Asleep(pcb)
  PROVE  AsleepOf' = AsleepOf
<1>1. \A p \in Pid : pcb'[p].state = "WAITING_SEM" <=> pcb[p].state = "WAITING_SEM"
  BY DEF Asleep
<1>2. \A p \in Pid : pcb[p].state = "WAITING_SEM" => sleepingOn'[p] = sleepingOn[p]
  BY AwakeFacts, ConstantFacts DEF RefineInv, ContextPart, Returned
<1> QED
  BY <1>1, <1>2 DEF AsleepOf

LEMMA AsleepLeaves ==
  ASSUME RefineInv, sleepingOn' = sleepingOn \/ sleepingOn' = Returned,
         NEW c \in Pid, Asleep(pcb') = Asleep(pcb) \ {c}
  PROVE  AsleepOf' = [AsleepOf EXCEPT ![c] = Nowhere]
<1>1. \A p \in Pid : pcb'[p].state = "WAITING_SEM" <=> pcb[p].state = "WAITING_SEM" /\ p # c
  BY DEF Asleep
<1>2. \A p \in Pid : pcb[p].state = "WAITING_SEM" => sleepingOn'[p] = sleepingOn[p]
  BY AwakeFacts, ConstantFacts DEF RefineInv, ContextPart, Returned
<1> QED
  BY <1>1, <1>2 DEF AsleepOf

(* The scheduler's steps of the abstract system: a sleeper that is killed   *)
(* or blocked by name leaves, the rest is a stutter.                        *)
LEMMA SchedulerRefines ==
  ASSUME RefineInv, SchedulerStep
  PROVE  [Abstract!SemaphoreStep]_(Abstract!semaphores)
<1>1. UNCHANGED semVars
  BY DEF SchedulerStep
<1>2. LifeInv /\ LifeInv' /\ ContextPart
  BY NextLife, StepRefines DEF RefineInv, LifeInv, SemNext
<1>3. ValueOf' = ValueOf /\ QueuesOf' = QueuesOf /\ WaitersOf' = WaitersOf /\ sleepingOn' = sleepingOn
  BY <1>1 DEF semVars, ValueOf, QueuesOf, WaitersOf
<1>4. PICK R, S, cur : Stages(R, S, cur) /\ OneLeaves(R)
  BY <1>2, SchedulerStages DEF SchedulerStep, TwoStages
<1>5. Asleep(pcb') = Asleep(R)
  <2>1. nextFreePid <= nextFreePid'
    BY <1>2, PidsGrow DEF SchedulerStep, Next
  <2> QED
    BY <1>2, <1>4, <2>1, StagesKeep
<1>6. PICK c \in Pid : Asleep(pcb') \in {Asleep(pcb), Asleep(pcb) \ {c}}
  BY <1>4, <1>5 DEF OneLeaves
<1>7. CASE Asleep(pcb') = Asleep(pcb)
  <2>1. AsleepOf' = AsleepOf
    BY <1>3, <1>7, AsleepKept
  <2> QED
    BY <1>3, <2>1 DEF Abstract!semaphores, ValueOf, QueuesOf, WaitersOf, AsleepOf
<1>8. CASE Asleep(pcb') = Asleep(pcb) \ {c}
  <2>1. AsleepOf' = [AsleepOf EXCEPT ![c] = Nowhere]
    BY <1>3, <1>8, AsleepLeaves
  <2>2. Abstract!Leave(c)
    BY <1>3, <2>1 DEF Abstract!Leave, ValueOf, QueuesOf, WaitersOf, AsleepOf
  <2> QED
    BY <2>2 DEF Abstract!SemaphoreStep
<1> QED
  BY <1>6, <1>7, <1>8

(* semInit(), when the queue is allocated and when it is not.  In a freed   *)
(* table a semaphore may be found unused and with waiters: they are lost.   *)
LEMMA OpenOneRefines ==
  ASSUME RefineInv, NEW s \in SemId, NEW failed \in BOOLEAN, ~sem[s].used,
         sem' = [sem EXCEPT ![s] =
           [value |-> InitialValue, used |-> TRUE,
            queue |-> IF failed THEN "none" ELSE "live", blocked |-> <<>>]],
         table' = IF failed THEN "freed" ELSE table,
         table \in {"live", "freed"},
         UNCHANGED <<pcb, sleepingOn>>
  PROVE  Abstract!TableStep
<1> DEFINE r == [value |-> InitialValue, used |-> TRUE,
                 queue |-> IF failed THEN "none" ELSE "live", blocked |-> <<>>]
<1>1. /\ r \in Sem /\ r.value = InitialValue /\ r.blocked = <<>>
      /\ r.queue = IF failed THEN "none" ELSE "live"
  BY SemaphoreAssumption DEF Sem
<1>2. sem' = [sem EXCEPT ![s] = r]
  OBVIOUS
<1> HIDE DEF r
<1>3. /\ ValueOf' = [ValueOf EXCEPT ![s] = InitialValue]
      /\ WaitersOf' = [WaitersOf EXCEPT ![s] = <<>>]
      /\ QueuesOf' = IF failed THEN QueuesOf \ {s} ELSE QueuesOf \cup {s}
      /\ AsleepOf' = AsleepOf
  <2>1. /\ ValueOf' = [ValueOf EXCEPT ![s] = r.value]
        /\ WaitersOf' = [WaitersOf EXCEPT ![s] = r.blocked]
        /\ QueuesOf' = IF r.queue = "live" THEN QueuesOf \cup {s} ELSE QueuesOf \ {s}
    BY <1>1, <1>2, MappedRecord DEF RefineInv
  <2>2. AsleepOf' = AsleepOf
    BY DEF AsleepOf
  <2> QED
    BY <1>1, <2>1, <2>2
<1>4. CASE failed
  <2>1. Abstract!OpenFails(s, InitialValue)
    BY <1>3, <1>4 DEF Abstract!OpenFails, Abstract!Reset, ValueOf, QueuesOf, WaitersOf, AsleepOf
  <2> QED
    BY <2>1 DEF Abstract!TableStep
<1>5. CASE ~failed /\ table = "live"
  <2>1. sem[s].blocked = <<>> /\ table' = table
    BY <1>2, <1>5 DEF RefineInv, QueuePart, TableKept
  <2>2. WaitersOf' = WaitersOf
    BY <1>3, <2>1 DEF WaitersOf
  <2>3. Abstract!Open(s, InitialValue)
    BY <1>3, <1>5, <2>2 DEF Abstract!Open, ValueOf, QueuesOf, WaitersOf, AsleepOf
  <2> QED
    BY <2>1, <2>3 DEF Abstract!TableStep, Abstract!SemaphoreStep
<1>6. CASE ~failed /\ table = "freed"
  <2>1. Abstract!Reopen(s, InitialValue)
    BY <1>3, <1>6 DEF Abstract!Reopen, Abstract!Reset, ValueOf, QueuesOf, WaitersOf, AsleepOf
  <2> QED
    BY <2>1 DEF Abstract!TableStep
<1> QED
  BY <1>4, <1>5, <1>6

LEMMA OpenRefines ==
  ASSUME RefineInv, table \in {"live", "freed"}, SemOpen
  PROVE  Abstract!TableStep
<1>1. PICK s \in SemId, failed \in BOOLEAN :
        /\ ~sem[s].used
        /\ sem' = [sem EXCEPT ![s] =
             [value |-> InitialValue, used |-> TRUE,
              queue |-> IF failed THEN "none" ELSE "live", blocked |-> <<>>]]
        /\ table' = IF failed THEN "freed" ELSE table
        /\ UNCHANGED <<pcb, sleepingOn>>
  BY DEF SemOpen, semInit, schedVars
<1> QED
  BY <1>1, OpenOneRefines

(* What a new owner of the freed table writes: nobody is woken by it.       *)
LEMMA ReuseRefines ==
  ASSUME RefineInv, TableReused
  PROVE  Abstract!TableStep
<1>1. PICK s \in SemId, v \in Garbage, u \in BOOLEAN : \E q \in {sem[s].queue, "none", "freed"} :
        /\ table = "freed"
        /\ sem' = [sem EXCEPT ![s] =
             [value |-> v, used |-> u, queue |-> q,
              blocked |-> IF q = "live" THEN @.blocked ELSE <<>>]]
        /\ UNCHANGED <<schedVars, table, sleepingOn, held>>
  BY DEF TableReused
<1>2. PICK q \in {sem[s].queue, "none", "freed"} :
        sem' = [sem EXCEPT ![s] =
          [value |-> v, used |-> u, queue |-> q,
           blocked |-> IF q = "live" THEN @.blocked ELSE <<>>]]
  BY <1>1
<1>3. /\ sem \in [SemId -> Sem] /\ sem[s] \in Sem
      /\ sem[s].queue # "live" => sem[s].blocked = <<>>
  BY DEF RefineInv, SemInv, QueuePart
<1> DEFINE r == [value |-> v, used |-> u, queue |-> q,
                 blocked |-> IF q = "live" THEN sem[s].blocked ELSE <<>>]
<1>4. r \in Sem /\ r.value \in Nat /\ r.queue = q /\ r.blocked = IF q = "live" THEN sem[s].blocked ELSE <<>>
  BY <1>3, SemaphoreAssumption DEF Sem
<1>5. sem' = [sem EXCEPT ![s] = r]
  BY <1>2, <1>3
<1> HIDE DEF r
<1>6. /\ ValueOf' = [ValueOf EXCEPT ![s] = r.value]
      /\ WaitersOf' = [WaitersOf EXCEPT ![s] = r.blocked]
      /\ QueuesOf' = IF r.queue = "live" THEN QueuesOf \cup {s} ELSE QueuesOf \ {s}
  BY <1>4, <1>5, MappedRecord DEF RefineInv
<1>7. AsleepOf' = AsleepOf
  BY <1>1 DEF AsleepOf, schedVars
<1>8. ValueOf' \in [SemId -> Nat] /\ \A z \in SemId \ {s} : ValueOf'[z] = ValueOf[z]
  <2>1. ValueOf \in [SemId -> Nat]
    BY <1>3 DEF ValueOf, Sem
  <2> QED
    BY <1>4, <1>6, <2>1
<1>9. \/ QueuesOf' = QueuesOf /\ WaitersOf' = WaitersOf
      \/ QueuesOf' = QueuesOf \ {s} /\ WaitersOf' = [WaitersOf EXCEPT ![s] = <<>>]
  <2>1. CASE q = "live"
    BY <1>3, <1>4, <1>6, <2>1 DEF QueuesOf, WaitersOf
  <2>2. CASE q # "live"
    BY <1>4, <1>6, <2>2
  <2> QED
    BY <2>1, <2>2
<1>10. Abstract!Overwritten(s)
  BY <1>1, <1>7, <1>8, <1>9 DEF Abstract!Overwritten, ValueOf, QueuesOf, WaitersOf, AsleepOf
<1> QED
  BY <1>10 DEF Abstract!TableStep

LEMMA CloseRefines ==
  ASSUME RefineInv, SemClose
  PROVE  Abstract!SemaphoreStep
<1>1. PICK s \in SemId :
        /\ sem' = [sem EXCEPT ![s] =
             [value |-> 0, used |-> FALSE,
              queue |-> IF @.queue = "none" THEN "none" ELSE "freed", blocked |-> <<>>]]
        /\ UNCHANGED <<schedVars, sleepingOn>>
  BY DEF SemClose
<1> DEFINE r == [value |-> 0, used |-> FALSE,
                 queue |-> IF sem[s].queue = "none" THEN "none" ELSE "freed", blocked |-> <<>>]
<1>2. r \in Sem /\ r.value = 0 /\ r.queue # "live" /\ r.blocked = <<>>
  BY DEF Sem
<1>3. sem' = [sem EXCEPT ![s] = r] /\ UNCHANGED <<pcb, sleepingOn>>
  BY <1>1 DEF RefineInv, SemInv, schedVars
<1> HIDE DEF r
<1>4. /\ ValueOf' = [ValueOf EXCEPT ![s] = 0]
      /\ WaitersOf' = [WaitersOf EXCEPT ![s] = <<>>]
      /\ QueuesOf' = QueuesOf \ {s}
  BY <1>2, <1>3, MappedRecord DEF RefineInv
<1>5. AsleepOf' = AsleepOf
  BY <1>3 DEF AsleepOf
<1>6. Abstract!Close(s)
  BY <1>4, <1>5 DEF Abstract!Close, ValueOf, QueuesOf, WaitersOf, AsleepOf
<1> QED
  BY <1>6 DEF Abstract!SemaphoreStep

LEMMA WaitTakesRefines ==
  ASSUME RefineInv, SemWaitTakes
  PROVE  Abstract!SemaphoreStep
<1>1. PICK s \in SemId :
        /\ sem[s].value > 0 /\ sem' = [sem EXCEPT ![s].value = @ - 1]
        /\ sleepingOn' = Returned /\ UNCHANGED schedVars
  BY DEF SemWaitTakes, HasToken, takeToken
<1>0. sem[s] \in Sem /\ sem[s].value \in Nat
  BY DEF RefineInv, SemInv, Sem
<1> DEFINE r == [sem[s] EXCEPT !.value = @ - 1]
<1>2. r \in Sem /\ r.value = sem[s].value - 1 /\ r.blocked = sem[s].blocked /\ r.queue = sem[s].queue
  BY <1>0, <1>1 DEF Sem
<1>3. sem' = [sem EXCEPT ![s] = r]
  BY <1>1
<1> HIDE DEF r
<1>4. /\ ValueOf' = [ValueOf EXCEPT ![s] = r.value]
      /\ WaitersOf' = [WaitersOf EXCEPT ![s] = r.blocked]
      /\ QueuesOf' = IF r.queue = "live" THEN QueuesOf \cup {s} ELSE QueuesOf \ {s}
  BY <1>2, <1>3, MappedRecord DEF RefineInv
<1>5. WaitersOf' = WaitersOf /\ QueuesOf' = QueuesOf
  BY <1>2, <1>4 DEF WaitersOf, QueuesOf
<1>6. AsleepOf' = AsleepOf
  <2>1. Asleep(pcb') = Asleep(pcb)
    BY <1>1 DEF schedVars
  <2> QED
    BY <1>1, <2>1, AsleepKept
<1>7. ValueOf[s] > 0 /\ ValueOf' = [ValueOf EXCEPT ![s] = @ - 1]
  BY <1>1, <1>2, <1>4 DEF ValueOf
<1>8. Abstract!WaitTakes(s)
  BY <1>5, <1>6, <1>7 DEF Abstract!WaitTakes, ValueOf, QueuesOf, WaitersOf, AsleepOf
<1> QED
  BY <1>8 DEF Abstract!SemaphoreStep

(* The calls that only return: wait() without memory for the pid, and the   *)
(* system call that slept.                                                  *)
LEMMA ReturnRefines ==
  ASSUME RefineInv, SemWaitFails \/ SemReturn
  PROVE  UNCHANGED Abstract!semaphores
<1>1. UNCHANGED <<pcb, sem>> /\ sleepingOn' = Returned
  BY DEF SemWaitFails, SemReturn, KernelReturn, schedVars
<1>2. AsleepOf' = AsleepOf
  <2>1. Asleep(pcb') = Asleep(pcb)
    BY <1>1
  <2> QED
    BY <1>1, <2>1, AsleepKept
<1> QED
  BY <1>1, <1>2 DEF Abstract!semaphores, AsleepOf

(* post() takes the first waiter out of the queue, and wakes it if it still *)
(* sleeps; one that was killed or blocked by name is awake already.         *)
LEMMA PostRefines ==
  ASSUME RefineInv, SemPost
  PROVE  Abstract!SemaphoreStep
<1>1. PICK s \in SemId :
        /\ sem' = afterPost(s) /\ sleepingOn' = Returned
        /\ \/ sem[s].blocked = <<>> /\ UNCHANGED schedVars
           \/ sem[s].blocked # <<>> /\ wakeFirst(s)
  BY DEF SemPost
<1>2. sem[s] \in Sem /\ sem[s].value \in Nat /\ sem[s].blocked \in Seq(Pid) /\ LifeInv
  BY DEF RefineInv, SemInv, Sem
<1>3. CASE sem[s].blocked = <<>>
  <2> DEFINE r == [sem[s] EXCEPT !.value = @ + 1]
  <2>1. r \in Sem /\ r.value = sem[s].value + 1 /\ r.blocked = <<>> /\ r.queue = sem[s].queue
    BY <1>2, <1>3 DEF Sem
  <2>2. sem' = [sem EXCEPT ![s] = r] /\ pcb' = pcb
    BY <1>1, <1>3 DEF afterPost, schedVars
  <2> HIDE DEF r
  <2>3. /\ ValueOf' = [ValueOf EXCEPT ![s] = r.value]
        /\ WaitersOf' = [WaitersOf EXCEPT ![s] = r.blocked]
        /\ QueuesOf' = IF r.queue = "live" THEN QueuesOf \cup {s} ELSE QueuesOf \ {s}
    BY <2>1, <2>2, MappedRecord DEF RefineInv
  <2>4. WaitersOf' = WaitersOf /\ QueuesOf' = QueuesOf /\ WaitersOf[s] = <<>>
    BY <1>3, <2>1, <2>3 DEF WaitersOf, QueuesOf
  <2>5. AsleepOf' = AsleepOf
    <3>1. Asleep(pcb') = Asleep(pcb)
      BY <2>2
    <3> QED
      BY <1>1, <3>1, AsleepKept
  <2>6. ValueOf' = [ValueOf EXCEPT ![s] = @ + 1]
    BY <2>1, <2>3 DEF ValueOf
  <2>7. Abstract!Post(s)
    BY <2>4, <2>5, <2>6 DEF Abstract!Post, ValueOf, QueuesOf, WaitersOf, AsleepOf
  <2> QED
    BY <2>7 DEF Abstract!SemaphoreStep
<1>4. CASE sem[s].blocked # <<>>
  <2> DEFINE r == [sem[s] EXCEPT !.blocked = Tail(@)]
             p == Head(sem[s].blocked)
  <2>1. Tail(sem[s].blocked) \in Seq(Pid) /\ p \in Pid
    BY <1>2, <1>4
  <2>2. r \in Sem /\ r.value = sem[s].value /\ r.blocked = Tail(sem[s].blocked) /\ r.queue = sem[s].queue
    BY <1>2, <2>1 DEF Sem
  <2>3. sem' = [sem EXCEPT ![s] = r]
    BY <1>1, <1>4 DEF afterPost
  <2>4. MakeReady("blockedBySem", p) \/ (~InQueue("blockedBySem", p) /\ pcb' = pcb)
    BY <1>1, <1>4 DEF wakeFirst, schedVars
  <2>5. WaitersOf[s] = sem[s].blocked /\ Head(WaitersOf[s]) = p
    BY DEF WaitersOf
  <2> HIDE DEF r, p
  <2>6. /\ ValueOf' = [ValueOf EXCEPT ![s] = r.value]
        /\ WaitersOf' = [WaitersOf EXCEPT ![s] = r.blocked]
        /\ QueuesOf' = IF r.queue = "live" THEN QueuesOf \cup {s} ELSE QueuesOf \ {s}
    BY <2>2, <2>3, MappedRecord DEF RefineInv
  <2>7. ValueOf' = ValueOf /\ QueuesOf' = QueuesOf /\ WaitersOf' = [WaitersOf EXCEPT ![s] = Tail(@)]
    BY <2>2, <2>5, <2>6 DEF ValueOf, WaitersOf, QueuesOf
  <2>8. AsleepOf' = [AsleepOf EXCEPT ![p] = Nowhere]
    <3>1. Asleep(pcb') = Asleep(pcb) \ {p}
      <4>1. CASE MakeReady("blockedBySem", p)
        <5>1. pcb' = [pcb EXCEPT ![p].state = "READY"] /\ "READY" # "WAITING_SEM"
          BY <4>1 DEF MakeReady
        <5>2. pcb \in [Pid -> PCB]
          BY <1>2, LifeFacts, InvFacts
        <5> QED
          BY <2>1, <5>1, <5>2, MoveAsleep
      <4>2. CASE ~InQueue("blockedBySem", p) /\ pcb' = pcb
        <5>1. pcb[p].state # "WAITING_SEM"
          <6>1. SUFFICES ASSUME pcb[p].state = "WAITING_SEM" PROVE FALSE
            OBVIOUS
          <6>2. GoodLists(pcb, queue) /\ p # Idle
            BY <1>2, <6>1, LifeFacts, InvFacts
          <6>3. PICK n \in QueueName : p \in ToSet(queue[n])
            BY <2>1, <6>1, <6>2 DEF GoodLists
          <6>4. n = "blockedBySem"
            BY <6>1, <6>2, <6>3 DEF GoodLists, StatesOf, QueueName, Living
          <6> QED
            BY <4>2, <6>3, <6>4 DEF InQueue
        <5> QED
          BY <4>2, <5>1 DEF Asleep
      <4> QED
        BY <2>4, <4>1, <4>2
    <3> QED
      BY <1>1, <2>1, <3>1, AsleepLeaves
  <2>9. Abstract!Post(s)
    BY <1>4, <2>5, <2>7, <2>8 DEF Abstract!Post, ValueOf, QueuesOf, WaitersOf, AsleepOf
  <2> QED
    BY <2>9 DEF Abstract!SemaphoreStep
<1> QED
  BY <1>3, <1>4

(* wait() that finds no token.  The process whose own context is in use     *)
(* falls asleep there; one in a borrowed context is awake in the abstract   *)
(* system whatever it waits for, because its own context never slept; and   *)
(* one that is in no queue (idle) queues its pid and goes on.               *)
LEMMA WaitSleepsRefines ==
  ASSUME RefineInv, SemWaitSleeps
  PROVE  [Abstract!SemaphoreStep]_(Abstract!semaphores)
<1>1. PICK s \in SemId :
        /\ ~HasToken(s) /\ \E failed \in {FALSE, "node" \in SemAllocFails} :
                             sem' = enqueueWaiter(s, failed)
        /\ \/ BlockBySem /\ sleepingOn' = [sleepingOn EXCEPT ![cpu] = s]
           \/ sleepingOn' = Returned /\ UNCHANGED schedVars
  BY DEF SemWaitSleeps
<1>2. /\ sem[s] \in Sem /\ sem[s].value \in Nat /\ sem[s].blocked \in Seq(Pid)
      /\ LifeInv /\ ContextPart /\ LifeInv' /\ sem \in [SemId -> Sem]
      /\ current \in Pid /\ Idle \in Pid /\ cpu \in Context
  <2>1. LifeInv'
    BY NextRefine DEF RefineInv, SemNext
  <2> QED
    BY <2>1, LifeFacts, InvFacts, ConstantFacts DEF RefineInv, SemInv, Sem
<1>0. PICK me \in Pid : me = current
  BY <1>2
<1>3. ValueOf[s] = 0
  BY <1>1, <1>2 DEF ValueOf, HasToken
<1>4. /\ ValueOf' = ValueOf /\ QueuesOf' = QueuesOf
      /\ WaitersOf' = WaitersOf \/ WaitersOf' = Abstract!Enqueued(s, me)
  <2>1. CASE sem' = sem
    BY <2>1 DEF ValueOf, QueuesOf, WaitersOf
  <2>2. CASE sem[s].queue = "live" /\ sem' = [sem EXCEPT ![s].blocked = Append(@, current)]
    <3> DEFINE r == [sem[s] EXCEPT !.blocked = Append(@, current)]
    <3>1. Append(sem[s].blocked, current) \in Seq(Pid)
      BY <1>2
    <3>2. /\ r \in Sem /\ r.value = sem[s].value /\ r.queue = sem[s].queue
          /\ r.blocked = Append(sem[s].blocked, current)
      BY <3>1, <1>2 DEF Sem
    <3>3. sem' = [sem EXCEPT ![s] = r]
      BY <2>2
    <3> HIDE DEF r
    <3>4. /\ ValueOf' = [ValueOf EXCEPT ![s] = r.value]
          /\ WaitersOf' = [WaitersOf EXCEPT ![s] = r.blocked]
          /\ QueuesOf' = IF r.queue = "live" THEN QueuesOf \cup {s} ELSE QueuesOf \ {s}
      BY <3>2, <3>3, MappedRecord DEF RefineInv
    <3>5. s \in QueuesOf /\ WaitersOf' = [WaitersOf EXCEPT ![s] = Append(@, current)]
      BY <2>2, <3>2, <3>4 DEF QueuesOf, WaitersOf
    <3>6. WaitersOf' = Abstract!Enqueued(s, me)
      BY <1>0, <3>5 DEF Abstract!Enqueued, QueuesOf, WaitersOf
    <3>7. ValueOf' = ValueOf /\ QueuesOf' = QueuesOf
      BY <2>2, <3>2, <3>4 DEF ValueOf, QueuesOf
    <3> QED
      BY <3>6, <3>7
  <2> QED
    BY <1>1, <2>1, <2>2 DEF enqueueWaiter
<1>5. ASSUME AsleepOf' = AsleepOf
      PROVE  [Abstract!SemaphoreStep]_(Abstract!semaphores)
  <2>1. CASE WaitersOf' = WaitersOf
    BY <1>4, <1>5, <2>1 DEF Abstract!semaphores, ValueOf, QueuesOf, WaitersOf, AsleepOf
  <2>2. CASE WaitersOf' = Abstract!Enqueued(s, me)
    <3>1. Abstract!WaitGoesOn(s, me)
      BY <1>3, <1>4, <1>5, <2>2 DEF Abstract!WaitGoesOn, ValueOf, QueuesOf, WaitersOf, AsleepOf
    <3> QED
      BY <3>1 DEF Abstract!SemaphoreStep
  <2> QED
    BY <1>4, <2>1, <2>2
<1>6. CASE sleepingOn' = Returned /\ UNCHANGED schedVars
  <2>1. Asleep(pcb') = Asleep(pcb)
    BY <1>6 DEF schedVars
  <2> QED
    BY <1>5, <1>6, <2>1, AsleepKept
<1>7. CASE BlockBySem /\ sleepingOn' = [sleepingOn EXCEPT ![cpu] = s]
  <2>1. /\ current \in Pid \ {Idle} /\ pcb[current].state \notin Gone
        /\ pcb[current].state # "WAITING_SEM"
    BY <1>2, <1>7, BlockBySemStages
  <2>2. Asleep(pcb') = Asleep(pcb) \cup {current}
    <3>1. PICK R, S, cur : Stages(R, S, cur) /\ Asleep(R) = Asleep(pcb) \cup {current}
      BY <1>2, <1>7, BlockBySemStages
    <3>2. nextFreePid <= nextFreePid'
      BY <1>2, <1>7, PidsGrow DEF Next
    <3> QED
      BY <1>2, <3>1, <3>2, StagesKeep
  <2>3. /\ \A p \in Pid : pcb'[p].state = "WAITING_SEM" <=> pcb[p].state = "WAITING_SEM" \/ p = current
        /\ \A p \in Pid : sleepingOn'[p] = IF p = cpu THEN s ELSE sleepingOn[p]
    <3>1. Pid \subseteq Context /\ sleepingOn \in [Context -> SemId \cup {Nowhere}]
      BY <1>2, ConstantFacts DEF ContextPart
    <3> QED
      BY <1>7, <2>2, <3>1 DEF Asleep
  <2>4. cpu \in Pid => pcb[cpu].state # "WAITING_SEM"
    BY <1>2, AwakeFacts
  <2>5. CASE cpu = current
    <3>1. AsleepOf' = [AsleepOf EXCEPT ![me] = s] /\ AsleepOf[me] = Nowhere
      BY <1>0, <2>1, <2>3, <2>5 DEF AsleepOf
    <3>2. \E failed \in BOOLEAN : Abstract!WaitSleeps(s, me, failed)
      BY <1>3, <1>4, <3>1 DEF Abstract!WaitSleeps, ValueOf, QueuesOf, WaitersOf, AsleepOf
    <3> QED
      BY <3>2 DEF Abstract!SemaphoreStep
  <2>6. CASE cpu # current
    <3>1. sleepingOn[current] = Nowhere
      BY <1>2, <2>1, <2>6 DEF ContextPart, Sleepers, ContextOf
    <3>2. AsleepOf' = AsleepOf
      BY <2>1, <2>3, <2>4, <2>6, <3>1 DEF AsleepOf
    <3> QED
      BY <1>5, <3>2
  <2> QED
    BY <2>5, <2>6
<1> QED
  BY <1>1, <1>6, <1>7

LEMMA InitRefines == SemInit => Abstract!NoSemaphores
BY ConstantFacts DEF SemInit, semManager, Abstract!NoSemaphores

(* Every call of semInit(), semClose(), wait() and post() does to values,   *)
(* queues and sleepers what CountingSemaphore says, and the scheduler, with *)
(* interrupts, deaths, blocking by name and processes that run on a dead    *)
(* one's stack in between, does nothing to them but that a sleeper leaves:  *)
(* for any number of processes and semaphores, and on every failure path.   *)
(* When semInit() has freed the table, a new owner of its memory changes    *)
(* values and loses queues, but wakes nobody.                               *)
THEOREM SemaphoresRefine == SemSpec => ImplementsCountingSemaphore
<1> DEFINE Inv == RefineInv /\ table \in {"live", "freed"}
<1>1. SemInit => Inv /\ Abstract!NoSemaphores /\ table = "live"
  <2>1. SemInit => table = "live"
    BY DEF SemInit, semManager
  <2> QED
    BY <2>1, InitRefine, InitRefines
<1>2. Inv /\ [SemNext]_vars => Inv'
  <2>1. table \in {"live", "freed"} /\ [SemNext]_vars => table' \in {"live", "freed"}
    BY DEF SemNext, SchedulerStep, SemOpen, semInit, SemClose, TableReused, SemWaitTakes,
       SemWaitFails, SemWaitSleeps, SemPost, SemReturn, vars, semVars
  <2> QED
    BY <2>1, NextRefine
<1>3. Inv /\ [SemNext]_vars => [Abstract!TableStep]_(Abstract!service)
  <2> SUFFICES ASSUME Inv, [SemNext]_vars
               PROVE  [Abstract!TableStep]_(Abstract!service)
    OBVIOUS
  <2>0. ASSUME [Abstract!SemaphoreStep]_(Abstract!semaphores), UNCHANGED table
        PROVE  [Abstract!TableStep]_(Abstract!service)
    BY <2>0 DEF Abstract!TableStep, Abstract!service
  <2>1. CASE UNCHANGED vars
    BY <2>1 DEF vars, semVars, schedVars, Abstract!service, Abstract!semaphores
  <2>2. CASE SchedulerStep
    BY <2>0, <2>2, SchedulerRefines DEF SchedulerStep, semVars
  <2>3. CASE SemOpen
    BY <2>3, OpenRefines
  <2>4. CASE SemClose
    BY <2>0, <2>4, CloseRefines DEF SemClose
  <2>5. CASE SemWaitTakes
    BY <2>0, <2>5, WaitTakesRefines DEF SemWaitTakes
  <2>6. CASE SemWaitFails \/ SemReturn
    BY <2>0, <2>6, ReturnRefines DEF SemWaitFails, SemReturn
  <2>7. CASE SemWaitSleeps
    BY <2>0, <2>7, WaitSleepsRefines DEF SemWaitSleeps
  <2>8. CASE SemPost
    BY <2>0, <2>8, PostRefines DEF SemPost
  <2>9. CASE TableReused
    BY <2>9, ReuseRefines
  <2> QED
    BY <2>1, <2>2, <2>3, <2>4, <2>5, <2>6, <2>7, <2>8, <2>9 DEF SemNext
<1> HIDE DEF Inv
<1> QED
  BY <1>1, <1>2, <1>3, PTL DEF SemSpec, ImplementsCountingSemaphore, Abstract!TableSpec

-----------------------------------------------------------------------------
(* Sums of tokens.  SumOver is a fold: what follows is about the function   *)
(* the fold recurs on, by induction over the size of a set.                 *)
LEMMA AllNaturals ==
  ASSUME NEW S, 0 \in S, \A n \in Nat : n \in S => n + 1 \in S
  PROVE  Nat \subseteq S
<1> SUFFICES ASSUME Nat \ S # {}
             PROVE  FALSE
  OBVIOUS
<1>1. IsWellFoundedOn(OpToRel(<, Nat), Nat)
  BY NatLessThanWellFounded, Zenon
<1>2. PICK m \in Nat \ S : \A k \in Nat \ S : ~(<<k, m>> \in OpToRel(<, Nat))
  BY <1>1, WFMin, Zenon
<1>3. \A k \in Nat \ S : ~(k < m)
  BY <1>2 DEF OpToRel
<1>4. m - 1 \in Nat /\ m - 1 < m
  OBVIOUS
<1>5. m - 1 \in S
  BY <1>3, <1>4
<1> QED
  BY <1>4, <1>5

First(T) == CHOOSE x \in T : TRUE
SumStep(f, it, T) == IF T = {} THEN 0 ELSE f[First(T)] + it[T \ {First(T)}]
Sums(f, S) == CHOOSE it : it = [T \in SUBSET S |-> SumStep(f, it, T)]

LEMMA SumIsFold == ASSUME NEW f, NEW S PROVE SumOver(f, S) = Sums(f, S)[S]
BY DEF SumOver, FoldFunctionOnSet, MapThenFoldSet, Sums, SumStep, First

LEMMA Smaller ==
  ASSUME NEW S, IsFiniteSet(S), NEW T \in SUBSET S
  PROVE  /\ Cardinality(T) \in Nat /\ Cardinality(T) <= Cardinality(S)
         /\ Cardinality(S) \in Nat
         /\ Cardinality(T) <= 0 => T = {}
         /\ T # {} => /\ First(T) \in T /\ T \ {First(T)} \in SUBSET S
                      /\ Cardinality(T) # 0
                      /\ Cardinality(T \ {First(T)}) = Cardinality(T) - 1
<1>1. T # {} => First(T) \in T
  BY DEF First
<1>2. IsFiniteSet(T)
  BY FS_Subset
<1>3. T # {} => Cardinality(T \ {First(T)}) = Cardinality(T) - 1
  BY <1>1, <1>2, FS_RemoveElement
<1>4. T # {} => Cardinality(T) # 0
  BY <1>2, FS_EmptySet
<1>5. Cardinality(T) \in Nat /\ Cardinality(S) \in Nat /\ Cardinality(T) <= Cardinality(S)
  BY <1>2, FS_CardinalityType, FS_Subset
<1>6. Cardinality(T) <= 0 => T = {}
  BY <1>4, <1>5
<1> QED
  BY <1>1, <1>3, <1>4, <1>5, <1>6

(* Induction over the subsets of a finite set, taking out one element.      *)
LEMMA SetInduction ==
  ASSUME NEW S, IsFiniteSet(S), NEW G, {} \in G,
         \A T \in SUBSET S : T # {} /\ T \ {First(T)} \in G => T \in G
  PROVE  S \in G
<1> DEFINE N == {n \in Nat : \A T \in SUBSET S : Cardinality(T) <= n => T \in G}
<1>1. 0 \in N
  <2>1. ASSUME NEW T \in SUBSET S, Cardinality(T) <= 0 PROVE T \in G
    <3>1. T = {}
      BY <2>1, Smaller
    <3> QED
      BY <3>1
  <2> QED
    BY <2>1
<1>2. ASSUME NEW n \in Nat, n \in N PROVE n + 1 \in N
  <2>1. ASSUME NEW T \in SUBSET S, Cardinality(T) <= n + 1 PROVE T \in G
    <3>1. CASE T # {}
      <4>1. T \ {First(T)} \in SUBSET S /\ Cardinality(T \ {First(T)}) <= n
        BY <2>1, <3>1, Smaller
      <4> QED
        BY <1>2, <3>1, <4>1
    <3> QED
      BY <3>1
  <2> QED
    BY <2>1
<1> HIDE DEF N
<1>3. Cardinality(S) \in N
  <2>1. Cardinality(S) \in Nat
    BY Smaller
  <2> QED
    BY <1>1, <1>2, <2>1, AllNaturals
<1> QED
  BY <1>3, Smaller DEF N

(* The fold is well defined: one function meets its recursion.              *)
LEMMA SumsExist ==
  ASSUME NEW f, NEW S, IsFiniteSet(S)
  PROVE  \A T \in SUBSET S : Sums(f, S)[T] = SumStep(f, Sums(f, S), T)
<1> DEFINE Upto(n, it) == \A T \in SUBSET S : Cardinality(T) <= n => it[T] = SumStep(f, it, T)
           N == {n \in Nat : \E it : it = [T \in SUBSET S |-> it[T]] /\ Upto(n, it)}
<1>1. 0 \in N
  <2> DEFINE it == [T \in SUBSET S |-> 0]
  <2>1. ASSUME NEW T \in SUBSET S, Cardinality(T) <= 0 PROVE it[T] = SumStep(f, it, T)
    <3>1. T = {}
      BY <2>1, Smaller
    <3> QED
      BY <3>1 DEF SumStep
  <2>2. it = [T \in SUBSET S |-> it[T]]
    OBVIOUS
  <2>3. Upto(0, it)
    BY <2>1
  <2> HIDE DEF it, Upto
  <2> QED
    BY <2>2, <2>3
<1>2. ASSUME NEW n \in Nat, n \in N PROVE n + 1 \in N
  <2>1. PICK it : it = [T \in SUBSET S |-> it[T]] /\ Upto(n, it)
    BY <1>2
  <2> DEFINE jt == [T \in SUBSET S |-> SumStep(f, it, T)]
  <2>2. ASSUME NEW T \in SUBSET S, Cardinality(T) <= n + 1
        PROVE  jt[T] = SumStep(f, jt, T)
    <3>1. CASE T = {}
      BY <3>1 DEF SumStep
    <3>2. CASE T # {}
      <4> DEFINE U == T \ {First(T)}
      <4>1. U \in SUBSET S /\ Cardinality(U) <= n
        BY <2>2, <3>2, Smaller
      <4>2. it[U] = SumStep(f, it, U)
        BY <2>1, <4>1
      <4>3. jt[U] = it[U]
        BY <4>1, <4>2
      <4> QED
        BY <3>2, <4>3 DEF SumStep
    <3> QED
      BY <3>1, <3>2
  <2>3. jt = [T \in SUBSET S |-> jt[T]]
    OBVIOUS
  <2>4. Upto(n + 1, jt)
    BY <2>2
  <2> HIDE DEF jt, Upto
  <2> QED
    BY <2>3, <2>4
<1> HIDE DEF N
<1>3. Cardinality(S) \in N
  <2>1. Cardinality(S) \in Nat
    BY Smaller
  <2> QED
    BY <1>1, <1>2, <2>1, AllNaturals
<1>4. PICK it : it = [T \in SUBSET S |-> it[T]] /\ Upto(Cardinality(S), it)
  BY <1>3 DEF N
<1>5. it = [T \in SUBSET S |-> SumStep(f, it, T)]
  <2>1. \A T \in SUBSET S : it[T] = SumStep(f, it, T)
    BY <1>4, Smaller
  <2> QED
    BY <1>4, <2>1
<1>6. Sums(f, S) = [T \in SUBSET S |-> SumStep(f, Sums(f, S), T)]
  BY <1>5 DEF Sums
<1> QED
  BY <1>6

(* Adding to one place adds as much to the sum.                             *)
LEMMA SumChanges ==
  ASSUME NEW S, IsFiniteSet(S), NEW f \in [S -> Int], NEW g \in [S -> Int], NEW c \in S,
         \A d \in S \ {c} : g[d] = f[d]
  PROVE  /\ SumOver(f, S) \in Int
         /\ SumOver(g, S) = SumOver(f, S) + (g[c] - f[c])
<1> DEFINE F == Sums(f, S)
           H == Sums(g, S)
           more(T) == IF c \in T THEN g[c] - f[c] ELSE 0
           G == {T \in SUBSET S : F[T] \in Int /\ H[T] = F[T] + more(T)}
<1>1. \A T \in SUBSET S : F[T] = SumStep(f, F, T) /\ H[T] = SumStep(g, H, T)
  BY SumsExist
<1> HIDE DEF F, H
<1>2. {} \in G
  <2>1. F[{}] = 0 /\ H[{}] = 0
    BY <1>1 DEF SumStep
  <2> QED
    BY <2>1
<1>3. ASSUME NEW T \in SUBSET S, T # {}, T \ {First(T)} \in G PROVE T \in G
  <2> DEFINE U == T \ {First(T)}
  <2>0. PICK x : x = First(T)
    OBVIOUS
  <2>1. x \in T /\ x \in S
    BY <1>3, <2>0, Smaller
  <2>2. F[T] = f[x] + F[U] /\ H[T] = g[x] + H[U]
    BY <1>1, <1>3, <2>0 DEF SumStep
  <2>3. F[U] \in Int /\ H[U] = F[U] + more(U)
    BY <1>3
  <2>4. f[x] \in Int /\ g[x] \in Int /\ f[c] \in Int /\ g[c] \in Int
    BY <2>1
  <2>5. CASE x = c
    <3>1. more(T) = g[c] - f[c] /\ more(U) = 0
      BY <2>0, <2>1, <2>5
    <3> QED
      BY <2>2, <2>3, <2>4, <2>5, <3>1
  <2>6. CASE x # c
    <3>1. more(T) = more(U) /\ more(U) \in Int /\ g[x] = f[x]
      BY <2>0, <2>1, <2>4, <2>6
    <3> HIDE DEF more, U
    <3> QED
      BY <2>2, <2>3, <2>4, <3>1
  <2> QED
    BY <2>5, <2>6
<1> HIDE DEF G
<1>4. S \in G
  BY <1>2, <1>3, SetInduction
<1> QED
  BY <1>4, SumIsFold DEF F, H, G

(* Smaller terms have a smaller sum.                                        *)
LEMMA SumGrows ==
  ASSUME NEW S, IsFiniteSet(S), NEW f \in [S -> Int], NEW g \in [S -> Int],
         \A d \in S : f[d] <= g[d]
  PROVE  /\ SumOver(f, S) \in Int /\ SumOver(g, S) \in Int
         /\ SumOver(f, S) <= SumOver(g, S)
<1> DEFINE F == Sums(f, S)
           H == Sums(g, S)
           G == {T \in SUBSET S : F[T] \in Int /\ H[T] \in Int /\ F[T] <= H[T]}
<1>1. \A T \in SUBSET S : F[T] = SumStep(f, F, T) /\ H[T] = SumStep(g, H, T)
  BY SumsExist
<1> HIDE DEF F, H
<1>2. {} \in G
  <2>1. F[{}] = 0 /\ H[{}] = 0
    BY <1>1 DEF SumStep
  <2> QED
    BY <2>1
<1>3. ASSUME NEW T \in SUBSET S, T # {}, T \ {First(T)} \in G PROVE T \in G
  <2> DEFINE U == T \ {First(T)}
  <2>0. PICK x : x = First(T)
    OBVIOUS
  <2>1. x \in T /\ x \in S
    BY <1>3, <2>0, Smaller
  <2>2. F[T] = f[x] + F[U] /\ H[T] = g[x] + H[U]
    BY <1>1, <1>3, <2>0 DEF SumStep
  <2>3. F[U] \in Int /\ H[U] \in Int /\ F[U] <= H[U]
    BY <1>3
  <2>4. f[x] \in Int /\ g[x] \in Int /\ f[x] <= g[x]
    BY <2>1
  <2> HIDE DEF U
  <2> QED
    BY <2>2, <2>3, <2>4
<1> HIDE DEF G
<1>4. S \in G
  BY <1>2, <1>3, SetInduction
<1> QED
  BY <1>4, SumIsFold DEF F, H, G

LEMMA SumOfZeros ==
  ASSUME NEW S, IsFiniteSet(S), NEW f \in [S -> {0}]
  PROVE  SumOver(f, S) = 0
<1> DEFINE F == Sums(f, S)
           G == {T \in SUBSET S : F[T] = 0}
<1>1. \A T \in SUBSET S : F[T] = SumStep(f, F, T)
  BY SumsExist
<1> HIDE DEF F
<1>2. {} \in G
  BY <1>1 DEF SumStep
<1>3. ASSUME NEW T \in SUBSET S, T # {}, T \ {First(T)} \in G PROVE T \in G
  <2>1. First(T) \in S
    BY <1>3, Smaller
  <2>2. F[T] = f[First(T)] + F[T \ {First(T)}]
    BY <1>1, <1>3 DEF SumStep
  <2> QED
    BY <1>3, <2>1, <2>2
<1> HIDE DEF G
<1>4. S \in G
  BY <1>2, <1>3, SetInduction
<1> QED
  BY <1>4, SumIsFold DEF F, G

(* One more for every element of C.                                         *)
LEMMA SumCounts ==
  ASSUME NEW S, IsFiniteSet(S), NEW f \in [S -> Int], NEW C \in SUBSET S
  PROVE  /\ SumOver(f, S) \in Int
         /\ SumOver([d \in S |-> f[d] + IF d \in C THEN 1 ELSE 0], S)
              = SumOver(f, S) + Cardinality(C)
<1> DEFINE g == [d \in S |-> f[d] + IF d \in C THEN 1 ELSE 0]
           F == Sums(f, S)
           H == Sums(g, S)
           G == {T \in SUBSET S : F[T] \in Int /\ H[T] = F[T] + Cardinality(C \cap T)}
<1>1. \A T \in SUBSET S : F[T] = SumStep(f, F, T) /\ H[T] = SumStep(g, H, T)
  BY SumsExist
<1> HIDE DEF F, H
<1>2. {} \in G
  <2>1. F[{}] = 0 /\ H[{}] = 0
    BY <1>1 DEF SumStep
  <2>2. Cardinality(C \cap {}) = 0
    BY FS_EmptySet
  <2> QED
    BY <2>1, <2>2
<1>3. ASSUME NEW T \in SUBSET S, T # {}, T \ {First(T)} \in G PROVE T \in G
  <2> DEFINE U == T \ {First(T)}
  <2>0. PICK x : x = First(T)
    OBVIOUS
  <2>1. x \in T /\ x \in S
    BY <1>3, <2>0, Smaller
  <2>2. F[T] = f[x] + F[U] /\ H[T] = g[x] + H[U]
    BY <1>1, <1>3, <2>0 DEF SumStep
  <2>3. F[U] \in Int /\ H[U] = F[U] + Cardinality(C \cap U)
    BY <1>3
  <2>4. IsFiniteSet(C \cap T) /\ Cardinality(C \cap U) \in Nat /\ Cardinality(C \cap T) \in Nat
    BY FS_Subset, FS_CardinalityType
  <2>5. CASE x \in C
    <3>1. C \cap U = (C \cap T) \ {x} /\ x \in C \cap T
      BY <2>0, <2>1, <2>5
    <3>2. Cardinality(C \cap U) = Cardinality(C \cap T) - 1
      <4> DEFINE V == C \cap T
      <4>1. IsFiniteSet(V) /\ x \in V /\ C \cap U = V \ {x}
        BY <2>4, <3>1
      <4> HIDE DEF V
      <4>2. Cardinality(V \ {x}) = Cardinality(V) - 1
        BY <4>1, FS_RemoveElement
      <4> QED
        BY <4>1, <4>2 DEF V
    <3>3. g[x] = f[x] + 1 /\ f[x] \in Int
      BY <2>1, <2>5
    <3> HIDE DEF g, U
    <3> QED
      BY <2>2, <2>3, <2>4, <3>2, <3>3
  <2>6. CASE x \notin C
    <3>1. C \cap U = C \cap T
      BY <2>0, <2>6
    <3>2. g[x] = f[x] /\ f[x] \in Int
      BY <2>1, <2>6
    <3> HIDE DEF g, U
    <3> QED
      BY <2>2, <2>3, <2>4, <3>1, <3>2
  <2> QED
    BY <2>5, <2>6
<1> HIDE DEF G
<1>4. S \in G
  BY <1>2, <1>3, SetInduction
<1>5. C \cap S = C
  OBVIOUS
<1> QED
  BY <1>4, <1>5, SumIsFold DEF F, H, G

-----------------------------------------------------------------------------
(* While no running process is killed in place, nobody is blocked by name,  *)
(* and semaphores are opened before and closed after their use.             *)
Orderly == ~SelfKill /\ BlockTargets = {} /\ ~Sloppy

(* A context in s's wait() that was made ready, and will have the token     *)
(* when it is resumed: it lives, or has called exit (and its context is     *)
(* parked behind that call, where idle may run).                            *)
Lives(p) == Alive(p) \/ frame[p].at = "hang"
Owed(s) == {p \in Pid : sleepingOn[p] = s /\ ~Sleeps(p, s) /\ Lives(p)}

(* The tokens a context has, with the one that is on its way.               *)
Credit(s) == [c \in Context |-> held[s][c] + IF c \in Owed(s) THEN 1 ELSE 0]

Balance(s) == SumOver(Credit(s), Context) + sem[s].value

(* Nobody died in wait(): a process that slept or has a token coming lives. *)
Unscathed(s) == \A p \in Pid : sleepingOn[p] = s => Lives(p)

Accounts ==
  \A s \in SemId : Live(s) =>
    /\ Balance(s) <= InitialValue
    /\ ~IdleWaits /\ Unscathed(s) => Balance(s) = InitialValue

(* A pid in the queue of s sleeps there or was killed there (idle, if it    *)
(* may wait, goes on); only idle is there twice.                            *)
Entry(s, p) ==
  \/ p = Idle /\ IdleWaits
  \/ p \in Pid /\ sleepingOn[p] = s /\ (Sleeps(p, s) \/ ~Lives(p))

Entries ==
  \A s \in SemId :
    /\ \A p \in ToSet(sem[s].blocked) : Entry(s, p)
    /\ \A i, j \in DOMAIN sem[s].blocked :
         i # j /\ sem[s].blocked[i] = sem[s].blocked[j] => sem[s].blocked[i] = Idle

(* Only a context that can run a program sleeps, and on a live semaphore.   *)
Sites ==
  /\ \A s \in SemId : ~Live(s) => \A c \in Context : sleepingOn[c] # s
  /\ sleepingOn[Boot] = Nowhere /\ sleepingOn[Idle] = Nowhere
  /\ \A p \in Pid : /\ p # Idle => frame[p].at # "halted"
                    /\ pcb[p].state = "WAITING_SEM" => frame[p].at = "kernel"
  /\ held \in [SemId -> [Context -> Int]]

TokenPart == Accounts /\ Entries /\ Sites

TokenInv == RefineInv /\ StackPart /\ TokenPart

(* What the invariant says of the context in use.                           *)
LEMMA TokenFacts ==
  ASSUME TokenInv
  PROVE  /\ RefineInv /\ StackInv /\ LifeInv /\ IInv /\ ContextPart
         /\ current \in Pid /\ cpu \in Context /\ Pid \subseteq Context /\ Context = Pid \cup {Boot}
         /\ Idle \in Pid /\ Boot \notin Pid /\ IsFiniteSet(Context)
         /\ sleepingOn \in [Context -> SemId \cup {Nowhere}]
         /\ held \in [SemId -> [Context -> Int]]
         /\ sem \in [SemId -> Sem]
         /\ \A s \in SemId : /\ sem[s] \in Sem /\ sem[s].value \in Nat /\ sem[s].blocked \in Seq(Pid)
                             /\ Credit(s) \in [Context -> Int]
         /\ InitialValue \in Nat /\ Nowhere \notin SemId
<1>1. /\ RefineInv /\ StackInv /\ LifeInv /\ IInv /\ ContextPart /\ Sites
      /\ current \in Pid /\ cpu \in Context /\ Pid \subseteq Context /\ Boot \notin Pid
  BY LifeFacts, InvFacts, ConstantFacts, StackFacts DEF TokenInv, RefineInv, StackInv, TokenPart
<1>2. /\ Idle \in Pid /\ Context = Pid \cup {Boot}
      /\ InitialValue \in Nat /\ Nowhere \notin SemId
      /\ sleepingOn \in [Context -> SemId \cup {Nowhere}]
      /\ held \in [SemId -> [Context -> Int]]
  BY <1>1, ConstantFacts, SemaphoreAssumption DEF Context, ContextPart, Sites
<1>3. IsFiniteSet(Context)
  <2>1. IsFiniteSet(Pid)
    BY FS_Interval, SchedulerAssumption DEF Pid
  <2> QED
    BY <1>2, <2>1, FS_AddElement
<1>4. sem \in [SemId -> Sem]
  BY <1>1 DEF RefineInv, SemInv
<1>5. \A s \in SemId : sem[s] \in Sem /\ sem[s].value \in Nat /\ sem[s].blocked \in Seq(Pid)
  BY <1>4 DEF Sem
<1>6. \A s \in SemId : Credit(s) \in [Context -> Int]
  BY <1>2 DEF Credit
<1> QED
  BY <1>1, <1>2, <1>3, <1>4, <1>5, <1>6

(* The context in use is awake: if it came back from a wait(), the token is *)
(* the one it has coming.                                                   *)
LEMMA CpuOwed ==
  ASSUME TokenInv
  PROVE  /\ cpu \in Pid => ~(pcb[cpu].state = "WAITING_SEM")
         /\ cpu \in Pid \ {Idle} => Lives(cpu)
         /\ \A s \in SemId : /\ sleepingOn[cpu] = s <=> cpu \in Owed(s)
                             /\ Credit(s)[cpu] = heldOnReturn[s][cpu]
                             /\ heldOnReturn[s][cpu] \in Int
<1>1. cpu \in Pid => ~(pcb[cpu].state = "WAITING_SEM")
  BY TokenFacts, AwakeFacts
<1>2. cpu \in Pid \ {Idle} => Lives(cpu)
  <2> SUFFICES ASSUME cpu \in Pid \ {Idle} PROVE Lives(cpu)
    OBVIOUS
  <2>1. CASE cpu = current
    BY <2>1, TokenFacts, LifeFacts DEF Lives, Alive, Gone
  <2>2. CASE cpu # current
    <3>1. frame[cpu].at \in Parked
      BY <2>2, TokenFacts, StackFacts DEF OwnStacks
    <3>2. frame[cpu].at # "halted"
      BY DEF TokenInv, TokenPart, Sites
    <3> QED
      BY <3>1, <3>2 DEF Parked, Lives
  <2> QED
    BY <2>1, <2>2
<1>3. ASSUME NEW s \in SemId PROVE sleepingOn[cpu] = s <=> cpu \in Owed(s)
  <2>1. sleepingOn[cpu] = s => cpu \in Pid \ {Idle}
    BY TokenFacts DEF TokenInv, TokenPart, Sites
  <2> QED
    BY <1>1, <1>2, <2>1 DEF Owed, Sleeps
<1>4. ASSUME NEW s \in SemId
      PROVE  Credit(s)[cpu] = heldOnReturn[s][cpu] /\ heldOnReturn[s][cpu] \in Int
  <2>1. held[s] \in [Context -> Int] /\ cpu \in Context
    BY TokenFacts
  <2>2. heldOnReturn[s][cpu] = held[s][cpu] + IF sleepingOn[cpu] = s THEN 1 ELSE 0
    BY <2>1 DEF heldOnReturn
  <2> QED
    BY <1>3, <2>1, <2>2 DEF Credit
<1> QED
  BY <1>1, <1>2, <1>3, <1>4

-----------------------------------------------------------------------------
(* What a step does to the contexts.                                        *)
LEMMA FrameStep ==
  ASSUME LifeInv, [Next]_schedVars
  PROVE  \A c \in Context :
           /\ c # cpu /\ c # nextFreePid => frame'[c] = frame[c]
           /\ frame'[c] = frame[c] \/ frame'[c].at # "halted"
<1>1. frame \in [Context -> Frame]
  BY LifeFacts, FrameFacts DEF IInv, GoodRest
<1>2. CASE \E g : g.at # "halted" /\ frame' = [frame EXCEPT ![cpu] = g]
  BY <1>1, <1>2
<1>3. CASE frame' = frame
  BY <1>3
<1>4. CASE CreateProcess
  <2>1. frame' = frame \/ frame' = [frame EXCEPT ![nextFreePid] = At("user")]
    BY <1>4 DEF CreateProcess, createProcess
  <2> QED
    BY <1>1, <2>1 DEF At
<1>5. CASE BlockBySem \/ KernelReturn \/ Exit \/ WaitpidResume
  <2>1. \A a : At(a).at = a
    BY DEF At
  <2>2. \E a \in {"kernel", "user", "hang"} : frame' = [frame EXCEPT ![cpu] = At(a)]
    BY <1>5 DEF BlockBySem, KernelReturn, Exit, WaitpidResume
  <2> QED
    BY <1>2, <2>1, <2>2
<1>6. CASE WaitpidBlock
  <2>1. PICK p \in Pid : frame' = frame
          \/ frame' = [frame EXCEPT ![cpu] = [at |-> "waitpid", me |-> current, target |-> p]]
    BY <1>6 DEF WaitpidBlock
  <2> QED
    BY <1>1, <2>1
<1>7. CASE TimerTick \/ Yield \/ ChangePrio \/ Block \/ Unblock \/ UnblockBySem \/ Kill \/ CtrlC
           \/ WaitpidReap
  BY <1>3, <1>7 DEF TimerTick, Yield, ChangePrio, changePrio, Block, Unblock, UnblockBySem,
     MakeReady, Kill, CtrlC, WaitpidReap
<1> QED
  BY <1>3, <1>4, <1>5, <1>6, <1>7 DEF Next, schedVars

(* Who had a pid, and what becomes of the dead.                             *)
LEMMA PastFacts ==
  ASSUME TokenInv, [SemNext]_vars
  PROVE  \A p \in Pid :
           /\ sleepingOn[p] # Nowhere => p < nextFreePid /\ p # nextFreePid
           /\ p < nextFreePid /\ pcb[p].state \in Gone => pcb'[p].state \in Gone
           /\ p # cpu /\ p # nextFreePid => frame'[p] = frame[p]
           /\ frame'[p] = frame[p] \/ frame'[p].at # "halted"
<1>1. [Next]_schedVars
  BY TokenFacts, StepRefines
<1>2. FateRespected(pcb')
  BY <1>1, TokenFacts, NextFate
<1>3. \A p \in Pid : sleepingOn[p] # Nowhere => p < nextFreePid /\ p # nextFreePid
  <2>1. \A p \in Pid : p >= nextFreePid => sleepingOn[p] = Nowhere
    BY TokenFacts DEF ContextPart, Sleepers
  <2>2. nextFreePid \in Int /\ Pid \subseteq Int
    BY TokenFacts, LifeFacts, ConstantFacts
  <2> QED
    BY <2>1, <2>2
<1>4. \A p \in Pid : p < nextFreePid /\ pcb[p].state \in Gone => pcb'[p].state \in Gone
  BY <1>2 DEF FateRespected, Gone
<1>5. \A p \in Pid : /\ p # cpu /\ p # nextFreePid => frame'[p] = frame[p]
                     /\ frame'[p] = frame[p] \/ frame'[p].at # "halted"
  BY <1>1, TokenFacts, FrameStep
<1> QED
  BY <1>3, <1>4, <1>5

(* A context whose part in the accounts a step leaves alone.                *)
Untouched(p) ==
  /\ pcb'[p].state \in Gone <=> pcb[p].state \in Gone
  /\ pcb'[p].state = "WAITING_SEM" <=> pcb[p].state = "WAITING_SEM"
  /\ sleepingOn'[p] = sleepingOn[p]
  /\ sleepingOn[p] # Nowhere => frame'[p].at = frame[p].at

LEMMA UntouchedOwed ==
  ASSUME TokenInv, NEW s \in SemId, NEW p \in Pid, Untouched(p)
  PROVE  /\ p \in Owed(s)' <=> p \in Owed(s)
         /\ sleepingOn'[p] = s => sleepingOn[p] = s /\ (Lives(p)' <=> Lives(p))
<1>1. s # Nowhere
  BY TokenFacts
<1>2. sleepingOn[p] = s => (Lives(p)' <=> Lives(p)) /\ (Sleeps(p, s)' <=> Sleeps(p, s))
  BY <1>1 DEF Untouched, Lives, Alive, Sleeps, Gone
<1> QED
  BY <1>2 DEF Untouched, Owed

(* The accounts of one semaphore after a call in which the context in use   *)
(* returned from the wait() it slept in, if any.                            *)
LEMMA SettledSum ==
  ASSUME TokenInv, NEW s \in SemId,
         \A p \in Pid \ {cpu} : p \in Owed(s)' <=> p \in Owed(s),
         cpu \notin Owed(s)', held' \in [SemId -> [Context -> Int]],
         \A c \in Context \ {cpu} : held'[s][c] = held[s][c]
  PROVE  /\ SumOver(Credit(s), Context) \in Int
         /\ SumOver(Credit(s)', Context)
              = SumOver(Credit(s), Context) + (held'[s][cpu] - heldOnReturn[s][cpu])
<1> DEFINE f == Credit(s)
           g == Credit(s)'
<1>1. f \in [Context -> Int] /\ cpu \in Context /\ IsFiniteSet(Context) /\ f[cpu] = heldOnReturn[s][cpu]
  BY TokenFacts, CpuOwed
<1>2. g = [c \in Context |-> held'[s][c] + IF c \in Owed(s)' THEN 1 ELSE 0]
  BY DEF Credit
<1>3. g \in [Context -> Int] /\ g[cpu] = held'[s][cpu]
  BY <1>1, <1>2
<1>4. ASSUME NEW c \in Context \ {cpu} PROVE g[c] = f[c]
  <2>1. c \in Owed(s)' <=> c \in Owed(s)
    BY DEF Owed
  <2> QED
    BY <1>2, <2>1 DEF Credit
<1> HIDE DEF f, g
<1>5. SumOver(f, Context) \in Int /\ SumOver(g, Context) = SumOver(f, Context) + (g[cpu] - f[cpu])
  BY <1>1, <1>3, <1>4, SumChanges
<1> QED
  BY <1>1, <1>3, <1>5 DEF f, g

LEMMA StillUnscathed ==
  ASSUME TokenInv, NEW s \in SemId, Unscathed(s)',
         \A p \in Pid \ {cpu} : Untouched(p) \/ Lives(p)
  PROVE  Unscathed(s)
<1> SUFFICES ASSUME NEW p \in Pid, sleepingOn[p] = s PROVE Lives(p)
  BY DEF Unscathed
<1>1. CASE p = cpu
  BY <1>1, CpuOwed DEF Owed
<1>2. CASE p # cpu
  BY <1>2, UntouchedOwed DEF Unscathed, Untouched
<1> QED
  BY <1>1, <1>2

LEMMA Settled ==
  ASSUME TokenInv, NEW s \in SemId, \A p \in Pid \ {cpu} : Untouched(p),
         cpu \notin Owed(s)', held' \in [SemId -> [Context -> Int]],
         \A c \in Context \ {cpu} : held'[s][c] = held[s][c]
  PROVE  /\ SumOver(Credit(s), Context) \in Int
         /\ SumOver(Credit(s)', Context)
              = SumOver(Credit(s), Context) + (held'[s][cpu] - heldOnReturn[s][cpu])
         /\ Unscathed(s)' => Unscathed(s)
<1>1. \A p \in Pid \ {cpu} : p \in Owed(s)' <=> p \in Owed(s)
  BY UntouchedOwed
<1> QED
  BY <1>1, SettledSum, StillUnscathed

LEMMA EntryKept ==
  ASSUME TokenInv, NEW s \in SemId, NEW p \in Pid, Entry(s, p), p # cpu => Untouched(p)
  PROVE  Entry(s, p)'
<1>1. CASE p = Idle /\ IdleWaits
  BY <1>1 DEF Entry
<1>2. CASE ~(p = Idle /\ IdleWaits)
  <2>1. sleepingOn[p] = s /\ (Sleeps(p, s) \/ ~Lives(p))
    BY <1>2 DEF Entry
  <2>2. p # cpu
    BY <2>1, CpuOwed DEF Owed
  <2>3. s # Nowhere
    BY TokenFacts
  <2> QED
    BY <2>1, <2>2, <2>3 DEF Entry, Untouched, Lives, Alive, Sleeps, Gone
<1> QED
  BY <1>1, <1>2

-----------------------------------------------------------------------------
(* The steps of the scheduler: a sleeper stays asleep or dies, and of those *)
(* with a token coming some may die on the way.                             *)
LEMMA SchedulerSleepers ==
  ASSUME TokenInv, Orderly, SchedulerStep
  PROVE  \A p \in Pid :
           /\ pcb'[p].state = "WAITING_SEM" => pcb[p].state = "WAITING_SEM"
           /\ pcb[p].state = "WAITING_SEM" /\ pcb'[p].state # "WAITING_SEM"
                => pcb'[p].state \in Gone
<1>1. LifeInv /\ LifeInv' /\ ContextPart
  BY TokenFacts, NextLife, StepRefines DEF SemNext
<1>2. PICK R, S, cur : Stages(R, S, cur) /\ OneLeaves(R)
  BY <1>1, SchedulerStages DEF SchedulerStep, TwoStages
<1>3. /\ Asleep(pcb') = Asleep(R)
      /\ \A q \in Pid : R[q].state \in Gone => pcb'[q].state \in Gone
  <2>1. nextFreePid <= nextFreePid'
    BY <1>1, PidsGrow DEF SchedulerStep, Next
  <2> QED
    BY <1>1, <1>2, <2>1, StagesKeep
<1>4. PICK c \in Pid : \/ Asleep(R) = Asleep(pcb)
                       \/ Asleep(R) = Asleep(pcb) \ {c} /\ R[c].state \in Gone
  BY <1>2 DEF OneLeaves, Orderly
<1> QED
  BY <1>3, <1>4 DEF Asleep

LEMMA SchedulerTokens ==
  ASSUME TokenInv, Orderly, SchedulerStep
  PROVE  TokenPart'
<1>1. UNCHANGED <<sem, sleepingOn, held>> /\ [SemNext]_vars
  BY DEF SchedulerStep, semVars, SemNext
<1>2. ASSUME NEW s \in SemId, NEW p \in Pid, sleepingOn[p] = s
      PROVE  /\ Lives(p)' => Lives(p)
             /\ p \in Owed(s)' => p \in Owed(s)
             /\ p \in Owed(s) /\ Lives(p)' => p \in Owed(s)'
  <2>1. p < nextFreePid /\ p # nextFreePid
    BY <1>1, <1>2, TokenFacts, PastFacts
  <2>2. pcb[p].state \in Gone => pcb'[p].state \in Gone
    BY <1>1, <2>1, PastFacts
  <2>3. CASE p = cpu
    BY <1>1, <1>2, <2>3, CpuOwed, SchedulerSleepers DEF Owed, Sleeps
  <2>4. CASE p # cpu
    <3>1. frame'[p] = frame[p]
      BY <1>1, <2>1, <2>4, PastFacts
    <3>2. Lives(p)' => Lives(p)
      BY <2>2, <3>1 DEF Lives, Alive, Gone
    <3>3. /\ pcb'[p].state = "WAITING_SEM" => pcb[p].state = "WAITING_SEM"
          /\ pcb[p].state = "WAITING_SEM" /\ pcb'[p].state # "WAITING_SEM" => pcb'[p].state \in Gone
      BY SchedulerSleepers
    <3>4. pcb[p].state = "WAITING_SEM" /\ pcb'[p].state # "WAITING_SEM" => ~Lives(p)'
      <4>1. pcb[p].state = "WAITING_SEM" => frame[p].at = "kernel"
        BY DEF TokenInv, TokenPart, Sites
      <4> QED
        BY <3>1, <3>3, <4>1 DEF Lives, Alive, Gone
    <3> QED
      BY <1>1, <1>2, <3>2, <3>3, <3>4 DEF Owed, Sleeps
  <2> QED
    BY <2>3, <2>4
<1>3. ASSUME NEW s \in SemId
      PROVE  /\ Unscathed(s)' => Unscathed(s)
             /\ Balance(s)' <= Balance(s)
             /\ Unscathed(s)' => Balance(s)' = Balance(s)
             /\ Balance(s) \in Int /\ Balance(s)' \in Int
  <2> DEFINE f == Credit(s)
             g == Credit(s)'
  <2>1. f \in [Context -> Int] /\ IsFiniteSet(Context) /\ sem[s].value \in Int
    BY TokenFacts
  <2>2. g = [c \in Context |-> held[s][c] + IF c \in Owed(s)' THEN 1 ELSE 0]
    BY <1>1 DEF Credit
  <2>3. held[s] \in [Context -> Int]
    BY TokenFacts
  <2>4. g \in [Context -> Int]
    BY <2>2, <2>3
  <2>5. \A c \in Context : c \in Owed(s)' => c \in Owed(s)
    BY <1>1, <1>2 DEF Owed
  <2>6. \A c \in Context : g[c] <= f[c]
    BY <2>2, <2>3, <2>5 DEF Credit
  <2>7. Unscathed(s)' => Unscathed(s) /\ g = f
    <3> SUFFICES ASSUME Unscathed(s)' PROVE Unscathed(s) /\ g = f
      OBVIOUS
    <3>1. \A p \in Pid : sleepingOn[p] = s => Lives(p)'
      BY <1>1 DEF Unscathed
    <3>2. \A c \in Context : c \in Owed(s)' <=> c \in Owed(s)
      BY <3>1, <1>2, <2>5 DEF Owed
    <3>3. g = f
      BY <2>2, <3>2 DEF Credit
    <3> QED
      BY <3>1, <3>3, <1>2 DEF Unscathed
  <2> HIDE DEF f, g
  <2>8. SumOver(f, Context) \in Int /\ SumOver(g, Context) \in Int
        /\ SumOver(g, Context) <= SumOver(f, Context)
    BY <2>1, <2>4, <2>6, SumGrows
  <2>9. Balance(s) = SumOver(f, Context) + sem[s].value
        /\ Balance(s)' = SumOver(g, Context) + sem[s].value
    BY <1>1 DEF Balance, f, g
  <2> QED
    BY <2>1, <2>7, <2>8, <2>9
<1>4. Accounts'
  BY <1>1, <1>3, TokenFacts DEF TokenInv, TokenPart, Accounts, Live
<1>5. Entries'
  <2>1. ASSUME NEW s \in SemId, NEW p \in ToSet(sem[s].blocked) PROVE Entry(s, p)'
    <3>1. Entry(s, p)
      BY DEF TokenInv, TokenPart, Entries
    <3>2. CASE p = Idle /\ IdleWaits
      BY <3>2 DEF Entry
    <3>3. CASE p \in Pid /\ sleepingOn[p] = s /\ (Sleeps(p, s) \/ ~Lives(p))
      <4>1. p \notin Owed(s) /\ (Lives(p)' => Lives(p))
        BY <1>2, <3>3 DEF Owed
      <4>2. p \notin Owed(s)'
        BY <1>2, <3>3, <4>1
      <4> QED
        BY <1>1, <3>3, <4>2 DEF Entry, Owed
    <3> QED
      BY <3>1, <3>2, <3>3 DEF Entry
  <2> QED
    BY <1>1, <2>1 DEF TokenInv, TokenPart, Entries
<1>6. Sites'
  <2>1. \A p \in Pid : /\ p # Idle => frame'[p].at # "halted"
                       /\ pcb'[p].state = "WAITING_SEM" => frame'[p].at = "kernel"
    <3> SUFFICES ASSUME NEW p \in Pid
                 PROVE  /\ p # Idle => frame'[p].at # "halted"
                        /\ pcb'[p].state = "WAITING_SEM" => frame'[p].at = "kernel"
      OBVIOUS
    <3>1. p # Idle => frame'[p].at # "halted"
      BY <1>1, PastFacts DEF TokenInv, TokenPart, Sites
    <3>2. pcb'[p].state = "WAITING_SEM" => pcb[p].state = "WAITING_SEM"
      BY SchedulerSleepers
    <3>3. pcb[p].state = "WAITING_SEM" => frame[p].at = "kernel" /\ p # cpu /\ p # nextFreePid
      <4>1. pcb[p].state = "WAITING_SEM" => ~(p >= nextFreePid)
        BY TokenFacts, LifeFacts
      <4>2. p = nextFreePid => p >= nextFreePid
        BY TokenFacts, LifeFacts
      <4> QED
        BY <4>1, <4>2, CpuOwed DEF TokenInv, TokenPart, Sites
    <3>4. p # cpu /\ p # nextFreePid => frame'[p] = frame[p]
      BY <1>1, PastFacts
    <3> QED
      BY <3>1, <3>2, <3>3, <3>4
  <2> QED
    BY <1>1, <2>1 DEF TokenInv, TokenPart, Sites, Live
<1> QED
  BY <1>4, <1>5, <1>6 DEF TokenPart

-----------------------------------------------------------------------------
(* The calls.  What all of them have in common: the context in use has      *)
(* returned, or sleeps, and the others are left alone.                      *)
LEMMA SitesKept ==
  ASSUME TokenInv, [SemNext]_vars,
         held' \in [SemId -> [Context -> Int]],
         \A p \in Pid \ {cpu} : pcb'[p].state = "WAITING_SEM" => pcb[p].state = "WAITING_SEM",
         cpu \in Pid /\ pcb'[cpu].state = "WAITING_SEM" => frame'[cpu].at = "kernel",
         \/ sleepingOn' = Returned
         \/ \E s \in SemId : /\ sleepingOn' = [sleepingOn EXCEPT ![cpu] = s] /\ Live(s)
                             /\ cpu # Boot /\ cpu # Idle,
         \A s \in SemId : Live(s)' <=> Live(s)
  PROVE  Sites'
<1>1. \A s \in SemId : ~Live(s)' => \A c \in Context : sleepingOn'[c] # s
  BY TokenFacts DEF TokenInv, TokenPart, Sites, Returned
<1>2. sleepingOn'[Boot] = Nowhere /\ sleepingOn'[Idle] = Nowhere
  BY TokenFacts, ConstantFacts DEF TokenInv, TokenPart, Sites, Returned
<1>3. \A p \in Pid : p # Idle => frame'[p].at # "halted"
  BY PastFacts DEF TokenInv, TokenPart, Sites
<1>4. ASSUME NEW p \in Pid \ {cpu}, pcb'[p].state = "WAITING_SEM" PROVE frame'[p].at = "kernel"
  <2>1. pcb[p].state = "WAITING_SEM"
    BY <1>4
  <2>2. frame[p].at = "kernel"
    BY <2>1 DEF TokenInv, TokenPart, Sites
  <2>3. p # nextFreePid
    <3>1. nextFreePid >= nextFreePid
      BY TokenFacts, LifeFacts
    <3> QED
      BY <2>1, <3>1, TokenFacts, LifeFacts
  <2> QED
    BY <2>2, <2>3, PastFacts
<1> QED
  BY <1>1, <1>2, <1>3, <1>4 DEF Sites

(* A call that changes at most the record of s, and by r.                   *)
LEMMA EntriesKept ==
  ASSUME TokenInv, NEW s \in SemId,
         \A z \in SemId \ {s}, p \in Pid \ {cpu} : Entry(z, p) => Untouched(p),
         \A z \in SemId \ {s} : sem'[z].blocked = sem[z].blocked,
         \A p \in ToSet(sem'[s].blocked) : Entry(s, p)',
         \A i, j \in DOMAIN sem'[s].blocked :
           i # j /\ sem'[s].blocked[i] = sem'[s].blocked[j] => sem'[s].blocked[i] = Idle
  PROVE  Entries'
<1>1. ASSUME NEW z \in SemId \ {s}, NEW p \in ToSet(sem'[z].blocked) PROVE Entry(z, p)'
  <2>1. Entry(z, p)
    BY <1>1 DEF TokenInv, TokenPart, Entries
  <2> QED
    BY <2>1, TokenFacts, EntryKept DEF Entry
<1>2. ASSUME NEW z \in SemId \ {s}
      PROVE  \A i, j \in DOMAIN sem'[z].blocked :
               i # j /\ sem'[z].blocked[i] = sem'[z].blocked[j] => sem'[z].blocked[i] = Idle
  BY DEF TokenInv, TokenPart, Entries
<1> QED
  BY <1>1, <1>2 DEF Entries

LEMMA SameEntries ==
  ASSUME TokenInv, \A p \in Pid \ {cpu} : Untouched(p),
         \A z \in SemId : sem'[z].blocked = sem[z].blocked
  PROVE  Entries'
<1>1. ASSUME NEW z \in SemId, NEW p \in ToSet(sem'[z].blocked) PROVE Entry(z, p)'
  <2>1. Entry(z, p)
    BY <1>1 DEF TokenInv, TokenPart, Entries
  <2> QED
    BY <2>1, TokenFacts, EntryKept DEF Entry
<1> QED
  BY <1>1 DEF Entries, TokenInv, TokenPart

(* Accounts that were balanced stay so when each balance does.              *)
LEMMA AccountsKept ==
  ASSUME TokenInv,
         \A s \in SemId : Live(s)' =>
           /\ Live(s) /\ Balance(s) \in Int /\ Balance(s)' \in Int
           /\ Balance(s)' <= Balance(s)
           /\ ~IdleWaits /\ Unscathed(s)' => Unscathed(s) /\ Balance(s)' = Balance(s)
  PROVE  Accounts'
BY TokenFacts DEF TokenInv, TokenPart, Accounts

(* The calls that only return, and wait() that finds a token.  Before and   *)
(* after, the context in use is in nobody's debt.                           *)
LEMMA ReturnTokens ==
  ASSUME TokenInv, Orderly, SemWaitFails \/ SemWaitTakes \/ SemReturn
  PROVE  TokenPart'
<1>1. /\ [SemNext]_vars /\ sleepingOn' = Returned /\ pcb' = pcb
      /\ \A c \in Context \ {cpu} : frame'[c] = frame[c]
      /\ cpu \in Pid => pcb[cpu].state # "WAITING_SEM"
  <2>1. [SemNext]_vars /\ sleepingOn' = Returned /\ pcb' = pcb
    BY DEF SemNext, SemWaitFails, SemWaitTakes, SemReturn, KernelReturn, schedVars
  <2>2. frame' = frame \/ frame' = [frame EXCEPT ![cpu] = At("user")]
    BY DEF SemWaitFails, SemWaitTakes, SemReturn, KernelReturn, schedVars
  <2>3. frame \in [Context -> Frame]
    BY TokenFacts, FrameFacts
  <2>4. \A c \in Context \ {cpu} : frame'[c] = frame[c]
    BY <2>2, <2>3
  <2> QED
    BY <2>1, <2>4, CpuOwed
<1>2. \A p \in Pid \ {cpu} : Untouched(p)
  BY <1>1, TokenFacts DEF Untouched, Returned
<1>3. \A s \in SemId : cpu \notin Owed(s)'
  BY <1>1, TokenFacts DEF Owed, Returned
<1>4. heldOnReturn \in [SemId -> [Context -> Int]]
  BY TokenFacts DEF heldOnReturn
<1>5. \A z \in SemId, c \in Context \ {cpu} : heldOnReturn[z][c] = held[z][c]
  BY TokenFacts DEF heldOnReturn
<1>6. CASE SemWaitFails \/ SemReturn
  <2>1. sem' = sem /\ held' = heldOnReturn
    BY <1>6 DEF SemWaitFails, SemReturn
  <2>2. ASSUME NEW z \in SemId
        PROVE  /\ Unscathed(z)' => Unscathed(z)
               /\ Balance(z)' = Balance(z) /\ Balance(z) \in Int
    <3>1. /\ SumOver(Credit(z), Context) \in Int
          /\ SumOver(Credit(z)', Context)
               = SumOver(Credit(z), Context) + (held'[z][cpu] - heldOnReturn[z][cpu])
          /\ Unscathed(z)' => Unscathed(z)
      BY <1>2, <1>3, <1>4, <1>5, <2>1, Settled
    <3>2. held'[z][cpu] = heldOnReturn[z][cpu] /\ heldOnReturn[z][cpu] \in Int /\ sem[z].value \in Int
      BY <2>1, TokenFacts, CpuOwed
    <3> QED
      BY <2>1, <3>1, <3>2 DEF Balance
  <2>3. Accounts'
    BY <2>1, <2>2, AccountsKept DEF Live
  <2>4. Entries'
    BY <1>2, <2>1, SameEntries
  <2>5. Sites'
    BY <1>1, <1>2, <1>4, <2>1, SitesKept DEF Live, Untouched
  <2> QED
    BY <2>3, <2>4, <2>5 DEF TokenPart
<1>7. CASE SemWaitTakes
  <2>1. PICK s \in SemId :
          /\ sem' = [sem EXCEPT ![s].value = @ - 1]
          /\ held' = [heldOnReturn EXCEPT ![s][cpu] = @ + 1]
    BY <1>7 DEF SemWaitTakes, takeToken
  <2>2. /\ \A z \in SemId : /\ sem'[z].blocked = sem[z].blocked /\ sem'[z].queue = sem[z].queue
                            /\ sem'[z].value = IF z = s THEN sem[z].value - 1 ELSE sem[z].value
    BY <2>1, TokenFacts DEF Sem
  <2>3. /\ held' \in [SemId -> [Context -> Int]]
        /\ \A z \in SemId, c \in Context \ {cpu} : held'[z][c] = held[z][c]
        /\ \A z \in SemId : held'[z][cpu] = IF z = s THEN heldOnReturn[z][cpu] + 1
                                            ELSE heldOnReturn[z][cpu]
    BY <1>4, <1>5, <2>1, TokenFacts
  <2>4. ASSUME NEW z \in SemId
        PROVE  /\ Unscathed(z)' => Unscathed(z)
               /\ Balance(z)' = Balance(z) /\ Balance(z) \in Int
    <3>1. /\ SumOver(Credit(z), Context) \in Int
          /\ SumOver(Credit(z)', Context)
               = SumOver(Credit(z), Context) + (held'[z][cpu] - heldOnReturn[z][cpu])
          /\ Unscathed(z)' => Unscathed(z)
      BY <1>2, <1>3, <2>3, Settled
    <3>2. heldOnReturn[z][cpu] \in Int /\ sem[z].value \in Int
      BY TokenFacts, CpuOwed
    <3>3. /\ Balance(z) = SumOver(Credit(z), Context) + sem[z].value
          /\ Balance(z)' = SumOver(Credit(z)', Context) + sem'[z].value
      BY DEF Balance
    <3>4. /\ sem'[z].value = IF z = s THEN sem[z].value - 1 ELSE sem[z].value
          /\ held'[z][cpu] = IF z = s THEN heldOnReturn[z][cpu] + 1 ELSE heldOnReturn[z][cpu]
      BY <2>2, <2>3
    <3>5. Balance(z)' = Balance(z) /\ Balance(z) \in Int
      BY ONLY <3>1, <3>2, <3>3, <3>4
    <3> QED
      BY <3>1, <3>5
  <2>5. Accounts'
    BY <2>2, <2>4, AccountsKept DEF Live
  <2>6. Entries'
    BY <1>2, <2>2, SameEntries
  <2>7. Sites'
    BY <1>1, <1>2, <2>2, <2>3, SitesKept DEF Live, Untouched
  <2> QED
    BY <2>5, <2>6, <2>7 DEF TokenPart
<1> QED
  BY <1>6, <1>7

LEMMA BlockBySemEffect ==
  ASSUME LifeInv, BlockBySem
  PROVE  \A q \in Pid :
           /\ pcb'[q].state \in Gone <=> pcb[q].state \in Gone
           /\ pcb'[q].state = "WAITING_SEM" <=> pcb[q].state = "WAITING_SEM" \/ q = current
<1> DEFINE P == [pcb EXCEPT ![current].state = "WAITING_SEM"]
           S == switchProcess(queue, "ready", "blockedBySem", current)
<1>1. current \in ToSet(queue["ready"]) /\ Dispatch(P, S, current, foreground)
  BY DEF BlockBySem, InQueue
<1>2. /\ "ready" \in QueueName /\ "blockedBySem" \in QueueName
      /\ "WAITING_SEM" \in ProcessState \ Gone /\ "WAITING_SEM" \in StatesOf["blockedBySem"]
  BY QueueNames, StatesOfFacts DEF ProcessState, Gone
<1>3. /\ current \in Pid /\ cpu \in Context /\ pcb[current].state \notin Gone
      /\ \A q \in Pid : P[q].state = IF q = current THEN "WAITING_SEM" ELSE pcb[q].state
  BY LifeFacts, InvFacts DEF PCB
<1> HIDE DEF P
<1>4. GoodLists(P, S) /\ P[Idle].state \in {"READY", "RUNNING"}
  BY <1>1, <1>2, MoveStages DEF P
<1> HIDE DEF S
<1>5. /\ P[current'].state \in {"READY", "RUNNING"}
      /\ \A q \in Pid : pcb'[q].state = IF q = current' THEN "RUNNING"
                                        ELSE IF q = current /\ P[q].state = "RUNNING" THEN "READY"
                                        ELSE P[q].state
  BY <1>1, <1>3, <1>4, DispatchEffect
<1> QED
  BY <1>3, <1>5 DEF Gone

(* The pid goes to the end of the queue, unless its node cannot be had.     *)
LEMMA Enqueueing ==
  ASSUME TokenInv, NEW s \in SemId, NEW failed, sem' = enqueueWaiter(s, failed)
  PROVE  /\ \A z \in SemId : sem'[z].value = sem[z].value /\ sem'[z].queue = sem[z].queue
         /\ \A z \in SemId \ {s} : sem'[z].blocked = sem[z].blocked
         /\ sem'[s].blocked \in {sem[s].blocked, Append(sem[s].blocked, current)}
BY TokenFacts DEF enqueueWaiter, Sem

LEMMA WaitSleepsTokens ==
  ASSUME TokenInv, Orderly, SemWaitSleeps
  PROVE  TokenPart'
<1>1. PICK s \in SemId : \E failed \in {FALSE, "node" \in SemAllocFails} :
        /\ MayWaitNow(s)
        /\ sem' = enqueueWaiter(s, failed)
        /\ \/ /\ BlockBySem
              /\ held' = heldOnReturn
              /\ sleepingOn' = [sleepingOn EXCEPT ![cpu] = s]
           \/ /\ ~InQueue("ready", current)
              /\ held' = IF current = Idle THEN heldOnReturn
                         ELSE [heldOnReturn EXCEPT ![s][cpu] = @ + 1]
              /\ sleepingOn' = Returned
              /\ UNCHANGED schedVars
  BY DEF SemWaitSleeps
<1>2. /\ \A z \in SemId : sem'[z].value = sem[z].value /\ sem'[z].queue = sem[z].queue
      /\ \A z \in SemId \ {s} : sem'[z].blocked = sem[z].blocked
      /\ sem'[s].blocked \in {sem[s].blocked, Append(sem[s].blocked, current)}
  BY <1>1, Enqueueing
<1>3. [SemNext]_vars /\ Live(s)
  BY <1>1 DEF SemNext, MayWaitNow, Usable, Orderly, Live
<1>4. /\ held' = heldOnReturn
      /\ \/ /\ BlockBySem /\ sleepingOn' = [sleepingOn EXCEPT ![cpu] = s]
            /\ cpu = current /\ current \in Pid \ {Idle}
         \/ current = Idle /\ IdleWaits /\ sleepingOn' = Returned /\ UNCHANGED schedVars
  <2>1. CASE BlockBySem
    <3>1. frame[cpu].at \notin Parked /\ InQueue("ready", current)
      BY <2>1 DEF BlockBySem, InUser, InKernel, Parked
    <3>2. cpu = current /\ current \in Pid \ {Idle}
      BY <3>1, TokenFacts, ProgramRuns
    <3> QED
      BY <1>1, <2>1, <3>1, <3>2
  <2>2. CASE ~InQueue("ready", current)
    <3>1. frame[cpu].at \in Parked
      BY <2>2, TokenFacts, ProgramRuns
    <3>2. current = Idle /\ IdleWaits
      BY <1>1, <3>1 DEF MayWaitNow, InUser, InKernel, Parked
    <3>3. ~BlockBySem
      BY <2>2 DEF BlockBySem
    <3> QED
      BY <1>1, <3>2, <3>3
  <2> QED
    BY <1>1, <2>1, <2>2
<1>5. \A p \in Pid \ {cpu} : Untouched(p)
  <2>1. CASE UNCHANGED schedVars /\ sleepingOn' = Returned
    BY <2>1, TokenFacts DEF Untouched, Returned, schedVars
  <2>2. CASE /\ BlockBySem /\ sleepingOn' = [sleepingOn EXCEPT ![cpu] = s]
             /\ cpu = current /\ current \in Pid \ {Idle}
    <3>1. \A p \in Pid : /\ pcb'[p].state \in Gone <=> pcb[p].state \in Gone
                         /\ pcb'[p].state = "WAITING_SEM" <=> pcb[p].state = "WAITING_SEM" \/ p = current
      BY <2>2, TokenFacts, BlockBySemEffect
    <3>2. frame' = [frame EXCEPT ![cpu] = At("kernel")] /\ frame \in [Context -> Frame]
      BY <2>2, TokenFacts, FrameFacts DEF BlockBySem
    <3> QED
      BY <2>2, <3>1, <3>2, TokenFacts DEF Untouched
  <2> QED
    BY <1>4, <2>1, <2>2
<1>6. /\ cpu \in Pid /\ pcb'[cpu].state = "WAITING_SEM" => frame'[cpu].at = "kernel"
      /\ \A z \in SemId : cpu \notin Owed(z)'
      /\ \/ sleepingOn' = Returned
         \/ /\ sleepingOn' = [sleepingOn EXCEPT ![cpu] = s] /\ Live(s) /\ cpu # Boot /\ cpu # Idle
            /\ pcb'[cpu].state = "WAITING_SEM"
  <2>1. CASE UNCHANGED schedVars /\ sleepingOn' = Returned
    BY <2>1, TokenFacts, CpuOwed DEF Owed, Returned, schedVars
  <2>2. CASE /\ BlockBySem /\ sleepingOn' = [sleepingOn EXCEPT ![cpu] = s]
             /\ cpu = current /\ current \in Pid \ {Idle}
    <3>1. pcb'[cpu].state = "WAITING_SEM"
      BY <2>2, TokenFacts, BlockBySemEffect
    <3>2. frame' = [frame EXCEPT ![cpu] = At("kernel")] /\ frame \in [Context -> Frame]
      BY <2>2, TokenFacts, FrameFacts DEF BlockBySem
    <3>3. frame'[cpu].at = "kernel"
      BY <3>2, TokenFacts DEF At
    <3> QED
      BY <1>3, <2>2, <3>1, <3>3, TokenFacts DEF Owed, Sleeps
  <2> QED
    BY <1>4, <2>1, <2>2
<1>7. heldOnReturn \in [SemId -> [Context -> Int]]
      /\ \A z \in SemId, c \in Context \ {cpu} : heldOnReturn[z][c] = held[z][c]
  BY TokenFacts DEF heldOnReturn
<1>8. ASSUME NEW z \in SemId
      PROVE  /\ Unscathed(z)' => Unscathed(z)
             /\ Balance(z)' = Balance(z) /\ Balance(z) \in Int
  <2>1. /\ SumOver(Credit(z), Context) \in Int
        /\ SumOver(Credit(z)', Context)
             = SumOver(Credit(z), Context) + (held'[z][cpu] - heldOnReturn[z][cpu])
        /\ Unscathed(z)' => Unscathed(z)
    BY <1>4, <1>5, <1>6, <1>7, Settled
  <2>2. held'[z][cpu] = heldOnReturn[z][cpu] /\ heldOnReturn[z][cpu] \in Int /\ sem[z].value \in Int
    BY <1>4, TokenFacts, CpuOwed
  <2> QED
    BY <1>2, <2>1, <2>2 DEF Balance
<1>9. Accounts'
  BY <1>2, <1>8, AccountsKept DEF Live
<1>10. Entries'
  <2>0. PICK me \in Pid : me = current
    BY TokenFacts
  <2>1. \A p \in ToSet(sem[s].blocked) : Entry(s, p)'
    BY <1>5, TokenFacts, EntryKept DEF TokenInv, TokenPart, Entries, Entry
  <2>2. sem[s].blocked \in Seq(Pid) /\ current \in Pid
    BY TokenFacts
  <2>3. ToSet(Append(sem[s].blocked, current)) \subseteq ToSet(sem[s].blocked) \cup {me}
    BY <2>0, <2>2, LenProperties, AppendProperties DEF ToSet
  <2>4. Entry(s, me)'
    BY <1>4, <1>6, <2>0, TokenFacts DEF Entry, Sleeps, Returned
  <2>5. current # Idle => current \notin ToSet(sem[s].blocked)
    <3> SUFFICES ASSUME current # Idle, Entry(s, current) PROVE FALSE
      BY DEF TokenInv, TokenPart, Entries
    <3>1. cpu = current
      BY <1>4
    <3> QED
      BY <3>1, CpuOwed, TokenFacts DEF Entry, Sleeps
  <2>6. \A i, j \in DOMAIN sem'[s].blocked :
          i # j /\ sem'[s].blocked[i] = sem'[s].blocked[j] => sem'[s].blocked[i] = Idle
    <3>1. \A i, j \in DOMAIN sem[s].blocked :
            i # j /\ sem[s].blocked[i] = sem[s].blocked[j] => sem[s].blocked[i] = Idle
      BY DEF TokenInv, TokenPart, Entries
    <3>2. CASE sem'[s].blocked = sem[s].blocked
      BY <3>1, <3>2
    <3>3. CASE sem'[s].blocked = Append(sem[s].blocked, current)
      <4> DEFINE b == sem[s].blocked
                 a == sem'[s].blocked
      <4>1. /\ b \in Seq(Pid) /\ a = Append(b, current) /\ Len(b) \in Nat
            /\ DOMAIN b = 1 .. Len(b)
            /\ \A i, j \in DOMAIN b : i # j /\ b[i] = b[j] => b[i] = Idle
            /\ current # Idle => \A i \in DOMAIN b : b[i] # current
        BY <2>2, <2>5, <3>1, <3>3, LenProperties DEF ToSet
      <4> HIDE DEF a, b
      <4>2. DOMAIN a = 1 .. Len(b) + 1 /\ a[Len(b) + 1] = current /\ \A i \in 1 .. Len(b) : a[i] = b[i]
        BY <4>1, <2>2
      <4>3. \A i \in 1 .. Len(b) + 1 : i \in DOMAIN b \/ i = Len(b) + 1
        BY <4>1
      <4> SUFFICES ASSUME NEW i \in DOMAIN a, NEW j \in DOMAIN a, i # j, a[i] = a[j] PROVE a[i] = Idle
        BY DEF a
      <4> QED
        BY <4>1, <4>2, <4>3
    <3> QED
      BY <1>2, <3>2, <3>3
  <2>7. \A p \in ToSet(sem'[s].blocked) : Entry(s, p)'
    BY <1>2, <2>1, <2>3, <2>4
  <2> QED
    BY <1>2, <1>5, <2>6, <2>7, EntriesKept
<1>11. Sites'
  <2>1. held' \in [SemId -> [Context -> Int]]
    BY <1>4, <1>7
  <2> QED
    BY <1>2, <1>3, <1>5, <1>6, <2>1, SitesKept DEF Live, Untouched
<1> QED
  BY <1>9, <1>10, <1>11 DEF TokenPart

(* What post() does to the first waiter: it wakes one that sleeps, and does *)
(* nothing to another.                                                      *)
LEMMA WakeFirstEffect ==
  ASSUME TokenInv, NEW s \in SemId, sem[s].blocked # <<>>, wakeFirst(s), sleepingOn' = Returned,
         NEW p, p = Head(sem[s].blocked)
  PROVE  /\ p \in Pid /\ Entry(s, p) /\ frame' = frame
         /\ \A q \in Pid : pcb'[q].state = "WAITING_SEM" => pcb[q].state = "WAITING_SEM"
         /\ \A q \in Pid \ {cpu, p} : Untouched(q)
         /\ \/ /\ p # Idle /\ p # cpu /\ Sleeps(p, s) /\ Lives(p)
               /\ sleepingOn'[p] = s /\ pcb'[p].state = "READY"
            \/ (p # cpu => Untouched(p)) /\ pcb[p].state # "WAITING_SEM"
<1>1. /\ sem[s].blocked \in Seq(Pid) /\ pcb \in [Pid -> PCB] /\ GoodLists(pcb, queue)
      /\ cpu \in Context /\ sleepingOn \in [Context -> SemId \cup {Nowhere}]
  BY TokenFacts, InvFacts
<1>2. p \in Pid /\ p \in ToSet(sem[s].blocked)
  BY <1>1 DEF ToSet
<1>3. Entry(s, p)
  BY <1>2 DEF TokenInv, TokenPart, Entries
<1>4. \A q \in Pid \ {cpu} : sleepingOn'[q] = sleepingOn[q]
  BY <1>1, TokenFacts DEF Returned
<1>5. CASE MakeReady("blockedBySem", p)
  <2>1. /\ p \in ToSet(queue["blockedBySem"]) /\ frame' = frame
        /\ pcb' = [pcb EXCEPT ![p].state = "READY"]
    BY <1>5 DEF MakeReady, InQueue
  <2>2. pcb[p].state = "WAITING_SEM"
    BY <1>1, <2>1, QueueNames DEF GoodLists, StatesOf
  <2>3. p # Idle /\ p # cpu /\ Sleeps(p, s) /\ Lives(p)
    BY <1>2, <1>3, <2>2, CpuOwed, AwakeFacts, TokenFacts DEF Entry, Sleeps, Lives, Alive
  <2>4. pcb'[p].state = "READY" /\ \A q \in Pid \ {p} : pcb'[q] = pcb[q]
    BY <1>1, <1>2, <2>1 DEF PCB
  <2>5. \A q \in Pid \ {cpu, p} : Untouched(q)
    BY <1>4, <2>1, <2>4 DEF Untouched
  <2>6. sleepingOn'[p] = s
    BY <1>2, <1>4, <2>3 DEF Sleeps
  <2> QED
    BY <1>2, <1>3, <2>1, <2>3, <2>4, <2>5, <2>6
<1>6. CASE ~InQueue("blockedBySem", p) /\ UNCHANGED schedVars
  <2>1. pcb' = pcb /\ frame' = frame
    BY <1>6 DEF schedVars
  <2>2. pcb[p].state # "WAITING_SEM"
    <3>1. SUFFICES ASSUME pcb[p].state = "WAITING_SEM" PROVE FALSE
      OBVIOUS
    <3>2. p # Idle
      BY <3>1, TokenFacts, AwakeFacts
    <3>3. PICK n \in QueueName : p \in ToSet(queue[n])
      BY <1>1, <1>2, <3>1, <3>2 DEF GoodLists
    <3>4. n = "blockedBySem"
      BY <1>1, <3>1, <3>3 DEF GoodLists, StatesOf, QueueName, Living
    <3> QED
      BY <1>6, <3>3, <3>4 DEF InQueue
  <2>3. \A q \in Pid \ {cpu} : Untouched(q)
    BY <1>4, <2>1 DEF Untouched
  <2> QED
    BY <1>2, <1>3, <2>1, <2>2, <2>3
<1> QED
  BY <1>5, <1>6 DEF wakeFirst

(* The token of a waiter that was woken leaves its poster for it.           *)
LEMMA WokenSum ==
  ASSUME TokenInv, NEW s \in SemId, NEW p \in Pid \ {cpu},
         \A q \in Pid \ {cpu, p} : q \in Owed(s)' <=> q \in Owed(s),
         p \notin Owed(s), p \in Owed(s)', cpu \notin Owed(s)',
         held' \in [SemId -> [Context -> Int]],
         \A c \in Context \ {cpu} : held'[s][c] = held[s][c]
  PROVE  /\ SumOver(Credit(s), Context) \in Int
         /\ SumOver(Credit(s)', Context)
              = SumOver(Credit(s), Context) + (held'[s][cpu] - heldOnReturn[s][cpu]) + 1
<1> DEFINE f == Credit(s)
           g == Credit(s)'
           h == [c \in Context |-> IF c = cpu THEN held'[s][cpu] ELSE Credit(s)[c]]
<1>1. /\ f \in [Context -> Int] /\ cpu \in Context /\ p \in Context /\ IsFiniteSet(Context)
      /\ f[cpu] = heldOnReturn[s][cpu]
      /\ held \in [SemId -> [Context -> Int]]
  BY TokenFacts, CpuOwed
<1>2. g = [c \in Context |-> held'[s][c] + IF c \in Owed(s)' THEN 1 ELSE 0]
  BY DEF Credit
<1>3. g \in [Context -> Int] /\ g[cpu] = held'[s][cpu] /\ g[p] = held'[s][p] + 1 /\ held'[s][p] \in Int
  BY <1>1, <1>2
<1>4. h \in [Context -> Int] /\ h[cpu] = held'[s][cpu] /\ h[p] = held'[s][p]
  <2>1. f[p] = held[s][p] /\ held[s][p] \in Int
    BY <1>1 DEF Credit
  <2> QED
    BY <1>1, <2>1
<1>5. \A c \in Context \ {cpu} : h[c] = f[c]
  OBVIOUS
<1>6. ASSUME NEW c \in Context \ {p} PROVE g[c] = h[c]
  <2>1. CASE c = cpu
    BY <1>3, <1>4, <2>1
  <2>2. CASE c # cpu
    <3>1. c \in Owed(s)' <=> c \in Owed(s)
      BY <1>6, <2>2 DEF Owed
    <3>2. held'[s][c] = held[s][c]
      BY <2>2
    <3> QED
      BY <1>2, <2>2, <3>1, <3>2 DEF Credit
  <2> QED
    BY <2>1, <2>2
<1> HIDE DEF f, g, h
<1>7. SumOver(f, Context) \in Int /\ SumOver(h, Context) = SumOver(f, Context) + (h[cpu] - f[cpu])
  <2>1. /\ f \in [Context -> Int] /\ h \in [Context -> Int]
        /\ IsFiniteSet(Context) /\ cpu \in Context
    BY <1>1, <1>4
  <2> QED
    BY ONLY <1>5, <2>1, SumChanges
<1>8. SumOver(h, Context) \in Int /\ SumOver(g, Context) = SumOver(h, Context) + (g[p] - h[p])
  BY <1>1, <1>3, <1>4, <1>6, SumChanges
<1>9. SumOver(f, Context) \in Int
      /\ SumOver(g, Context) = SumOver(f, Context) + (held'[s][cpu] - heldOnReturn[s][cpu]) + 1
  <2>1. heldOnReturn[s][cpu] \in Int /\ held'[s][cpu] \in Int
    BY <1>1
  <2> QED
    BY ONLY <1>1, <1>3, <1>4, <1>7, <1>8, <2>1
<1> QED
  BY <1>9 DEF f, g

LEMMA PostTokens ==
  ASSUME TokenInv, Orderly, SemPost
  PROVE  TokenPart'
<1>1. PICK s \in SemId :
        /\ Usable(s) /\ sem' = afterPost(s)
        /\ held' = [heldOnReturn EXCEPT ![s][cpu] = @ - 1]
        /\ sleepingOn' = Returned
        /\ \/ sem[s].blocked = <<>> /\ UNCHANGED schedVars
           \/ sem[s].blocked # <<>> /\ wakeFirst(s)
  BY DEF SemPost
<1>2. /\ Live(s) /\ [SemNext]_vars
      /\ sem \in [SemId -> Sem] /\ sem[s].value \in Nat /\ sem[s].blocked \in Seq(Pid)
  BY <1>1, TokenFacts DEF SemNext, Usable, Orderly, Live
<1>3. /\ heldOnReturn \in [SemId -> [Context -> Int]]
      /\ \A z \in SemId, c \in Context \ {cpu} : heldOnReturn[z][c] = held[z][c]
  BY TokenFacts DEF heldOnReturn
<1>4. /\ held' \in [SemId -> [Context -> Int]]
      /\ \A z \in SemId, c \in Context \ {cpu} : held'[z][c] = held[z][c]
      /\ \A z \in SemId : held'[z][cpu] = IF z = s THEN heldOnReturn[z][cpu] - 1
                                          ELSE heldOnReturn[z][cpu]
  BY <1>1, <1>3, TokenFacts
<1>5. /\ \A z \in SemId \ {s} : sem'[z] = sem[z]
      /\ \A z \in SemId : sem'[z].queue = sem[z].queue
      /\ sem[s].blocked = <<>> => sem'[s].value = sem[s].value + 1 /\ sem'[s].blocked = <<>>
      /\ sem[s].blocked # <<>> => /\ sem'[s].value = sem[s].value
                                  /\ sem'[s].blocked = Tail(sem[s].blocked)
  BY <1>1, <1>2 DEF afterPost, Sem
<1>6. \A z \in SemId : cpu \notin Owed(z)'
  BY <1>1, TokenFacts DEF Owed, Returned
<1>7. CASE sem[s].blocked = <<>>
  <2>1. pcb' = pcb /\ frame' = frame
    BY <1>1, <1>7 DEF schedVars
  <2>2. \A p \in Pid \ {cpu} : Untouched(p)
    BY <1>1, <2>1, TokenFacts DEF Untouched, Returned
  <2>3. ASSUME NEW z \in SemId
        PROVE  /\ Unscathed(z)' => Unscathed(z)
               /\ Balance(z)' = Balance(z) /\ Balance(z) \in Int
    <3>1. /\ SumOver(Credit(z), Context) \in Int
          /\ SumOver(Credit(z)', Context)
               = SumOver(Credit(z), Context) + (held'[z][cpu] - heldOnReturn[z][cpu])
          /\ Unscathed(z)' => Unscathed(z)
      BY <1>4, <1>6, <2>2, Settled
    <3>2. heldOnReturn[z][cpu] \in Int /\ sem[z].value \in Int
      BY TokenFacts, CpuOwed
    <3>3. /\ Balance(z) = SumOver(Credit(z), Context) + sem[z].value
          /\ Balance(z)' = SumOver(Credit(z)', Context) + sem'[z].value
      BY DEF Balance
    <3>4. /\ sem'[z].value = IF z = s THEN sem[z].value + 1 ELSE sem[z].value
          /\ held'[z][cpu] = IF z = s THEN heldOnReturn[z][cpu] - 1 ELSE heldOnReturn[z][cpu]
      BY <1>4, <1>5, <1>7
    <3>5. Balance(z)' = Balance(z) /\ Balance(z) \in Int
      BY ONLY <3>1, <3>2, <3>3, <3>4
    <3> QED
      BY <3>1, <3>5
  <2>4. Accounts'
    BY <1>5, <2>3, AccountsKept DEF Live
  <2>5. Entries'
    <3>1. \A z \in SemId : sem'[z].blocked = sem[z].blocked
      BY <1>5, <1>7
    <3> QED
      BY <2>2, <3>1, SameEntries
  <2>6. Sites'
    BY <1>1, <1>2, <1>4, <1>5, <2>1, <2>2, CpuOwed, SitesKept DEF Live, Untouched
  <2> QED
    BY <2>4, <2>5, <2>6 DEF TokenPart
<1>8. CASE sem[s].blocked # <<>>
  <2>0. PICK p : p = Head(sem[s].blocked)
    OBVIOUS
  <2>1. /\ p \in Pid /\ Entry(s, p) /\ frame' = frame
        /\ \A q \in Pid : pcb'[q].state = "WAITING_SEM" => pcb[q].state = "WAITING_SEM"
        /\ \A q \in Pid \ {cpu, p} : Untouched(q)
        /\ \/ /\ p # Idle /\ p # cpu /\ Sleeps(p, s) /\ Lives(p)
              /\ sleepingOn'[p] = s /\ pcb'[p].state = "READY"
           \/ (p # cpu => Untouched(p)) /\ pcb[p].state # "WAITING_SEM"
    BY <1>1, <1>8, <2>0, WakeFirstEffect
  <2>2. \A q \in Pid \ {cpu} : Untouched(q) \/ Lives(q)
    BY <2>1
  <2>3. \A z \in SemId : Unscathed(z)' => Unscathed(z)
    BY <2>2, StillUnscathed
  <2>4. ASSUME NEW z \in SemId \ {s}
        PROVE  Balance(z)' = Balance(z) /\ Balance(z) \in Int
    <3>1. \A q \in Pid \ {cpu} : q \in Owed(z)' <=> q \in Owed(z)
      <4> SUFFICES ASSUME NEW q \in Pid \ {cpu} PROVE q \in Owed(z)' <=> q \in Owed(z)
        OBVIOUS
      <4>1. CASE Untouched(q)
        BY <4>1, UntouchedOwed
      <4>2. CASE q = p /\ Sleeps(p, s) /\ sleepingOn'[p] = s
        BY <4>2 DEF Owed, Sleeps
      <4> QED
        BY <2>1, <4>1, <4>2
    <3>2. /\ SumOver(Credit(z), Context) \in Int
          /\ SumOver(Credit(z)', Context)
               = SumOver(Credit(z), Context) + (held'[z][cpu] - heldOnReturn[z][cpu])
      BY <1>4, <1>6, <3>1, SettledSum
    <3>3. heldOnReturn[z][cpu] \in Int /\ sem[z].value \in Int
      BY TokenFacts, CpuOwed
    <3>4. sem'[z].value = sem[z].value /\ held'[z][cpu] = heldOnReturn[z][cpu]
      BY <1>4, <1>5
    <3> QED
      BY <3>2, <3>3, <3>4 DEF Balance
  <2>5. /\ Balance(s) \in Int /\ Balance(s)' \in Int /\ Balance(s)' <= Balance(s)
        /\ ~IdleWaits /\ Unscathed(s)' => Balance(s)' = Balance(s)
    <3>1. /\ Balance(s) = SumOver(Credit(s), Context) + sem[s].value
          /\ Balance(s)' = SumOver(Credit(s)', Context) + sem'[s].value
      BY DEF Balance
    <3>2. /\ heldOnReturn[s][cpu] \in Int /\ sem[s].value \in Int
          /\ sem'[s].value = sem[s].value /\ held'[s][cpu] = heldOnReturn[s][cpu] - 1
      <4>1. heldOnReturn[s][cpu] \in Int /\ sem[s].value \in Int
        BY TokenFacts, CpuOwed
      <4> QED
        BY <1>4, <1>5, <1>8, <4>1
    <3>3. CASE /\ p # Idle /\ p # cpu /\ Sleeps(p, s) /\ Lives(p)
               /\ sleepingOn'[p] = s /\ pcb'[p].state = "READY"
      <4>1. p \notin Owed(s) /\ p \in Owed(s)'
        BY <2>1, <3>3 DEF Owed, Sleeps, Lives, Alive
      <4>2. \A q \in Pid \ {cpu, p} : q \in Owed(s)' <=> q \in Owed(s)
        BY <2>1, UntouchedOwed
      <4>3. /\ SumOver(Credit(s), Context) \in Int
            /\ SumOver(Credit(s)', Context)
                 = SumOver(Credit(s), Context) + (held'[s][cpu] - heldOnReturn[s][cpu]) + 1
        BY <1>4, <1>6, <2>1, <3>3, <4>1, <4>2, WokenSum
      <4>4. Balance(s) \in Int /\ Balance(s)' = Balance(s)
        BY ONLY <3>1, <3>2, <4>3
      <4> QED
        BY <4>4
    <3>4. CASE (p # cpu => Untouched(p)) /\ pcb[p].state # "WAITING_SEM"
      <4>1. \A q \in Pid \ {cpu} : Untouched(q)
        BY <2>1, <3>4
      <4>2. /\ SumOver(Credit(s), Context) \in Int
            /\ SumOver(Credit(s)', Context)
                 = SumOver(Credit(s), Context) + (held'[s][cpu] - heldOnReturn[s][cpu])
        BY <1>4, <1>6, <4>1, Settled
      <4>3. Balance(s) \in Int /\ Balance(s)' = Balance(s) - 1
        BY ONLY <3>1, <3>2, <4>2
      <4>4. ~(~IdleWaits /\ Unscathed(s)')
        <5> SUFFICES ASSUME ~IdleWaits, Unscathed(s)' PROVE FALSE
          OBVIOUS
        <5>1. sleepingOn[p] = s /\ ~Lives(p)
          BY <2>1, <3>4 DEF Entry, Sleeps
        <5>2. p # cpu
          BY <2>1, <5>1, CpuOwed DEF Owed
        <5>3. Unscathed(s)
          BY <2>3
        <5> QED
          BY <2>1, <5>1, <5>3 DEF Unscathed
      <4> QED
        BY <4>3, <4>4
    <3> QED
      BY <2>1, <3>3, <3>4
  <2>6. Accounts'
    <3>1. \A z \in SemId : /\ Live(z)' => Live(z)
                           /\ Balance(z) \in Int /\ Balance(z)' \in Int /\ Balance(z)' <= Balance(z)
                           /\ ~IdleWaits /\ Unscathed(z)' => Unscathed(z) /\ Balance(z)' = Balance(z)
      BY <1>5, <2>3, <2>4, <2>5 DEF Live
    <3> QED
      BY <3>1, AccountsKept
  <2>7. Entries'
    <3> DEFINE b == sem[s].blocked
               t == sem'[s].blocked
    <3>1. /\ b \in Seq(Pid) /\ b # <<>> /\ t = Tail(b) /\ p = Head(b)
          /\ \A i, j \in DOMAIN b : i # j /\ b[i] = b[j] => b[i] = Idle
          /\ \A q \in ToSet(b) : Entry(s, q)
      BY <1>2, <1>5, <1>8, <2>0 DEF TokenInv, TokenPart, Entries
    <3> HIDE DEF b, t
    <3>2. /\ Len(b) \in Nat /\ Len(b) >= 1 /\ DOMAIN b = 1 .. Len(b) /\ p = b[1]
          /\ DOMAIN t = 1 .. Len(b) - 1 /\ \A i \in 1 .. Len(b) - 1 : t[i] = b[i + 1]
      BY <3>1
    <3>3. \A i \in DOMAIN t : i + 1 \in DOMAIN b /\ i + 1 # 1 /\ 1 \in DOMAIN b
      BY <3>2
    <3>4. \A i, j \in DOMAIN t : i # j /\ t[i] = t[j] => t[i] = Idle
      <4> SUFFICES ASSUME NEW i \in DOMAIN t, NEW j \in DOMAIN t, i # j, t[i] = t[j] PROVE t[i] = Idle
        OBVIOUS
      <4>1. i + 1 # j + 1
        BY <3>2
      <4> QED
        BY <3>1, <3>2, <3>3, <4>1
    <3>5. ASSUME NEW q \in ToSet(t) PROVE Entry(s, q)'
      <4>1. PICK i \in DOMAIN t : q = t[i]
        BY <3>5 DEF ToSet
      <4>2. q = b[i + 1] /\ q \in ToSet(b)
        BY <3>2, <3>3, <4>1 DEF ToSet
      <4>3. q = p => p = Idle
        BY <3>1, <3>2, <3>3, <4>2
      <4>4. Entry(s, q) /\ q \in Pid
        BY <3>1, <4>2, TokenFacts DEF Entry
      <4>5. q # cpu => Untouched(q)
        BY <2>1, <4>3, <4>4
      <4> QED
        BY <4>4, <4>5, EntryKept
    <3>6. ASSUME NEW z \in SemId \ {s}, NEW q \in Pid \ {cpu}, Entry(z, q) PROVE Untouched(q)
      BY <2>1, <3>6 DEF Entry, Sleeps
    <3>7. \A z \in SemId \ {s} : sem'[z].blocked = sem[z].blocked
      BY <1>5
    <3> QED
      BY <3>4, <3>5, <3>6, <3>7, EntriesKept DEF t
  <2>8. Sites'
    BY <1>1, <1>2, <1>4, <1>5, <2>1, CpuOwed, SitesKept DEF Live
  <2> QED
    BY <2>6, <2>7, <2>8 DEF TokenPart
<1> QED
  BY <1>7, <1>8

(* semInit() and semClose(): nobody sleeps on s before or after.            *)
LEMMA VacantTokens ==
  ASSUME TokenInv, NEW s \in SemId, UNCHANGED <<schedVars, sleepingOn>>,
         \A z \in SemId \ {s} : sem'[z] = sem[z] /\ held'[z] = held[z],
         held' \in [SemId -> [Context -> Int]], sem'[s].blocked = <<>>,
         \A c \in Context : sleepingOn[c] # s,
         Live(s)' => sem'[s].value = InitialValue /\ \A c \in Context : held'[s][c] = 0
  PROVE  TokenPart'
<1>1. pcb' = pcb /\ frame' = frame /\ sleepingOn' = sleepingOn
  BY DEF schedVars
<1>2. \A z \in SemId : /\ Owed(z)' = Owed(z)
                       /\ Unscathed(z)' <=> Unscathed(z)
                       /\ \A p : Entry(z, p)' <=> Entry(z, p)
  BY <1>1 DEF Owed, Unscathed, Entry, Sleeps, Lives, Alive
<1>3. ASSUME NEW z \in SemId \ {s} PROVE Balance(z)' = Balance(z) /\ (Live(z)' <=> Live(z))
  <2>1. sem'[z] = sem[z] /\ held'[z] = held[z] /\ Owed(z)' = Owed(z)
    BY <1>2
  <2>2. Credit(z)' = Credit(z)
    BY <2>1 DEF Credit
  <2> QED
    BY <2>1, <2>2 DEF Balance, Live
<1>4. ASSUME Live(s)' PROVE Balance(s)' = InitialValue /\ InitialValue \in Int
  <2> DEFINE g == Credit(s)'
  <2>1. \A c \in Context : c \notin Owed(s)'
    BY <1>1, TokenFacts DEF Owed
  <2>2. g \in [Context -> {0}] /\ IsFiniteSet(Context)
    BY <1>4, <2>1, TokenFacts DEF Credit
  <2> HIDE DEF g
  <2>3. SumOver(g, Context) = 0
    BY <2>2, SumOfZeros
  <2>4. Balance(s)' = SumOver(g, Context) + sem'[s].value
    BY DEF Balance, g
  <2> QED
    BY <1>4, <2>3, <2>4, TokenFacts
<1>5. Accounts'
  <2> SUFFICES ASSUME NEW z \in SemId, Live(z)'
               PROVE  /\ Balance(z)' <= InitialValue
                      /\ ~IdleWaits /\ Unscathed(z)' => Balance(z)' = InitialValue
    BY DEF Accounts
  <2>1. CASE z = s
    BY <1>4, <2>1
  <2>2. CASE z # s
    BY <1>2, <1>3, <2>2 DEF TokenInv, TokenPart, Accounts
  <2> QED
    BY <2>1, <2>2
<1>6. Entries'
  <2> SUFFICES ASSUME NEW z \in SemId
               PROVE  /\ \A p \in ToSet(sem'[z].blocked) : Entry(z, p)'
                      /\ \A i, j \in DOMAIN sem'[z].blocked :
                           i # j /\ sem'[z].blocked[i] = sem'[z].blocked[j] => sem'[z].blocked[i] = Idle
    BY DEF Entries
  <2>1. CASE z = s
    BY <2>1 DEF ToSet
  <2>2. CASE z # s
    BY <1>2, <2>2 DEF TokenInv, TokenPart, Entries
  <2> QED
    BY <2>1, <2>2
<1>7. Sites'
  BY <1>1, <1>3 DEF TokenInv, TokenPart, Sites
<1> QED
  BY <1>5, <1>6, <1>7 DEF TokenPart

LEMMA OpenTokens ==
  ASSUME TokenInv, TableKept, SemOpen
  PROVE  TokenPart'
<1>1. PICK s \in SemId : \E failed : semInit(s, failed)
  BY DEF SemOpen
<1>0. PICK failed : semInit(s, failed)
  BY <1>1
<1> DEFINE r == [value |-> InitialValue, used |-> TRUE,
                 queue |-> IF failed THEN "none" ELSE "live", blocked |-> <<>>]
<1>2. /\ ~sem[s].used /\ sem' = [sem EXCEPT ![s] = r]
      /\ held' = [held EXCEPT ![s] = [c \in Context |-> 0]]
      /\ UNCHANGED <<schedVars, sleepingOn>>
  BY <1>0 DEF semInit
<1>3. r.value = InitialValue /\ r.blocked = <<>>
  OBVIOUS
<1> HIDE DEF r
<1>4. ~Live(s)
  BY <1>2 DEF TokenInv, RefineInv, QueuePart, Live
<1>5. \A c \in Context : sleepingOn[c] # s
  BY <1>4 DEF TokenInv, TokenPart, Sites
<1>6. sem \in [SemId -> Sem] /\ held \in [SemId -> [Context -> Int]]
  BY TokenFacts
<1>7. sem'[s] = r /\ \A z \in SemId \ {s} : sem'[z] = sem[z] /\ held'[z] = held[z]
  BY <1>2, <1>6
<1>8. held' \in [SemId -> [Context -> Int]] /\ \A c \in Context : held'[s][c] = 0
  BY <1>2, <1>6
<1> QED
  BY <1>2, <1>3, <1>5, <1>7, <1>8, VacantTokens

LEMMA CloseTokens ==
  ASSUME TokenInv, Orderly, SemClose
  PROVE  TokenPart'
<1>1. PICK s \in SemId :
        /\ \A c \in Context : sleepingOn[c] # s
        /\ sem' = [sem EXCEPT ![s] =
             [value |-> 0, used |-> FALSE,
              queue |-> IF @.queue = "none" THEN "none" ELSE "freed", blocked |-> <<>>]]
        /\ UNCHANGED <<schedVars, sleepingOn, held>>
  BY DEF SemClose, Orderly
<1>2. sem \in [SemId -> Sem] /\ held \in [SemId -> [Context -> Int]]
  BY TokenFacts
<1>3. /\ \A z \in SemId \ {s} : sem'[z] = sem[z] /\ held'[z] = held[z]
      /\ sem'[s].blocked = <<>> /\ sem'[s].queue # "live"
  BY <1>1, <1>2
<1> QED
  BY <1>1, <1>2, <1>3, VacantTokens DEF Live

LEMMA SameTokens ==
  ASSUME TokenInv, UNCHANGED vars
  PROVE  TokenPart'
<1>1. pcb' = pcb /\ frame' = frame /\ sleepingOn' = sleepingOn /\ sem' = sem /\ held' = held
  BY DEF vars, schedVars, semVars
<1>2. ASSUME NEW s \in SemId
      PROVE  /\ Balance(s)' = Balance(s) /\ (Live(s)' <=> Live(s)) /\ (Unscathed(s)' <=> Unscathed(s))
             /\ \A p : Entry(s, p)' <=> Entry(s, p)
  BY <1>1 DEF Balance, Credit, Owed, Live, Unscathed, Entry, Sleeps, Lives, Alive
<1> QED
  BY <1>1, <1>2 DEF TokenInv, TokenPart, Accounts, Entries, Sites

(* As long as the table is kept. *)
LEMMA NextTokens ==
  ASSUME TokenInv, TableKept', Orderly, [SemNext]_vars
  PROVE  TokenInv'
<1>0. TableKept /\ ~TableReused
  BY TableStays
<1>1. RefineInv'
  BY TokenFacts, NextRefine
<1>2. StackPart'
  BY TokenFacts, StepRefines, NextStack DEF Orderly, StackInv
<1>3. TokenPart'
  BY <1>0, SchedulerTokens, OpenTokens, CloseTokens, ReturnTokens, WaitSleepsTokens, PostTokens,
     SameTokens DEF SemNext
<1> QED
  BY <1>1, <1>2, <1>3 DEF TokenInv

LEMMA InitTokens == SemInit => TokenInv
<1> SUFFICES ASSUME SemInit PROVE TokenInv
  OBVIOUS
<1>1. RefineInv /\ StackPart
  BY InitRefine, InitStack DEF SemInit
<1>2. /\ \A s \in SemId : ~Live(s) /\ sem[s].blocked = <<>>
      /\ \A c \in Context : sleepingOn[c] = Nowhere
      /\ held \in [SemId -> [Context -> Int]]
  BY DEF SemInit, semManager, Live
<1>3. Accounts /\ Entries
  BY <1>2 DEF Accounts, Entries, ToSet
<1>4. Sites
  <2>1. Nowhere \notin SemId /\ Boot \in Context /\ Idle \in Context
    BY SemaphoreAssumption, ConstantFacts
  <2>2. \A p \in Pid : p # Idle => frame[p].at # "halted"
    BY ConstantFacts DEF SemInit, Init, At, Boot, Pid
  <2>3. \A p \in Pid : pcb[p].state # "WAITING_SEM"
    BY ConstantFacts DEF SemInit, Init, FreePcb
  <2> QED
    BY <1>2, <2>1, <2>2, <2>3 DEF Sites
<1> QED
  BY <1>1, <1>3, <1>4 DEF TokenInv, TokenPart

LEMMA AlwaysTokens == ASSUME Orderly PROVE SemSpec => [](TableKept => TokenInv)
<1>1. (TableKept => TokenInv) /\ [SemNext]_vars => (TableKept => TokenInv)'
  BY NextTokens, TableStays
<1> QED
  BY <1>1, InitTokens, PTL DEF SemSpec

(* No more waits return with a token than the initial value and the posts   *)
(* allow (mutual exclusion, for a mutex): wait() takes a token only where   *)
(* there is one, and post() hands one to a sleeper in the place of the      *)
(* value, never besides it, whatever the scheduler does to the sleepers in  *)
(* between; for any number of processes and semaphores, with allocations    *)
(* that fail and waiters that die, as long as the table is not freed.       *)
THEOREM TokensAreNotForged == ASSUME Orderly PROVE SemSpec => []NeverOverdrawn
<1>1. ASSUME TableKept => TokenInv PROVE NeverOverdrawn
  <2>0. SUFFICES ASSUME TokenInv PROVE \A s \in SemId : Live(s) => SumOver(held[s], Context) <= InitialValue
    BY <1>1 DEF NeverOverdrawn
  <2> SUFFICES ASSUME NEW s \in SemId, Live(s) PROVE SumOver(held[s], Context) <= InitialValue
    OBVIOUS
  <2> DEFINE f == Credit(s)
             h == held[s]
  <2>1. /\ f \in [Context -> Int] /\ h \in [Context -> Int] /\ IsFiniteSet(Context)
        /\ sem[s].value \in Nat /\ InitialValue \in Nat
    BY <2>0, TokenFacts
  <2>2. \A c \in Context : h[c] <= f[c]
    BY <2>1 DEF Credit
  <2>3. SumOver(f, Context) + sem[s].value <= InitialValue
    BY <2>0 DEF TokenInv, TokenPart, Accounts, Balance
  <2> HIDE DEF f, h
  <2>4. SumOver(h, Context) \in Int /\ SumOver(f, Context) \in Int
        /\ SumOver(h, Context) <= SumOver(f, Context)
    BY <2>1, <2>2, SumGrows
  <2>5. SumOver(h, Context) <= InitialValue
    BY <2>1, <2>3, <2>4
  <2> QED
    BY <2>5 DEF h
<1> QED
  BY <1>1, AlwaysTokens, PTL

(* No token disappears while nobody dies in wait(): what is neither held    *)
(* nor in the value is on its way to a waiter that post() made ready.  This *)
(* is what the queue of a semaphore and the scheduler's states owe each     *)
(* other: a pid in the queue is asleep there, once, until it is taken out.  *)
THEOREM NoTokenDisappears == ASSUME Orderly, ~IdleWaits PROVE SemSpec => []NoTokenLost
<1>1. ASSUME TableKept => TokenInv PROVE NoTokenLost
  <2>0. SUFFICES ASSUME TokenInv, NEW s \in SemId, Live(s), \A p \in Pid : sleepingOn[p] = s => Alive(p)
               PROVE  InitialValue - SumOver(held[s], Context)
                        = sem[s].value
                          + Cardinality({p \in Pid : sleepingOn[p] = s /\ ~Sleeps(p, s)})
    BY <1>1 DEF NoTokenLost
  <2> DEFINE h == held[s]
             C == Owed(s)
  <2>1. /\ h \in [Context -> Int] /\ IsFiniteSet(Context) /\ C \in SUBSET Context
        /\ sem[s].value \in Nat /\ InitialValue \in Nat
    BY <2>0, TokenFacts DEF Owed
  <2>2. Unscathed(s) /\ C = {p \in Pid : sleepingOn[p] = s /\ ~Sleeps(p, s)}
    BY <2>0 DEF Unscathed, Owed, Lives
  <2>3. SumOver([c \in Context |-> h[c] + IF c \in C THEN 1 ELSE 0], Context) + sem[s].value
          = InitialValue
    BY <2>0, <2>2 DEF TokenInv, TokenPart, Accounts, Balance, Credit
  <2>4. IsFiniteSet(C) /\ Cardinality(C) \in Nat
    <3> HIDE DEF C
    <3> QED
      BY <2>1, FS_Subset, FS_CardinalityType
  <2> HIDE DEF h, C
  <2>5. /\ SumOver(h, Context) \in Int
        /\ SumOver([c \in Context |-> h[c] + IF c \in C THEN 1 ELSE 0], Context)
             = SumOver(h, Context) + Cardinality(C)
    BY <2>1, SumCounts
  <2>6. InitialValue - SumOver(h, Context) = sem[s].value + Cardinality(C)
    BY <2>1, <2>3, <2>4, <2>5
  <2> QED
    BY <2>2, <2>6 DEF h
<1> QED
  BY <1>1, AlwaysTokens, PTL
=============================================================================
