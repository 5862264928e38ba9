--------------------------- MODULE LifecycleProofs ---------------------------
(***************************************************************************)
(* Proofs about the life of a process in Scheduler: the foreground process *)
(* is alive, a parent in waitpid() misses no death, a PCB is freed by its  *)
(* parent only, and, while no running process is killed in place, one      *)
(* process runs and it runs on its own stack.                              *)
(*                                                                         *)
(* Every step but the ticks is two stages: the lists are changed (P, Q),   *)
(* then perhaps schedule() gives the CPU away (Dispatch).  So the parts of *)
(* the invariant are predicates of any lists, one lemma shows that         *)
(* Dispatch keeps each part, and one that the first stage of an action     *)
(* does.                                                                   *)
(***************************************************************************)
EXTENDS SchedulerProofs

Gone == {"ZOMBIE", "FREE"}

Queued(Q, q) == \E n \in QueueName : q \in ToSet(Q[n])

(* Idle is always there to be switched to, and the foreground process of fg *)
(* is a living one that asked for the foreground.                           *)
ForegroundLives(P, fg) ==
  /\ P[Idle].state \in {"READY", "RUNNING"}
  /\ fg # None => P[fg].state \notin Gone /\ P[fg].foreground

(* A process waits only for a child of its own (or for one that is gone).   *)
WaitsForChildren(P, n) ==
  \A q \in Pid :
    LET t == P[q].waitingForPid
    IN t \in Pid => t < n /\ (P[t].state # "FREE" => P[t].parentPid = q)

(* The context process q runs in when it runs: it does so now, or it was    *)
(* saved.                                                                   *)
ContextOf(P, cur, c, q) == IF q = cur THEN c ELSE P[q].rsp

(* What a context that is inside waitpid() can rely on: it belongs to one   *)
(* process for as long as that one lives, it waits for a child of that      *)
(* process, and while the process sleeps the child lives.                   *)
InWaitpid(P, Q, f, c, cur, e, n) ==
  /\ f.me \in Pid \ {Idle} /\ f.me < n /\ f.target \in Pid /\ f.target < n
  /\ P[f.target].state # "FREE" => P[f.target].parentPid = f.me
  /\ P[f.me].state \notin Gone => /\ P[f.me].waitingForPid = f.target
                                  /\ Queued(Q, f.me)
                                  /\ ContextOf(P, cur, e, f.me) = c
  /\ P[f.me].state = "BLOCKED" /\ f.me \notin BlockTargets => P[f.target].state \notin Gone

Waits(P, Q, F, cur, e, n) ==
  /\ F[Boot].at = "halted"
  /\ WaitsForChildren(P, n)
  /\ \A c \in Context : F[c].at = "waitpid" => InWaitpid(P, Q, F[c], c, cur, e, n)

(* The strengthening of IInv: what holds whatever is killed.                *)
LifePart ==
  /\ ForegroundLives(pcb, foreground)
  /\ Waits(pcb, queue, frame, current, cpu, nextFreePid)

LifeInv == IInv /\ LifePart

-----------------------------------------------------------------------------
(* What schedule() does to each PCB, from any lists in agreement.           *)
LEMMA DispatchEffect ==
  ASSUME NEW P, NEW Q, GoodLists(P, Q), NEW cur \in Pid, NEW fg, cpu \in Context,
         P[Idle].state \in {"READY", "RUNNING"},
         Dispatch(P, Q, cur, fg)
  PROVE  /\ current' \in Pid /\ P[current'].state \in {"READY", "RUNNING"}
         /\ currentPid' = current' /\ cpu' = pcb'[current'].rsp
         /\ foreground' = IF P[current'].foreground THEN current' ELSE fg
         /\ \A q \in Pid :
              /\ pcb'[q].parentPid = P[q].parentPid
              /\ pcb'[q].waitingForPid = P[q].waitingForPid
              /\ pcb'[q].foreground = P[q].foreground
              /\ pcb'[q].rsp = IF q = cur /\ cpu # Boot THEN cpu ELSE P[q].rsp
              /\ pcb'[q].state = IF q = current' THEN "RUNNING"
                                 ELSE IF q = cur /\ P[q].state = "RUNNING" THEN "READY"
                                 ELSE P[q].state
         /\ \A n \in QueueName : ToSet(queue'[n]) = ToSet(Q[n])
<1> DEFINE next  == IF Q["ready"] = <<>> THEN Idle ELSE Head(Q["ready"])
           saved == saveContext(P, cur)
<1>1. /\ P \in [Pid -> PCB] /\ Q \in [QueueName -> Seq(Pid)] /\ "ready" \in QueueName
      /\ \A n \in QueueName : IsInjective(Q[n])
  BY QueueNames DEF GoodLists
<1>2. ToSet(Q["ready"]) \subseteq Pid
  BY <1>1, ElementOfSeq, LenProperties DEF ToSet
<1>3. next \in Pid /\ P[next].state \in {"READY", "RUNNING"}
  <2>1. CASE Q["ready"] = <<>>
    BY <2>1, ConstantFacts
  <2>2. CASE Q["ready"] # <<>>
    <3>1. Head(Q["ready"]) \in ToSet(Q["ready"])
      BY <2>2, <1>1, RotateFacts
    <3>2. P[Head(Q["ready"])].state \in StatesOf["ready"]
      BY <3>1, <1>1 DEF GoodLists
    <3>3. StatesOf["ready"] = {"READY", "RUNNING"}
      BY <1>1 DEF StatesOf
    <3> QED
      BY <2>2, <3>1, <3>2, <3>3, <1>2
  <2> QED
    BY <2>1, <2>2
<1>4. /\ saved \in [Pid -> PCB]
      /\ \A q \in Pid :
           /\ saved[q].parentPid = P[q].parentPid /\ saved[q].waitingForPid = P[q].waitingForPid
           /\ saved[q].foreground = P[q].foreground
           /\ saved[q].rsp = IF q = cur /\ cpu # Boot THEN cpu ELSE P[q].rsp
           /\ saved[q].state = IF q = cur /\ P[q].state = "RUNNING" THEN "READY" ELSE P[q].state
  <2> DEFINE r == [P[cur] EXCEPT !.rsp = IF cpu = Boot THEN @ ELSE cpu,
                                 !.state = IF @ = "RUNNING" THEN "READY" ELSE @]
  <2>1. P[cur] \in PCB
    BY <1>1
  <2>2. /\ r \in PCB /\ r.parentPid = P[cur].parentPid /\ r.waitingForPid = P[cur].waitingForPid
        /\ r.foreground = P[cur].foreground
        /\ r.rsp = (IF cpu = Boot THEN P[cur].rsp ELSE cpu)
        /\ r.state = IF P[cur].state = "RUNNING" THEN "READY" ELSE P[cur].state
    BY <2>1 DEF PCB, ProcessState
  <2>3. saved = [P EXCEPT ![cur] = r]
    BY DEF saveContext
  <2> HIDE DEF r
  <2> QED
    BY <1>1, <2>2, <2>3
<1> HIDE DEF saved, next
<1>5. /\ pcb' = [saved EXCEPT ![next].state = "RUNNING"]
      /\ queue' = rotateReady(Q)
      /\ current' = next
      /\ foreground' = IF P[next].foreground THEN next ELSE fg
      /\ currentPid' = next
      /\ cpu' = saved[next].rsp
  BY DEF Dispatch, saved, next
<1>6. \A q \in Pid :
        /\ pcb'[q].parentPid = saved[q].parentPid /\ pcb'[q].waitingForPid = saved[q].waitingForPid
        /\ pcb'[q].foreground = saved[q].foreground /\ pcb'[q].rsp = saved[q].rsp
        /\ pcb'[q].state = IF q = next THEN "RUNNING" ELSE saved[q].state
  <2> DEFINE r == [saved[next] EXCEPT !.state = "RUNNING"]
  <2>1. saved[next] \in PCB
    BY <1>3, <1>4
  <2>2. /\ r.parentPid = saved[next].parentPid /\ r.waitingForPid = saved[next].waitingForPid
        /\ r.foreground = saved[next].foreground /\ r.rsp = saved[next].rsp
        /\ r.state = "RUNNING"
    BY <2>1 DEF PCB
  <2>3. pcb' = [saved EXCEPT ![next] = r]
    BY <1>5
  <2> HIDE DEF r
  <2> QED
    BY <1>3, <1>4, <2>2, <2>3
<1>7. \A n \in QueueName : ToSet(queue'[n]) = ToSet(Q[n])
  <2>1. CASE Q["ready"] = <<>>
    BY <2>1, <1>1, <1>5 DEF rotateReady
  <2>2. CASE Q["ready"] # <<>>
    <3>1. /\ queue'["ready"] = Append(Tail(Q["ready"]), Head(Q["ready"]))
          /\ \A n \in QueueName \ {"ready"} : queue'[n] = Q[n]
      BY <2>2, <1>1, <1>5 DEF rotateReady
    <3>2. ToSet(queue'["ready"]) = ToSet(Q["ready"])
      BY <2>2, <3>1, <1>1, RotateFacts
    <3> QED
      BY <3>1, <3>2
  <2> QED
    BY <2>1, <2>2
<1>8. \A q \in Pid :
        /\ pcb'[q].parentPid = P[q].parentPid
        /\ pcb'[q].waitingForPid = P[q].waitingForPid
        /\ pcb'[q].foreground = P[q].foreground
        /\ pcb'[q].rsp = IF q = cur /\ cpu # Boot THEN cpu ELSE P[q].rsp
        /\ pcb'[q].state = IF q = current' THEN "RUNNING"
                           ELSE IF q = cur /\ P[q].state = "RUNNING" THEN "READY"
                           ELSE P[q].state
  BY <1>4, <1>5, <1>6
<1>9. current' \in Pid /\ P[current'].state \in {"READY", "RUNNING"} /\ cpu' = pcb'[current'].rsp
  BY <1>3, <1>5, <1>6
<1> QED
  BY <1>5, <1>7, <1>8, <1>9

(* schedule() keeps the foreground process alive, and takes idle or a ready *)
(* one for it.                                                              *)
LEMMA DispatchForeground ==
  ASSUME NEW P, NEW Q, GoodLists(P, Q), NEW cur \in Pid, NEW fg \in Pid \cup {None}, cpu \in Context,
         ForegroundLives(P, fg), Dispatch(P, Q, cur, fg)
  PROVE  ForegroundLives(pcb', foreground')
<1>1. P[Idle].state \in {"READY", "RUNNING"}
  BY DEF ForegroundLives
<1>2. /\ current' \in Pid /\ P[current'].state \in {"READY", "RUNNING"}
      /\ foreground' = IF P[current'].foreground THEN current' ELSE fg
      /\ \A q \in Pid :
           /\ pcb'[q].foreground = P[q].foreground
           /\ pcb'[q].state = IF q = current' THEN "RUNNING"
                              ELSE IF q = cur /\ P[q].state = "RUNNING" THEN "READY"
                              ELSE P[q].state
  BY <1>1, DispatchEffect
<1>3. pcb'[Idle].state \in {"READY", "RUNNING"}
  BY <1>1, <1>2, ConstantFacts
<1>4. ASSUME foreground' # None
      PROVE  pcb'[foreground'].state \notin Gone /\ pcb'[foreground'].foreground
  <2>1. foreground' \in Pid /\ P[foreground'].state \notin Gone /\ P[foreground'].foreground
    BY <1>2, <1>4 DEF ForegroundLives, Gone
  <2> QED
    BY <2>1, <1>2 DEF Gone
<1> QED
  BY <1>3, <1>4 DEF ForegroundLives

(* schedule() disturbs nobody who waits.                                    *)
LEMMA DispatchWaits ==
  ASSUME NEW P, NEW Q, GoodLists(P, Q), NEW cur \in Pid, NEW fg, cpu \in Context,
         P[Idle].state \in {"READY", "RUNNING"}, NEW F, NEW n \in Int,
         Waits(P, Q, F, cur, cpu, n), Dispatch(P, Q, cur, fg)
  PROVE  Waits(pcb', queue', F, current', cpu', n)
<1>1. /\ current' \in Pid /\ P[current'].state \in {"READY", "RUNNING"}
      /\ cpu' = pcb'[current'].rsp
      /\ \A q \in Pid :
           /\ pcb'[q].parentPid = P[q].parentPid
           /\ pcb'[q].waitingForPid = P[q].waitingForPid
           /\ pcb'[q].rsp = IF q = cur /\ cpu # Boot THEN cpu ELSE P[q].rsp
           /\ pcb'[q].state = IF q = current' THEN "RUNNING"
                              ELSE IF q = cur /\ P[q].state = "RUNNING" THEN "READY"
                              ELSE P[q].state
      /\ \A m \in QueueName : ToSet(queue'[m]) = ToSet(Q[m])
  BY DispatchEffect
<1>2. \A q \in Pid : /\ pcb'[q].state \in Gone <=> P[q].state \in Gone
                     /\ pcb'[q].state = "FREE" <=> P[q].state = "FREE"
                     /\ pcb'[q].state = "BLOCKED" => P[q].state = "BLOCKED"
  BY <1>1 DEF Gone
<1>3. WaitsForChildren(pcb', n)
  BY <1>1, <1>2 DEF Waits, WaitsForChildren
<1>4. ASSUME NEW c \in Context, F[c].at = "waitpid"
      PROVE  InWaitpid(pcb', queue', F[c], c, current', cpu', n)
  <2> DEFINE f == F[c]
  <2>1. InWaitpid(P, Q, f, c, cur, cpu, n) /\ c # Boot
    BY <1>4 DEF Waits
  <2>2. f.me \in Pid /\ f.target \in Pid
    BY <2>1 DEF InWaitpid
  <2> HIDE DEF f
  <2>3. Queued(Q, f.me) => Queued(queue', f.me)
    BY <1>1 DEF Queued
  <2>4. ContextOf(P, cur, cpu, f.me) = c => ContextOf(pcb', current', cpu', f.me) = c
    BY <1>1, <2>1, <2>2 DEF ContextOf
  <2>5. InWaitpid(pcb', queue', f, c, current', cpu', n)
    BY <1>1, <1>2, <2>1, <2>2, <2>3, <2>4 DEF InWaitpid
  <2> QED
    BY <2>5 DEF f
<1> QED
  BY <1>3, <1>4 DEF Waits

-----------------------------------------------------------------------------
(* What the invariant says, in the form the steps use.                      *)
LEMMA LifeFacts ==
  ASSUME LifeInv
  PROVE  /\ IInv
         /\ pcb[Idle].state \in {"READY", "RUNNING"}
         /\ pcb[current].state \notin Gone
         /\ nextFreePid \in Int /\ current < nextFreePid
         /\ \A p \in Pid : p >= nextFreePid => pcb[p].state = "FREE"
         /\ Waits(pcb, queue, frame, current, cpu, nextFreePid)
<1>1. IInv /\ pcb[Idle].state \in {"READY", "RUNNING"} /\ nextFreePid \in Int
      /\ Waits(pcb, queue, frame, current, cpu, nextFreePid)
  BY DEF LifeInv, LifePart, ForegroundLives, IInv, GoodRest
<1>2. \A p \in Pid : p >= nextFreePid => pcb[p].state = "FREE"
  BY <1>1 DEF IInv, FreshPids
<1>3. pcb[current].state \notin Gone
  <2>1. CASE current = Idle
    BY <2>1, <1>1 DEF Gone
  <2>2. CASE InQueue("ready", current)
    BY <2>2, <1>1, InvFacts, QueueNames, StatesOfFacts DEF InQueue, GoodLists, Gone, StatesOf
  <2>3. CASE Lost(current)
    BY <2>3, <1>1, InvFacts DEF Lost, InSomeQueue, InQueue, GoodLists, Gone
  <2> QED
    BY <2>1, <2>2, <2>3, <1>1 DEF IInv, CurrentIsRunnable
<1>4. current < nextFreePid
  BY <1>1, <1>2, <1>3, InvFacts, ConstantFacts DEF Gone
<1> QED
  BY <1>1, <1>2, <1>3, <1>4

(* The lists R and S, with cur as the current process, take nothing from a  *)
(* process that sleeps in waitpid(): only the current one may lose its      *)
(* place, and its context is not in waitpid() then.                         *)
Undisturbed(R, S, cur) ==
  /\ \A q \in Pid : q < nextFreePid /\ R[q].state # "FREE"
       => pcb[q].state # "FREE" /\ R[q].parentPid = pcb[q].parentPid
  /\ \A q \in Pid \ {current, Idle} : q < nextFreePid /\ R[q].state \notin Gone =>
       /\ pcb[q].state \notin Gone /\ q # cur
       /\ R[q].waitingForPid = pcb[q].waitingForPid /\ R[q].rsp = pcb[q].rsp
       /\ Queued(queue, q) => Queued(S, q)
       /\ R[q].state = "BLOCKED" /\ q \notin BlockTargets /\ Queued(queue, q) =>
            /\ pcb[q].state = "BLOCKED"
            /\ \A t \in Pid : t = pcb[q].waitingForPid /\ R[t].state \in Gone
                             => pcb[t].state \in Gone

(* Whoever is in waitpid() elsewhere than in the executing context.         *)
LEMMA OthersWait ==
  ASSUME LifeInv, NEW R, NEW S, NEW cur, NEW m \in Int, nextFreePid <= m,
         Undisturbed(R, S, cur),
         NEW c \in Context, c # cpu, frame[c].at = "waitpid"
  PROVE  InWaitpid(R, S, frame[c], c, cur, cpu, m)
<1> DEFINE f == frame[c]
<1>1. InWaitpid(pcb, queue, f, c, current, cpu, nextFreePid)
  BY LifeFacts DEF Waits
<1> HIDE DEF f
<1>2. /\ f.me \in Pid \ {Idle} /\ f.target \in Pid
      /\ f.me < nextFreePid /\ f.target < nextFreePid
      /\ f.me < m /\ f.target < m
  <2>1. /\ f.me \in Pid \ {Idle} /\ f.target \in Pid
        /\ f.me < nextFreePid /\ f.target < nextFreePid
    BY <1>1 DEF InWaitpid
  <2>2. f.me \in Int /\ f.target \in Int /\ nextFreePid \in Int
    BY <2>1, LifeFacts, ConstantFacts
  <2>3. f.me < m /\ f.target < m
    BY <2>1, <2>2
  <2> QED
    BY <2>1, <2>3
<1>3. R[f.target].state # "FREE" => R[f.target].parentPid = f.me
  BY <1>1, <1>2 DEF InWaitpid, Undisturbed
<1>4. f.me # current
  BY <1>1, LifeFacts DEF InWaitpid, ContextOf
<1>5. R[f.me].state \notin Gone =>
        /\ R[f.me].waitingForPid = f.target /\ Queued(S, f.me)
        /\ ContextOf(R, cur, cpu, f.me) = c
  BY <1>1, <1>2, <1>4 DEF InWaitpid, Undisturbed, ContextOf
<1>6. R[f.me].state = "BLOCKED" /\ f.me \notin BlockTargets => R[f.target].state \notin Gone
  <2> SUFFICES ASSUME R[f.me].state = "BLOCKED", f.me \notin BlockTargets
               PROVE  R[f.target].state \notin Gone
    OBVIOUS
  <2>1. R[f.me].state \notin Gone
    BY DEF Gone
  <2>2. pcb[f.me].state \notin Gone
    BY <2>1, <1>2, <1>4 DEF Undisturbed
  <2>3. Queued(queue, f.me) /\ f.target = pcb[f.me].waitingForPid
    BY <2>2, <1>1 DEF InWaitpid
  <2>4. /\ pcb[f.me].state = "BLOCKED"
        /\ R[f.target].state \in Gone => pcb[f.target].state \in Gone
    BY <2>1, <2>3, <1>2, <1>4 DEF Undisturbed
  <2> QED
    BY <2>4, <1>1 DEF InWaitpid
<1>7. InWaitpid(R, S, f, c, cur, cpu, m)
  BY <1>2, <1>3, <1>5, <1>6 DEF InWaitpid
<1> QED
  BY <1>7 DEF f

(* A step that makes nobody wait anew.                                      *)
LEMMA WaitsKept ==
  ASSUME LifeInv, NEW R, NEW S, NEW F, NEW cur, NEW m \in Int, nextFreePid <= m,
         Undisturbed(R, S, cur), F[Boot].at = "halted",
         \A q \in Pid : R[q].waitingForPid \in {pcb[q].waitingForPid, None},
         \A c \in Context : F[c].at = "waitpid" => c # cpu /\ F[c] = frame[c]
  PROVE  Waits(R, S, F, cur, cpu, m)
<1>1. WaitsForChildren(R, m)
  <2> SUFFICES ASSUME NEW q \in Pid, NEW t \in Pid, R[q].waitingForPid = t
               PROVE  t < m /\ (R[t].state # "FREE" => R[t].parentPid = q)
    BY DEF WaitsForChildren
  <2>1. pcb[q].waitingForPid = t
    BY ConstantFacts
  <2>2. t < nextFreePid /\ (pcb[t].state # "FREE" => pcb[t].parentPid = q)
    BY <2>1, LifeFacts DEF Waits, WaitsForChildren
  <2> QED
    BY <2>2, LifeFacts, ConstantFacts DEF Undisturbed
<1>2. ASSUME NEW c \in Context, F[c].at = "waitpid"
      PROVE  InWaitpid(R, S, F[c], c, cur, cpu, m)
  BY <1>2, OthersWait
<1> QED
  BY <1>1, <1>2 DEF Waits

(* The second stage: schedule(), from lists that kept their promises.       *)
LEMMA DispatchLife ==
  ASSUME LifeInv, NEW P, NEW Q, NEW cur \in Pid, NEW fg \in Pid \cup {None}, GoodLists(P, Q),
         ForegroundLives(P, fg), Waits(P, Q, frame', cur, cpu, nextFreePid),
         Dispatch(P, Q, cur, fg), nextFreePid' = nextFreePid
  PROVE  LifePart'
<1>1. cpu \in Context /\ nextFreePid \in Int
  BY LifeFacts, InvFacts
<1>2. P[Idle].state \in {"READY", "RUNNING"}
  BY DEF ForegroundLives
<1>3. ForegroundLives(pcb', foreground')
  BY <1>1, DispatchForeground
<1>4. Waits(pcb', queue', frame', current', cpu', nextFreePid)
  BY <1>1, <1>2, DispatchWaits
<1> QED
  BY <1>3, <1>4 DEF LifePart

(* What the executing context may be doing, and the frames of the others.   *)
LEMMA NotWaiting ==
  ASSUME LifeInv, frame[cpu].at # "waitpid"
  PROVE  /\ frame[Boot].at = "halted"
         /\ \A c \in Context : frame[c].at = "waitpid" => c # cpu
BY LifeFacts DEF Waits

-----------------------------------------------------------------------------
(* The first stages.                                                        *)

LEMMA InitLife == Init => LifePart
<1> SUFFICES ASSUME Init PROVE LifePart
  OBVIOUS
<1>1. /\ pcb[Idle].state = "READY"
      /\ \A p \in Pid : pcb[p].waitingForPid = None
  BY ConstantFacts DEF Init, FreePcb
<1>2. ForegroundLives(pcb, foreground)
  BY <1>1 DEF Init, ForegroundLives
<1>3. \A c \in Context : frame[c].at # "waitpid"
  BY DEF Init, At
<1>4. frame[Boot].at = "halted"
  BY ConstantFacts DEF Init, At
<1>5. WaitsForChildren(pcb, nextFreePid)
  BY <1>1, ConstantFacts DEF WaitsForChildren
<1> QED
  BY <1>2, <1>3, <1>4, <1>5 DEF LifePart, Waits

(* Lists whose PCBs differ in nothing that matters here.                    *)
LEMMA UnchangedUndisturbed ==
  ASSUME LifeInv, NEW R, NEW S,
         \A q \in Pid : /\ R[q].state = pcb[q].state /\ R[q].parentPid = pcb[q].parentPid
                       /\ R[q].waitingForPid = pcb[q].waitingForPid /\ R[q].rsp = pcb[q].rsp,
         \A n \in QueueName : ToSet(queue[n]) \subseteq ToSet(S[n])
  PROVE  Undisturbed(R, S, current)
BY DEF Undisturbed, Queued

(* Moving a process that is not asleep in waitpid(), or out of its sleep,   *)
(* or by name.                                                              *)
LEMMA MoveUndisturbed ==
  ASSUME LifeInv, NEW from \in QueueName, NEW to \in QueueName, from # to, from # "zombie",
         NEW p \in ToSet(queue[from]), NEW st \in ProcessState \ Gone, st \in StatesOf[to],
         st = "BLOCKED" => p = current \/ p \in BlockTargets,
         NEW P, P = [pcb EXCEPT ![p].state = st]
  PROVE  /\ Undisturbed(P, switchProcess(queue, from, to, p), current)
         /\ \A q \in Pid : P[q].waitingForPid = pcb[q].waitingForPid
         /\ ForegroundLives(P, foreground)
         /\ GoodLists(P, switchProcess(queue, from, to, p))
<1> DEFINE S == switchProcess(queue, from, to, p)
<1>1. /\ p \in Pid /\ p # Idle /\ pcb \in [Pid -> PCB] /\ pcb[p] \in PCB
      /\ pcb[p].state \in StatesOf[from]
  BY LifeFacts, InvFacts DEF GoodLists
<1>2. /\ P \in [Pid -> PCB]
      /\ P[p].state = st /\ P[p].parentPid = pcb[p].parentPid /\ P[p].rsp = pcb[p].rsp
      /\ P[p].waitingForPid = pcb[p].waitingForPid /\ P[p].foreground = pcb[p].foreground
      /\ P[p].priority = pcb[p].priority
      /\ \A q \in Pid \ {p} : P[q] = pcb[q]
  BY <1>1 DEF PCB
<1>3. /\ P \in [Pid -> PCB] /\ P[p].state \in StatesOf[to] /\ GoodLists(pcb, queue)
      /\ \A q \in Pid \ {p} : P[q].state = pcb[q].state /\ P[q].priority = pcb[q].priority
      /\ from \in QueueName /\ to \in QueueName /\ from # to /\ p \in ToSet(queue[from])
  BY <1>2, LifeFacts, InvFacts
<1>4. /\ GoodLists(P, S)
      /\ ToSet(S[from]) = ToSet(queue[from]) \ {p}
      /\ ToSet(S[to]) = ToSet(queue[to]) \cup {p}
      /\ \A n \in QueueName \ {from, to} : S[n] = queue[n]
  <2>1. GoodLists(P, S)
    BY ONLY <1>3, MoveFacts
  <2>2. ToSet(S[from]) = ToSet(queue[from]) \ {p} /\ ToSet(S[to]) = ToSet(queue[to]) \cup {p}
    BY ONLY <1>3, MoveFacts
  <2>3. \A n \in QueueName \ {from, to} : S[n] = queue[n]
    BY ONLY <1>3, MoveFacts
  <2> QED
    BY <2>1, <2>2, <2>3
<1> HIDE DEF S
<1>5. \A q \in Pid : Queued(queue, q) => Queued(S, q)
  BY <1>4 DEF Queued
<1>6. pcb[p].state \notin Gone
  BY <1>1, StatesOfFacts DEF Gone
<1>7. st # "FREE" /\ st # "ZOMBIE"
  BY DEF Gone
<1>8. Undisturbed(P, S, current)
  BY <1>1, <1>2, <1>5, <1>6, <1>7 DEF Undisturbed, Gone
<1>9. ForegroundLives(P, foreground)
  <2>1. P[Idle].state \in {"READY", "RUNNING"}
    BY <1>1, <1>2, LifeFacts, ConstantFacts
  <2>2. foreground # None => P[foreground].state \notin Gone /\ P[foreground].foreground
    BY <1>2, <1>7, LifeFacts, InvFacts DEF Gone, LifeInv, LifePart, ForegroundLives
  <2> QED
    BY <2>1, <2>2 DEF ForegroundLives
<1> QED
  BY <1>2, <1>4, <1>8, <1>9 DEF S

(* schedule() from the lists as they are. *)
LEMMA PlainDispatchLife ==
  ASSUME LifeInv, Dispatch(pcb, queue, current, foreground), nextFreePid' = nextFreePid,
         frame' = frame
  PROVE  LifePart'
<1>1. current \in Pid /\ foreground \in Pid \cup {None} /\ GoodLists(pcb, queue)
  BY LifeFacts, InvFacts
<1>2. ForegroundLives(pcb, foreground) /\ Waits(pcb, queue, frame', current, cpu, nextFreePid)
  BY DEF LifeInv, LifePart
<1> QED
  BY <1>1, <1>2, DispatchLife

LEMMA TimerTickLife == LifeInv /\ TimerTick => LifePart'
<1> SUFFICES ASSUME LifeInv, TimerTick PROVE LifePart'
  OBVIOUS
<1>1. CASE UNCHANGED <<pcb, queue, current, foreground, currentPid, cpu>>
  <2>1. frame' = frame /\ nextFreePid' = nextFreePid
    BY DEF TimerTick
  <2> QED
    BY <1>1, <2>1 DEF LifeInv, LifePart
<1>2. CASE Dispatch(pcb, queue, current, foreground)
  BY <1>2, PlainDispatchLife DEF TimerTick
<1> QED
  BY <1>1, <1>2 DEF TimerTick

LEMMA YieldLife == LifeInv /\ Yield => LifePart'
BY PlainDispatchLife DEF Yield

LEMMA KernelReturnLife == LifeInv /\ KernelReturn => LifePart'
<1> SUFFICES ASSUME LifeInv, KernelReturn PROVE LifePart'
  OBVIOUS
<1>1. /\ frame' = [frame EXCEPT ![cpu] = At("user")] /\ frame[cpu].at = "kernel"
      /\ UNCHANGED <<pcb, queue, current, foreground, currentPid, quantum, nextFreePid, cpu>>
  BY DEF KernelReturn, InKernel
<1>2. Undisturbed(pcb, queue, current)
  BY UnchangedUndisturbed
<1>3. frame'[Boot].at = "halted" /\ \A c \in Context : frame'[c].at = "waitpid" => c # cpu /\ frame'[c] = frame[c]
  <2>1. frame \in [Context -> Frame] /\ cpu \in Context /\ Boot \in Context
    BY LifeFacts, FrameFacts, InvFacts, ConstantFacts
  <2>2. frame[Boot].at = "halted"
    BY <1>1, NotWaiting
  <2> QED
    BY <1>1, <2>1, <2>2 DEF At
<1>4. Waits(pcb, queue, frame', current, cpu, nextFreePid)
  BY <1>2, <1>3, LifeFacts, WaitsKept
<1> QED
  BY <1>1, <1>4 DEF LifeInv, LifePart

LEMMA ChangePrioLife == LifeInv /\ ChangePrio => LifePart'
<1> SUFFICES ASSUME LifeInv, NEW p \in Pid, NEW newPrio \in Priorities, changePrio(p, newPrio)
             PROVE  LifePart'
  BY DEF ChangePrio
<1> DEFINE prio == IF newPrio < MIN_PRIORITY THEN MIN_PRIORITY
                   ELSE IF newPrio > MAX_PRIORITY THEN MAX_PRIORITY ELSE newPrio
<1>1. /\ frame[cpu].at = "user"
      /\ pcb' = [pcb EXCEPT ![p].priority = prio]
      /\ UNCHANGED <<queue, current, foreground, currentPid, quantum, nextFreePid, cpu, frame>>
  BY DEF changePrio, InUser
<1> HIDE DEF prio
<1>2. \A q \in Pid : /\ pcb'[q].state = pcb[q].state /\ pcb'[q].parentPid = pcb[q].parentPid
                     /\ pcb'[q].waitingForPid = pcb[q].waitingForPid /\ pcb'[q].rsp = pcb[q].rsp
                     /\ pcb'[q].foreground = pcb[q].foreground
  BY <1>1, LifeFacts, InvFacts DEF PCB
<1>3. Undisturbed(pcb', queue, current)
  BY <1>2, UnchangedUndisturbed
<1>4. frame[Boot].at = "halted" /\ \A c \in Context : frame[c].at = "waitpid" => c # cpu
  BY <1>1, NotWaiting
<1>5. Waits(pcb', queue, frame, current, cpu, nextFreePid)
  BY <1>2, <1>3, <1>4, LifeFacts, WaitsKept
<1>6. ForegroundLives(pcb', foreground)
  BY <1>2, LifeFacts, InvFacts, ConstantFacts DEF LifeInv, LifePart, ForegroundLives
<1> QED
  BY <1>1, <1>5, <1>6 DEF LifePart

(* MakeReady() from a queue of living sleepers, in a context that is not    *)
(* itself in waitpid().                                                     *)
LEMMA MakeReadyLife ==
  ASSUME LifeInv, NEW from \in QueueName, from \notin {"ready", "zombie"}, NEW p \in Pid,
         MakeReady(from, p), frame[cpu].at # "waitpid"
  PROVE  LifePart'
<1> DEFINE P == [pcb EXCEPT ![p].state = "READY"]
           S == switchProcess(queue, from, "ready", p)
<1>1. /\ p \in ToSet(queue[from]) /\ pcb' = P /\ queue' = S
      /\ UNCHANGED <<current, foreground, currentPid, quantum, nextFreePid, cpu, frame>>
  BY DEF MakeReady, InQueue
<1>2. "ready" \in QueueName /\ "READY" \in ProcessState \ Gone /\ "READY" \in StatesOf["ready"]
      /\ from # "ready" /\ from # "zombie" /\ "READY" # "BLOCKED"
  BY QueueNames, StatesOfFacts DEF ProcessState, Gone
<1> HIDE DEF P
<1>3. /\ Undisturbed(P, S, current) /\ ForegroundLives(P, foreground)
      /\ \A q \in Pid : P[q].waitingForPid = pcb[q].waitingForPid
  <2>1. /\ LifeInv /\ from \in QueueName /\ p \in ToSet(queue[from])
        /\ P = [pcb EXCEPT ![p].state = "READY"]
    BY <1>1 DEF P
  <2>2. Undisturbed(P, S, current) /\ ForegroundLives(P, foreground)
    BY ONLY <1>2, <2>1, MoveUndisturbed
  <2>3. \A q \in Pid : P[q].waitingForPid = pcb[q].waitingForPid
    BY ONLY <1>2, <2>1, MoveUndisturbed
  <2> QED
    BY <2>2, <2>3
<1> HIDE DEF S
<1>4. frame[Boot].at = "halted" /\ \A c \in Context : frame[c].at = "waitpid" => c # cpu
  BY NotWaiting
<1>5. Waits(P, S, frame, current, cpu, nextFreePid)
  BY <1>3, <1>4, LifeFacts, WaitsKept
<1> QED
  BY <1>1, <1>3, <1>5 DEF LifePart

LEMMA UnblockLife == LifeInv /\ Unblock => LifePart'
<1> SUFFICES ASSUME LifeInv, NEW p \in BlockTargets, InUser, MakeReady("blocked", p)
             PROVE  LifePart'
  BY DEF Unblock
<1>1. p \in Pid /\ frame[cpu].at # "waitpid"
  BY SchedulerAssumption DEF Pid, InUser
<1> QED
  BY <1>1, QueueNames, MakeReadyLife

LEMMA UnblockBySemLife == LifeInv /\ UnblockBySem => LifePart'
<1> SUFFICES ASSUME LifeInv, NEW p \in Pid, Interruptible \/ InKernel, MakeReady("blockedBySem", p)
             PROVE  LifePart'
  BY DEF UnblockBySem
<1>1. frame[cpu].at # "waitpid"
  BY DEF Interruptible, InKernel
<1> QED
  BY <1>1, QueueNames, MakeReadyLife

LEMMA BlockLife == LifeInv /\ Block => LifePart'
<1> SUFFICES ASSUME LifeInv, NEW p \in BlockTargets, InUser, blockProcess(pcb, p),
                    nextFreePid' = nextFreePid, frame' = frame
             PROVE  LifePart'
  BY DEF Block
<1> DEFINE from == IF InQueue("ready", p) THEN "ready" ELSE "blockedBySem"
           P == [pcb EXCEPT ![p].state = "BLOCKED"]
           S == switchProcess(queue, from, "blocked", p)
<1>1. /\ from \in QueueName /\ from \notin {"blocked", "zombie"} /\ p \in ToSet(queue[from])
      /\ IF p = current THEN Dispatch(P, S, current, foreground)
         ELSE /\ pcb' = P /\ queue' = S
              /\ UNCHANGED <<current, foreground, currentPid, quantum, cpu>>
  BY QueueNames DEF blockProcess, CanBlock, InQueue
<1>2. /\ "blocked" \in QueueName /\ "BLOCKED" \in ProcessState \ Gone
      /\ "BLOCKED" \in StatesOf["blocked"]
  BY QueueNames, StatesOfFacts DEF ProcessState, Gone
<1> HIDE DEF from, P
<1>3. /\ Undisturbed(P, S, current) /\ ForegroundLives(P, foreground) /\ GoodLists(P, S)
      /\ \A q \in Pid : P[q].waitingForPid = pcb[q].waitingForPid
  BY <1>1, <1>2, MoveUndisturbed DEF P
<1> HIDE DEF S
<1>4. frame[Boot].at = "halted" /\ \A c \in Context : frame[c].at = "waitpid" => c # cpu
  BY NotWaiting DEF InUser
<1>5. Waits(P, S, frame', current, cpu, nextFreePid)
  BY <1>3, <1>4, LifeFacts, WaitsKept
<1>6. CASE p = current
  BY <1>1, <1>3, <1>5, <1>6, LifeFacts, InvFacts, DispatchLife
<1>7. CASE p # current
  BY <1>1, <1>3, <1>5, <1>7 DEF LifePart
<1> QED
  BY <1>6, <1>7

LEMMA BlockBySemLife == LifeInv /\ BlockBySem => LifePart'
<1> SUFFICES ASSUME LifeInv, BlockBySem PROVE LifePart'
  OBVIOUS
<1> DEFINE P == [pcb EXCEPT ![current].state = "WAITING_SEM"]
           S == switchProcess(queue, "ready", "blockedBySem", current)
<1>1. /\ current \in ToSet(queue["ready"]) /\ frame[cpu].at \in {"user", "kernel"}
      /\ Dispatch(P, S, current, foreground)
      /\ frame' = [frame EXCEPT ![cpu] = At("kernel")] /\ nextFreePid' = nextFreePid
  BY DEF BlockBySem, InQueue, InUser, InKernel
<1>2. /\ "ready" \in QueueName /\ "blockedBySem" \in QueueName
      /\ "WAITING_SEM" \in ProcessState \ Gone /\ "WAITING_SEM" \in StatesOf["blockedBySem"]
  BY QueueNames, StatesOfFacts DEF ProcessState, Gone
<1> HIDE DEF P
<1>3. /\ Undisturbed(P, S, current) /\ ForegroundLives(P, foreground) /\ GoodLists(P, S)
      /\ \A q \in Pid : P[q].waitingForPid = pcb[q].waitingForPid
  BY <1>1, <1>2, MoveUndisturbed DEF P
<1> HIDE DEF S
<1>4. frame'[Boot].at = "halted"
      /\ \A c \in Context : frame'[c].at = "waitpid" => c # cpu /\ frame'[c] = frame[c]
  <2>1. frame \in [Context -> Frame] /\ cpu \in Context /\ Boot \in Context
    BY LifeFacts, FrameFacts, InvFacts, ConstantFacts
  <2>2. frame[Boot].at = "halted"
    BY <1>1, NotWaiting
  <2> QED
    BY <1>1, <2>1, <2>2 DEF At
<1>5. Waits(P, S, frame', current, cpu, nextFreePid)
  BY <1>3, <1>4, LifeFacts, WaitsKept
<1> QED
  BY <1>1, <1>3, <1>5, LifeFacts, InvFacts, DispatchLife

LEMMA CreateProcessLife == LifeInv /\ CreateProcess => LifePart'
<1> SUFFICES ASSUME LifeInv,
                    NEW prio \in Priorities, NEW fg \in BOOLEAN, NEW tty \in BOOLEAN,
                    NEW alloc \in AllocFails \cup {"none"},
                    createProcess(prio, fg, tty, alloc)
             PROVE  LifePart'
  BY DEF CreateProcess
<1>1. /\ nextFreePid \in Pid /\ nextFreePid >= 2 /\ nextFreePid \in Int
      /\ nextFreePid' = nextFreePid + 1 /\ frame[cpu].at = "user"
      /\ UNCHANGED <<foreground, currentPid, quantum, cpu>>
  BY LifeFacts, ConstantFacts DEF createProcess, InUser, IInv, GoodRest, Pid
<1>2. nextFreePid <= nextFreePid + 1 /\ nextFreePid + 1 \in Int
  BY <1>1
<1>3. frame[Boot].at = "halted" /\ \A c \in Context : frame[c].at = "waitpid" => c # cpu
  BY <1>1, NotWaiting
<1>4. CASE alloc = "stack"
  <2>1. UNCHANGED <<pcb, queue, current, frame>>
    BY <1>4 DEF createProcess
  <2>2. Undisturbed(pcb, queue, current)
    BY UnchangedUndisturbed
  <2>3. Waits(pcb, queue, frame, current, cpu, nextFreePid + 1)
    BY <1>2, <1>3, <2>2, WaitsKept
  <2> QED
    BY <1>1, <2>1, <2>3 DEF LifeInv, LifePart
<1>5. CASE alloc # "stack"
  <2> DEFINE p        == nextFreePid
             asked    == prio % 256
             priority == IF asked > IDLE_PRIORITY THEN MAX_PRIORITY ELSE asked
             blocked  == ~fg /\ tty
             added    == ~blocked /\ priority # IDLE_PRIORITY
             dest     == IF blocked THEN "blocked" ELSE "ready"
             new      == [state |-> IF blocked THEN "BLOCKED" ELSE "READY",
                          parentPid |-> current, waitingForPid |-> None,
                          priority |-> priority, foreground |-> fg, rsp |-> p]
  <2>1. /\ pcb' = [pcb EXCEPT ![p] = new]
        /\ frame' = [frame EXCEPT ![p] = At("user")]
        /\ current' = IF added /\ current = Idle THEN p ELSE current
        /\ queue' = IF (blocked \/ added) /\ alloc # "node"
                    THEN [queue EXCEPT ![dest] = Append(@, p)] ELSE queue
    BY <1>5 DEF createProcess
  <2>2. new.waitingForPid = None
    OBVIOUS
  <2>3. dest \in QueueName
    BY QueueNames
  <2> HIDE DEF new, priority, dest
  <2>4. /\ pcb'[p] = new /\ \A q \in Pid \ {p} : pcb'[q] = pcb[q]
    BY <1>1, <2>1, LifeFacts, InvFacts
  <2>5. pcb[p].state = "FREE" /\ p # Idle
    BY <1>1, LifeFacts, ConstantFacts DEF Idle
  <2>6. \A q \in Pid : Queued(queue, q) => Queued(queue', q)
    <3> SUFFICES ASSUME NEW q \in Pid, NEW n \in QueueName, q \in ToSet(queue[n])
                 PROVE  q \in ToSet(queue'[n])
      BY DEF Queued
    <3>1. queue[n] \in Seq(Pid) /\ queue \in [QueueName -> Seq(Pid)] /\ p \in Pid
      BY <1>1, LifeFacts, InvFacts
    <3>2. IsInjective(queue[n]) /\ p \notin ToSet(queue[n])
      BY <2>5, LifeFacts, InvFacts, StatesOfFacts DEF GoodLists
    <3>3. ToSet(Append(queue[n], p)) = ToSet(queue[n]) \cup {p}
      BY <3>1, <3>2, EnqueueFacts
    <3>4. queue'[n] = queue[n] \/ queue'[n] = Append(queue[n], p)
      BY <2>1, <2>3, <3>1
    <3> QED
      BY <3>3, <3>4
  <2>7. current' \in {current, p}
    BY <2>1
  <2>8. ForegroundLives(pcb', foreground)
    <3>1. pcb'[Idle].state \in {"READY", "RUNNING"}
      BY <2>4, <2>5, LifeFacts, ConstantFacts
    <3>2. foreground # None => foreground \in Pid \ {p}
      BY <2>5, LifeFacts, InvFacts DEF LifeInv, LifePart, ForegroundLives, Gone
    <3> QED
      BY <3>1, <3>2, <2>4 DEF LifeInv, LifePart, ForegroundLives
  <2>9. Undisturbed(pcb', queue', current')
    <3>1. \A q \in Pid : q < nextFreePid => q # nextFreePid
      BY <1>1, ConstantFacts
    <3>2. \A q \in Pid : q < nextFreePid => q # p /\ pcb'[q] = pcb[q]
      BY <3>1, <2>4
    <3>3. \A q \in Pid \ {current} : q < nextFreePid => q # current'
      BY <3>2, <2>7
    <3>4. \A t \in Pid : pcb'[t].state \in Gone => pcb[t].state \in Gone
      BY <2>4, <2>5 DEF Gone
    <3> HIDE DEF p
    <3> QED
      BY <3>2, <3>3, <3>4, <2>6 DEF Undisturbed
  <2>10. \A q \in Pid : pcb'[q].waitingForPid \in {pcb[q].waitingForPid, None}
    BY <2>2, <2>4
  <2>11. /\ frame'[Boot].at = "halted"
         /\ \A c \in Context : frame'[c].at = "waitpid" => c # cpu /\ frame'[c] = frame[c]
    <3>1. frame \in [Context -> Frame] /\ p # Boot /\ Boot \in Context
      BY <1>1, LifeFacts, FrameFacts, ConstantFacts DEF Boot
    <3> QED
      BY <3>1, <2>1, <1>3 DEF At
  <2>12. Waits(pcb', queue', frame', current', cpu, nextFreePid + 1)
    BY <1>2, <2>9, <2>10, <2>11, WaitsKept
  <2> QED
    BY <1>1, <2>8, <2>12 DEF LifePart
<1> QED
  BY <1>4, <1>5

-----------------------------------------------------------------------------
(* A process that is moved from one queue to another stays queued, and so   *)
(* does everybody else, the sleepers of other queues in theirs.             *)
LEMMA MoveQueued ==
  ASSUME NEW P, NEW Q, GoodLists(P, Q), NEW from \in QueueName, NEW to \in QueueName, from # to,
         NEW p \in ToSet(Q[from])
  PROVE  /\ \A q : Queued(Q, q) => Queued(switchProcess(Q, from, to, p), q)
         /\ \A n \in QueueName : \A q \in ToSet(Q[n]) :
              q # p => q \in ToSet(switchProcess(Q, from, to, p)[n])
         /\ p \in ToSet(switchProcess(Q, from, to, p)[to])
<1> DEFINE S == switchProcess(Q, from, to, p)
<1>1. /\ Q \in [QueueName -> Seq(Pid)] /\ p \notin ToSet(Q[to])
      /\ \A n \in QueueName : IsInjective(Q[n])
  BY OneQueue DEF GoodLists
<1>2. p \in Pid
  BY <1>1, ElementOfSeq, LenProperties DEF ToSet
<1>3. /\ S[from] = RemoveFirst(Q[from], p) /\ S[to] = Append(Q[to], p)
      /\ \A n \in QueueName \ {from, to} : S[n] = Q[n]
  BY <1>1 DEF switchProcess
<1> HIDE DEF S
<1>4. ToSet(S[from]) = ToSet(Q[from]) \ {p}
  BY <1>1, <1>3, RemoveFacts
<1>5. ToSet(S[to]) = ToSet(Q[to]) \cup {p}
  BY <1>1, <1>2, <1>3, EnqueueFacts
<1>6. \A n \in QueueName : \A q \in ToSet(Q[n]) : q # p => q \in ToSet(S[n])
  BY <1>3, <1>4, <1>5
<1>7. \A q : Queued(Q, q) => Queued(S, q)
  BY <1>5, <1>6 DEF Queued
<1> QED
  BY <1>5, <1>6, <1>7 DEF S

(* What the first stage of kill() does to the lists: the victim is a zombie *)
(* (or gone, when it is a child of idle), and the parent that waits for it, *)
(* if there is one, is ready.                                               *)
LEMMA KillEffect ==
  ASSUME IInv, NEW n \in Living, NEW p \in ToSet(queue[n]), NEW woken,
         woken = wakeupWaitingParent([pcb EXCEPT ![p].state = "ZOMBIE"],
                                     switchProcess(queue, n, "zombie", p), pcb[p].parentPid, p)
  PROVE  /\ GoodLists(woken.pcb, woken.queue)
         /\ p \in Pid /\ p # Idle
         /\ woken.pcb[p].state \in Gone
         /\ woken.pcb[p].state = "FREE" => pcb[p].parentPid = Idle
         /\ woken.pcb[p].state # "FREE" => woken.pcb[p].parentPid = pcb[p].parentPid
         /\ woken.pcb[p].waitingForPid \in {pcb[p].waitingForPid, None}
         /\ \A q \in Pid \ {p} :
              /\ woken.pcb[q].parentPid = pcb[q].parentPid
              /\ woken.pcb[q].waitingForPid = pcb[q].waitingForPid
              /\ woken.pcb[q].rsp = pcb[q].rsp /\ woken.pcb[q].foreground = pcb[q].foreground
              /\ \/ woken.pcb[q].state = pcb[q].state
                 \/ /\ pcb[q].state = "BLOCKED" /\ pcb[q].waitingForPid = p /\ q # Idle
                    /\ woken.pcb[q].state = "READY"
              /\ Queued(queue, q) => Queued(woken.queue, q)
              /\ q # Idle /\ q \in ToSet(queue["blocked"]) /\ pcb[q].waitingForPid = p
                   /\ pcb[p].parentPid = q => woken.pcb[q].state = "READY"
<1> DEFINE P1 == [pcb EXCEPT ![p].state = "ZOMBIE"]
           Q1 == switchProcess(queue, n, "zombie", p)
           parent == pcb[p].parentPid
<1>1. woken = wakeupWaitingParent(P1, Q1, parent, p)
  OBVIOUS
<1>2. /\ n \in QueueName /\ n # "zombie" /\ "zombie" \in QueueName /\ GoodLists(pcb, queue)
      /\ p \in ToSet(queue[n])
      /\ p \in Pid /\ p # Idle /\ pcb[p] \in PCB /\ pcb \in [Pid -> PCB]
      /\ parent \in Pid \cup {None} /\ parent = pcb[p].parentPid
  <2>1. n \in QueueName /\ n # "zombie" /\ "zombie" \in QueueName
    BY QueueNames
  <2>2. p \in Pid /\ p # Idle
    BY <2>1, InvFacts DEF GoodLists
  <2>3. pcb[p] \in PCB
    BY <2>2, InvFacts
  <2>4. parent \in Pid \cup {None}
    BY <2>3 DEF PCB
  <2> QED
    BY <2>1, <2>2, <2>3, <2>4, InvFacts
<1>3. /\ P1 \in [Pid -> PCB] /\ P1[p].state = "ZOMBIE" /\ P1[p].parentPid = parent
      /\ P1[p].waitingForPid = pcb[p].waitingForPid
      /\ P1[p].state \in StatesOf["zombie"]
      /\ \A q \in Pid \ {p} : P1[q] = pcb[q]
      /\ \A q \in Pid \ {p} : P1[q].state = pcb[q].state /\ P1[q].priority = pcb[q].priority
  BY <1>2, StatesOfFacts DEF PCB, ProcessState
<1> HIDE DEF P1, parent
<1>4. GoodLists(P1, Q1)
  BY ONLY <1>2, <1>3, MoveFacts
<1>7. Kept(P1, Q1, p) /\ NoneBorn(P1)
  BY <1>2, <1>3, MoveKept
<1> HIDE DEF Q1
<1>8. p \in ToSet(Q1["zombie"]) /\ \A q \in Pid \ {p} : Queued(queue, q) => Queued(Q1, q)
  BY <1>2, MoveQueued DEF Q1
<1>9. \A q \in Pid \ {p} : q \in ToSet(queue["blocked"]) => q \in ToSet(Q1["blocked"])
  BY <1>2, QueueNames, MoveQueued DEF Q1
<1>10. GoodLists(woken.pcb, woken.queue)
  BY <1>1, <1>2, <1>7, <1>8, WokenKept DEF Kept
<1>11. CASE parent = Idle
  <2> DEFINE R == [P1 EXCEPT ![p] = FreePcb]
  <2>1. woken.pcb = R /\ woken.queue = removeZombieProcess(Q1, p)
    <3>1. woken = [pcb |-> R, queue |-> removeZombieProcess(Q1, p)]
      BY ONLY <1>1, <1>11 DEF wakeupWaitingParent
    <3> QED
      BY ONLY <3>1
  <2>2. /\ R[p] = FreePcb /\ \A q \in Pid \ {p} : R[q] = P1[q]
        /\ R \in [Pid -> PCB] /\ R[p].state = "FREE"
    BY <1>2, <1>3, FreePcbFacts
  <2> HIDE DEF R
  <2>3. \A m \in QueueName : ToSet(removeZombieProcess(Q1, p)[m]) = ToSet(Q1[m]) \ {p}
    <3>1. /\ GoodLists(P1, Q1) /\ p \in ToSet(Q1["zombie"]) /\ R \in [Pid -> PCB]
          /\ R[p].state = "FREE"
          /\ \A q \in Pid \ {p} : R[q].state = P1[q].state /\ R[q].priority = P1[q].priority
      BY <1>4, <1>8, <2>2
    <3> QED
      BY ONLY <3>1, ReapFacts
  <2>4. \A q \in Pid \ {p} : Queued(Q1, q) => Queued(woken.queue, q)
    BY <2>1, <2>3 DEF Queued
  <2>5. R[p].state \in Gone /\ R[p].waitingForPid = None
    BY <2>2 DEF FreePcb, Gone
  <2> QED
    BY <1>2, <1>3, <1>8, <1>9, <1>10, <1>11, <2>1, <2>2, <2>4, <2>5
<1>12. CASE parent # Idle /\ parent # None /\ parent \in ToSet(Q1["blocked"])
            /\ P1[parent].state = "BLOCKED" /\ P1[parent].waitingForPid = p
  <2> DEFINE R == [P1 EXCEPT ![parent].state = "READY"]
             S == switchProcess(Q1, "blocked", "ready", parent)
  <2>1. woken.pcb = R /\ woken.queue = S
    <3>1. woken = [pcb |-> R, queue |-> S]
      BY ONLY <1>1, <1>12 DEF wakeupWaitingParent
    <3> QED
      BY ONLY <3>1
  <2>2. parent \in Pid \ {p} /\ P1[parent] = pcb[parent]
    BY <1>2, <1>3, <1>12
  <2>3. /\ R \in [Pid -> PCB] /\ R[parent].state = "READY"
        /\ R[parent].parentPid = pcb[parent].parentPid /\ R[parent].rsp = pcb[parent].rsp
        /\ R[parent].waitingForPid = pcb[parent].waitingForPid
        /\ R[parent].foreground = pcb[parent].foreground
        /\ R[parent].state \in StatesOf["ready"]
        /\ \A q \in Pid \ {parent} : R[q] = P1[q]
        /\ \A q \in Pid \ {parent} : R[q].state = P1[q].state /\ R[q].priority = P1[q].priority
    BY <2>2, <1>3, StatesOfFacts DEF PCB, ProcessState
  <2> HIDE DEF R
  <2>4. \A q \in Pid : Queued(Q1, q) => Queued(S, q)
    BY <1>4, <1>12, QueueNames, MoveQueued
  <2> HIDE DEF S
  <2>5. /\ R[p].state \in Gone /\ R[p].state # "FREE" /\ R[p].parentPid = pcb[p].parentPid
        /\ R[p].waitingForPid = pcb[p].waitingForPid
    <3>1. p \in Pid \ {parent}
      BY <1>2, <2>2
    <3>2. R[p] = P1[p]
      BY <3>1, <2>3
    <3> QED
      BY <3>2, <1>2, <1>3 DEF Gone
  <2>6. \A q \in Pid \ {p} :
          /\ R[q].parentPid = pcb[q].parentPid /\ R[q].waitingForPid = pcb[q].waitingForPid
          /\ R[q].rsp = pcb[q].rsp /\ R[q].foreground = pcb[q].foreground
          /\ \/ R[q].state = pcb[q].state
             \/ /\ pcb[q].state = "BLOCKED" /\ pcb[q].waitingForPid = p /\ q # Idle
                /\ R[q].state = "READY"
          /\ pcb[p].parentPid = q => R[q].state = "READY"
    BY <1>2, <1>3, <1>12, <2>2, <2>3
  <2> QED
    BY <1>2, <1>8, <1>9, <1>10, <2>1, <2>4, <2>5, <2>6
<1>13. CASE parent # Idle /\ ~(parent # None /\ parent \in ToSet(Q1["blocked"])
                               /\ P1[parent].state = "BLOCKED" /\ P1[parent].waitingForPid = p)
  <2>1. woken.pcb = P1 /\ woken.queue = Q1
    BY <1>1, <1>13 DEF wakeupWaitingParent
  <2>2. ASSUME NEW q \in Pid \ {p}, q \in ToSet(queue["blocked"]), pcb[q].waitingForPid = p, parent = q
        PROVE  FALSE
    <3>1. q \in ToSet(Q1["blocked"]) /\ P1[q] = pcb[q] /\ q # None
      BY <2>2, <1>3, <1>9, ConstantFacts
    <3>2. pcb[q].state = "BLOCKED"
      BY <2>2, <1>2, QueueNames DEF GoodLists, StatesOf
    <3> QED
      BY <1>13, <2>2, <3>1, <3>2
  <2>3. P1[p].state \in Gone
    BY <1>3 DEF Gone
  <2> QED
    BY <1>2, <1>3, <1>8, <1>9, <1>10, <2>1, <2>2, <2>3
<1> QED
  BY <1>11, <1>12, <1>13

(* The first stage of kill() takes nothing from a process that sleeps in    *)
(* waitpid(), save the victim: the parent of the victim is woken.           *)
LEMMA KillUndisturbed ==
  ASSUME LifeInv, NEW n \in Living, NEW p \in ToSet(queue[n]), NEW woken, NEW cur, cur \in {current, Idle},
         woken = wakeupWaitingParent([pcb EXCEPT ![p].state = "ZOMBIE"],
                                     switchProcess(queue, n, "zombie", p), pcb[p].parentPid, p)
  PROVE  /\ Undisturbed(woken.pcb, woken.queue, cur)
         /\ \A q \in Pid : woken.pcb[q].waitingForPid \in {pcb[q].waitingForPid, None}
         /\ ForegroundLives(woken.pcb, foregroundAfterKill(p))
<1> DEFINE R == woken.pcb
           S == woken.queue
<1>1. /\ p \in Pid /\ p # Idle
      /\ R[p].state \in Gone
      /\ R[p].state # "FREE" => R[p].parentPid = pcb[p].parentPid
      /\ R[p].waitingForPid \in {pcb[p].waitingForPid, None}
      /\ \A q \in Pid \ {p} :
           /\ R[q].parentPid = pcb[q].parentPid /\ R[q].waitingForPid = pcb[q].waitingForPid
           /\ R[q].rsp = pcb[q].rsp /\ R[q].foreground = pcb[q].foreground
           /\ \/ R[q].state = pcb[q].state
              \/ /\ pcb[q].state = "BLOCKED" /\ pcb[q].waitingForPid = p /\ q # Idle
                 /\ R[q].state = "READY"
           /\ Queued(queue, q) => Queued(S, q)
           /\ q # Idle /\ q \in ToSet(queue["blocked"]) /\ pcb[q].waitingForPid = p
                /\ pcb[p].parentPid = q => R[q].state = "READY"
  <2>1. IInv
    BY LifeFacts
  <2>2. /\ p \in Pid /\ p # Idle
        /\ R[p].state \in Gone
        /\ R[p].state # "FREE" => R[p].parentPid = pcb[p].parentPid
        /\ R[p].waitingForPid \in {pcb[p].waitingForPid, None}
    BY ONLY <2>1, KillEffect, n \in Living, p \in ToSet(queue[n]),
       woken = wakeupWaitingParent([pcb EXCEPT ![p].state = "ZOMBIE"],
                                   switchProcess(queue, n, "zombie", p), pcb[p].parentPid, p)
  <2>3. \A q \in Pid \ {p} :
           /\ R[q].parentPid = pcb[q].parentPid /\ R[q].waitingForPid = pcb[q].waitingForPid
           /\ R[q].rsp = pcb[q].rsp /\ R[q].foreground = pcb[q].foreground
           /\ \/ R[q].state = pcb[q].state
              \/ /\ pcb[q].state = "BLOCKED" /\ pcb[q].waitingForPid = p /\ q # Idle
                 /\ R[q].state = "READY"
           /\ Queued(queue, q) => Queued(S, q)
           /\ q # Idle /\ q \in ToSet(queue["blocked"]) /\ pcb[q].waitingForPid = p
                /\ pcb[p].parentPid = q => R[q].state = "READY"
    BY ONLY <2>1, KillEffect, n \in Living, p \in ToSet(queue[n]),
       woken = wakeupWaitingParent([pcb EXCEPT ![p].state = "ZOMBIE"],
                                   switchProcess(queue, n, "zombie", p), pcb[p].parentPid, p)
  <2> QED
    BY ONLY <2>2, <2>3
<1> HIDE DEF R, S
<1>2. pcb[p].state # "FREE" /\ pcb[p].state # "ZOMBIE" /\ GoodLists(pcb, queue)
  <2>1. n \in QueueName /\ n # "zombie" /\ GoodLists(pcb, queue)
    BY LifeFacts, InvFacts, QueueNames
  <2>2. pcb[p].state \in StatesOf[n]
    BY <2>1 DEF GoodLists
  <2> QED
    BY <2>1, <2>2, StatesOfFacts
<1>3. \A q \in Pid : R[q].waitingForPid \in {pcb[q].waitingForPid, None}
  BY <1>1
<1>4. \A q \in Pid : R[q].state # "FREE" => pcb[q].state # "FREE" /\ R[q].parentPid = pcb[q].parentPid
  BY <1>1, <1>2
<1>5. ASSUME NEW q \in Pid \ {current, Idle}, R[q].state \notin Gone
      PROVE  /\ pcb[q].state \notin Gone /\ q # cur
             /\ R[q].waitingForPid = pcb[q].waitingForPid /\ R[q].rsp = pcb[q].rsp
             /\ Queued(queue, q) => Queued(S, q)
             /\ R[q].state = "BLOCKED" /\ q \notin BlockTargets /\ Queued(queue, q) =>
                  /\ pcb[q].state = "BLOCKED"
                  /\ \A t \in Pid : t = pcb[q].waitingForPid /\ R[t].state \in Gone
                                   => pcb[t].state \in Gone
  <2>1. q # p
    BY <1>1, <1>5
  <2>2. ASSUME R[q].state = "BLOCKED", Queued(queue, q),
               NEW t \in Pid, t = pcb[q].waitingForPid, R[t].state \in Gone
        PROVE  pcb[t].state \in Gone
    <3>1. pcb[q].state = "BLOCKED"
      BY <2>1, <2>2, <1>1
    <3>2. q \in ToSet(queue["blocked"])
      BY <2>2, <3>1, <1>2 DEF Queued, GoodLists, StatesOf, QueueName, Living
    <3>3. CASE t = p
      <4>1. pcb[p].parentPid = q
        BY <2>2, <3>3, <1>2, LifeFacts DEF Waits, WaitsForChildren
      <4> QED
        BY <2>1, <2>2, <3>2, <3>3, <4>1, <1>1
    <3>4. CASE t # p
      BY <2>2, <3>4, <1>1 DEF Gone
    <3> QED
      BY <3>3, <3>4
  <2>3. pcb[q].state \notin Gone
    BY <2>1, <1>1, <1>5 DEF Gone
  <2> QED
    BY <2>1, <2>2, <2>3, <1>1
<1>6. Undisturbed(R, S, cur)
  BY <1>4, <1>5 DEF Undisturbed
<1>7. ForegroundLives(R, foregroundAfterKill(p))
  <2>1. R[Idle].state \in {"READY", "RUNNING"}
    BY <1>1, LifeFacts, ConstantFacts
  <2>2. ASSUME NEW fg, fg = foregroundAfterKill(p), fg # None
        PROVE  R[fg].state \notin Gone /\ R[fg].foreground
    <3>1. fg = foreground /\ fg # p /\ fg \in Pid
      BY <2>2, LifeFacts, InvFacts DEF foregroundAfterKill
    <3>2. pcb[fg].state \notin Gone /\ pcb[fg].foreground
      BY <2>2, <3>1 DEF LifeInv, LifePart, ForegroundLives
    <3> QED
      BY <3>1, <3>2, <1>1 DEF Gone
  <2> QED
    BY <2>1, <2>2 DEF ForegroundLives
<1> QED
  BY <1>3, <1>6, <1>7 DEF R, S

(* kill(), whoever calls it. *)
LEMMA KillLife ==
  ASSUME LifeInv, NEW p \in Pid, kill(p), frame'[Boot].at = "halted",
         \A c \in Context : frame'[c].at = "waitpid" => c # cpu /\ frame'[c] = frame[c]
  PROVE  LifePart'
<1> DEFINE cur == IF current = p THEN Idle ELSE current
           fg  == foregroundAfterKill(p)
<1>1. /\ cur \in Pid /\ cur \in {current, Idle} /\ fg \in Pid \cup {None} /\ nextFreePid' = nextFreePid
  BY LifeFacts, InvFacts, ConstantFacts DEF foregroundAfterKill, kill
<1>2. ASSUME NEW n \in Living, InQueue(n, p),
             LET woken == wakeupWaitingParent([pcb EXCEPT ![p].state = "ZOMBIE"],
                                              switchProcess(queue, n, "zombie", p),
                                              pcb[p].parentPid, p)
             IN IF p = currentPid
                THEN Dispatch(woken.pcb, woken.queue, cur, fg)
                ELSE /\ pcb' = woken.pcb /\ queue' = woken.queue
                     /\ current' = cur /\ foreground' = fg
                     /\ UNCHANGED <<currentPid, quantum, cpu>>
      PROVE  LifePart'
  <2> DEFINE woken == wakeupWaitingParent([pcb EXCEPT ![p].state = "ZOMBIE"],
                                          switchProcess(queue, n, "zombie", p),
                                          pcb[p].parentPid, p)
  <2>1. IF p = currentPid
        THEN Dispatch(woken.pcb, woken.queue, cur, fg)
        ELSE /\ pcb' = woken.pcb /\ queue' = woken.queue
             /\ current' = cur /\ foreground' = fg
             /\ UNCHANGED <<currentPid, quantum, cpu>>
    BY <1>2
  <2>2. p \in ToSet(queue[n])
    BY <1>2 DEF InQueue
  <2> HIDE DEF cur, fg, woken
  <2>3. GoodLists(woken.pcb, woken.queue)
    BY <2>2, LifeFacts, KillEffect DEF woken
  <2>4. Undisturbed(woken.pcb, woken.queue, cur)
    BY <1>1, <2>2, KillUndisturbed DEF woken
  <2>5. \A q \in Pid : woken.pcb[q].waitingForPid \in {pcb[q].waitingForPid, None}
    BY <1>1, <2>2, KillUndisturbed DEF woken
  <2>6. ForegroundLives(woken.pcb, fg)
    BY <1>1, <2>2, KillUndisturbed DEF woken, fg
  <2>7. Waits(woken.pcb, woken.queue, frame', cur, cpu, nextFreePid)
    BY <2>4, <2>5, LifeFacts, WaitsKept
  <2>8. CASE p = currentPid
    BY <1>1, <2>1, <2>3, <2>6, <2>7, <2>8, DispatchLife
  <2>9. CASE p # currentPid
    BY <1>1, <2>1, <2>6, <2>7, <2>9 DEF LifePart
  <2> QED
    BY <2>8, <2>9
<1>3. CASE /\ \A n \in Living : ~InQueue(n, p)
           /\ current = p /\ current' = Idle
           /\ UNCHANGED <<pcb, queue, foreground, currentPid, quantum, cpu>>
  <2>1. Undisturbed(pcb, queue, Idle)
    BY DEF Undisturbed
  <2>2. Waits(pcb, queue, frame', Idle, cpu, nextFreePid)
    BY <2>1, LifeFacts, WaitsKept
  <2> QED
    BY <1>1, <1>3, <2>2 DEF LifeInv, LifePart
<1> QED
  BY <1>2, <1>3 DEF kill

LEMMA KillActionLife == LifeInv /\ Kill => LifePart'
<1> SUFFICES ASSUME LifeInv, NEW p \in Pid, InUser, kill(p), frame' = frame PROVE LifePart'
  BY DEF Kill
<1> QED
  BY NotWaiting, KillLife DEF InUser

LEMMA CtrlCLife == LifeInv /\ CtrlC => LifePart'
<1> SUFFICES ASSUME LifeInv, CtrlC PROVE LifePart'
  OBVIOUS
<1>1. kill(foreground) /\ frame' = frame /\ foreground > SHELL_PID /\ frame[cpu].at # "waitpid"
  BY DEF CtrlC, kill, Interruptible
<1>2. foreground \in Pid
  BY <1>1, LifeFacts, InvFacts DEF SHELL_PID, None
<1> QED
  BY <1>1, <1>2, NotWaiting, KillLife

LEMMA ExitLife == LifeInv /\ Exit => LifePart'
<1> SUFFICES ASSUME LifeInv, Exit PROVE LifePart'
  OBVIOUS
<1>1. frame' = [frame EXCEPT ![cpu] = At("hang")] /\ frame[cpu].at \in {"user", "kernel"}
  BY DEF Exit, InUser, InKernel
<1>2. frame'[Boot].at = "halted"
      /\ \A c \in Context : frame'[c].at = "waitpid" => c # cpu /\ frame'[c] = frame[c]
  <2>1. frame \in [Context -> Frame] /\ cpu \in Context /\ Boot \in Context
    BY LifeFacts, FrameFacts, InvFacts, ConstantFacts
  <2>2. frame[Boot].at = "halted"
    BY <1>1, NotWaiting
  <2> QED
    BY <1>1, <2>1, <2>2 DEF At
<1>3. CASE kill(current)
  BY <1>2, <1>3, LifeFacts, InvFacts, KillLife
<1>4. CASE UNCHANGED <<pcb, queue, current, foreground, currentPid, quantum, nextFreePid, cpu>>
  <2>1. Undisturbed(pcb, queue, current)
    BY UnchangedUndisturbed
  <2>2. Waits(pcb, queue, frame', current, cpu, nextFreePid)
    BY <1>2, <2>1, LifeFacts, WaitsKept
  <2> QED
    BY <1>4, <2>2 DEF LifeInv, LifePart
<1> QED
  BY <1>3, <1>4 DEF Exit

-----------------------------------------------------------------------------
(* reapChild() frees one PCB and clears the mark of the parent.             *)
LEMMA ReapEffect ==
  ASSUME LifeInv, NEW p \in Pid, pcb[p].state = "ZOMBIE", NEW parent \in Pid,
         reapChild(parent, p)
  PROVE  /\ p # Idle /\ p # current
         /\ pcb'[p].state = "FREE" /\ pcb'[p].waitingForPid = None
         /\ \A q \in Pid \ {p} :
              /\ pcb'[q].state = pcb[q].state /\ pcb'[q].parentPid = pcb[q].parentPid
              /\ pcb'[q].rsp = pcb[q].rsp /\ pcb'[q].foreground = pcb[q].foreground
              /\ pcb'[q].waitingForPid = IF q = parent THEN None ELSE pcb[q].waitingForPid
              /\ Queued(queue, q) => Queued(queue', q)
         /\ UNCHANGED <<current, foreground, currentPid, nextFreePid, cpu>>
<1>1. p # Idle /\ p # current
  BY LifeFacts DEF Gone
<1> DEFINE P1 == [pcb EXCEPT ![parent].waitingForPid = None]
<1>2. /\ P1 \in [Pid -> PCB]
      /\ \A q \in Pid :
           /\ P1[q].state = pcb[q].state /\ P1[q].parentPid = pcb[q].parentPid
           /\ P1[q].rsp = pcb[q].rsp /\ P1[q].foreground = pcb[q].foreground
           /\ P1[q].waitingForPid = IF q = parent THEN None ELSE pcb[q].waitingForPid
  <2>1. pcb \in [Pid -> PCB]
    BY LifeFacts, InvFacts
  <2> QED
    BY <2>1 DEF PCB
<1>3. pcb' = [P1 EXCEPT ![p] = FreePcb] /\ queue' = removeZombieProcess(queue, p)
      /\ UNCHANGED <<current, foreground, currentPid, nextFreePid, cpu>>
  BY DEF reapChild
<1> HIDE DEF P1
<1>4. /\ pcb'[p] = FreePcb /\ \A q \in Pid \ {p} : pcb'[q] = P1[q]
      /\ FreePcb.waitingForPid = None /\ FreePcb.state = "FREE"
      /\ pcb' \in [Pid -> PCB]
  BY <1>2, <1>3, FreePcbFacts DEF FreePcb
<1>5. \A m \in QueueName : ToSet(queue'[m]) = ToSet(queue[m]) \ {p}
  <2>1. GoodLists(pcb, queue)
    BY LifeFacts, InvFacts
  <2>2. PICK m \in QueueName : p \in ToSet(queue[m])
    BY <2>1, <1>1 DEF GoodLists
  <2>3. "ZOMBIE" \in StatesOf[m]
    BY <2>1, <2>2 DEF GoodLists
  <2>4. p \in ToSet(queue["zombie"])
    BY <2>2, <2>3, StatesOfFacts
  <2> DEFINE R == pcb'
  <2>5. /\ R \in [Pid -> PCB] /\ R[p].state = "FREE"
        /\ \A q \in Pid \ {p} : R[q].state = pcb[q].state /\ R[q].priority = pcb[q].priority
    <3>1. \A q \in Pid : P1[q].priority = pcb[q].priority
      <4>1. pcb \in [Pid -> PCB]
        BY LifeFacts, InvFacts
      <4> QED
        BY <4>1 DEF P1, PCB
    <3> QED
      BY <3>1, <1>2, <1>4
  <2> HIDE DEF R
  <2>6. \A m_1 \in QueueName : ToSet(removeZombieProcess(queue, p)[m_1]) = ToSet(queue[m_1]) \ {p}
    BY ONLY <2>1, <2>4, <2>5, ReapFacts
  <2> QED
    BY <2>6, <1>3
<1>6. \A q \in Pid \ {p} : Queued(queue, q) => Queued(queue', q)
  BY <1>5 DEF Queued
<1> QED
  BY <1>1, <1>2, <1>3, <1>4, <1>6

LEMMA ReapForeground ==
  ASSUME LifeInv, NEW p \in Pid, pcb[p].state = "ZOMBIE", NEW parent \in Pid,
         reapChild(parent, p)
  PROVE  ForegroundLives(pcb', foreground')
<1>1. /\ p # Idle /\ foreground' = foreground
      /\ \A q \in Pid \ {p} : pcb'[q].state = pcb[q].state /\ pcb'[q].foreground = pcb[q].foreground
  BY ReapEffect
<1>2. foreground # None => foreground \in Pid \ {p}
  BY LifeFacts, InvFacts DEF LifeInv, LifePart, ForegroundLives, Gone
<1> QED
  BY <1>1, <1>2, ConstantFacts DEF LifeInv, LifePart, ForegroundLives

LEMMA WaitpidReapLife == LifeInv /\ WaitpidReap => LifePart'
<1> SUFFICES ASSUME LifeInv, NEW p \in Pid, InUser, pcb[p].state = "ZOMBIE", reapChild(current, p),
                    frame' = frame
             PROVE  LifePart'
  BY DEF WaitpidReap
<1>0. current \in Pid
  BY LifeFacts, InvFacts
<1>1. /\ p # Idle /\ p # current
      /\ pcb'[p].state = "FREE" /\ pcb'[p].waitingForPid = None
      /\ \A q \in Pid \ {p} :
              /\ pcb'[q].state = pcb[q].state /\ pcb'[q].parentPid = pcb[q].parentPid
              /\ pcb'[q].rsp = pcb[q].rsp /\ pcb'[q].foreground = pcb[q].foreground
              /\ pcb'[q].waitingForPid = IF q = current THEN None ELSE pcb[q].waitingForPid
              /\ Queued(queue, q) => Queued(queue', q)
      /\ UNCHANGED <<current, foreground, currentPid, nextFreePid, cpu>>
  BY <1>0, ReapEffect
<1> DEFINE R == pcb'
           S == queue'
<1>2. Undisturbed(R, S, current)
  <2> HIDE DEF R, S
  <2>1. /\ R[p].state = "FREE"
        /\ \A q \in Pid \ {p} :
              /\ R[q].state = pcb[q].state /\ R[q].parentPid = pcb[q].parentPid
              /\ R[q].rsp = pcb[q].rsp
              /\ R[q].waitingForPid = IF q = current THEN None ELSE pcb[q].waitingForPid
              /\ Queued(queue, q) => Queued(S, q)
    BY <1>1 DEF R, S
  <2> QED
    BY <2>1 DEF Undisturbed, Gone
<1>3. \A q \in Pid : R[q].waitingForPid \in {pcb[q].waitingForPid, None}
  BY <1>1
<1>4. frame[Boot].at = "halted" /\ \A c \in Context : frame[c].at = "waitpid" => c # cpu
  BY NotWaiting DEF InUser
<1> HIDE DEF R, S
<1>5. Waits(R, S, frame, current, cpu, nextFreePid)
  BY <1>2, <1>3, <1>4, LifeFacts, WaitsKept
<1>6. ForegroundLives(pcb', foreground')
  BY <1>0, ReapForeground
<1> QED
  BY <1>1, <1>5, <1>6 DEF LifePart, R, S

LEMMA WaitpidResumeLife == LifeInv /\ WaitpidResume => LifePart'
<1> SUFFICES ASSUME LifeInv, WaitpidResume PROVE LifePart'
  OBVIOUS
<1> DEFINE me == frame[cpu].me
           p  == frame[cpu].target
<1>1. /\ frame[cpu].at = "waitpid" /\ frame' = [frame EXCEPT ![cpu] = At("user")]
      /\ \/ getProcess(p) /\ pcb[p].state = "ZOMBIE" /\ reapChild(me, p)
         \/ UNCHANGED <<pcb, queue, current, foreground, currentPid, quantum, nextFreePid, cpu>>
  BY DEF WaitpidResume
<1>2. /\ cpu \in Context /\ cpu # Boot /\ frame \in [Context -> Frame]
      /\ InWaitpid(pcb, queue, frame[cpu], cpu, current, cpu, nextFreePid)
      /\ frame[Boot].at = "halted" /\ WaitsForChildren(pcb, nextFreePid)
  BY <1>1, LifeFacts, InvFacts, FrameFacts DEF Waits
<1>3. /\ me \in Pid /\ p \in Pid
      /\ pcb[me].state \notin Gone => ContextOf(pcb, current, cpu, me) = cpu
  BY <1>2 DEF InWaitpid
<1>4. /\ frame'[Boot].at = "halted"
      /\ \A c \in Context : frame'[c].at = "waitpid" => c # cpu /\ frame'[c] = frame[c]
  BY <1>1, <1>2, ConstantFacts DEF At
<1> HIDE DEF me, p
<1>5. CASE pcb[p].state = "ZOMBIE" /\ reapChild(me, p)
  <2>1. /\ p # Idle /\ p # current
        /\ pcb'[p].state = "FREE" /\ pcb'[p].waitingForPid = None
        /\ \A q \in Pid \ {p} :
              /\ pcb'[q].state = pcb[q].state /\ pcb'[q].parentPid = pcb[q].parentPid
              /\ pcb'[q].rsp = pcb[q].rsp /\ pcb'[q].foreground = pcb[q].foreground
              /\ pcb'[q].waitingForPid = IF q = me THEN None ELSE pcb[q].waitingForPid
              /\ Queued(queue, q) => Queued(queue', q)
        /\ UNCHANGED <<current, foreground, currentPid, nextFreePid, cpu>>
    BY <1>3, <1>5, ReapEffect
  <2>2. WaitsForChildren(pcb', nextFreePid)
    <3> SUFFICES ASSUME NEW q \in Pid, NEW t \in Pid, pcb'[q].waitingForPid = t
                 PROVE  t < nextFreePid /\ (pcb'[t].state # "FREE" => pcb'[t].parentPid = q)
      BY DEF WaitsForChildren
    <3>1. pcb[q].waitingForPid = t
      BY <2>1, ConstantFacts
    <3>2. t < nextFreePid /\ (pcb[t].state # "FREE" => pcb[t].parentPid = q)
      BY <1>2, <3>1 DEF WaitsForChildren
    <3> QED
      BY <2>1, <3>2
  <2>3. ASSUME NEW c \in Context, frame'[c].at = "waitpid"
        PROVE  InWaitpid(pcb', queue', frame'[c], c, current, cpu, nextFreePid)
    <3> DEFINE f == frame[c]
    <3>1. c # cpu /\ frame'[c] = f /\ InWaitpid(pcb, queue, f, c, current, cpu, nextFreePid)
      BY <2>3, <1>4, LifeFacts DEF Waits
    <3>2. f.me \in Pid \ {Idle} /\ f.target \in Pid
      BY <3>1 DEF InWaitpid
    <3> HIDE DEF f
    <3>3. \A q \in Pid : pcb'[q].state \notin Gone => pcb[q].state \notin Gone /\ q # p
      BY <2>1 DEF Gone
    <3>4. \A q \in Pid : pcb'[q].state \in Gone <=> pcb[q].state \in Gone
      BY <2>1, <1>5 DEF Gone
    <3>5. pcb'[f.target].state # "FREE" => pcb'[f.target].parentPid = f.me
      BY <2>1, <3>1, <3>2 DEF InWaitpid
    <3>6. pcb[f.me].state \notin Gone => f.me # me
      BY <1>3, <3>1 DEF InWaitpid
    <3>7. pcb'[f.me].state \notin Gone =>
            /\ pcb'[f.me].waitingForPid = f.target /\ Queued(queue', f.me)
            /\ ContextOf(pcb', current, cpu, f.me) = c
      BY <2>1, <3>1, <3>2, <3>3, <3>6 DEF InWaitpid, ContextOf
    <3>8. pcb'[f.me].state = "BLOCKED" /\ f.me \notin BlockTargets
            => pcb'[f.target].state \notin Gone
      BY <2>1, <3>1, <3>2, <3>4 DEF InWaitpid
    <3> QED
      BY <3>1, <3>2, <3>5, <3>7, <3>8 DEF InWaitpid
  <2>4. ForegroundLives(pcb', foreground')
    BY <1>3, <1>5, ReapForeground
  <2> QED
    BY <1>4, <2>1, <2>2, <2>3, <2>4 DEF LifePart, Waits
<1>6. CASE UNCHANGED <<pcb, queue, current, foreground, currentPid, quantum, nextFreePid, cpu>>
  <2>1. Undisturbed(pcb, queue, current)
    BY UnchangedUndisturbed
  <2>2. Waits(pcb, queue, frame', current, cpu, nextFreePid)
    BY <1>4, <2>1, LifeFacts, WaitsKept
  <2> QED
    BY <1>6, <2>2 DEF LifeInv, LifePart
<1> QED
  BY <1>1, <1>5, <1>6

(* A caller of waitpid() that goes to sleep: the child it waits for lives.  *)
LEMMA AwaitedChildLives ==
  ASSUME LifeInv, NEW p \in Pid, MayWait(p), StillRuns(p)
  PROVE  pcb[p].state \notin Gone /\ p < nextFreePid /\ pcb[p].parentPid = current
<1>1. pcb[p].state # "ZOMBIE"
  BY DEF StillRuns, StateCode
<1>2. pcb[p].state # "FREE"
  <2>1. CASE p \in {current, Idle}
    BY <2>1, LifeFacts DEF Gone
  <2>2. ASSUME NEW n \in QueueName, p \in ToSet(queue[n]) PROVE pcb[p].state # "FREE"
    <3>1. pcb[p].state \in StatesOf[n]
      BY <2>2, LifeFacts, InvFacts DEF GoodLists
    <3> QED
      BY <3>1, StatesOfFacts
  <2> QED
    BY <2>1, <2>2 DEF MayWait, getProcess, InSomeQueue, InQueue
<1>3. p < nextFreePid
  BY <1>2, LifeFacts, ConstantFacts
<1>4. pcb[p].parentPid = current
  BY <1>2, LifeFacts, InvFacts DEF MayWait, Waits, WaitsForChildren
<1> QED
  BY <1>1, <1>2, <1>3, <1>4 DEF Gone

(* The lists with which a caller of waitpid() goes to sleep.                *)
LEMMA SleepLists ==
  ASSUME LifeInv, NEW p \in Pid,
         blockProcess([pcb EXCEPT ![current].waitingForPid = p], current)
  PROVE  \E P, S :
           /\ current \in Pid \ {Idle} /\ pcb[current].state # "BLOCKED"
           /\ Dispatch(P, S, current, foreground)
           /\ GoodLists(P, S) /\ ForegroundLives(P, foreground)
           /\ P[current].state = "BLOCKED"
           /\ P[current].waitingForPid = p /\ P[current].parentPid = pcb[current].parentPid
           /\ P[current].rsp = pcb[current].rsp
           /\ \A q \in Pid \ {current} : P[q] = pcb[q]
           /\ \A q \in Pid : Queued(queue, q) => Queued(S, q)
           /\ Queued(S, current)
<1> DEFINE from == IF InQueue("ready", current) THEN "ready" ELSE "blockedBySem"
           P1 == [pcb EXCEPT ![current].waitingForPid = p]
           P  == [P1 EXCEPT ![current].state = "BLOCKED"]
           S  == switchProcess(queue, from, "blocked", current)
<1>1. /\ from \in QueueName /\ from # "blocked" /\ from # "zombie"
      /\ current \in ToSet(queue[from]) /\ "blocked" \in QueueName
      /\ Dispatch(P, S, current, foreground)
  BY QueueNames DEF blockProcess, CanBlock, InQueue
<1>2. /\ current \in Pid /\ current # Idle /\ pcb \in [Pid -> PCB] /\ GoodLists(pcb, queue)
      /\ foreground \in Pid \cup {None} /\ cpu \in Context /\ Boot \in Context
      /\ frame \in [Context -> Frame]
  BY <1>1, LifeFacts, InvFacts, ConstantFacts, FrameFacts DEF GoodLists
<1>3. /\ P \in [Pid -> PCB] /\ P[current].state = "BLOCKED"
      /\ P[current].waitingForPid = p /\ P[current].parentPid = pcb[current].parentPid
      /\ P[current].foreground = pcb[current].foreground /\ P[current].rsp = pcb[current].rsp
      /\ \A q \in Pid \ {current} : P[q] = pcb[q]
  <2> DEFINE r1 == [pcb[current] EXCEPT !.waitingForPid = p]
             r  == [r1 EXCEPT !.state = "BLOCKED"]
  <2>1. pcb[current] \in PCB
    BY <1>2
  <2>2. /\ r1 \in PCB /\ r1.waitingForPid = p /\ r1.parentPid = pcb[current].parentPid
        /\ r1.foreground = pcb[current].foreground /\ r1.rsp = pcb[current].rsp
    BY ONLY <2>1, p \in Pid DEF PCB
  <2>3. P1 = [pcb EXCEPT ![current] = r1]
    OBVIOUS
  <2> HIDE DEF r1, P1
  <2>4. /\ r \in PCB /\ r.waitingForPid = p /\ r.parentPid = pcb[current].parentPid
        /\ r.foreground = pcb[current].foreground /\ r.state = "BLOCKED"
        /\ r.rsp = pcb[current].rsp
    BY ONLY <2>2 DEF PCB, ProcessState
  <2>5. P = [pcb EXCEPT ![current] = r]
    BY <1>2, <2>3
  <2> HIDE DEF r, P
  <2> QED
    BY <1>2, <2>4, <2>5
<1> HIDE DEF from, P, P1
<1>4. GoodLists(P, S)
  <2>1. /\ "BLOCKED" \in StatesOf["blocked"]
        /\ \A q \in Pid \ {current} : P[q].state = pcb[q].state /\ P[q].priority = pcb[q].priority
    BY <1>3, StatesOfFacts
  <2>2. P[current].state \in StatesOf["blocked"]
    BY <1>3, <2>1
  <2> QED
    BY ONLY <1>1, <1>2, <1>3, <2>1, <2>2, MoveFacts
<1>5. \A q \in Pid : Queued(queue, q) => Queued(S, q)
  BY ONLY <1>1, <1>2, MoveQueued
<1>6. Queued(S, current)
  <2>1. Queued(queue, current)
    BY <1>1 DEF Queued
  <2> QED
    BY <2>1, <1>2, <1>5
<1> HIDE DEF S
<1>7. ForegroundLives(P, foreground)
  <2>1. P[Idle].state \in {"READY", "RUNNING"}
    BY <1>2, <1>3, LifeFacts, ConstantFacts
  <2>2. foreground # None => P[foreground].state \notin Gone /\ P[foreground].foreground
    BY <1>2, <1>3 DEF Gone, LifeInv, LifePart, ForegroundLives
  <2> QED
    BY <2>1, <2>2 DEF ForegroundLives
<1>8. pcb[current].state # "BLOCKED"
  <2>1. pcb[current].state \in StatesOf[from]
    BY <1>1, <1>2 DEF GoodLists
  <2>2. StatesOf[from] = {"READY", "RUNNING"} \/ StatesOf[from] = {"WAITING_SEM"}
    BY QueueNames DEF from, StatesOf
  <2> QED
    BY <2>1, <2>2
<1> QED
  BY <1>1, <1>2, <1>3, <1>4, <1>5, <1>6, <1>7, <1>8

(* The caller goes to sleep. *)
LEMMA WaitpidSleepLife ==
  ASSUME LifeInv, NEW p \in Pid, InUser, MayWait(p), StillRuns(p),
         blockProcess([pcb EXCEPT ![current].waitingForPid = p], current),
         frame' = [frame EXCEPT ![cpu] = [at |-> "waitpid", me |-> current, target |-> p]],
         nextFreePid' = nextFreePid
  PROVE  LifePart'
<1>1. PICK P, S :
           /\ current \in Pid \ {Idle} /\ pcb[current].state # "BLOCKED"
           /\ Dispatch(P, S, current, foreground)
           /\ GoodLists(P, S) /\ ForegroundLives(P, foreground)
           /\ P[current].state = "BLOCKED"
           /\ P[current].waitingForPid = p /\ P[current].parentPid = pcb[current].parentPid
           /\ P[current].rsp = pcb[current].rsp
           /\ \A q \in Pid \ {current} : P[q] = pcb[q]
           /\ \A q \in Pid : Queued(queue, q) => Queued(S, q)
           /\ Queued(S, current)
  BY SleepLists
<1>2. /\ foreground \in Pid \cup {None} /\ cpu \in Context /\ Boot \in Context
      /\ frame \in [Context -> Frame]
  BY LifeFacts, InvFacts, ConstantFacts, FrameFacts
<1>3. pcb[p].state \notin Gone /\ p < nextFreePid /\ pcb[p].parentPid = current
  BY AwaitedChildLives
<1>4. pcb[current].state \notin Gone /\ current < nextFreePid /\ nextFreePid \in Int
      /\ nextFreePid <= nextFreePid
  BY LifeFacts
<1>5. /\ cpu # Boot /\ frame'[Boot].at = "halted"
       /\ frame'[cpu] = [at |-> "waitpid", me |-> current, target |-> p]
       /\ \A c \in Context \ {cpu} : frame'[c] = frame[c]
  <2>1. frame[Boot].at = "halted" /\ frame[cpu].at = "user"
    BY NotWaiting DEF InUser
  <2> QED
    BY <2>1, <1>2
<1>6. WaitsForChildren(P, nextFreePid)
  <2> SUFFICES ASSUME NEW q \in Pid, NEW t \in Pid, P[q].waitingForPid = t
               PROVE  t < nextFreePid /\ (P[t].state # "FREE" => P[t].parentPid = q)
    BY DEF WaitsForChildren
  <2>1. P[t].parentPid = pcb[t].parentPid /\ (P[t].state # "FREE" => pcb[t].state # "FREE")
    BY <1>1, <1>4 DEF Gone
  <2>2. CASE q = current
    BY <2>1, <2>2, <1>1, <1>3
  <2>3. CASE q # current
    <3>1. pcb[q].waitingForPid = t
      BY <2>3, <1>1
    <3>2. t < nextFreePid /\ (pcb[t].state # "FREE" => pcb[t].parentPid = q)
      BY <3>1, LifeFacts DEF Waits, WaitsForChildren
    <3> QED
      BY <2>1, <3>2
  <2> QED
    BY <2>2, <2>3
<1>7. Undisturbed(P, S, current)
  <2>1. \A t \in Pid : P[t].state \in Gone => pcb[t].state \in Gone
    BY <1>1 DEF Gone
  <2> QED
    BY <2>1, <1>1, <1>4 DEF Undisturbed, Gone
<1>8. InWaitpid(P, S, frame'[cpu], cpu, current, cpu, nextFreePid)
  <2> DEFINE f == [at |-> "waitpid", me |-> current, target |-> p]
  <2>1. f.me = current /\ f.target = p
    OBVIOUS
  <2> HIDE DEF f
  <2>2. P[p].parentPid = current /\ P[p].state \notin Gone
    BY <1>1, <1>3 DEF Gone
  <2>3. ContextOf(P, current, cpu, current) = cpu
    BY DEF ContextOf
  <2>4. InWaitpid(P, S, f, cpu, current, cpu, nextFreePid)
    BY <2>1, <2>2, <2>3, <1>1, <1>2, <1>3, <1>4 DEF InWaitpid
  <2> QED
    BY <2>4, <1>5 DEF f
<1>9. ASSUME NEW c \in Context \ {cpu}, frame'[c].at = "waitpid"
       PROVE  InWaitpid(P, S, frame'[c], c, current, cpu, nextFreePid)
  <2>1. frame'[c] = frame[c] /\ c \in Context /\ c # cpu
    BY <1>5, <1>9
  <2>2. InWaitpid(P, S, frame[c], c, current, cpu, nextFreePid)
    BY <1>9, <2>1, <1>4, <1>7, OthersWait
  <2> QED
    BY <2>1, <2>2
<1>10. Waits(P, S, frame', current, cpu, nextFreePid)
  BY <1>5, <1>6, <1>8, <1>9 DEF Waits
<1> QED
  BY <1>1, <1>2, <1>10, DispatchLife

(* The caller cannot be put to sleep: it is in no queue. *)
LEMMA WaitpidGiveUpLife ==
  ASSUME LifeInv, InUser,
         pcb' = [pcb EXCEPT ![current].waitingForPid = None, ![current].state = "READY"],
         UNCHANGED <<queue, current, foreground, currentPid, nextFreePid, cpu, frame>>
  PROVE  LifePart'
<1>1. current \in Pid /\ pcb \in [Pid -> PCB] /\ foreground \in Pid \cup {None}
      /\ pcb[current].state \notin Gone
  BY LifeFacts, InvFacts
<1> DEFINE R == pcb'
<1>2. /\ R[current].state = "READY" /\ R[current].waitingForPid = None
      /\ R[current].parentPid = pcb[current].parentPid
      /\ R[current].foreground = pcb[current].foreground
      /\ \A q \in Pid \ {current} : R[q] = pcb[q]
  <2> DEFINE r == [pcb[current] EXCEPT !.waitingForPid = None, !.state = "READY"]
  <2>1. pcb[current] \in PCB
    BY <1>1
  <2>2. /\ r.state = "READY" /\ r.waitingForPid = None
        /\ r.parentPid = pcb[current].parentPid /\ r.foreground = pcb[current].foreground
    BY <2>1 DEF PCB
  <2>3. R = [pcb EXCEPT ![current] = r]
    OBVIOUS
  <2> HIDE DEF r, R
  <2> QED
    BY <1>1, <2>2, <2>3
<1> HIDE DEF R
<1>3. Undisturbed(R, queue, current)
  <2>1. \A t \in Pid : R[t].state \in Gone => pcb[t].state \in Gone
    BY <1>2 DEF Gone
  <2> QED
    BY <2>1, <1>1, <1>2 DEF Undisturbed, Gone
<1>4. frame[Boot].at = "halted" /\ \A c \in Context : frame[c].at = "waitpid" => c # cpu
  BY NotWaiting DEF InUser
<1>5. \A q \in Pid : R[q].waitingForPid \in {pcb[q].waitingForPid, None}
  BY <1>2
<1>6. Waits(R, queue, frame, current, cpu, nextFreePid)
  BY <1>3, <1>4, <1>5, LifeFacts, WaitsKept
<1>7. ForegroundLives(R, foreground)
  <2>1. R[Idle].state \in {"READY", "RUNNING"}
    BY <1>2, LifeFacts, ConstantFacts
  <2>2. foreground # None => R[foreground].state \notin Gone /\ R[foreground].foreground
    BY <1>1, <1>2 DEF Gone, LifeInv, LifePart, ForegroundLives
  <2> QED
    BY <2>1, <2>2 DEF ForegroundLives
<1> QED
  BY <1>6, <1>7 DEF LifePart, R

LEMMA WaitpidBlockLife == LifeInv /\ WaitpidBlock => LifePart'
<1> SUFFICES ASSUME LifeInv, NEW p \in Pid, InUser, MayWait(p), StillRuns(p),
                    nextFreePid' = nextFreePid,
                    \/ /\ blockProcess([pcb EXCEPT ![current].waitingForPid = p], current)
                       /\ frame' = [frame EXCEPT ![cpu] = [at |-> "waitpid", me |-> current, target |-> p]]
                    \/ /\ ~CanBlock(current)
                       /\ pcb' = [pcb EXCEPT ![current].waitingForPid = None, ![current].state = "READY"]
                       /\ UNCHANGED <<queue, current, foreground, currentPid, quantum, cpu, frame>>
             PROVE  LifePart'
  BY DEF WaitpidBlock
<1> QED
  BY WaitpidSleepLife, WaitpidGiveUpLife

-----------------------------------------------------------------------------
LEMMA NextLife == LifeInv /\ [Next]_schedVars => LifeInv'
<1> SUFFICES ASSUME LifeInv, [Next]_schedVars PROVE LifeInv'
  OBVIOUS
<1>1. IInv'
  BY LifeFacts, NextInv
<1>2. LifePart'
  <2>1. CASE UNCHANGED schedVars
    BY <2>1 DEF schedVars, LifeInv, LifePart
  <2>2. CASE Next
    BY <2>2, TimerTickLife, YieldLife, CreateProcessLife, ChangePrioLife, BlockLife, UnblockLife,
       BlockBySemLife, UnblockBySemLife, KernelReturnLife, KillActionLife, CtrlCLife, ExitLife,
       WaitpidReapLife, WaitpidBlockLife, WaitpidResumeLife DEF Next
  <2> QED
    BY <2>1, <2>2
<1> QED
  BY <1>1, <1>2 DEF LifeInv

LEMMA AlwaysLife == Spec => []LifeInv
<1>1. Init => LifeInv
  BY InitInv, InitLife DEF LifeInv
<1>2. LifeInv /\ [Next]_schedVars => LifeInv'
  BY NextLife
<1> QED
  BY <1>1, <1>2, PTL DEF Spec

(* list->foregroundProcess names a living foreground process or nobody, in  *)
(* every reachable state: killProcess() clears it, and schedule() and       *)
(* createProcess() never put a dead one there.  So Ctrl-C follows no        *)
(* pointer to a freed PCB.                                                  *)
THEOREM ForegroundAlive == Spec => []ForegroundIsAlive
<1>1. LifeInv => ForegroundIsAlive
  BY DEF LifeInv, LifePart, ForegroundLives, ForegroundIsAlive, Alive, Gone
<1> QED
  BY <1>1, AlwaysLife, PTL

(* A process blocked inside waitpid() has a living child to wait for,       *)
(* unless its pid is one that programs block by name: wakeupWaitingParent() *)
(* misses no death, wherever the tick, the kill or the exit falls.          *)
THEOREM NoWakeupIsLost == Spec => []NoLostWakeup
<1>1. LifeInv => NoLostWakeup
  <2> SUFFICES ASSUME LifeInv, NEW c \in Pid, frame[c].at = "waitpid",
                      pcb[frame[c].me].state = "BLOCKED", frame[c].me \notin BlockTargets
               PROVE  pcb[frame[c].target].state \notin Gone
    BY DEF NoLostWakeup, Gone
  <2>1. InWaitpid(pcb, queue, frame[c], c, current, cpu, nextFreePid)
    BY LifeFacts, ConstantFacts DEF Waits
  <2> QED
    BY <2>1 DEF InWaitpid
<1> QED
  BY <1>1, AlwaysLife, PTL

-----------------------------------------------------------------------------
(* What one step may do to the PCBs, as a predicate of the lists R it       *)
(* leaves: the dead stay dead, a PCB is freed by its parent or for idle,    *)
(* and a sleeper in waitpid() is woken by its child's death alone.          *)
FateRespected(R) ==
  /\ \A p \in Pid :
       /\ pcb[p].state = "ZOMBIE" => R[p].state \in {"ZOMBIE", "FREE"}
       /\ pcb[p].state = "FREE" /\ p < nextFreePid => R[p].state = "FREE"
       /\ pcb[p].state # "FREE" /\ R[p].state = "FREE" => pcb[p].parentPid \in {Caller, Idle}
  /\ \A c \in Context :
       LET me == frame[c].me
       IN /\ frame[c].at = "waitpid" /\ me \notin BlockTargets
          /\ pcb[me].state = "BLOCKED" /\ R[me].state \in {"READY", "RUNNING"}
          => R[frame[c].target].state \in {"ZOMBIE", "FREE"}

(* Nobody dies, and of the blocked only those move that were blocked by     *)
(* name; the fresh pid may be born.                                         *)
NobodyDies(R) ==
  \A q \in Pid :
    \/ R[q].state = pcb[q].state
    \/ pcb[q].state = "FREE" /\ q >= nextFreePid
    \/ /\ pcb[q].state \notin Gone /\ R[q].state \notin Gone
       /\ pcb[q].state = "BLOCKED" => q \in BlockTargets

LEMMA NobodyDiesFate ==
  ASSUME LifeInv, NEW R, NobodyDies(R)
  PROVE  FateRespected(R)
<1>1. ASSUME NEW p \in Pid
      PROVE  /\ pcb[p].state = "ZOMBIE" => R[p].state \in {"ZOMBIE", "FREE"}
             /\ pcb[p].state = "FREE" /\ p < nextFreePid => R[p].state = "FREE"
             /\ pcb[p].state # "FREE" /\ R[p].state = "FREE" => pcb[p].parentPid \in {Caller, Idle}
  <2>1. p \in Int /\ nextFreePid \in Int
    BY LifeFacts, ConstantFacts
  <2>2. ~(p >= nextFreePid /\ p < nextFreePid)
    BY <2>1
  <2> QED
    BY <2>2 DEF NobodyDies, Gone
<1>2. ASSUME NEW c \in Context, frame[c].at = "waitpid", frame[c].me \notin BlockTargets,
             pcb[frame[c].me].state = "BLOCKED", R[frame[c].me].state \in {"READY", "RUNNING"}
      PROVE  FALSE
  <2>1. frame[c].me \in Pid
    BY <1>2, LifeFacts DEF Waits, InWaitpid
  <2> QED
    BY <1>2, <2>1 DEF NobodyDies
<1> QED
  BY <1>1, <1>2 DEF FateRespected

(* schedule() adds nothing to the fate of anybody. *)
LEMMA DispatchFate ==
  ASSUME LifeInv, NEW P, NEW Q, NEW cur \in Pid, NEW fg, GoodLists(P, Q),
         P[Idle].state \in {"READY", "RUNNING"}, FateRespected(P), Dispatch(P, Q, cur, fg)
  PROVE  FateRespected(pcb')
<1>1. /\ current' \in Pid /\ P[current'].state \in {"READY", "RUNNING"}
      /\ \A q \in Pid : pcb'[q].state = IF q = current' THEN "RUNNING"
                                        ELSE IF q = cur /\ P[q].state = "RUNNING" THEN "READY"
                                        ELSE P[q].state
  <2>1. cpu \in Context
    BY LifeFacts, InvFacts
  <2> QED
    BY <2>1, DispatchEffect
<1> DEFINE R == pcb'
<1>2. \A q \in Pid : \/ R[q].state = P[q].state
                     \/ R[q].state \in {"READY", "RUNNING"} /\ P[q].state \in {"READY", "RUNNING"}
  BY <1>1
<1> HIDE DEF R
<1>3. ASSUME NEW c \in Context, frame[c].at = "waitpid"
      PROVE  frame[c].me \in Pid /\ frame[c].target \in Pid
  BY <1>3, LifeFacts DEF Waits, InWaitpid
<1>4. FateRespected(R)
  <2>1. ASSUME NEW p \in Pid
        PROVE  /\ pcb[p].state = "ZOMBIE" => R[p].state \in {"ZOMBIE", "FREE"}
               /\ pcb[p].state = "FREE" /\ p < nextFreePid => R[p].state = "FREE"
               /\ pcb[p].state # "FREE" /\ R[p].state = "FREE" => pcb[p].parentPid \in {Caller, Idle}
    BY <1>2 DEF FateRespected
  <2>2. ASSUME NEW c \in Context, frame[c].at = "waitpid", frame[c].me \notin BlockTargets,
               pcb[frame[c].me].state = "BLOCKED", R[frame[c].me].state \in {"READY", "RUNNING"}
        PROVE  R[frame[c].target].state \in {"ZOMBIE", "FREE"}
    <3>1. frame[c].me \in Pid /\ frame[c].target \in Pid
      BY <2>2, <1>3
    <3>2. P[frame[c].me].state \in {"READY", "RUNNING"}
      BY <2>2, <3>1, <1>2
    <3>3. P[frame[c].target].state \in {"ZOMBIE", "FREE"}
      BY <2>2, <3>2 DEF FateRespected
    <3> QED
      BY <3>1, <3>3, <1>2
  <2> QED
    BY <2>1, <2>2 DEF FateRespected
<1> QED
  BY <1>4 DEF R

(* schedule() alone, or from lists in which one living process was moved.   *)
LEMMA PlainDispatchFate ==
  LifeInv /\ Dispatch(pcb, queue, current, foreground) => FateRespected(pcb')
<1> SUFFICES ASSUME LifeInv, Dispatch(pcb, queue, current, foreground) PROVE FateRespected(pcb')
  OBVIOUS
<1>1. NobodyDies(pcb)
  BY DEF NobodyDies
<1>2. FateRespected(pcb) /\ GoodLists(pcb, queue) /\ current \in Pid
      /\ pcb[Idle].state \in {"READY", "RUNNING"}
  BY <1>1, NobodyDiesFate, LifeFacts, InvFacts
<1> QED
  BY <1>2, DispatchFate

LEMMA MoveFate ==
  ASSUME LifeInv, NEW from \in QueueName, from # "zombie", NEW p \in ToSet(queue[from]),
         NEW st \in ProcessState \ Gone, from = "blocked" => p \in BlockTargets,
         NEW P, P = [pcb EXCEPT ![p].state = st]
  PROVE  NobodyDies(P)
<1>1. /\ p \in Pid /\ pcb \in [Pid -> PCB] /\ pcb[p] \in PCB /\ pcb[p].state \in StatesOf[from]
  BY LifeFacts, InvFacts DEF GoodLists
<1>2. P[p].state = st /\ \A q \in Pid \ {p} : P[q] = pcb[q]
  BY <1>1 DEF PCB
<1>3. pcb[p].state \notin Gone
  BY <1>1, StatesOfFacts DEF Gone
<1>4. pcb[p].state = "BLOCKED" => from = "blocked"
  BY <1>1 DEF StatesOf, QueueName, Living
<1> QED
  BY <1>1, <1>2, <1>3, <1>4 DEF NobodyDies

LEMMA BlockFate == LifeInv /\ Block => FateRespected(pcb')
<1> SUFFICES ASSUME LifeInv, NEW p \in BlockTargets, blockProcess(pcb, p)
             PROVE  FateRespected(pcb')
  BY DEF Block
<1> DEFINE from == IF InQueue("ready", p) THEN "ready" ELSE "blockedBySem"
           P == [pcb EXCEPT ![p].state = "BLOCKED"]
           S == switchProcess(queue, from, "blocked", p)
<1>1. /\ from \in QueueName /\ from # "blocked" /\ from # "zombie" /\ p \in ToSet(queue[from])
      /\ \/ Dispatch(P, S, current, foreground)
         \/ pcb' = P
  BY QueueNames DEF blockProcess, CanBlock, InQueue
<1>2. /\ "blocked" \in QueueName /\ "BLOCKED" \in ProcessState \ Gone
      /\ "BLOCKED" \in StatesOf["blocked"]
  BY QueueNames, StatesOfFacts DEF ProcessState, Gone
<1> HIDE DEF from, P
<1>3. NobodyDies(P)
  BY <1>1, <1>2, MoveFate DEF P
<1>4. GoodLists(P, S) /\ ForegroundLives(P, foreground)
  BY <1>1, <1>2, MoveUndisturbed DEF P
<1>5. FateRespected(P)
  BY <1>3, NobodyDiesFate
<1> HIDE DEF S
<1>6. CASE Dispatch(P, S, current, foreground)
  BY <1>4, <1>5, <1>6, LifeFacts, InvFacts, DispatchFate DEF ForegroundLives
<1> QED
  BY <1>1, <1>5, <1>6

LEMMA BlockBySemFate == LifeInv /\ BlockBySem => FateRespected(pcb')
<1> SUFFICES ASSUME LifeInv, BlockBySem PROVE FateRespected(pcb')
  OBVIOUS
<1> DEFINE P == [pcb EXCEPT ![current].state = "WAITING_SEM"]
           S == switchProcess(queue, "ready", "blockedBySem", current)
<1>1. current \in ToSet(queue["ready"]) /\ Dispatch(P, S, current, foreground)
  BY DEF BlockBySem, InQueue
<1>2. /\ "ready" \in QueueName /\ "blockedBySem" \in QueueName
      /\ "WAITING_SEM" \in ProcessState \ Gone /\ "WAITING_SEM" \in StatesOf["blockedBySem"]
  BY QueueNames, StatesOfFacts DEF ProcessState, Gone
<1> HIDE DEF P
<1>3. NobodyDies(P)
  BY <1>1, <1>2, MoveFate DEF P
<1>4. GoodLists(P, S) /\ ForegroundLives(P, foreground)
  BY <1>1, <1>2, MoveUndisturbed DEF P
<1>5. FateRespected(P)
  BY <1>3, NobodyDiesFate
<1> HIDE DEF S
<1> QED
  BY <1>1, <1>4, <1>5, LifeFacts, InvFacts, DispatchFate DEF ForegroundLives

LEMMA MakeReadyFate ==
  ASSUME LifeInv, NEW from \in {"blocked", "blockedBySem"}, NEW p, MakeReady(from, p),
         from = "blocked" => p \in BlockTargets
  PROVE  FateRespected(pcb')
<1> DEFINE P == [pcb EXCEPT ![p].state = "READY"]
<1>1. /\ from \in QueueName /\ from # "zombie" /\ p \in ToSet(queue[from]) /\ pcb' = P
      /\ "READY" \in ProcessState \ Gone
  BY QueueNames DEF MakeReady, InQueue, ProcessState, Gone
<1> HIDE DEF P
<1>2. NobodyDies(P)
  BY <1>1, MoveFate DEF P
<1> QED
  BY <1>1, <1>2, NobodyDiesFate

LEMMA CreateProcessFate == LifeInv /\ CreateProcess => FateRespected(pcb')
<1> SUFFICES ASSUME LifeInv,
                    NEW prio \in Priorities, NEW fg \in BOOLEAN, NEW tty \in BOOLEAN,
                    NEW alloc \in AllocFails \cup {"none"},
                    createProcess(prio, fg, tty, alloc)
             PROVE  FateRespected(pcb')
  BY DEF CreateProcess
<1>1. nextFreePid \in Pid /\ nextFreePid \in Int
  BY LifeFacts, ConstantFacts DEF createProcess, IInv, GoodRest, Pid
<1>2. pcb[nextFreePid].state = "FREE" /\ pcb \in [Pid -> PCB]
  BY <1>1, LifeFacts, InvFacts
<1>3. \A q \in Pid \ {nextFreePid} : pcb'[q] = pcb[q]
  BY <1>2 DEF createProcess
<1> DEFINE R == pcb'
<1> HIDE DEF R
<1>4. NobodyDies(R)
  <2>1. nextFreePid >= nextFreePid
    BY <1>1
  <2>2. \A q \in Pid \ {nextFreePid} : R[q].state = pcb[q].state
    BY <1>3 DEF R
  <2> QED
    BY <2>1, <2>2, <1>1, <1>2 DEF NobodyDies
<1> QED
  BY <1>4, NobodyDiesFate DEF R

LEMMA ChangePrioFate == LifeInv /\ ChangePrio => FateRespected(pcb')
<1> SUFFICES ASSUME LifeInv, NEW p \in Pid, NEW newPrio \in Priorities, changePrio(p, newPrio)
             PROVE  FateRespected(pcb')
  BY DEF ChangePrio
<1> DEFINE R == pcb'
<1>1. \A q \in Pid : R[q].state = pcb[q].state
  BY LifeFacts, InvFacts DEF changePrio, PCB
<1> HIDE DEF R
<1>2. NobodyDies(R)
  BY <1>1 DEF NobodyDies
<1> QED
  BY <1>2, NobodyDiesFate DEF R

(* The victim of kill() becomes a zombie, or goes at once when its parent   *)
(* is idle; its parent wakes when it waits for it.                          *)
LEMMA KillFate ==
  ASSUME LifeInv, NEW p \in Pid, kill(p)
  PROVE  FateRespected(pcb')
<1> DEFINE cur == IF current = p THEN Idle ELSE current
           fg  == foregroundAfterKill(p)
<1>1. cur \in Pid /\ cur \in {current, Idle}
  BY LifeFacts, InvFacts, ConstantFacts
<1>2. ASSUME NEW n \in Living, InQueue(n, p),
             LET woken == wakeupWaitingParent([pcb EXCEPT ![p].state = "ZOMBIE"],
                                              switchProcess(queue, n, "zombie", p),
                                              pcb[p].parentPid, p)
             IN IF p = currentPid
                THEN Dispatch(woken.pcb, woken.queue, cur, fg)
                ELSE /\ pcb' = woken.pcb /\ queue' = woken.queue
                     /\ current' = cur /\ foreground' = fg
                     /\ UNCHANGED <<currentPid, quantum, cpu>>
      PROVE  FateRespected(pcb')
  <2> DEFINE woken == wakeupWaitingParent([pcb EXCEPT ![p].state = "ZOMBIE"],
                                          switchProcess(queue, n, "zombie", p),
                                          pcb[p].parentPid, p)
             R == woken.pcb
  <2>1. \/ Dispatch(R, woken.queue, cur, fg)
        \/ pcb' = R
    BY <1>2
  <2>2. p \in ToSet(queue[n]) /\ IInv
    BY <1>2, LifeFacts DEF InQueue
  <2> HIDE DEF cur, fg
  <2>3. GoodLists(R, woken.queue)
    BY <2>2, KillEffect
  <2>4. ForegroundLives(R, fg)
    BY <1>1, <2>2, KillUndisturbed DEF fg
  <2>5. /\ R[p].state \in Gone
        /\ R[p].state = "FREE" => pcb[p].parentPid = Idle
    BY <2>2, KillEffect
  <2>6. \A q \in Pid \ {p} : \/ R[q].state = pcb[q].state
                             \/ /\ pcb[q].state = "BLOCKED" /\ pcb[q].waitingForPid = p
                                /\ R[q].state = "READY"
    BY <2>2, KillEffect
  <2> HIDE DEF woken, R
  <2>7. pcb[p].state \notin Gone
    <3>1. n \in QueueName /\ n # "zombie" /\ pcb[p].state \in StatesOf[n]
      BY <2>2, InvFacts, QueueNames DEF GoodLists
    <3> QED
      BY <3>1, StatesOfFacts DEF Gone
  <2>8. FateRespected(R)
    <3>1. ASSUME NEW q \in Pid
          PROVE  /\ pcb[q].state = "ZOMBIE" => R[q].state \in {"ZOMBIE", "FREE"}
                 /\ pcb[q].state = "FREE" /\ q < nextFreePid => R[q].state = "FREE"
                 /\ pcb[q].state # "FREE" /\ R[q].state = "FREE" => pcb[q].parentPid \in {Caller, Idle}
      BY <2>5, <2>6, <2>7 DEF Gone
    <3>2. ASSUME NEW c \in Context, frame[c].at = "waitpid", frame[c].me \notin BlockTargets,
                 pcb[frame[c].me].state = "BLOCKED", R[frame[c].me].state \in {"READY", "RUNNING"}
          PROVE  R[frame[c].target].state \in {"ZOMBIE", "FREE"}
      <4>1. InWaitpid(pcb, queue, frame[c], c, current, cpu, nextFreePid)
        BY <3>2, LifeFacts DEF Waits
      <4>2. frame[c].me \in Pid /\ pcb[frame[c].me].waitingForPid = frame[c].target
        BY <4>1, <3>2 DEF InWaitpid, Gone
      <4>3. frame[c].me # p
        BY <2>5, <3>2 DEF Gone
      <4>4. pcb[frame[c].me].waitingForPid = p
        BY <2>6, <3>2, <4>2, <4>3
      <4> QED
        BY <2>5, <4>2, <4>4 DEF Gone
    <3> QED
      BY <3>1, <3>2 DEF FateRespected
  <2>9. CASE Dispatch(R, woken.queue, cur, fg)
    BY <1>1, <2>3, <2>4, <2>8, <2>9, DispatchFate DEF ForegroundLives
  <2> QED
    BY <2>1, <2>8, <2>9
<1>3. CASE pcb' = pcb
  <2>1. NobodyDies(pcb)
    BY DEF NobodyDies
  <2> QED
    BY <1>3, <2>1, NobodyDiesFate
<1> QED
  BY <1>2, <1>3 DEF kill

LEMMA KillersFate == LifeInv /\ (Kill \/ CtrlC \/ Exit) => FateRespected(pcb')
<1> SUFFICES ASSUME LifeInv, Kill \/ CtrlC \/ Exit PROVE FateRespected(pcb')
  OBVIOUS
<1>1. CASE Kill
  BY <1>1, KillFate DEF Kill
<1>2. CASE CtrlC
  <2>1. kill(foreground) /\ foreground > SHELL_PID
    BY <1>2 DEF CtrlC, kill
  <2>2. foreground \in Pid
    BY <2>1, LifeFacts, InvFacts DEF SHELL_PID, None
  <2> QED
    BY <2>1, <2>2, KillFate
<1>3. CASE Exit
  <2>1. CASE kill(current)
    BY <2>1, LifeFacts, InvFacts, KillFate
  <2>2. CASE pcb' = pcb
    <3>1. NobodyDies(pcb)
      BY DEF NobodyDies
    <3> QED
      BY <2>2, <3>1, NobodyDiesFate
  <2> QED
    BY <1>3, <2>1, <2>2 DEF Exit
<1> QED
  BY <1>1, <1>2, <1>3

(* Both reaping paths of waitpid(): the PCB is freed by the process whose   *)
(* call it is, and that one is its parent.                                  *)
LEMMA ReapFate ==
  ASSUME LifeInv, NEW p \in Pid, pcb[p].state = "ZOMBIE", NEW parent \in Pid,
         reapChild(parent, p), pcb[p].parentPid = Caller
  PROVE  FateRespected(pcb')
<1> DEFINE R == pcb'
<1>1. R[p].state = "FREE" /\ \A q \in Pid \ {p} : R[q].state = pcb[q].state
  BY ReapEffect
<1> HIDE DEF R
<1>2. ASSUME NEW q \in Pid
      PROVE  /\ pcb[q].state = "ZOMBIE" => R[q].state \in {"ZOMBIE", "FREE"}
             /\ pcb[q].state = "FREE" /\ q < nextFreePid => R[q].state = "FREE"
             /\ pcb[q].state # "FREE" /\ R[q].state = "FREE" => pcb[q].parentPid \in {Caller, Idle}
  BY <1>1
<1>3. ASSUME NEW c \in Context, frame[c].at = "waitpid", pcb[frame[c].me].state = "BLOCKED",
             R[frame[c].me].state \in {"READY", "RUNNING"}
      PROVE  FALSE
  <2>1. frame[c].me \in Pid
    BY <1>3, LifeFacts DEF Waits, InWaitpid
  <2> QED
    BY <1>1, <1>3, <2>1
<1>4. FateRespected(R)
  BY <1>2, <1>3 DEF FateRespected
<1> QED
  BY <1>4 DEF R

LEMMA WaitpidReapFate == LifeInv /\ WaitpidReap => FateRespected(pcb')
<1> SUFFICES ASSUME LifeInv, NEW p \in Pid, InUser, MayWait(p), pcb[p].state = "ZOMBIE",
                    reapChild(current, p)
             PROVE  FateRespected(pcb')
  BY DEF WaitpidReap
<1>1. Caller = current /\ current \in Pid
  BY LifeFacts, InvFacts DEF Caller, InUser
<1>2. pcb[p].parentPid = current
  BY <1>1, LifeFacts DEF MayWait, Waits, WaitsForChildren
<1> QED
  BY <1>1, <1>2, ReapFate

LEMMA WaitpidResumeFate == LifeInv /\ WaitpidResume => FateRespected(pcb')
<1> SUFFICES ASSUME LifeInv, WaitpidResume PROVE FateRespected(pcb')
  OBVIOUS
<1>1. frame[cpu].at = "waitpid" /\ cpu \in Context
  BY LifeFacts, InvFacts DEF WaitpidResume
<1>2. InWaitpid(pcb, queue, frame[cpu], cpu, current, cpu, nextFreePid)
  BY <1>1, LifeFacts DEF Waits
<1>3. CASE pcb[frame[cpu].target].state = "ZOMBIE" /\ reapChild(frame[cpu].me, frame[cpu].target)
  <2>1. /\ frame[cpu].me \in Pid /\ frame[cpu].target \in Pid
        /\ pcb[frame[cpu].target].parentPid = frame[cpu].me
    BY <1>2, <1>3 DEF InWaitpid
  <2>2. Caller = frame[cpu].me
    BY <1>1 DEF Caller
  <2> QED
    BY <1>3, <2>1, <2>2, ReapFate
<1>4. CASE pcb' = pcb
  <2>1. NobodyDies(pcb)
    BY DEF NobodyDies
  <2> QED
    BY <1>4, <2>1, NobodyDiesFate
<1> QED
  BY <1>3, <1>4 DEF WaitpidResume

LEMMA WaitpidBlockFate == LifeInv /\ WaitpidBlock => FateRespected(pcb')
<1> SUFFICES ASSUME LifeInv, NEW p \in Pid, InUser,
                    \/ blockProcess([pcb EXCEPT ![current].waitingForPid = p], current)
                    \/ pcb' = [pcb EXCEPT ![current].waitingForPid = None, ![current].state = "READY"]
             PROVE  FateRespected(pcb')
  BY DEF WaitpidBlock
<1>1. current \in Pid /\ pcb \in [Pid -> PCB] /\ pcb[current].state \notin Gone
  BY LifeFacts, InvFacts
<1>2. CASE blockProcess([pcb EXCEPT ![current].waitingForPid = p], current)
  <2>1. PICK P, S :
           /\ current \in Pid \ {Idle} /\ pcb[current].state # "BLOCKED"
           /\ Dispatch(P, S, current, foreground)
           /\ GoodLists(P, S) /\ ForegroundLives(P, foreground)
           /\ P[current].state = "BLOCKED"
           /\ P[current].waitingForPid = p /\ P[current].parentPid = pcb[current].parentPid
           /\ P[current].rsp = pcb[current].rsp
           /\ \A q \in Pid \ {current} : P[q] = pcb[q]
           /\ \A q \in Pid : Queued(queue, q) => Queued(S, q)
           /\ Queued(S, current)
    BY <1>2, SleepLists
  <2>2. NobodyDies(P)
    BY <2>1, <1>1 DEF NobodyDies, Gone
  <2>3. FateRespected(P)
    BY <2>2, NobodyDiesFate
  <2> QED
    BY <2>1, <2>3, <1>1, DispatchFate DEF ForegroundLives
<1>3. CASE pcb' = [pcb EXCEPT ![current].waitingForPid = None, ![current].state = "READY"]
  <2> DEFINE R == pcb'
  <2>1. R[current].state = "READY" /\ \A q \in Pid \ {current} : R[q] = pcb[q]
    <3> DEFINE r == [pcb[current] EXCEPT !.waitingForPid = None, !.state = "READY"]
    <3>1. pcb[current] \in PCB
      BY <1>1
    <3>2. r.state = "READY"
      BY <3>1 DEF PCB
    <3>3. R = [pcb EXCEPT ![current] = r]
      BY <1>3
    <3> HIDE DEF r, R
    <3> QED
      BY <1>1, <3>2, <3>3
  <2> HIDE DEF R
  <2>2. ASSUME NEW q \in Pid
        PROVE  /\ pcb[q].state = "ZOMBIE" => R[q].state \in {"ZOMBIE", "FREE"}
               /\ pcb[q].state = "FREE" /\ q < nextFreePid => R[q].state = "FREE"
               /\ pcb[q].state # "FREE" /\ R[q].state = "FREE" => pcb[q].parentPid \in {Caller, Idle}
    BY <2>1, <1>1 DEF Gone
  <2>3. ASSUME NEW c \in Context, frame[c].at = "waitpid", pcb[frame[c].me].state = "BLOCKED",
               R[frame[c].me].state \in {"READY", "RUNNING"}
        PROVE  FALSE
    <3>1. InWaitpid(pcb, queue, frame[c], c, current, cpu, nextFreePid) /\ c # cpu
      BY <2>3, LifeFacts, NotWaiting DEF Waits, InUser
    <3>2. frame[c].me \in Pid /\ ContextOf(pcb, current, cpu, frame[c].me) = c
      BY <2>3, <3>1 DEF InWaitpid, Gone
    <3>3. frame[c].me # current
      BY <3>1, <3>2 DEF ContextOf
    <3> QED
      BY <2>1, <2>3, <3>2, <3>3
  <2>4. FateRespected(R)
    BY <2>2, <2>3 DEF FateRespected
  <2> QED
    BY <2>4 DEF R
<1> QED
  BY <1>2, <1>3

LEMMA NextFate == LifeInv /\ [Next]_schedVars => FateRespected(pcb')
<1> SUFFICES ASSUME LifeInv, [Next]_schedVars PROVE FateRespected(pcb')
  OBVIOUS
<1>1. CASE pcb' = pcb
  <2>1. NobodyDies(pcb)
    BY DEF NobodyDies
  <2> QED
    BY <1>1, <2>1, NobodyDiesFate
<1>2. CASE TimerTick
  BY <1>1, <1>2, PlainDispatchFate DEF TimerTick
<1>3. CASE Yield
  BY <1>3, PlainDispatchFate DEF Yield
<1>4. CASE CreateProcess
  BY <1>4, CreateProcessFate
<1>5. CASE ChangePrio
  BY <1>5, ChangePrioFate
<1>6. CASE Block
  BY <1>6, BlockFate
<1>7. CASE Unblock
  BY <1>7, MakeReadyFate DEF Unblock
<1>8. CASE BlockBySem
  BY <1>8, BlockBySemFate
<1>9. CASE UnblockBySem
  BY <1>9, MakeReadyFate DEF UnblockBySem
<1>10. CASE KernelReturn
  BY <1>1, <1>10 DEF KernelReturn
<1>11. CASE Kill \/ CtrlC \/ Exit
  BY <1>11, KillersFate
<1>12. CASE WaitpidReap
  BY <1>12, WaitpidReapFate
<1>13. CASE WaitpidBlock
  BY <1>13, WaitpidBlockFate
<1>14. CASE WaitpidResume
  BY <1>14, WaitpidResumeFate
<1>15. CASE UNCHANGED schedVars
  BY <1>1, <1>15 DEF schedVars
<1> QED
  BY <1>2, <1>3, <1>4, <1>5, <1>6, <1>7, <1>8, <1>9, <1>10, <1>11, <1>12, <1>13, <1>14, <1>15
     DEF Next

(* Of every step of the process core: a zombie is never brought back and a  *)
(* pid never reused, a PCB is freed by the waitpid() of its parent or with  *)
(* its death when the parent is idle, and a process asleep in waitpid() is  *)
(* woken by unblock() on its pid or by the death of the child it waits for. *)
THEOREM OnlyParentsReap == Spec => ReapedByParent
<1>1. LifeInv /\ [Next]_schedVars =>
        [/\ \A p \in Pid :
              /\ pcb[p].state = "ZOMBIE" => pcb'[p].state \in {"ZOMBIE", "FREE"}
              /\ pcb[p].state = "FREE" /\ p < nextFreePid => pcb'[p].state = "FREE"
              /\ pcb[p].state # "FREE" /\ pcb'[p].state = "FREE"
                   => pcb[p].parentPid \in {Caller, Idle}
         /\ \A c \in Context :
              LET me == frame[c].me
              IN /\ frame[c].at = "waitpid" /\ me \notin BlockTargets
                 /\ pcb[me].state = "BLOCKED" /\ pcb'[me].state \in {"READY", "RUNNING"}
                 => pcb'[frame[c].target].state \in {"ZOMBIE", "FREE"}]_schedVars
  BY NextFate DEF FateRespected
<1> QED
  BY <1>1, AlwaysLife, PTL DEF Spec, ReapedByParent

-----------------------------------------------------------------------------
(* While no running process is killed in place.                             *)

(* What a context does that nobody runs a program in.                       *)
Parked == {"halted", "hang"}

(* Every living process would resume its own context, idle a parked one;    *)
(* the context in use is the current process's; no other process is         *)
(* RUNNING.  Of any lists and current process, like the parts of LifeInv.   *)
OwnStacks(P, F, cur, e, n) ==
  /\ \A p \in Pid \ {Idle} : P[p].state \notin Gone => P[p].rsp = p
  /\ P[Idle].rsp \in Pid /\ F[P[Idle].rsp].at \in Parked
  /\ F[Idle].at \in Parked /\ F[Boot].at = "halted"
  /\ \A p \in Pid : p >= n => F[p].at = "user"
  /\ IF e = Boot THEN cur = SHELL_PID
     ELSE IF cur = Idle THEN F[e].at \in Parked ELSE e = cur
  /\ \A p \in Pid : P[p].state = "RUNNING" => p = cur

StackPart ==
  /\ OwnStacks(pcb, frame, current, cpu, nextFreePid)
  /\ cpu # Boot => currentPid = current /\ pcb[current].state = "RUNNING"

StackInv == LifeInv /\ StackPart

LEMMA InitStack == Init => StackPart
<1> SUFFICES ASSUME Init PROVE StackPart
  OBVIOUS
<1>1. /\ Idle \in Pid /\ SHELL_PID \in Pid /\ Idle # SHELL_PID /\ Pid \subseteq Context
      /\ Boot \in Context /\ Boot \notin Pid
  BY ConstantFacts DEF Idle, SHELL_PID, Boot, None
<1>2. \A p \in Pid : /\ pcb[p].state # "RUNNING"
                     /\ pcb[p].state \notin Gone /\ p # Idle => p = SHELL_PID /\ pcb[p].rsp = p
  BY <1>1 DEF Init, FreePcb, Gone
<1>3. pcb[Idle].rsp = Idle
  BY <1>1 DEF Init
<1>4. /\ \A c \in Context : frame[c].at = IF c \in {Boot, Idle} THEN "halted" ELSE "user"
      /\ cpu = Boot /\ current = SHELL_PID /\ nextFreePid = 2
  BY DEF Init, At
<1>5. \A p \in Pid : p >= 2 => p \notin {Boot, Idle}
  BY <1>1 DEF Idle
<1> QED
  BY <1>1, <1>2, <1>3, <1>4, <1>5 DEF StackPart, OwnStacks, Parked

(* The facts of the invariant.                                              *)
LEMMA StackFacts ==
  ASSUME StackInv
  PROVE  /\ LifeInv /\ OwnStacks(pcb, frame, current, cpu, nextFreePid)
         /\ current \in Pid /\ cpu \in Context /\ Boot \in Context /\ Boot \notin Pid
         /\ cpu # Boot => currentPid = current /\ pcb[current].state = "RUNNING"
         /\ frame \in [Context -> Frame] /\ Pid \subseteq Context
BY LifeFacts, InvFacts, FrameFacts, ConstantFacts DEF StackInv, StackPart, Boot, None

(* A context that runs a program, or is inside the kernel, is that of the   *)
(* current process, which is queued.                                        *)
LEMMA ProgramRuns ==
  ASSUME StackInv, frame[cpu].at \notin Parked
  PROVE  /\ cpu # Boot /\ cpu = current /\ current \in Pid \ {Idle}
         /\ InQueue("ready", current)
<1>1. cpu # Boot
  BY StackFacts DEF OwnStacks, Parked
<1>2. current # Idle /\ cpu = current /\ pcb[current].state = "RUNNING"
  BY <1>1, StackFacts DEF OwnStacks
<1>3. GoodLists(pcb, queue)
  BY StackFacts, LifeFacts, InvFacts
<1>4. PICK n \in QueueName : current \in ToSet(queue[n])
  BY <1>2, <1>3, StackFacts DEF GoodLists
<1>5. "RUNNING" \in StatesOf[n]
  BY <1>2, <1>3, <1>4 DEF GoodLists
<1>6. n = "ready"
  BY <1>5, StatesOfFacts
<1> QED
  BY <1>1, <1>2, <1>4, <1>6, StackFacts DEF InQueue

(* schedule() makes the one process it picks RUNNING, on its own stack.     *)
LEMMA DispatchStack ==
  ASSUME NEW P, NEW Q, GoodLists(P, Q), NEW cur \in Pid, NEW fg, cpu \in Context,
         P[Idle].state \in {"READY", "RUNNING"}, NEW F, NEW n,
         OwnStacks(P, F, cur, cpu, n), Dispatch(P, Q, cur, fg)
  PROVE  /\ OwnStacks(pcb', F, current', cpu', n)
         /\ currentPid' = current' /\ pcb'[current'].state = "RUNNING"
<1>1. /\ current' \in Pid /\ currentPid' = current' /\ cpu' = pcb'[current'].rsp
      /\ P[current'].state \in {"READY", "RUNNING"}
      /\ \A q \in Pid :
              /\ pcb'[q].rsp = IF q = cur /\ cpu # Boot THEN cpu ELSE P[q].rsp
              /\ pcb'[q].state = IF q = current' THEN "RUNNING"
                                 ELSE IF q = cur /\ P[q].state = "RUNNING" THEN "READY"
                                 ELSE P[q].state
  BY DispatchEffect
<1>2. Boot \notin Pid /\ Idle \in Pid /\ Context = Pid \cup {Boot}
  BY ConstantFacts DEF Boot, None, Context
<1> DEFINE R == pcb'
           nx == current'
<1>3. ASSUME NEW q \in Pid \ {Idle}, R[q].state \notin Gone PROVE R[q].rsp = q
  <2>1. P[q].state \notin Gone
    BY <1>1, <1>3 DEF Gone
  <2> QED
    BY <1>1, <1>3, <2>1 DEF OwnStacks
<1>4. R[Idle].rsp \in Pid /\ F[R[Idle].rsp].at \in Parked
  BY <1>1, <1>2 DEF OwnStacks
<1>5. nx \in Pid /\ cpu' = R[nx].rsp /\ R[nx].state = "RUNNING"
  BY <1>1
<1>6. \A q \in Pid : R[q].state = "RUNNING" => q = nx
  BY <1>1 DEF OwnStacks
<1>7. IF cpu' = Boot THEN nx = SHELL_PID
      ELSE IF nx = Idle THEN F[cpu'].at \in Parked ELSE cpu' = nx
  <2> HIDE DEF R, nx
  <2>1. CASE nx = Idle
    BY <1>2, <1>4, <1>5, <2>1
  <2>2. CASE nx # Idle
    BY <1>2, <1>3, <1>5, <2>2 DEF Gone
  <2> QED
    BY <2>1, <2>2
<1>8. F[Idle].at \in Parked /\ F[Boot].at = "halted" /\ \A p \in Pid : p >= n => F[p].at = "user"
  BY DEF OwnStacks
<1> DEFINE e == cpu'
<1>9. OwnStacks(R, F, nx, e, n)
  <2> HIDE DEF R, nx, e
  <2>1. IF e = Boot THEN nx = SHELL_PID
        ELSE IF nx = Idle THEN F[e].at \in Parked ELSE e = nx
    BY <1>7 DEF e
  <2> QED
    BY <2>1, <1>3, <1>4, <1>6, <1>8 DEF OwnStacks
<1> QED
  BY <1>1, <1>5, <1>9

(* The second stage of a step. *)
LEMMA DispatchStackPart ==
  ASSUME StackInv, NEW P, NEW Q, NEW cur \in Pid, NEW fg, GoodLists(P, Q),
         P[Idle].state \in {"READY", "RUNNING"},
         OwnStacks(P, frame', cur, cpu, nextFreePid), Dispatch(P, Q, cur, fg),
         nextFreePid' = nextFreePid
  PROVE  StackPart'
<1> DEFINE F == frame'
           n == nextFreePid
<1>1. OwnStacks(P, F, cur, cpu, n) /\ cpu \in Context
  BY StackFacts
<1> HIDE DEF F, n
<1>2. OwnStacks(pcb', F, current', cpu', n)
  BY <1>1, DispatchStack
<1>3. currentPid' = current' /\ pcb'[current'].state = "RUNNING"
  BY <1>1, DispatchStack
<1> QED
  BY <1>2, <1>3 DEF StackPart, F, n

(* A step that changes what the executing context does, when a program or a *)
(* system call runs in it.                                                  *)
LEMMA FrameStack ==
  ASSUME StackInv, frame[cpu].at \notin Parked, NEW g
  PROVE  OwnStacks(pcb, [frame EXCEPT ![cpu] = g], current, cpu, nextFreePid)
<1> DEFINE F == [frame EXCEPT ![cpu] = g]
<1>1. cpu # Boot /\ cpu = current /\ current \in Pid \ {Idle}
  BY ProgramRuns
<1>2. \A c \in Context \ {cpu} : F[c] = frame[c]
  BY StackFacts
<1> HIDE DEF F
<1>3. pcb[Idle].rsp \in Pid \ {cpu} /\ Idle \in Pid \ {cpu} /\ Pid \subseteq Context
  BY <1>1, StackFacts, ConstantFacts DEF OwnStacks
<1>4. \A p \in Pid : p >= nextFreePid => p # cpu
  BY <1>1, StackFacts, LifeFacts DEF Gone
<1>5. OwnStacks(pcb, F, current, cpu, nextFreePid)
  BY <1>1, <1>2, <1>3, <1>4, StackFacts DEF OwnStacks
<1> QED
  BY <1>5 DEF F

(* Moving a process among the living lists: the current one may only leave. *)
LEMMA MoveStack ==
  ASSUME StackInv, NEW F, OwnStacks(pcb, F, current, cpu, nextFreePid), NEW p \in Pid,
         pcb[p].state \notin Gone, NEW st, st # "RUNNING", NEW P, P = [pcb EXCEPT ![p].state = st]
  PROVE  /\ OwnStacks(P, F, current, cpu, nextFreePid)
         /\ p # current => P[current] = pcb[current]
<1>1. pcb \in [Pid -> PCB] /\ pcb[p] \in PCB
  BY StackFacts, LifeFacts, InvFacts
<1>2. P[p].state = st /\ P[p].rsp = pcb[p].rsp /\ \A q \in Pid \ {p} : P[q] = pcb[q]
  BY <1>1 DEF PCB
<1> QED
  BY <1>2, StackFacts, ConstantFacts DEF OwnStacks

(* A step that leaves the processor where it is. *)
LEMMA SameRunner ==
  ASSUME StackInv, UNCHANGED <<current, currentPid, cpu>>,
         OwnStacks(pcb', frame', current, cpu, nextFreePid'), pcb'[current].state = pcb[current].state
  PROVE  StackPart'
BY StackFacts DEF StackPart

(* schedule() from the lists as they are. *)
LEMMA PlainDispatchStack ==
  ASSUME StackInv, Dispatch(pcb, queue, current, foreground), nextFreePid' = nextFreePid,
         frame' = frame
  PROVE  StackPart'
<1>1. /\ current \in Pid /\ GoodLists(pcb, queue) /\ pcb[Idle].state \in {"READY", "RUNNING"}
      /\ OwnStacks(pcb, frame', current, cpu, nextFreePid)
  BY StackFacts, LifeFacts, InvFacts
<1> QED
  BY <1>1, DispatchStackPart

LEMMA TicksStack == StackInv /\ (TimerTick \/ Yield) => StackPart'
<1> SUFFICES ASSUME StackInv, TimerTick \/ Yield PROVE StackPart'
  OBVIOUS
<1>1. frame' = frame /\ nextFreePid' = nextFreePid
  BY DEF TimerTick, Yield
<1>2. CASE UNCHANGED <<pcb, queue, current, foreground, currentPid, cpu>>
  BY <1>1, <1>2, StackFacts, SameRunner
<1>3. CASE Dispatch(pcb, queue, current, foreground)
  BY <1>1, <1>3, PlainDispatchStack
<1> QED
  BY <1>2, <1>3 DEF TimerTick, Yield

LEMMA KernelReturnStack == StackInv /\ KernelReturn => StackPart'
<1> SUFFICES ASSUME StackInv, KernelReturn PROVE StackPart'
  OBVIOUS
<1>1. /\ frame' = [frame EXCEPT ![cpu] = At("user")] /\ frame[cpu].at \notin Parked
      /\ UNCHANGED <<pcb, queue, current, foreground, currentPid, quantum, nextFreePid, cpu>>
  BY DEF KernelReturn, InKernel, Parked
<1>2. OwnStacks(pcb, frame', current, cpu, nextFreePid)
  BY <1>1, FrameStack
<1> QED
  BY <1>1, <1>2, SameRunner

LEMMA ChangePrioStack == StackInv /\ ChangePrio => StackPart'
<1> SUFFICES ASSUME StackInv, NEW p \in Pid, NEW newPrio \in Priorities, changePrio(p, newPrio)
             PROVE  StackPart'
  BY DEF ChangePrio
<1> DEFINE R == pcb'
<1>1. \A q \in Pid : R[q].state = pcb[q].state /\ R[q].rsp = pcb[q].rsp
  BY StackFacts, LifeFacts, InvFacts DEF changePrio, PCB
<1>2. UNCHANGED <<current, currentPid, nextFreePid, cpu, frame>>
  BY DEF changePrio
<1> HIDE DEF R
<1>3. OwnStacks(R, frame, current, cpu, nextFreePid)
  BY <1>1, StackFacts, ConstantFacts DEF OwnStacks
<1> QED
  BY <1>1, <1>2, <1>3, StackFacts, SameRunner DEF R

LEMMA CreateProcessStack == StackInv /\ CreateProcess => StackPart'
<1> SUFFICES ASSUME StackInv,
                    NEW prio \in Priorities, NEW fg \in BOOLEAN, NEW tty \in BOOLEAN,
                    NEW alloc \in AllocFails \cup {"none"},
                    createProcess(prio, fg, tty, alloc)
             PROVE  StackPart'
  BY DEF CreateProcess
<1>1. /\ nextFreePid \in Pid /\ nextFreePid \in Int /\ nextFreePid # Idle
      /\ nextFreePid' = nextFreePid + 1 /\ frame[cpu].at \notin Parked
      /\ UNCHANGED <<currentPid, cpu>>
  BY StackFacts, LifeFacts, ConstantFacts
     DEF createProcess, InUser, IInv, GoodRest, Pid, Idle, Parked
<1>2. cpu # Boot /\ cpu = current /\ current \in Pid \ {Idle}
  BY <1>1, ProgramRuns
<1>3. pcb[nextFreePid].state = "FREE" /\ nextFreePid # current /\ pcb \in [Pid -> PCB]
  BY <1>1, StackFacts, LifeFacts, InvFacts, ConstantFacts DEF Gone
<1>4. \A q \in Pid : q >= nextFreePid + 1 => q >= nextFreePid /\ q # nextFreePid
  BY <1>1, ConstantFacts
<1>5. CASE alloc = "stack"
  <2>1. UNCHANGED <<pcb, queue, current, frame>>
    BY <1>5 DEF createProcess
  <2>2. OwnStacks(pcb, frame, current, cpu, nextFreePid + 1)
    BY <1>4, StackFacts DEF OwnStacks
  <2> QED
    BY <1>1, <2>1, <2>2, SameRunner
<1>6. CASE alloc # "stack"
  <2> DEFINE p == nextFreePid
             R == pcb'
             F == frame'
  <2>1. /\ R[p].rsp = p /\ R[p].state # "RUNNING"
        /\ \A q \in Pid \ {p} : R[q] = pcb[q]
        /\ F = [frame EXCEPT ![p] = At("user")]
        /\ current' = current
    BY <1>1, <1>2, <1>3, <1>6 DEF createProcess
  <2>2. F[p].at = "user" /\ \A c \in Context \ {p} : F[c] = frame[c]
    BY <1>1, <2>1, StackFacts DEF At
  <2> HIDE DEF R, F
  <2>3. frame[p].at = "user"
    <3>1. p >= nextFreePid
      BY <1>1
    <3> QED
      BY <3>1, <1>1, StackFacts DEF OwnStacks
  <2>4. pcb[Idle].rsp \in Pid \ {p}
    BY <2>3, StackFacts DEF OwnStacks, Parked
  <2>5. /\ p \in Pid /\ p # Idle /\ p # current /\ Idle \in Context \ {p} /\ Boot \in Context \ {p}
        /\ pcb[Idle].rsp \in Context \ {p}
    BY <1>1, <1>3, <2>4, StackFacts, ConstantFacts
  <2> HIDE DEF p
  <2>6. \A q \in Pid \ {Idle} : R[q].state \notin Gone => R[q].rsp = q
    BY <2>1, StackFacts DEF OwnStacks
  <2>7. R[Idle].rsp \in Pid /\ F[R[Idle].rsp].at \in Parked
    BY <2>1, <2>2, <2>5, StackFacts, ConstantFacts DEF OwnStacks
  <2>8. F[Idle].at \in Parked /\ F[Boot].at = "halted"
    BY <2>2, <2>5, StackFacts DEF OwnStacks
  <2>9. \A q \in Pid : q >= nextFreePid + 1 => F[q].at = "user"
    BY <1>4, <2>2, StackFacts DEF OwnStacks, p
  <2>10. \A q \in Pid : R[q].state = "RUNNING" => q = current
    BY <2>1, StackFacts DEF OwnStacks
  <2>11. OwnStacks(R, F, current, cpu, nextFreePid + 1)
    BY <1>2, <2>6, <2>7, <2>8, <2>9, <2>10 DEF OwnStacks
  <2>12. R[current].state = pcb[current].state
    BY <1>2, <2>1, <2>5
  <2> QED
    BY <1>1, <2>1, <2>11, <2>12, SameRunner DEF R, F
<1> QED
  BY <1>5, <1>6

LEMMA MakeReadyStack ==
  ASSUME StackInv, NEW from \in {"blocked", "blockedBySem"}, NEW p, MakeReady(from, p)
  PROVE  StackPart'
<1> DEFINE P == [pcb EXCEPT ![p].state = "READY"]
<1>1. /\ from \in QueueName /\ p \in ToSet(queue[from]) /\ pcb' = P
      /\ UNCHANGED <<current, currentPid, nextFreePid, cpu, frame>>
  BY QueueNames DEF MakeReady, InQueue
<1>2. p \in Pid /\ pcb[p].state \in StatesOf[from]
  BY <1>1, StackFacts, LifeFacts, InvFacts DEF GoodLists
<1>3. pcb[p].state \notin Gone /\ pcb[p].state \notin {"READY", "RUNNING"}
  BY <1>1, <1>2, QueueNames DEF StatesOf, Gone
<1> HIDE DEF P
<1>4. OwnStacks(P, frame, current, cpu, nextFreePid) /\ (p # current => P[current] = pcb[current])
  BY <1>2, <1>3, StackFacts, MoveStack DEF P
<1>5. CASE p # current
  BY <1>1, <1>4, <1>5, SameRunner
<1>6. CASE p = current
  <2>1. cpu = Boot
    BY <1>3, <1>6, StackFacts
  <2> QED
    BY <1>1, <1>4, <2>1 DEF StackPart
<1> QED
  BY <1>5, <1>6

LEMMA BlockStack == StackInv /\ Block => StackPart'
<1> SUFFICES ASSUME StackInv, NEW p \in BlockTargets, blockProcess(pcb, p),
                    nextFreePid' = nextFreePid, frame' = frame
             PROVE  StackPart'
  BY DEF Block
<1> DEFINE from == IF InQueue("ready", p) THEN "ready" ELSE "blockedBySem"
           P == [pcb EXCEPT ![p].state = "BLOCKED"]
           S == switchProcess(queue, from, "blocked", p)
<1>1. /\ from \in QueueName /\ from # "blocked" /\ from # "zombie" /\ p \in ToSet(queue[from])
      /\ IF p = current THEN Dispatch(P, S, current, foreground)
         ELSE pcb' = P /\ UNCHANGED <<current, currentPid, cpu>>
  BY QueueNames DEF blockProcess, CanBlock, InQueue
<1>2. /\ "blocked" \in QueueName /\ "BLOCKED" \in ProcessState \ Gone
      /\ "BLOCKED" \in StatesOf["blocked"]
  BY QueueNames, StatesOfFacts DEF ProcessState, Gone
<1> HIDE DEF from, P
<1>3. GoodLists(P, S) /\ ForegroundLives(P, foreground)
  BY <1>1, <1>2, StackFacts, MoveUndisturbed DEF P
<1> HIDE DEF S
<1>4. p \in Pid /\ pcb[p].state \in StatesOf[from]
  BY <1>1, StackFacts, LifeFacts, InvFacts DEF GoodLists
<1>5. pcb[p].state \notin Gone
  BY <1>1, <1>4, StatesOfFacts DEF Gone
<1>6. OwnStacks(P, frame, current, cpu, nextFreePid) /\ (p # current => P[current] = pcb[current])
  BY <1>4, <1>5, StackFacts, MoveStack DEF P
<1>7. CASE p = current
  BY <1>1, <1>3, <1>6, <1>7, StackFacts, DispatchStackPart DEF ForegroundLives
<1>8. CASE p # current
  BY <1>1, <1>6, <1>8, SameRunner
<1> QED
  BY <1>7, <1>8

LEMMA BlockBySemStack == StackInv /\ BlockBySem => StackPart'
<1> SUFFICES ASSUME StackInv, BlockBySem PROVE StackPart'
  OBVIOUS
<1> DEFINE P == [pcb EXCEPT ![current].state = "WAITING_SEM"]
           S == switchProcess(queue, "ready", "blockedBySem", current)
<1>1. /\ current \in ToSet(queue["ready"]) /\ Dispatch(P, S, current, foreground)
      /\ frame' = [frame EXCEPT ![cpu] = At("kernel")] /\ nextFreePid' = nextFreePid
      /\ frame[cpu].at \notin Parked
  BY DEF BlockBySem, InQueue, InUser, InKernel, Parked
<1>2. /\ "ready" \in QueueName /\ "blockedBySem" \in QueueName
      /\ "WAITING_SEM" \in ProcessState \ Gone /\ "WAITING_SEM" \in StatesOf["blockedBySem"]
  BY QueueNames, StatesOfFacts DEF ProcessState, Gone
<1> HIDE DEF P
<1>3. GoodLists(P, S) /\ ForegroundLives(P, foreground)
  BY <1>1, <1>2, StackFacts, MoveUndisturbed DEF P
<1> HIDE DEF S
<1>4. current \in Pid /\ pcb[current].state \notin Gone
  BY StackFacts, LifeFacts
<1> DEFINE F == frame'
<1>5. OwnStacks(pcb, F, current, cpu, nextFreePid)
  BY <1>1, FrameStack
<1> HIDE DEF F
<1>6. OwnStacks(P, F, current, cpu, nextFreePid)
  BY <1>4, <1>5, MoveStack DEF P
<1> QED
  BY <1>1, <1>3, <1>6, StackFacts, DispatchStackPart DEF ForegroundLives, F

(* What kill() does to the stack pointers and to who is RUNNING.            *)
LEMMA KillKeepsStacks ==
  ASSUME IInv, NEW n \in Living, NEW p \in ToSet(queue[n]), NEW woken,
         woken = wakeupWaitingParent([pcb EXCEPT ![p].state = "ZOMBIE"],
                                     switchProcess(queue, n, "zombie", p), pcb[p].parentPid, p)
  PROVE  \A q \in Pid \ {p} :
           /\ woken.pcb[q].rsp = pcb[q].rsp
           /\ \/ woken.pcb[q].state = pcb[q].state
              \/ pcb[q].state = "BLOCKED" /\ woken.pcb[q].state = "READY"
<1> DEFINE R == woken.pcb
           S == woken.queue
<1>1. IInv
  OBVIOUS
<1>2. \A q \in Pid \ {p} :
        /\ R[q].parentPid = pcb[q].parentPid
        /\ R[q].waitingForPid = pcb[q].waitingForPid
        /\ R[q].rsp = pcb[q].rsp /\ R[q].foreground = pcb[q].foreground
        /\ \/ R[q].state = pcb[q].state
           \/ /\ pcb[q].state = "BLOCKED" /\ pcb[q].waitingForPid = p /\ q # Idle
              /\ R[q].state = "READY"
        /\ Queued(queue, q) => Queued(S, q)
        /\ q # Idle /\ q \in ToSet(queue["blocked"]) /\ pcb[q].waitingForPid = p
             /\ pcb[p].parentPid = q => R[q].state = "READY"
  BY ONLY <1>1, KillEffect, n \in Living, p \in ToSet(queue[n]),
     woken = wakeupWaitingParent([pcb EXCEPT ![p].state = "ZOMBIE"],
                                 switchProcess(queue, n, "zombie", p), pcb[p].parentPid, p)
<1> HIDE DEF R, S
<1>3. \A q \in Pid \ {p} :
        /\ R[q].rsp = pcb[q].rsp
        /\ \/ R[q].state = pcb[q].state
           \/ pcb[q].state = "BLOCKED" /\ R[q].state = "READY"
  BY ONLY <1>2
<1> QED
  BY ONLY <1>3 DEF R

(* kill() of another process than the current one. *)
LEMMA KillOtherStack ==
  ASSUME StackInv, NEW p \in Pid, p # current, p # currentPid, kill(p), frame' = frame
  PROVE  StackPart'
<1>1. PICK n \in Living :
        /\ p \in ToSet(queue[n])
        /\ pcb' = wakeupWaitingParent([pcb EXCEPT ![p].state = "ZOMBIE"],
                                      switchProcess(queue, n, "zombie", p),
                                      pcb[p].parentPid, p).pcb
        /\ UNCHANGED <<current, currentPid, cpu, nextFreePid>>
  BY DEF kill, InQueue
<1> DEFINE woken == wakeupWaitingParent([pcb EXCEPT ![p].state = "ZOMBIE"],
                                        switchProcess(queue, n, "zombie", p),
                                        pcb[p].parentPid, p)
           R == woken.pcb
<1>2. pcb' = R
  BY <1>1
<1>3. IInv
  BY StackFacts, LifeFacts
<1>4. R[p].state \in Gone /\ p # Idle
  BY <1>1, <1>3, KillEffect
<1>5. \A q \in Pid \ {p} : /\ R[q].rsp = pcb[q].rsp
                           /\ \/ R[q].state = pcb[q].state
                              \/ pcb[q].state = "BLOCKED" /\ R[q].state = "READY"
  BY <1>1, <1>3, KillKeepsStacks
<1> HIDE DEF woken, R
<1>6. OwnStacks(R, frame, current, cpu, nextFreePid)
  <2>1. \A q \in Pid \ {Idle} : R[q].state \notin Gone => R[q].rsp = q
    BY <1>4, <1>5, StackFacts DEF OwnStacks, Gone
  <2>2. R[Idle].rsp = pcb[Idle].rsp
    BY <1>4, <1>5, ConstantFacts
  <2>3. \A q \in Pid : R[q].state = "RUNNING" => q = current
    BY <1>4, <1>5, StackFacts DEF OwnStacks, Gone
  <2> QED
    BY <2>1, <2>2, <2>3, StackFacts DEF OwnStacks
<1>7. CASE cpu # Boot
  <2>1. pcb[current].state = "RUNNING"
    BY <1>7, StackFacts
  <2>2. R[current].state = pcb[current].state
    BY <2>1, <1>5, StackFacts
  <2> QED
    BY <2>2, <1>1, <1>2, <1>6, SameRunner
<1>8. CASE cpu = Boot
  BY <1>1, <1>2, <1>6, <1>8 DEF StackPart
<1> QED
  BY <1>7, <1>8

LEMMA KillStack == StackInv /\ ~SelfKill /\ Kill => StackPart'
<1> SUFFICES ASSUME StackInv, NEW p \in Pid, InUser, p # currentPid, kill(p), frame' = frame
             PROVE  StackPart'
  BY DEF Kill
<1>1. p # current
  BY StackFacts, ProgramRuns DEF InUser, Parked
<1> QED
  BY <1>1, KillOtherStack

LEMMA CtrlCStack == StackInv /\ ~SelfKill /\ CtrlC => StackPart'
<1> SUFFICES ASSUME StackInv, foreground # currentPid, kill(foreground), frame' = frame
             PROVE  StackPart'
  BY DEF CtrlC
<1>1. foreground > SHELL_PID
  BY DEF kill
<1>2. foreground \in Pid /\ foreground # SHELL_PID
  BY <1>1, StackFacts, LifeFacts, InvFacts DEF SHELL_PID, None
<1>3. foreground # current
  BY <1>2, StackFacts DEF OwnStacks
<1> QED
  BY <1>2, <1>3, KillOtherStack

(* exit: the dead context becomes the one idle is resumed in, and it is     *)
(* parked in the loop behind the exit call.                                 *)
LEMMA ExitStack == StackInv /\ Exit => StackPart'
<1> SUFFICES ASSUME StackInv, Exit PROVE StackPart'
  OBVIOUS
<1>1. frame' = [frame EXCEPT ![cpu] = At("hang")] /\ frame[cpu].at \notin Parked
  BY DEF Exit, InUser, InKernel, Parked
<1>2. cpu # Boot /\ cpu = current /\ current \in Pid \ {Idle} /\ InQueue("ready", current)
      /\ currentPid = current /\ cpu \in Context
  BY <1>1, ProgramRuns, StackFacts
<1> DEFINE F == frame'
<1>3. OwnStacks(pcb, F, current, cpu, nextFreePid) /\ F[cpu].at \in Parked
  <2>1. F[cpu].at \in Parked
    BY <1>1, <1>2, StackFacts DEF At, Parked
  <2> QED
    BY <2>1, <1>1, FrameStack
<1>4. CASE kill(current)
  <2>1. PICK n \in Living :
        /\ current \in ToSet(queue[n])
        /\ LET woken == wakeupWaitingParent([pcb EXCEPT ![current].state = "ZOMBIE"],
                                            switchProcess(queue, n, "zombie", current),
                                            pcb[current].parentPid, current)
           IN Dispatch(woken.pcb, woken.queue, Idle, foregroundAfterKill(current))
    BY <1>2, <1>4, QueueNames DEF kill, InQueue
  <2> DEFINE p == current
             woken == wakeupWaitingParent([pcb EXCEPT ![p].state = "ZOMBIE"],
                                          switchProcess(queue, n, "zombie", p),
                                          pcb[p].parentPid, p)
             R == woken.pcb
             S == woken.queue
             fg == foregroundAfterKill(p)
  <2>2. Dispatch(R, S, Idle, fg) /\ nextFreePid' = nextFreePid
    BY <2>1, <1>4 DEF kill
  <2>3. IInv /\ p \in ToSet(queue[n])
    BY <2>1, StackFacts, LifeFacts
  <2>4. GoodLists(R, S)
    BY <2>3, KillEffect
  <2>5. R[p].state \in Gone /\ p # Idle
    BY <2>3, KillEffect
  <2>6. \A q \in Pid \ {p} : /\ R[q].rsp = pcb[q].rsp
                             /\ \/ R[q].state = pcb[q].state
                                \/ pcb[q].state = "BLOCKED" /\ R[q].state = "READY"
    BY <2>3, KillKeepsStacks
  <2>7. ForegroundLives(R, fg)
    BY <2>3, StackFacts, KillUndisturbed
  <2> HIDE DEF woken, R, S, fg
  <2>8. \A q \in Pid : R[q].state # "RUNNING"
    BY <2>5, <2>6, StackFacts DEF OwnStacks, Gone
  <2>9. \A q \in Pid \ {Idle} : R[q].state \notin Gone => R[q].rsp = q
    BY <2>5, <2>6, StackFacts DEF OwnStacks, Gone
  <2>10. R[Idle].rsp = pcb[Idle].rsp
    BY <2>5, <2>6, ConstantFacts
  <2> HIDE DEF F
  <2>11. OwnStacks(R, F, Idle, cpu, nextFreePid)
    BY <2>8, <2>9, <2>10, <1>2, <1>3 DEF OwnStacks
  <2> QED
    BY <2>2, <2>4, <2>7, <2>11, ConstantFacts, DispatchStackPart DEF ForegroundLives, F
<1>5. CASE UNCHANGED <<pcb, queue, current, foreground, currentPid, quantum, nextFreePid, cpu>>
  BY <1>3, <1>5, SameRunner
<1> QED
  BY <1>4, <1>5 DEF Exit

LEMMA ReapStack ==
  ASSUME StackInv, NEW p \in Pid, pcb[p].state = "ZOMBIE", NEW parent \in Pid,
         reapChild(parent, p), OwnStacks(pcb, frame', current, cpu, nextFreePid)
  PROVE  StackPart'
<1> DEFINE R == pcb'
           F == frame'
<1>1. /\ p # Idle /\ p # current /\ R[p].state = "FREE"
      /\ \A q \in Pid \ {p} : R[q].state = pcb[q].state /\ R[q].rsp = pcb[q].rsp
      /\ UNCHANGED <<current, currentPid, nextFreePid, cpu>>
  BY StackFacts, ReapEffect
<1>2. OwnStacks(pcb, F, current, cpu, nextFreePid)
  OBVIOUS
<1> HIDE DEF R, F
<1>3. OwnStacks(R, F, current, cpu, nextFreePid)
  BY <1>1, <1>2, ConstantFacts DEF OwnStacks, Gone
<1>4. R[current].state = pcb[current].state
  BY <1>1, StackFacts
<1> QED
  BY <1>1, <1>3, <1>4, SameRunner DEF R, F

LEMMA WaitpidReapStack == StackInv /\ WaitpidReap => StackPart'
<1> SUFFICES ASSUME StackInv, NEW p \in Pid, pcb[p].state = "ZOMBIE",
                    reapChild(current, p), frame' = frame
             PROVE  StackPart'
  BY DEF WaitpidReap
<1> QED
  BY StackFacts, ReapStack

LEMMA WaitpidResumeStack == StackInv /\ WaitpidResume => StackPart'
<1> SUFFICES ASSUME StackInv, WaitpidResume PROVE StackPart'
  OBVIOUS
<1>1. /\ frame[cpu].at = "waitpid" /\ frame[cpu].at \notin Parked
      /\ frame' = [frame EXCEPT ![cpu] = At("user")]
  BY DEF WaitpidResume, Parked
<1>2. OwnStacks(pcb, frame', current, cpu, nextFreePid)
  BY <1>1, FrameStack
<1>3. CASE pcb[frame[cpu].target].state = "ZOMBIE" /\ reapChild(frame[cpu].me, frame[cpu].target)
  <2>1. InWaitpid(pcb, queue, frame[cpu], cpu, current, cpu, nextFreePid)
    BY <1>1, StackFacts, LifeFacts DEF Waits
  <2>2. frame[cpu].me \in Pid /\ frame[cpu].target \in Pid
    BY <2>1 DEF InWaitpid
  <2> QED
    BY <1>2, <1>3, <2>2, ReapStack
<1>4. CASE UNCHANGED <<pcb, queue, current, foreground, currentPid, quantum, nextFreePid, cpu>>
  BY <1>2, <1>4, SameRunner
<1> QED
  BY <1>3, <1>4 DEF WaitpidResume

LEMMA WaitpidBlockStack == StackInv /\ WaitpidBlock => StackPart'
<1> SUFFICES ASSUME StackInv, NEW p \in Pid, InUser, nextFreePid' = nextFreePid,
                    \/ /\ blockProcess([pcb EXCEPT ![current].waitingForPid = p], current)
                       /\ frame' = [frame EXCEPT ![cpu] = [at |-> "waitpid", me |-> current, target |-> p]]
                    \/ ~CanBlock(current)
             PROVE  StackPart'
  BY DEF WaitpidBlock
<1>1. frame[cpu].at \notin Parked
  BY DEF InUser, Parked
<1>2. CanBlock(current)
  BY <1>1, ProgramRuns DEF CanBlock
<1>3. frame' = [frame EXCEPT ![cpu] = [at |-> "waitpid", me |-> current, target |-> p]]
      /\ blockProcess([pcb EXCEPT ![current].waitingForPid = p], current)
  BY <1>2
<1> DEFINE F == frame'
<1>4. OwnStacks(pcb, F, current, cpu, nextFreePid)
  BY <1>1, <1>3, FrameStack
<1>5. PICK P, S :
           /\ current \in Pid \ {Idle} /\ pcb[current].state # "BLOCKED"
           /\ Dispatch(P, S, current, foreground)
           /\ GoodLists(P, S) /\ ForegroundLives(P, foreground)
           /\ P[current].state = "BLOCKED"
           /\ P[current].waitingForPid = p /\ P[current].parentPid = pcb[current].parentPid
           /\ P[current].rsp = pcb[current].rsp
           /\ \A q \in Pid \ {current} : P[q] = pcb[q]
           /\ \A q \in Pid : Queued(queue, q) => Queued(S, q)
           /\ Queued(S, current)
  BY <1>3, StackFacts, SleepLists
<1> HIDE DEF F
<1>6. OwnStacks(P, F, current, cpu, nextFreePid)
  <2>1. pcb[current].state \notin Gone
    BY StackFacts, LifeFacts
  <2> QED
    BY <2>1, <1>4, <1>5, ConstantFacts DEF OwnStacks
<1> QED
  BY <1>5, <1>6, DispatchStackPart DEF ForegroundLives, F

LEMMA NextStack == StackInv /\ ~SelfKill /\ [Next]_schedVars => StackInv'
<1> SUFFICES ASSUME StackInv, ~SelfKill, [Next]_schedVars PROVE StackInv'
  OBVIOUS
<1>1. LifeInv'
  BY StackFacts, NextLife
<1>2. StackPart'
  <2>1. CASE UNCHANGED schedVars
    BY <2>1, StackFacts, SameRunner DEF schedVars
  <2>2. CASE Unblock
    BY <2>2, MakeReadyStack DEF Unblock
  <2>3. CASE UnblockBySem
    BY <2>3, MakeReadyStack DEF UnblockBySem
  <2>4. CASE Next
    BY <2>2, <2>3, <2>4, TicksStack, CreateProcessStack, ChangePrioStack, BlockStack, BlockBySemStack,
       KernelReturnStack, KillStack, CtrlCStack, ExitStack,
       WaitpidReapStack, WaitpidBlockStack, WaitpidResumeStack DEF Next
  <2> QED
    BY <2>1, <2>4
<1> QED
  BY <1>1, <1>2 DEF StackInv

LEMMA AlwaysStack == ASSUME ~SelfKill PROVE Spec => []StackInv
<1>1. Init => StackInv
  BY InitInv, InitLife, InitStack DEF LifeInv, StackInv
<1>2. StackInv /\ [Next]_schedVars => StackInv'
  BY NextStack
<1> QED
  BY <1>1, <1>2, PTL DEF Spec

(* While no running process is killed in place, one process is RUNNING from *)
(* the first switch on, list->currentProcess is that one, and so is the     *)
(* currentPid of scheduler.c: the three never drift apart.                  *)
THEOREM OneProcessRuns == ASSUME ~SelfKill PROVE Spec => []OneRunning
<1>1. StackInv => OneRunning
  BY StackFacts DEF OneRunning, OwnStacks
<1> QED
  BY <1>1, AlwaysStack, PTL

(* While no running process is killed in place, every process but idle runs *)
(* on the stack createProcess() gave it, and is saved there: no two PCBs    *)
(* resume one context, though exit leaves idle on the stack of the dead.    *)
THEOREM StacksAreNotShared == ASSUME ~SelfKill PROVE Spec => []RunsOwnStack
<1>1. StackInv => RunsOwnStack
  BY StackFacts DEF RunsOwnStack, OwnStacks, Alive, Gone
<1> QED
  BY <1>1, AlwaysStack, PTL
=============================================================================
