------------------------------ MODULE Scheduler ------------------------------
(***************************************************************************)
(* The process core of the kernel: Kernel/process/process.c (the process   *)
(* lists), Kernel/process/scheduler.c (creation, dispatch, blocking, kill, *)
(* waitpid) and the context switch of Kernel/asm/interrupts.asm.           *)
(*                                                                         *)
(* There is one CPU and every kernel entry is an interrupt gate, so a      *)
(* system call runs alone up to the point where it gives the CPU away      *)
(* (int 20h): one action is one kernel entry up to that point, and what it *)
(* does when it is resumed is an action of its own.  A context is a stack; *)
(* cpu is the context whose stack is in use, current is the process the    *)
(* kernel believes to be running.  The code keeps the two apart (a PCB's   *)
(* rsp is whatever the last switch stored there) and so does the model.    *)
(* The contents of a freed stack are taken to survive until it is resumed. *)
(***************************************************************************)
EXTENDS Integers, Sequences, FiniteSets, SequencesExt

CONSTANTS
  MaxPid,       \* bound: the pids the model hands out are 0 .. MaxPid
  QUANTUM,
  MAX_PRIORITY,
  Priorities,   \* the int8_t priorities callers ask for
  BlockTargets, \* the pids given to the block and unblock system calls
  AllocFails,   \* which allocations of createProcess may fail
  SelfKill      \* may the running process be killed in place (Ctrl-C, kill)?

ASSUME SchedulerAssumption ==
  /\ MaxPid \in Nat /\ MaxPid >= 2
  /\ QUANTUM \in Nat \ {0}
  /\ MAX_PRIORITY \in 1 .. 126
  /\ Priorities \subseteq -128 .. 127
  /\ BlockTargets \subseteq 0 .. MaxPid
  /\ AllocFails \subseteq {"stack", "node"}
  /\ SelfKill \in BOOLEAN

VARIABLES
  pcb,         \* the PCB of each pid
  queue,       \* the four process queues of the process manager
  current,     \* list->currentProcess
  foreground,  \* list->foregroundProcess
  currentPid,  \* the static of scheduler.c, written by schedule() only
  quantum,
  nextFreePid,
  cpu,         \* the context that is executing
  frame        \* what each context does when it runs

schedVars ==
  <<pcb, queue, current, foreground, currentPid, quantum, nextFreePid, cpu, frame>>

-----------------------------------------------------------------------------
Pid == 0 .. MaxPid
None == -1             \* no process
Boot == -1             \* the context of main(), until the first switch
Context == Pid \cup {Boot}
Idle == 0
SHELL_PID == 1
MIN_PRIORITY == 0
IDLE_PRIORITY == MAX_PRIORITY + 1

(* ProcessState; a pid that has no PCB (yet, or any more) is FREE. *)
ProcessState == {"READY", "RUNNING", "BLOCKED", "ZOMBIE", "WAITING_SEM", "FREE"}

(* The values the C enumeration gives to the states. *)
StateCode(s) ==
  CASE s = "READY" -> 0 [] s = "RUNNING" -> 1 [] s = "BLOCKED" -> 2
    [] s = "ZOMBIE" -> 3 [] s = "WAITING_SEM" -> 6

Living == {"ready", "blocked", "blockedBySem"}
QueueName == Living \cup {"zombie"}

FreePcb == [state |-> "FREE", parentPid |-> None, waitingForPid |-> None,
            priority |-> 0, foreground |-> FALSE, rsp |-> None]

(* user: runs its program and may enter the kernel; halted: the hlt loop of *)
(* idle() and main(); hang: the loop behind the exit call of the wrapper;   *)
(* waitpid: inside waitpid(), given the CPU back after blockProcess();      *)
(* kernel: inside another system call, behind a blockProcessBySem().        *)
At(a) == [at |-> a, me |-> None, target |-> None]

InQueue(n, p) == p \in ToSet(queue[n])
InSomeQueue(p) == \E n \in QueueName : InQueue(n, p)

(* getProcess() finds p. *)
getProcess(p) == p \in {current, Idle} \/ InSomeQueue(p)

\* Faulty: one priority step too many, and no case for idle.
calculateQuantum_OffByOne(priority) == QUANTUM * (MAX_PRIORITY - priority + 2)

calculateQuantum(priority) ==
  IF priority = IDLE_PRIORITY THEN QUANTUM
  ELSE QUANTUM * (MAX_PRIORITY - priority + 1)

\* Faulty: the node is enqueued without being taken out of its queue.
switchProcess_NoRemove(Q, from, to, p) == [Q EXCEPT ![to] = Append(@, p)]

switchProcess(Q, from, to, p) ==
  [Q EXCEPT ![from] = RemoveFirst(@, p), ![to] = Append(@, p)]

removeZombieProcess(Q, p) == [Q EXCEPT !["zombie"] = RemoveFirst(@, p)]

-----------------------------------------------------------------------------
(* After initScheduler() and the creation of the shell in main(). *)
Init ==
  /\ pcb = [p \in Pid |->
       IF p = Idle THEN [state |-> "READY", parentPid |-> None, waitingForPid |-> None,
                         priority |-> IDLE_PRIORITY, foreground |-> FALSE, rsp |-> Idle]
       ELSE IF p = SHELL_PID THEN [state |-> "READY", parentPid |-> Idle, waitingForPid |-> None,
                         priority |-> 0, foreground |-> TRUE, rsp |-> SHELL_PID]
       ELSE FreePcb]
  /\ queue = [n \in QueueName |-> IF n = "ready" THEN <<SHELL_PID>> ELSE <<>>]
  /\ current = SHELL_PID
  /\ foreground = None
  /\ currentPid = None
  /\ quantum = 0
  /\ nextFreePid = 2
  /\ cpu = Boot
  /\ frame = [c \in Context |-> At(IF c \in {Boot, Idle} THEN "halted" ELSE "user")]

InUser == frame[cpu].at = "user"
Interruptible == frame[cpu].at \in {"user", "halted", "hang"}

InKernel == frame[cpu].at = "kernel"

\* Faulty: the flag of the first switch is not tested.
saveContext_NoFirst(P, cur) ==
  [P EXCEPT ![cur].rsp = cpu, ![cur].state = IF @ = "RUNNING" THEN "READY" ELSE @]

\* Faulty: the process that loses the CPU stays RUNNING.
saveContext_NoDemotion(P, cur) == [P EXCEPT ![cur].rsp = IF cpu = Boot THEN @ ELSE cpu]

(* The current process stores its stack pointer and stops running; the      *)
(* first switch (static first, here cpu = Boot) stores nothing.             *)
saveContext(P, cur) ==
  LET me == P[cur]
  IN [P EXCEPT ![cur] = [me EXCEPT !.rsp = IF cpu = Boot THEN @ ELSE cpu,
                                   !.state = IF @ = "RUNNING" THEN "READY" ELSE @]]

\* Faulty: the next process stays at the head of the ready queue.
rotateReady_NoRotation(Q) == Q

(* The process getNextProcess() picks goes from the head of the ready queue *)
(* to its tail; it stays in the queue while it runs.                        *)
rotateReady(Q) ==
  [Q EXCEPT !["ready"] = IF @ = <<>> THEN @ ELSE Append(Tail(@), Head(@))]

(* schedule() from its line 139 on, with the lists as P and Q, the current  *)
(* process cur and the foreground process fg.                               *)
Dispatch(P, Q, cur, fg) ==
  LET next  == IF Q["ready"] = <<>> THEN Idle ELSE Head(Q["ready"])
      saved == saveContext(P, cur)
  IN /\ pcb' = [saved EXCEPT ![next].state = "RUNNING"]
     /\ queue' = rotateReady(Q)
     /\ current' = next
     /\ foreground' = IF P[next].foreground THEN next ELSE fg
     /\ currentPid' = next
     /\ quantum' = calculateQuantum(P[next].priority)
     /\ cpu' = saved[next].rsp

TimerTick ==
  /\ Interruptible
  /\ UNCHANGED <<nextFreePid, frame>>
  /\ \/ /\ quantum > 0 /\ pcb[current].state = "RUNNING"
        /\ quantum' = quantum - 1
        /\ UNCHANGED <<pcb, queue, current, foreground, currentPid, cpu>>
     \/ /\ ~(quantum > 0 /\ pcb[current].state = "RUNNING")
        /\ Dispatch(pcb, queue, current, foreground)

Yield ==
  /\ InUser
  /\ Dispatch(pcb, queue, current, foreground)
  /\ UNCHANGED <<nextFreePid, frame>>

-----------------------------------------------------------------------------
(* createProcess().  A caller asks for priority prio (it arrives as a       *)
(* uint8_t), foreground or background, standard input from the terminal or  *)
(* not; alloc names the allocation that fails, if one does.  A background   *)
(* process that would read the terminal is created blocked.                 *)
createProcess(prio, fg, tty, alloc) ==
  /\ InUser
  /\ nextFreePid <= MaxPid
  /\ nextFreePid' = nextFreePid + 1
  /\ UNCHANGED <<foreground, currentPid, quantum, cpu>>
  /\ IF alloc = "stack"
     THEN UNCHANGED <<pcb, queue, current, frame>>
     ELSE LET p        == nextFreePid
              asked    == prio % 256
              priority == IF asked > IDLE_PRIORITY THEN MAX_PRIORITY ELSE asked
              blocked  == ~fg /\ tty
              added    == ~blocked /\ priority # IDLE_PRIORITY
              dest     == IF blocked THEN "blocked" ELSE "ready"
          IN /\ pcb' = [pcb EXCEPT ![p] =
                  [state |-> IF blocked THEN "BLOCKED" ELSE "READY",
                   parentPid |-> current, waitingForPid |-> None,
                   priority |-> priority, foreground |-> fg, rsp |-> p]]
             /\ frame' = [frame EXCEPT ![p] = At("user")]
             /\ current' = IF added /\ current = Idle THEN p ELSE current
             /\ queue' = IF (blocked \/ added) /\ alloc # "node"
                         THEN [queue EXCEPT ![dest] = Append(@, p)]
                         ELSE queue

CreateProcess ==
  \E prio \in Priorities, fg \in BOOLEAN, tty \in BOOLEAN, alloc \in AllocFails \cup {"none"} :
    createProcess(prio, fg, tty, alloc)

changePrio(p, newPrio) ==
  /\ InUser
  /\ p > SHELL_PID /\ getProcess(p)
  /\ pcb' = [pcb EXCEPT ![p].priority =
       IF newPrio < MIN_PRIORITY THEN MIN_PRIORITY
       ELSE IF newPrio > MAX_PRIORITY THEN MAX_PRIORITY ELSE newPrio]
  /\ UNCHANGED <<queue, current, foreground, currentPid, quantum, nextFreePid, cpu, frame>>

ChangePrio == \E p \in Pid, newPrio \in Priorities : changePrio(p, newPrio)

-----------------------------------------------------------------------------
(* blockProcessQueue() finds p in the ready queue or among the semaphore    *)
(* sleepers; blockProcess() gives the CPU away when p is the caller.        *)
CanBlock(p) == InQueue("ready", p) \/ InQueue("blockedBySem", p)

blockProcess(P, p) ==
  LET from == IF InQueue("ready", p) THEN "ready" ELSE "blockedBySem"
      P1   == [P EXCEPT ![p].state = "BLOCKED"]
      Q1   == switchProcess(queue, from, "blocked", p)
  IN /\ CanBlock(p)
     /\ IF p = current THEN Dispatch(P1, Q1, current, foreground)
        ELSE /\ pcb' = P1 /\ queue' = Q1
             /\ UNCHANGED <<current, foreground, currentPid, quantum, cpu>>

Block ==
  \E p \in BlockTargets :
    /\ InUser
    /\ blockProcess(pcb, p)
    /\ UNCHANGED <<nextFreePid, frame>>

(* unblockProcessQueue() and unblockProcessQueueBySem(): they differ only   *)
(* in the queue they take p from.                                           *)
MakeReady(from, p) ==
  /\ InQueue(from, p)
  /\ queue' = switchProcess(queue, from, "ready", p)
  /\ pcb' = [pcb EXCEPT ![p].state = "READY"]
  /\ UNCHANGED <<current, foreground, currentPid, quantum, nextFreePid, cpu, frame>>

Unblock == \E p \in BlockTargets : InUser /\ MakeReady("blocked", p)

(* blockProcessBySem(), as wait() calls it: always for the caller, from a   *)
(* system call (which then goes on in the kernel) or from the keyboard      *)
(* interrupt of a running program.                                          *)
BlockBySem ==
  /\ InUser \/ InKernel
  /\ InQueue("ready", current)
  /\ Dispatch([pcb EXCEPT ![current].state = "WAITING_SEM"],
              switchProcess(queue, "ready", "blockedBySem", current),
              current, foreground)
  /\ frame' = [frame EXCEPT ![cpu] = At("kernel")]
  /\ UNCHANGED nextFreePid

(* unblockProcessBySem(), as post() calls it from a system call or from the *)
(* keyboard interrupt.                                                      *)
UnblockBySem ==
  \E p \in Pid : (Interruptible \/ InKernel) /\ MakeReady("blockedBySem", p)

(* A system call that slept on a semaphore ends. *)
KernelReturn ==
  /\ InKernel
  /\ frame' = [frame EXCEPT ![cpu] = At("user")]
  /\ UNCHANGED <<pcb, queue, current, foreground, currentPid, quantum, nextFreePid, cpu>>

-----------------------------------------------------------------------------
\* Faulty: the parent that waits is not woken.
wakeupWaitingParent_NoWake(P, Q, parent, child) ==
  IF parent = Idle
  THEN [pcb   |-> [P EXCEPT ![child] = FreePcb],
        queue |-> removeZombieProcess(Q, child)]
  ELSE [pcb |-> P, queue |-> Q]

(* wakeupWaitingParent() on the lists P and Q: a child of idle is reaped at *)
(* once, a parent waiting for this child is made ready.                     *)
wakeupWaitingParent(P, Q, parent, child) ==
  IF parent = Idle
  THEN [pcb   |-> [P EXCEPT ![child] = FreePcb],
        queue |-> removeZombieProcess(Q, child)]
  ELSE IF /\ parent # None
          /\ parent \in ToSet(Q["blocked"])
          /\ P[parent].state = "BLOCKED"
          /\ P[parent].waitingForPid = child
  THEN [pcb   |-> [P EXCEPT ![parent].state = "READY"],
        queue |-> switchProcess(Q, "blocked", "ready", parent)]
  ELSE [pcb |-> P, queue |-> Q]

\* Faulty: the foreground pointer survives its process.
foregroundAfterKill_Kept(p) == foreground

(* killProcess() clears the foreground process when it is the victim. *)
foregroundAfterKill(p) == IF foreground = p THEN None ELSE foreground

(* kill() on a pid above the shell's.  killProcess() replaces a current     *)
(* process by idle before it looks for it in the queues, so the switch at   *)
(* the end saves the dead context in the PCB of idle.                       *)
kill(p) ==
  LET cur == IF current = p THEN Idle ELSE current
      fg  == foregroundAfterKill(p)
  IN /\ p > SHELL_PID
     /\ UNCHANGED nextFreePid
     /\ \/ \E n \in Living :
             /\ InQueue(n, p)
             /\ LET woken == wakeupWaitingParent([pcb EXCEPT ![p].state = "ZOMBIE"],
                                                 switchProcess(queue, n, "zombie", p),
                                                 pcb[p].parentPid, p)
                IN IF p = currentPid
                   THEN Dispatch(woken.pcb, woken.queue, cur, fg)
                   ELSE /\ pcb' = woken.pcb /\ queue' = woken.queue
                        /\ current' = cur /\ foreground' = fg
                        /\ UNCHANGED <<currentPid, quantum, cpu>>
        \/ /\ \A n \in Living : ~InQueue(n, p)
           /\ current = p
           /\ current' = Idle
           /\ UNCHANGED <<pcb, queue, foreground, currentPid, quantum, cpu>>

Kill ==
  \E p \in Pid :
    /\ InUser
    /\ p = currentPid => SelfKill
    /\ kill(p)
    /\ UNCHANGED frame

(* Ctrl-C in bufferWrite(): the keyboard interrupt kills the foreground.    *)
CtrlC ==
  /\ Interruptible
  /\ foreground = currentPid => SelfKill
  /\ kill(foreground)
  /\ UNCHANGED frame

(* syscall_exit(): write the end-of-file mark (which may have slept) and    *)
(* kill the caller; if the call ever returns, the wrapper falls into its    *)
(* hang loop.                                                               *)
Exit ==
  /\ InUser \/ InKernel
  /\ frame' = [frame EXCEPT ![cpu] = At("hang")]
  /\ \/ kill(current)
     \/ /\ current <= SHELL_PID
        /\ UNCHANGED <<pcb, queue, current, foreground, currentPid, quantum, nextFreePid, cpu>>

-----------------------------------------------------------------------------
\* Faulty: any process can be waited for, and reaped.
MayWait_NoParent(p) == getProcess(p)

(* waitpid(): the caller may wait for p, its child (or the process it is    *)
(* already marked as waiting for).                                          *)
MayWait(p) ==
  /\ getProcess(p)
  /\ pcb[p].parentPid = current \/ pcb[current].waitingForPid = p

(* The test of waitpid() that decides between waiting and giving up. *)
StillRuns(p) == StateCode(pcb[p].state) < StateCode("ZOMBIE")

reapChild(parent, p) ==
  /\ pcb' = [pcb EXCEPT ![parent].waitingForPid = None, ![p] = FreePcb]
  /\ queue' = removeZombieProcess(queue, p)
  /\ UNCHANGED <<current, foreground, currentPid, quantum, nextFreePid, cpu>>

WaitpidReap ==
  \E p \in Pid :
    /\ InUser /\ MayWait(p)
    /\ pcb[p].state = "ZOMBIE"
    /\ reapChild(current, p)
    /\ UNCHANGED frame

WaitpidBlock ==
  \E p \in Pid :
    /\ InUser /\ MayWait(p)
    /\ StillRuns(p)
    /\ UNCHANGED nextFreePid
    /\ \/ /\ blockProcess([pcb EXCEPT ![current].waitingForPid = p], current)
          /\ frame' = [frame EXCEPT ![cpu] = [at |-> "waitpid", me |-> current, target |-> p]]
       \/ /\ ~CanBlock(current)
          /\ pcb' = [pcb EXCEPT ![current].waitingForPid = None, ![current].state = "READY"]
          /\ UNCHANGED <<queue, current, foreground, currentPid, quantum, cpu, frame>>

(* waitpid() when the scheduler gives the CPU back to it. *)
WaitpidResume ==
  LET me == frame[cpu].me
      p  == frame[cpu].target
  IN /\ frame[cpu].at = "waitpid"
     /\ frame' = [frame EXCEPT ![cpu] = At("user")]
     /\ \/ /\ getProcess(p) /\ pcb[p].state = "ZOMBIE"
           /\ reapChild(me, p)
        \/ /\ ~(getProcess(p) /\ pcb[p].state = "ZOMBIE")
           /\ UNCHANGED <<pcb, queue, current, foreground, currentPid, quantum, nextFreePid, cpu>>

-----------------------------------------------------------------------------
Next ==
  \/ TimerTick \/ Yield \/ CreateProcess \/ ChangePrio
  \/ Block \/ Unblock \/ BlockBySem \/ UnblockBySem \/ KernelReturn
  \/ Kill \/ CtrlC \/ Exit
  \/ WaitpidReap \/ WaitpidBlock \/ WaitpidResume

Spec == Init /\ [][Next]_schedVars

(* The timer keeps interrupting, and a context that was given the CPU back  *)
(* inside the kernel goes on.  Programs owe the kernel nothing.             *)
FairSpec ==
  /\ Spec
  /\ WF_schedVars(TimerTick) /\ WF_schedVars(WaitpidResume) /\ WF_schedVars(KernelReturn)
-----------------------------------------------------------------------------
(* A PCB that createProcess() made and put in no queue: it asked for the    *)
(* priority of idle, or the queue node could not be allocated.              *)
Lost(p) == pcb[p].state # "FREE" /\ p # Idle /\ ~InSomeQueue(p)

Alive(p) == pcb[p].state \notin {"FREE", "ZOMBIE"}

StatesOf ==
  [n \in QueueName |->
     CASE n = "ready" -> {"READY", "RUNNING"} [] n = "blocked" -> {"BLOCKED"}
       [] n = "blockedBySem" -> {"WAITING_SEM"} [] n = "zombie" -> {"ZOMBIE"}]

PCB == [state: ProcessState, parentPid: Pid \cup {None}, waitingForPid: Pid \cup {None},
        priority: 0 .. IDLE_PRIORITY, foreground: BOOLEAN, rsp: Context]

Frame == [at: {"user", "halted", "hang", "waitpid", "kernel"}, me: Pid \cup {None}, target: Pid \cup {None}]

(* The values the variables of process.c and scheduler.c range over. *)
TypeOK ==
  /\ pcb \in [Pid -> PCB]
  /\ queue \in [QueueName -> Seq(Pid)]
  /\ current \in Pid
  /\ foreground \in Pid \cup {None}
  /\ currentPid \in Pid \cup {None}
  /\ quantum \in 0 .. QUANTUM * (MAX_PRIORITY + 1)
  /\ nextFreePid \in 2 .. MaxPid + 1
  /\ cpu \in Context
  /\ frame \in [Context -> Frame]

(* No process is twice in a queue (switchProcess moves one node). *)
NoDuplicates == \A n \in QueueName : IsInjective(queue[n])

(* A process that sits in a queue has a state of that queue: removeFromQueue*)
(* and the assignment of process->state in process.c never drift apart, so  *)
(* no process is ready and blocked, or dead and ready, at once.             *)
QueueMatchesState ==
  \A n \in QueueName : \A p \in ToSet(queue[n]) : p # Idle /\ pcb[p].state \in StatesOf[n]

(* Only a process that was never enqueued is missing from the queues, and   *)
(* then it never ran: no later block, unblock, kill or wake-up loses one.   *)
OnlyUnqueuedAreLost ==
  \A p \in Pid : Lost(p) => /\ pcb[p].state \in {"READY", "BLOCKED"}
                            /\ \/ pcb[p].priority = IDLE_PRIORITY
                               \/ "node" \in AllocFails

(* list->currentProcess is never a dead, blocked or freed PCB, which        *)
(* schedule() and every system call dereference.                            *)
CurrentIsRunnable ==
  current = Idle \/ InQueue("ready", current) \/ (Lost(current) /\ "node" \in AllocFails)

QueueDiscipline ==
  /\ NoDuplicates /\ QueueMatchesState /\ OnlyUnqueuedAreLost /\ CurrentIsRunnable

(* list->foregroundProcess is cleared when its process dies, so Ctrl-C never*)
(* follows a pointer to a PCB that was freed.                               *)
ForegroundIsAlive == foreground # None => Alive(foreground) /\ pcb[foreground].foreground

(* A process blocked inside waitpid() has a living target, unless someone   *)
(* blocked it by name: the child's death between the test of waitpid() and  *)
(* the block, or while the parent is blocked, is never missed.              *)
NoLostWakeup ==
  \A c \in Pid :
    LET me == frame[c].me
    IN /\ frame[c].at = "waitpid" /\ pcb[me].state = "BLOCKED" /\ pcb[me].rsp = c
       /\ me \notin BlockTargets
       => pcb[frame[c].target].state # "ZOMBIE" /\ pcb[frame[c].target].state # "FREE"

(* While no running process is killed in place, exactly one process is      *)
(* RUNNING, the current one, and schedule()'s currentPid agrees with it.    *)
OneRunning ==
  cpu # Boot => /\ \A p \in Pid : pcb[p].state = "RUNNING" <=> p = current
                /\ currentPid = current

(* While no running process is killed in place, a process other than idle   *)
(* runs on its own stack: no two PCBs resume the same context.              *)
RunsOwnStack ==
  /\ cpu # Boot /\ current # Idle => cpu = current
  /\ \A p \in Pid \ {Idle} : Alive(p) => pcb[p].rsp = p

(* Whose call the executing context is in: a waitpid() that was given the   *)
(* CPU back goes on for the process that called it, whoever is current.     *)
Caller == IF frame[cpu].at = "waitpid" THEN frame[cpu].me ELSE current

(* A process dies once: no wake-up, unblock or keystroke brings a zombie    *)
(* back, and a pid is never handed out twice.  A PCB is freed by a waitpid()*)
(* of its parent, or with its death when the parent is idle: nobody else    *)
(* makes an exit status disappear.  And a parent that is blocked in         *)
(* waitpid() is woken by nothing but unblock() or the death of the process  *)
(* it waits for.                                                            *)
ReapedByParent ==
  [][/\ \A p \in Pid :
          /\ pcb[p].state = "ZOMBIE" => pcb'[p].state \in {"ZOMBIE", "FREE"}
          /\ pcb[p].state = "FREE" /\ p < nextFreePid => pcb'[p].state = "FREE"
          /\ pcb[p].state # "FREE" /\ pcb'[p].state = "FREE"
               => pcb[p].parentPid \in {Caller, Idle}
     /\ \A c \in Context :
          LET me == frame[c].me
          IN /\ frame[c].at = "waitpid" /\ me \notin BlockTargets
             /\ pcb[me].state = "BLOCKED" /\ pcb'[me].state \in {"READY", "RUNNING"}
             => pcb'[frame[c].target].state \in {"ZOMBIE", "FREE"}]_schedVars

(* Round robin starves nobody: a process in the ready queue is dispatched   *)
(* or leaves the queue, whatever priorities the others have.                *)
EveryReadyRuns ==
  \A p \in Pid : InQueue("ready", p) ~> (current = p \/ ~InQueue("ready", p))

(* A parent in waitpid() whose child has died comes back to its program (or *)
(* is killed itself).                                                       *)
WaiterReturns ==
  \A p \in Pid \ BlockTargets :
    (Alive(p) /\ frame[p].at = "waitpid" /\ ~Alive(frame[p].target))
      ~> (frame[p].at # "waitpid" \/ ~Alive(p))

-----------------------------------------------------------------------------
(* Two things the sources say of the code, which its runs refute.           *)

(* asm/process.asm:10, behind the exit call of the wrapper: "should never   *)
(* be here" (the shell, which kill() refuses, is left out).                 *)
ExitNeverReturns == cpu > SHELL_PID => frame[cpu].at # "hang"

(* scheduler.c:262: "si el proceso aun esta corriendo, BLOQUEAR al proceso  *)
(* actual".  waitpid() waits for every child that has not terminated.       *)
WaitpidWaitsForTheLiving ==
  InUser /\ Alive(current) =>
    \A p \in Pid : pcb[p].parentPid = current /\ Alive(p) /\ getProcess(p) => StillRuns(p)
=============================================================================
