------------------------------ MODULE Semaphores ------------------------------
(***************************************************************************)
(* The counting semaphores of Kernel/semaphores/semaphore.c on top of the  *)
(* scheduler.  A waiter puts its pid into the semaphore's own queue and    *)
(* gives the CPU away through blockProcessBySem(); a post takes the first  *)
(* pid and makes that process ready, whatever has become of it.            *)
(*                                                                         *)
(* wait() and post() run with interrupts off up to the switch, so the lock *)
(* they take is always free and is left out.  The queue of a closed        *)
(* semaphore is freed memory: no call on it is modelled.                   *)
(*                                                                         *)
(* A semInit() that finds no memory for its queue frees the table of all   *)
(* semaphores.  It stays in use: what it holds survives until the memory   *)
(* has a new owner, who may write anything into any semaphore at any time. *)
(***************************************************************************)
EXTENDS Scheduler

CONSTANTS
  SemId,         \* the semaphores
  InitialValue,  \* the value they are opened with
  MaxAhead,      \* bound: how far waits and posts of a context may drift apart
  MaxWaiters,    \* bound: how many pids a semaphore's queue holds
  SemAllocFails, \* which allocations of semaphore.c may fail
  Disciplined,   \* is it a mutex: callers post what they hold, wait for what they do not?
  Sloppy,        \* may semaphores be used before semInit() and closed in use?
  IdleWaits,     \* may the keyboard interrupt call wait() while idle runs?
  Garbage        \* the values a new owner of the table's memory may leave in a semaphore

Nowhere == "nowhere" \* no semaphore

ASSUME SemaphoreAssumption ==
  /\ Nowhere \notin SemId
  /\ InitialValue \in Nat /\ MaxAhead \in Nat /\ MaxWaiters \in Nat
  /\ SemAllocFails \subseteq {"pid", "node", "queue"}
  /\ Garbage \subseteq Nat
  /\ Disciplined \in BOOLEAN /\ Sloppy \in BOOLEAN /\ IdleWaits \in BOOLEAN

VARIABLES
  sem,        \* manager->semaphores
  table,      \* is the memory manager points to still the semaphores'?
  sleepingOn, \* the semaphore in whose wait() a context gave the CPU away
  held        \* history: waits that returned with a token, less the posts, of a context

semVars == <<sem, table, sleepingOn, held>>
vars == <<schedVars, semVars>>

(* queue: none before semInit(), live, or freed: a pointer to no queue,     *)
(* left by semClose() or by a new owner of the table.                       *)
Sem == [value: Nat, used: BOOLEAN, queue: {"none", "live", "freed"}, blocked: Seq(Pid)]

semManager ==
  /\ sem = [s \in SemId |-> [value |-> 0, used |-> FALSE, queue |-> "none", blocked |-> <<>>]]
  /\ table = "live"
  /\ sleepingOn = [c \in Context |-> Nowhere]
  /\ held = [s \in SemId |-> [c \in Context |-> 0]]

SemInit == Init /\ semManager

(* The context on the CPU is back from the wait() it slept in, if any.      *)
Returned == [sleepingOn EXCEPT ![cpu] = Nowhere]
heldOnReturn == [s \in SemId |->
  IF sleepingOn[cpu] = s THEN [held[s] EXCEPT ![cpu] = @ + 1] ELSE held[s]]

-----------------------------------------------------------------------------
(* semInit(), which is also what the sem_open system call calls.  It marks  *)
(* the semaphore used before it allocates the queue, and when that fails    *)
(* frees the table.                                                         *)
semInit(s, failed) ==
  /\ InUser
  /\ ~sem[s].used
  /\ sem' = [sem EXCEPT ![s] =
       [value |-> InitialValue, used |-> TRUE,
        queue |-> IF failed THEN "none" ELSE "live", blocked |-> <<>>]]
  /\ held' = [held EXCEPT ![s] = [c \in Context |-> 0]]
  /\ table' = IF failed THEN "freed" ELSE table
  /\ UNCHANGED <<schedVars, sleepingOn>>

SemOpen == \E s \in SemId : \E failed \in {FALSE, "queue" \in SemAllocFails} : semInit(s, failed)

(* The new owner of the freed table writes into a semaphore: into the       *)
(* value, the flag used or the pointer to the queue.                        *)
TableReused ==
  \E s \in SemId, v \in Garbage, u \in BOOLEAN : \E q \in {sem[s].queue, "none", "freed"} :
    /\ table = "freed"
    /\ sem' = [sem EXCEPT ![s] =
         [value |-> v, used |-> u, queue |-> q,
          blocked |-> IF q = "live" THEN @.blocked ELSE <<>>]]
    /\ UNCHANGED <<schedVars, table, sleepingOn, held>>

(* semClose() frees the queue and forgets who slept in it. *)
SemClose ==
  \E s \in SemId :
    /\ InUser /\ sem[s].used /\ sem[s].queue # "freed"
    /\ ~Sloppy => /\ sem[s].blocked = <<>>
                  /\ \A c \in Context : sleepingOn[c] # s /\ held[s][c] = 0
    /\ sem' = [sem EXCEPT ![s] =
         [value |-> 0, used |-> FALSE,
          queue |-> IF @.queue = "none" THEN "none" ELSE "freed", blocked |-> <<>>]]
    /\ UNCHANGED <<schedVars, table, sleepingOn, held>>

(* The semaphores a call of wait() or post() can meet. *)
Usable(s) == sem[s].queue # "freed" /\ (~Sloppy => sem[s].queue = "live")

(* wait() is called by system calls and by the keyboard interrupt, which    *)
(* may find idle in its hlt loop, or on the stack of a dead process that    *)
(* loops behind its exit.                                                   *)
MayWaitNow(s) ==
  /\ InUser \/ InKernel \/ (IdleWaits /\ Interruptible /\ current = Idle)
  /\ Usable(s)
  /\ heldOnReturn[s][cpu] < MaxAhead
  /\ Disciplined => heldOnReturn[s][cpu] = 0

HasToken(s) == sem[s].value > 0

\* Faulty: the value is tested but not taken.
takeToken_NoDecrement(s) == sem

takeToken(s) == [sem EXCEPT ![s].value = @ - 1]

\* Faulty: the last to come is the first to be served.
enqueueWaiter_Lifo(s, failed) ==
  IF sem[s].queue = "live" /\ ~failed
  THEN [sem EXCEPT ![s].blocked = <<current>> \o @] ELSE sem

(* enqueue(sem->blocked, pid); its result is ignored. *)
enqueueWaiter(s, failed) ==
  IF sem[s].queue = "live" /\ ~failed
  THEN [sem EXCEPT ![s].blocked = Append(@, current)] ELSE sem

SemWaitTakes ==
  \E s \in SemId :
    /\ MayWaitNow(s)
    /\ HasToken(s)
    /\ sem' = takeToken(s)
    /\ held' = [heldOnReturn EXCEPT ![s][cpu] = @ + 1]
    /\ sleepingOn' = Returned
    /\ UNCHANGED <<schedVars, table>>

(* The allocation of the pid failed: wait() returns -1. *)
SemWaitFails ==
  \E s \in SemId :
    /\ MayWaitNow(s)
    /\ ~HasToken(s) /\ "pid" \in SemAllocFails
    /\ held' = heldOnReturn /\ sleepingOn' = Returned
    /\ UNCHANGED <<schedVars, sem, table>>

SemWaitSleeps ==
  \E s \in SemId : \E failed \in {FALSE, "node" \in SemAllocFails} :
    /\ MayWaitNow(s)
    /\ ~HasToken(s)
    /\ Len(sem[s].blocked) < MaxWaiters
    /\ sem' = enqueueWaiter(s, failed)
    /\ UNCHANGED table
    /\ \/ /\ BlockBySem
          /\ held' = heldOnReturn
          /\ sleepingOn' = [sleepingOn EXCEPT ![cpu] = s]
       \/ \* The caller is in no queue (idle): it does not sleep.
          /\ ~InQueue("ready", current)
          /\ held' = IF current = Idle THEN heldOnReturn
                     ELSE [heldOnReturn EXCEPT ![s][cpu] = @ + 1]
          /\ sleepingOn' = Returned
          /\ UNCHANGED schedVars

-----------------------------------------------------------------------------
\* Faulty: the value is raised for a sleeper that was served, too.
afterPost_Both(s) ==
  IF sem[s].blocked = <<>> THEN [sem EXCEPT ![s].value = @ + 1]
  ELSE [sem EXCEPT ![s].blocked = Tail(@), ![s].value = @ + 1]

\* Faulty: the value is not raised when nobody waits.
afterPost_Lost(s) ==
  IF sem[s].blocked = <<>> THEN sem ELSE [sem EXCEPT ![s].blocked = Tail(@)]

(* dequeue() of the first waiter, or one more token when there is none. *)
afterPost(s) ==
  IF sem[s].blocked = <<>> THEN [sem EXCEPT ![s].value = @ + 1]
  ELSE [sem EXCEPT ![s].blocked = Tail(@)]

\* Faulty: unblockProcess() instead of unblockProcessBySem().
wakeFirst_WrongQueue(s) ==
  LET p == Head(sem[s].blocked)
  IN MakeReady("blocked", p) \/ (~InQueue("blocked", p) /\ UNCHANGED schedVars)

(* unblockProcessBySem() of the first waiter; its result is ignored, so a   *)
(* waiter that was killed or blocked by name takes the token with it.       *)
wakeFirst(s) ==
  LET p == Head(sem[s].blocked)
  IN MakeReady("blockedBySem", p) \/ (~InQueue("blockedBySem", p) /\ UNCHANGED schedVars)

SemPost ==
  \E s \in SemId :
    /\ Interruptible \/ InKernel
    /\ Usable(s)
    /\ Disciplined => heldOnReturn[s][cpu] > 0
    /\ heldOnReturn[s][cpu] > -MaxAhead
    /\ sem' = afterPost(s)
    /\ held' = [heldOnReturn EXCEPT ![s][cpu] = @ - 1]
    /\ sleepingOn' = Returned
    /\ UNCHANGED table
    /\ \/ sem[s].blocked = <<>> /\ UNCHANGED schedVars
       \/ sem[s].blocked # <<>> /\ wakeFirst(s)

(* The system call that slept returns to its program. *)
SemReturn ==
  /\ KernelReturn
  /\ held' = heldOnReturn /\ sleepingOn' = Returned
  /\ UNCHANGED <<sem, table>>

-----------------------------------------------------------------------------
(* Everything else the scheduler does. *)
SchedulerStep ==
  /\ \/ TimerTick \/ Yield \/ CreateProcess \/ ChangePrio \/ Block \/ Unblock
     \/ Kill \/ CtrlC \/ Exit \/ WaitpidReap \/ WaitpidBlock \/ WaitpidResume
  /\ UNCHANGED semVars

SemNext ==
  \/ SchedulerStep
  \/ SemOpen \/ SemClose \/ TableReused
  \/ SemWaitTakes \/ SemWaitFails \/ SemWaitSleeps \/ SemPost \/ SemReturn

SemSpec == SemInit /\ [][SemNext]_vars

(* The timer interrupts, system calls go on, and a program that holds a     *)
(* semaphore and is given the CPU again and again posts it some time.       *)
FairSemSpec ==
  /\ SemSpec
  /\ WF_vars(TimerTick /\ UNCHANGED semVars)
  /\ WF_vars(WaitpidResume /\ UNCHANGED semVars)
  /\ WF_vars(SemReturn)
  /\ \A c \in Pid : SF_vars(SemPost /\ cpu = c)

-----------------------------------------------------------------------------
(* What the clients of semaphores rely on.  A context counts as asleep      *)
(* until it is made ready, and not any more once it is killed or blocked.   *)
Abstract == INSTANCE SemaphoreTable WITH
  Client    <- Pid,
  Semaphore <- SemId,
  Values    <- {InitialValue},
  Awake     <- Nowhere,
  value     <- [s \in SemId |-> sem[s].value],
  queued    <- {s \in SemId : sem[s].queue = "live"},
  waiters   <- [s \in SemId |-> sem[s].blocked],
  asleep    <- [p \in Pid |-> IF pcb[p].state = "WAITING_SEM" THEN sleepingOn[p] ELSE Nowhere]

(* Every call does to value, queue and sleepers what CountingSemaphore      *)
(* says, whatever the scheduler does in between: in particular only a post  *)
(* that finds it at the head of a queue wakes a sleeper.  Nothing else      *)
(* changes a semaphore before a semInit() fails for want of a queue; after  *)
(* it values and queues may be lost, but nobody is woken by that.           *)
ImplementsCountingSemaphore == Abstract!TableSpec

TableKept == table = "live"
Live(s) == sem[s].queue = "live"
Sleeps(p, s) == pcb[p].state = "WAITING_SEM" /\ sleepingOn[p] = s

SumOver(f, S) == FoldFunctionOnSet(+, 0, f, S)

(* Nobody waits for a token that is there: a value above zero and a waiter  *)
(* in the queue never meet, however waits, posts and deaths interleave,     *)
(* until a failing semInit() frees the table.                               *)
NoWaiterWithTokens ==
  TableKept => \A s \in SemId : sem[s].value > 0 => sem[s].blocked = <<>>

(* No more waits return with a token than the initial value and the posts   *)
(* allow.  For a mutex (initial value one, posts by holders) that is mutual *)
(* exclusion.  It lasts as long as the table does.                          *)
NeverOverdrawn ==
  TableKept => \A s \in SemId : Live(s) => SumOver(held[s], Context) <= InitialValue

(* No token disappears while nobody dies in wait(): what is neither held    *)
(* nor in the value is on its way to a waiter that was made ready, as   *)
(* long as the table is the semaphores' own.                                *)
NoTokenLost ==
  TableKept => \A s \in SemId :
    Live(s) /\ (\A p \in Pid : sleepingOn[p] = s => Alive(p)) =>
      InitialValue - SumOver(held[s], Context)
        = sem[s].value + Cardinality({p \in Pid : sleepingOn[p] = s /\ ~Sleeps(p, s)})

(* With holders that post, a sleeper comes back from wait(), unless a       *)
(* holder or another waiter dies or a holder waits for a child.             *)
WaiterPasses ==
  \A p \in Pid, s \in SemId :
    Sleeps(p, s) ~>
      \/ sleepingOn[p] # s \/ ~Alive(p)
      \/ \E q \in Pid : /\ held[s][q] > 0 \/ sleepingOn[q] = s
                        /\ ~Alive(q) \/ frame[q].at = "waitpid"
=============================================================================
