-------------------------- MODULE DiningPhilosophers --------------------------
(***************************************************************************)
(* The table of SampleCodeModule/phylo.c: philosophers that are processes  *)
(* of their own, a manager that seats, removes and finally kills them on   *)
(* key presses, and the semaphores of CountingSemaphore between them.      *)
(*                                                                         *)
(* A process may lose the CPU anywhere; what it does while it holds the    *)
(* mutex is a step of its own, as nobody else touches that state without   *)
(* it.  The manager kills without the mutex at the end.                    *)
(***************************************************************************)
EXTENDS CountingSemaphore, Integers, FiniteSets

CONSTANTS
  MAX_PHYLOS,
  MIN_PHYLOS,
  Aux,      \* how many philosophers the command line asks for
  MaxPid,   \* bound: how many philosopher processes are created in all
  MayFail   \* may opening, allocating or creating fail in addPhilosopher()?

MUTEX_ID == 100
philosopherSemaphore(i) == MUTEX_ID + i + 1

Manager == 0
Philosopher == 1..MaxPid
Seat == 0..MAX_PHYLOS - 1

ASSUME PhilosophersAssumption ==
  /\ MAX_PHYLOS \in Nat \ {0} /\ MIN_PHYLOS \in Nat /\ Aux \in MIN_PHYLOS..MAX_PHYLOS
  /\ MaxPid \in Nat /\ Awake \notin Semaphore
  /\ {Manager} \cup Philosopher \subseteq Client
  /\ {MUTEX_ID} \cup {philosopherSemaphore(i) : i \in Seat} \subseteq Semaphore

VARIABLES
  phylosCount,
  state,           \* THINKING, HUNGRY or EATING, by seat
  philosopherPids, \* by seat
  at,              \* where every philosopher process is
  seatOf,          \* its argument
  manager,         \* where phylo() is: the manager's step and, at the end, its i
  swallowed,       \* history: has a post of the mutex gone to a dead philosopher?
  table            \* history: has removePhilosopher() been called?

tableVars == <<phylosCount, state, philosopherPids, at, seatOf, manager, swallowed, table>>
philosopherVars == <<tableVars, semaphores>>

NoPid == 0

Seated == 0..phylosCount - 1
LEFT(i) == (i + phylosCount - 1) % phylosCount
RIGHT(i) == (i + 1) % phylosCount

Alive == {p \in Philosopher : at[p] \notin {"none", "dead"}}

TableInit ==
  /\ phylosCount = 0
  /\ state = [i \in Seat |-> "THINKING"]
  /\ philosopherPids = [i \in Seat |-> NoPid]
  /\ at = [p \in Philosopher |-> "none"] /\ seatOf = [p \in Philosopher |-> 0]
  /\ manager = [step |-> "open", i |-> Aux]
  /\ swallowed = FALSE /\ table = "whole"

Runs(c) == asleep[c] = Awake

(* syscall_sem_wait(); a pid can always be allocated. *)
semWait(s, c) == WaitTakes(s) \/ WaitSleeps(s, c, FALSE)

semPost(s) ==
  /\ Post(s)
  /\ swallowed' = (swallowed \/ (s = MUTEX_ID /\ waiters[s] # <<>> /\ Head(waiters[s]) # Manager
                                  /\ Head(waiters[s]) \notin Alive))

-----------------------------------------------------------------------------
\* Faulty: only one neighbour is looked at.
canEat_LeftOnly(i, states) == states[i] = "HUNGRY" /\ states[LEFT(i)] # "EATING"

\* Faulty: who is hungry counts as one that eats.
canEat_NobodyHungry(i, states) ==
  states[i] = "HUNGRY" /\ states[LEFT(i)] = "THINKING" /\ states[RIGHT(i)] = "THINKING"

canEat(i, states) ==
  states[i] = "HUNGRY" /\ states[LEFT(i)] # "EATING" /\ states[RIGHT(i)] # "EATING"

(* A post on a semaphore that was closed reads freed memory: what follows   *)
(* is undefined, and the philosopher counts as lost.                        *)
test(p, i, states, next) ==
  IF ~canEat(i, states)
  THEN state' = states /\ at' = [at EXCEPT ![p] = next] /\ UNCHANGED <<semaphores, swallowed>>
  ELSE /\ state' = [states EXCEPT ![i] = "EATING"]
       /\ IF philosopherSemaphore(i) \in queued
          THEN semPost(philosopherSemaphore(i)) /\ at' = [at EXCEPT ![p] = next]
          ELSE at' = [at EXCEPT ![p] = "undefined"] /\ UNCHANGED <<semaphores, swallowed>>

Go(p, from, next) == at[p] = from /\ Runs(p) /\ at' = [at EXCEPT ![p] = next]

StartThinking(p) ==
  /\ Go(p, "start", "think")
  /\ state' = [state EXCEPT ![seatOf[p]] = "THINKING"]
  /\ UNCHANGED <<semaphores, swallowed>>

WaitMutex(p) ==
  /\ Go(p, "think", "hungry") \/ Go(p, "eat", "full")
  /\ semWait(MUTEX_ID, p)
  /\ UNCHANGED <<state, swallowed>>

takeForks(p) ==
  /\ at[p] = "hungry" /\ Runs(p)
  /\ test(p, seatOf[p], [state EXCEPT ![seatOf[p]] = "HUNGRY"], "taken")

putForks(p) ==
  /\ Runs(p)
  /\ \/ /\ at[p] = "full"
        /\ test(p, LEFT(seatOf[p]), [state EXCEPT ![seatOf[p]] = "THINKING"], "putLeft")
     \/ at[p] = "putLeft" /\ test(p, RIGHT(seatOf[p]), state, "put")

PostMutex(p) ==
  /\ Go(p, "taken", "forks") \/ Go(p, "put", "think")
  /\ semPost(MUTEX_ID)
  /\ UNCHANGED state

WaitForks(p) ==
  /\ Go(p, "forks", "eat")
  /\ semWait(philosopherSemaphore(seatOf[p]), p)
  /\ UNCHANGED <<state, swallowed>>

PhilosopherStep(p) ==
  /\ \/ StartThinking(p) \/ WaitMutex(p) \/ takeForks(p)
     \/ putForks(p) \/ PostMutex(p) \/ WaitForks(p)
  /\ UNCHANGED <<phylosCount, philosopherPids, seatOf, manager, table>>

-----------------------------------------------------------------------------
Manage(from, next) == manager.step = from /\ Runs(Manager) /\ manager' = next

To(step) == [manager EXCEPT !.step = step]

(* phylo() opens the mutex, or gives up. *)
OpenMutex ==
  /\ Manage("open", To("seat"))
  /\ Open(MUTEX_ID, 1)
  /\ UNCHANGED <<phylosCount, state, philosopherPids, at, seatOf, swallowed, table>>

(* The loop of phylo() and the keys of start(). *)
Enter ==
  /\ \/ Manage("seat", [step |-> "add", i |-> manager.i - 1]) /\ manager.i > 0
     \/ Manage("seat", To("start")) /\ manager.i = 0
     \/ Manage("start", To("add")) /\ phylosCount < MAX_PHYLOS
     \/ Manage("start", To("remove")) /\ phylosCount > MIN_PHYLOS
     \/ Manage("start", [step |-> "finish", i |-> 0])
  /\ IF manager'.step \in {"add", "remove"} THEN semWait(MUTEX_ID, Manager) ELSE UNCHANGED semaphores
  /\ UNCHANGED <<phylosCount, state, philosopherPids, at, seatOf, swallowed, table>>

(* addPhilosopher(): a failure closes the semaphore again. *)
addPhilosopher ==
  /\ Manage("add", To("post"))
  /\ state' = [state EXCEPT ![phylosCount] = "THINKING"]
  /\ \/ \E p \in Philosopher :
          /\ at[p] = "none" /\ \A q \in 1..p - 1 : at[q] # "none"
          /\ Open(philosopherSemaphore(phylosCount), 0)
          /\ at' = [at EXCEPT ![p] = "start"]
          /\ seatOf' = [seatOf EXCEPT ![p] = phylosCount]
          /\ philosopherPids' = [philosopherPids EXCEPT ![phylosCount] = p]
          /\ phylosCount' = phylosCount + 1
     \/ /\ MayFail \/ \A p \in Philosopher : at[p] # "none"
        /\ UNCHANGED <<phylosCount, philosopherPids, at, seatOf, semaphores>>
  /\ UNCHANGED <<swallowed, table>>

killed(i) == at' = [at EXCEPT ![philosopherPids[i]] = "dead"] /\ Leave(philosopherPids[i])

\* Faulty: it returns with the mutex.
afterRemoval_KeepsMutex == To("start")

afterRemoval == To("post")

(* removePhilosopher() kills whoever has the last seat, whatever it does,   *)
(* then waits for it, which returns at once, and closes its semaphore.      *)
RemoveKills ==
  /\ Manage("remove", To("close"))
  /\ phylosCount' = phylosCount - 1
  /\ killed(phylosCount - 1)
  /\ table' = "reduced"
  /\ UNCHANGED <<state, philosopherPids, seatOf, swallowed>>

RemoveCloses ==
  /\ Manage("close", afterRemoval)
  /\ Close(philosopherSemaphore(phylosCount))
  /\ UNCHANGED <<phylosCount, state, philosopherPids, at, seatOf, swallowed, table>>

ManagerPosts ==
  /\ Manage("post", IF manager.i > 0 THEN To("seat") ELSE To("start"))
  /\ semPost(MUTEX_ID)
  /\ UNCHANGED <<phylosCount, state, philosopherPids, at, seatOf, table>>

(* 'f': one by one, without the mutex, and then the mutex itself. *)
FinishKills ==
  /\ Manage("finish", To("finishClose")) /\ manager.i < phylosCount
  /\ killed(manager.i)
  /\ UNCHANGED <<phylosCount, state, philosopherPids, seatOf, swallowed, table>>

FinishCloses ==
  /\ Manage("finishClose", [step |-> "finish", i |-> manager.i + 1])
  /\ Close(philosopherSemaphore(manager.i))
  /\ UNCHANGED <<phylosCount, state, philosopherPids, at, seatOf, swallowed, table>>

Finish ==
  /\ Manage("finish", To("done")) /\ manager.i = phylosCount
  /\ Close(MUTEX_ID)
  /\ phylosCount' = 0
  /\ UNCHANGED <<state, philosopherPids, at, seatOf, swallowed, table>>

(* All the manager does but read the keyboard. *)
ManagerStep ==
  \/ OpenMutex \/ addPhilosopher \/ RemoveKills \/ RemoveCloses \/ ManagerPosts
  \/ FinishKills \/ FinishCloses \/ Finish

TableNext == (\E p \in Philosopher : PhilosopherStep(p)) \/ Enter \/ ManagerStep

TableSpec == TableInit /\ NoSemaphores /\ [][TableNext]_philosopherVars

-----------------------------------------------------------------------------
SideBySide(i, j) == i # j /\ (j = RIGHT(i) \/ i = RIGHT(j))

(* Has its forks: from the wait on its own semaphore to putForks(). *)
Eats(i) ==
  \/ at[philosopherPids[i]] = "eat" /\ Runs(philosopherPids[i])
  \/ at[philosopherPids[i]] = "full"

(* Two philosophers that sit side by side never eat at the same time, but   *)
(* for the first and the last, and those only after a removal: it leaves    *)
(* them side by side whatever they do.                                      *)
OnlyRemovalJoinsEaters ==
  \A i, j \in Seated :
    i < j /\ SideBySide(i, j) /\ Eats(i) /\ Eats(j)
      => table = "reduced" /\ i = 0 /\ j = phylosCount - 1 /\ j > 1

(* Once it began, the manager always gets back to the keyboard, unless      *)
(* a post of the mutex went to a philosopher that was killed while it       *)
(* slept on it.                                                             *)
ManagerReturns ==
  manager.step \notin {"open", "start", "done"} ~> manager.step \in {"start", "done"} \/ swallowed

(* When somebody is hungry, somebody comes to eat, unless a philosopher was *)
(* removed or the dinner ends.                                              *)
SomebodyEats ==
  (\E i \in Seated : state[i] = "HUNGRY")
    ~> \/ \E i \in Seated : state[i] = "EATING"
       \/ table # "whole" \/ manager.step \in {"finish", "finishClose", "done"}
=============================================================================
