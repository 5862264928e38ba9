--------------------------------- MODULE Pipes ---------------------------------
(***************************************************************************)
(* Kernel/pipes/pipes.c: a table of bounded buffers with three semaphores  *)
(* each, read and written by processes and by the keyboard interrupt.      *)
(*                                                                         *)
(* A call runs with interrupts off and gives the CPU away only where a     *)
(* semWait() sleeps, so the actor on the CPU goes on alone until it sleeps *)
(* or returns.  Which ready process is dispatched then is left open (the   *)
(* module Scheduler has the round robin), except that idle runs only when  *)
(* nobody else can.  The semaphores are those of CountingSemaphore, which  *)
(* the module Semaphores implements.                                       *)
(*                                                                         *)
(* Semaphore -1 stands for the element before the semaphore table, which   *)
(* calls left inside a closed pipe use: two pointers of a block header,    *)
(* both zero, read as a semaphore of value zero without a queue.           *)
(***************************************************************************)
EXTENDS Integers, Sequences, FiniteSets

CONSTANTS
  Proc,              \* the processes that use pipes
  Idle,
  MAX_PIPES,
  PIPE_BUFFER_SIZE,
  NUM_SEMS,
  Byte,
  MaxSize,           \* bound: the longest read or write
  MaxDrift,          \* bound: surplus tokens and queued pids a semaphore has when a call begins
  May,               \* the calls each process makes
  Keyboard,          \* are keys pressed?
  Interfere,         \* are processes killed, or blocked and unblocked by pid?
  AllocFails,        \* may the allocation in wait() fail?
  Orderly,           \* are pipes closed only when nobody is inside a call on them?
  UserSems           \* semaphore ids that programs open for themselves

Actor == Proc \cup {Idle}
Slot == 0 .. MAX_PIPES - 1
NoSem == -1
SemId == NoSem .. NUM_SEMS - 1
Awake == -2
Nothing == "nothing"

Call == {"read", "write", "clear", "create", "close"}

ASSUME PipesAssumption ==
  /\ Idle \notin Proc /\ IsFiniteSet(Proc)
  /\ MAX_PIPES \in Nat \ {0} /\ PIPE_BUFFER_SIZE \in Nat \ {0}
  /\ NUM_SEMS \in Nat /\ NUM_SEMS >= 3
  /\ Nothing \notin Byte
  /\ MaxSize \in Nat \ {0} /\ MaxDrift \in Nat
  /\ May \in [Proc -> SUBSET Call]
  /\ {Keyboard, Interfere, AllocFails, Orderly} \subseteq BOOLEAN
  /\ UserSems \subseteq 0 .. NUM_SEMS - 1

VARIABLES
  pipes,
  next_sem_id,
  handed,   \* history: the ids createPipe() has returned and nobody has closed
  used,     \* the semaphores that were initialised and not closed
  opened,   \* history: the semaphores programs opened for themselves
  cpu,
  alive,
  call,     \* the pipe call an actor is in
  got,      \* the byte an actor's last read stored in the caller's buffer
  value, queued, waiters, asleep  \* the semaphores

Sem == INSTANCE CountingSemaphore WITH
  Client <- Actor, Semaphore <- SemId, Values <- {0, 1, PIPE_BUFFER_SIZE}

sems == <<value, queued, waiters, asleep>>
table == <<pipes, next_sem_id, handed, used, opened>>
vars == <<table, cpu, alive, call, got, sems>>

-----------------------------------------------------------------------------
NoBuffer == [i \in 0 .. PIPE_BUFFER_SIZE - 1 |-> Nothing]

ClosedPipe == [isOpen |-> FALSE, buffer |-> NoBuffer, readIdx |-> 0, writeIdx |-> 0, count |-> 0,
               semReaders |-> NoSem, semWriters |-> NoSem, mutex |-> NoSem]

(* A pipe with the semaphores from id n on. *)
FreshPipe(n) ==
  [ClosedPipe EXCEPT !.isOpen = TRUE, !.semReaders = n, !.semWriters = n + 1, !.mutex = n + 2]

\* Faulty: one writer too many fits.
ValueOf_OffByOne(n) == [s \in {n, n + 1, n + 2} |->
  IF s = n THEN 0 ELSE IF s = n + 1 THEN PIPE_BUFFER_SIZE + 1 ELSE 1]

ValueOf(n) == [s \in {n, n + 1, n + 2} |->
  IF s = n THEN 0 ELSE IF s = n + 1 THEN PIPE_BUFFER_SIZE ELSE 1]

(* semInit() of the semaphores in I with the values in v; there is memory   *)
(* for their queues.                                                        *)
InitSems(I, v) ==
  /\ value' = [s \in SemId |-> IF s \in I THEN v[s] ELSE value[s]]
  /\ queued' = queued \cup I
  /\ used' = used \cup I
  /\ UNCHANGED <<waiters, asleep>>

NoCall == [op |-> "none", slot |-> 0, left |-> 0, at |-> "user"]

(* PIPE_ID_CHECK: the bound is tested before the id is shifted. *)
SlotOf(id) == IF id > 2 THEN id - 2 ELSE id
IsValid(id) == id \in 0 .. MAX_PIPES - 1 /\ pipes[SlotOf(id)].isOpen

(* After main(): the shell's standard input is pipe 0. *)
Init ==
  /\ pipes = [s \in Slot |-> IF s = 0 THEN FreshPipe(0) ELSE ClosedPipe]
  /\ next_sem_id = 3
  /\ handed = {0}
  /\ used = {0, 1, 2}
  /\ opened = {}
  /\ cpu \in Proc
  /\ alive = [a \in Actor |-> TRUE]
  /\ call = [a \in Actor |-> NoCall]
  /\ got = [a \in Actor |-> Nothing]
  /\ value = [s \in SemId |-> IF s \in 0 .. 2 THEN ValueOf(0)[s] ELSE 0]
  /\ queued = {0, 1, 2}
  /\ waiters = [s \in SemId |-> <<>>]
  /\ asleep = [a \in Actor |-> Awake]

InUser(a) == cpu = a /\ call[a].op = "none"

(* Whom the scheduler may give the CPU to. *)
Ready(living, sleeping) ==
  LET R == {p \in Proc : living[p] /\ sleeping[p] = Awake} IN IF R = {} THEN {Idle} ELSE R

Switch ==
  /\ call[cpu].op = "none"
  /\ cpu' \in Ready(alive, asleep)
  /\ UNCHANGED <<table, alive, call, got, sems>>

-----------------------------------------------------------------------------
Inside(slot) == {a \in Actor : call[a].op # "none" /\ call[a].slot = slot}

\* Faulty: the pipe is handed out although its semaphores are somebody else's.
handedByCreate_IgnoresFailure(slot, done) == handed \cup {IF slot = 0 THEN 0 ELSE slot + 2}

(* What createPipe() returns: an id, unless a semInit() failed. *)
handedByCreate(slot, done) ==
  IF Cardinality(done) = 3 THEN handed \cup {IF slot = 0 THEN 0 ELSE slot + 2} ELSE handed

(* createPipe() takes the first closed slot and three new semaphore ids,    *)
(* and keeps both when a semInit() fails.  A call left inside the slot would*)
(* then use memory beyond the semaphore table: that is left out.            *)
createPipe(p) ==
  /\ InUser(p)
  /\ \E slot \in Slot :
       LET n    == next_sem_id
           done == {s \in n .. n + 2 : \A t \in n .. s : t < NUM_SEMS /\ t \notin used}
       IN /\ ~pipes[slot].isOpen /\ \A s \in 0 .. slot - 1 : pipes[s].isOpen
          /\ n + 2 < NUM_SEMS \/ Inside(slot) = {}
          /\ pipes' = [pipes EXCEPT ![slot] = FreshPipe(n)]
          /\ next_sem_id' = n + 3
          /\ InitSems(done, ValueOf(n))
          /\ handed' = handedByCreate(slot, done)
  /\ UNCHANGED <<opened, cpu, alive, call, got>>

SemsOf(slot) == {pipes[slot].semReaders, pipes[slot].semWriters, pipes[slot].mutex}
(* closePipe(): the table forgets the pipe, and the semaphores whoever      *)
(* sleeps on them.  Slots 0 to 2 cannot be closed.                          *)
closePipe(p, id) ==
  LET slot == SlotOf(id)
      mine == SemsOf(slot) \cap used
  IN /\ InUser(p)
     /\ IsValid(id) /\ slot > 2
     /\ Orderly => Inside(slot) = {}
     /\ pipes' = [pipes EXCEPT ![slot] = ClosedPipe]
     /\ used' = used \ mine /\ queued' = queued \ mine
     /\ value' = [s \in SemId |-> IF s \in mine THEN 0 ELSE value[s]]
     /\ waiters' = [s \in SemId |-> IF s \in mine THEN <<>> ELSE waiters[s]]
     /\ handed' = handed \ {id}
     /\ UNCHANGED <<next_sem_id, opened, asleep, cpu, alive, call, got>>

(* A program opens a semaphore of its own (phylo.c, test_sync.c). *)
SemOpen ==
  \E p \in Proc, s \in UserSems \ used :
    /\ InUser(p)
    /\ InitSems({s}, [i \in {s} |-> 1])
    /\ opened' = opened \cup {s}
    /\ UNCHANGED <<pipes, next_sem_id, handed, cpu, alive, call, got>>

-----------------------------------------------------------------------------
(* A call on a pipe begins.  clearPipe() goes straight for the mutex.       *)
Begin(a, op, id, size) ==
  /\ InUser(a)
  /\ IsValid(id)
  /\ \A s \in SemsOf(SlotOf(id)) :
       value[s] <= PIPE_BUFFER_SIZE + MaxDrift /\ Len(waiters[s]) <= MaxDrift
  /\ call' = [call EXCEPT ![a] = [op |-> op, slot |-> SlotOf(id), left |-> size,
                                  at |-> IF op = "clear" THEN "mutex" ELSE "tokens"]]
  /\ got' = IF op = "read" THEN [got EXCEPT ![a] = Nothing] ELSE got
  /\ UNCHANGED <<table, cpu, alive, sems>>

ReadOrWrite ==
  \E p \in Proc : \E op \in May[p] \cap {"read", "write"}, id \in handed, size \in 1 .. MaxSize :
    Begin(p, op, id, size)

Clear == \E p \in Proc : "clear" \in May[p] /\ \E id \in handed : Begin(p, "clear", id, 1)

(* The keyboard interrupt writes in the name of whatever it interrupts. *)
KeyPress == Keyboard /\ Begin(cpu, "write", 0, 1)

(* semWait(): idle is in no scheduler queue and goes on; everybody else     *)
(* gives the CPU away.                                                      *)
semWait(a, s) ==
  \/ Sem!WaitTakes(s) /\ UNCHANGED cpu
  \/ AllocFails /\ Sem!WaitFails(s) /\ UNCHANGED cpu
  \/ a = Idle /\ Sem!WaitGoesOn(s, a) /\ UNCHANGED cpu
  \/ a # Idle /\ (\E failed \in {FALSE, AllocFails} : Sem!WaitSleeps(s, a, failed))
     /\ cpu' \in Ready(alive, asleep')

semPost(s) == Sem!Post(s) /\ UNCHANGED cpu

MovesTo(a, place) == call' = [call EXCEPT ![a].at = place]

At(a, place) == cpu = a /\ call[a].at = place
PipeOf(a) == pipes[call[a].slot]

\* Faulty: the reader and the writer semaphore are confused.
tokensOf_Swapped(a) == IF call[a].op = "read" THEN PipeOf(a).semWriters ELSE PipeOf(a).semReaders

(* The semaphore an iteration waits on first, and the one it posts last.    *)
tokensOf(a) == IF call[a].op = "read" THEN PipeOf(a).semReaders ELSE PipeOf(a).semWriters

\* Faulty: the iteration posts what it has waited for.
otherTokensOf_Same(a) == tokensOf(a)

otherTokensOf(a) == IF call[a].op = "read" THEN PipeOf(a).semWriters ELSE PipeOf(a).semReaders

WaitForTokens(a) ==
  /\ At(a, "tokens")
  /\ semWait(a, tokensOf(a))
  /\ MovesTo(a, "mutex")
  /\ UNCHANGED <<table, alive, got>>

WaitForMutex(a) ==
  /\ At(a, "mutex")
  /\ semWait(a, PipeOf(a).mutex)
  /\ MovesTo(a, "critical")
  /\ UNCHANGED <<table, alive, got>>

Following(i) == (i + 1) % PIPE_BUFFER_SIZE

afterRead(pipe) == [pipe EXCEPT !.readIdx = Following(@), !.count = @ - 1]

\* Faulty: a full buffer is overwritten.
HasRoom_Always(pipe) == TRUE

HasRoom(pipe) == pipe.count < PIPE_BUFFER_SIZE

afterWrite(pipe, b) ==
  [pipe EXCEPT !.buffer[pipe.writeIdx] = b, !.writeIdx = Following(@), !.count = @ + 1]

afterClear(pipe) == [pipe EXCEPT !.readIdx = 0, !.writeIdx = 0, !.count = 0]

(* The critical sections of readPipe(), writePipe() and clearPipe(), with   *)
(* the semPost() of the mutex that ends them.                               *)
ReadByte(a) ==
  /\ call[a].op = "read" /\ MovesTo(a, "post")
  /\ LET pipe == PipeOf(a)
     IN IF pipe.count > 0
        THEN /\ got' = [got EXCEPT ![a] = pipe.buffer[pipe.readIdx]]
             /\ pipes' = [pipes EXCEPT ![call[a].slot] = afterRead(pipe)]
        ELSE UNCHANGED <<got, pipes>>

WriteByte(a) ==
  /\ call[a].op = "write" /\ MovesTo(a, "post")
  /\ UNCHANGED got
  /\ \E b \in Byte :
       pipes' = IF HasRoom(PipeOf(a))
                THEN [pipes EXCEPT ![call[a].slot] = afterWrite(PipeOf(a), b)] ELSE pipes

ClearBytes(a) ==
  /\ call[a].op = "clear"
  /\ call' = [call EXCEPT ![a] = NoCall]
  /\ UNCHANGED got
  /\ pipes' = [pipes EXCEPT ![call[a].slot] = afterClear(@)]

CriticalSection(a) ==
  /\ At(a, "critical")
  /\ ReadByte(a) \/ WriteByte(a) \/ ClearBytes(a)
  /\ semPost(PipeOf(a).mutex)
  /\ UNCHANGED <<next_sem_id, handed, used, opened, alive>>

(* The post to the other side, and the next byte or the return. *)
PostTokens(a) ==
  /\ At(a, "post")
  /\ semPost(otherTokensOf(a))
  /\ call' = IF call[a].left > 1 THEN [call EXCEPT ![a].left = @ - 1, ![a].at = "tokens"]
             ELSE [call EXCEPT ![a] = NoCall]
  /\ UNCHANGED <<table, alive, got>>

-----------------------------------------------------------------------------
(* kill() or the end of a process.  It takes the tokens it has been given   *)
(* along and stays in the queues it waits in.                               *)
Die(p) ==
  /\ Interfere /\ alive[p]
  /\ cpu = p => InUser(p)
  /\ alive' = [alive EXCEPT ![p] = FALSE]
  /\ call' = [call EXCEPT ![p] = NoCall]
  /\ got' = [got EXCEPT ![p] = Nothing]
  /\ Sem!Leave(p)
  /\ cpu' \in IF cpu = p THEN Ready(alive', asleep') ELSE {cpu}
  /\ UNCHANGED table

(* block() and then unblock() of a sleeper: its semWait() returns. *)
Awaken(p) ==
  /\ Interfere /\ asleep[p] # Awake
  /\ cpu \in Proc /\ call[cpu].op = "none"
  /\ Sem!Leave(p)
  /\ UNCHANGED <<table, cpu, alive, call, got>>

Create == \E p \in Proc : "create" \in May[p] /\ createPipe(p)
ClosePipe == \E p \in Proc : "close" \in May[p] /\ \E id \in handed : closePipe(p, id)

KernelStep(a) ==
  WaitForTokens(a) \/ WaitForMutex(a) \/ CriticalSection(a) \/ PostTokens(a)

Next ==
  \/ Switch \/ Create \/ ClosePipe \/ SemOpen
  \/ ReadOrWrite \/ Clear \/ KeyPress
  \/ \E a \in Actor : KernelStep(a)
  \/ \E p \in Proc : Die(p) \/ Awaken(p)

Spec == Init /\ [][Next]_vars

(* The CPU executes what it is given; every ready process is dispatched     *)
(* again and again (the round robin of Scheduler); and a filter (cat, wc,   *)
(* filter in programs.c) that runs reads the next byte.                     *)
FairSpec ==
  /\ Spec
  /\ \A a \in Actor : WF_vars(KernelStep(a))
  /\ \A p \in Proc : SF_vars(Switch /\ cpu' = p)
  /\ \A p \in Proc : SF_vars("read" \in May[p] /\ Begin(p, "read", 0, 1))

-----------------------------------------------------------------------------
(* The calls of kind op on a slot that are at one of the places.  A sleeper *)
(* is already at the place that follows its semWait().                      *)
CallsAt(slot, op, places) ==
  {a \in Actor : call[a].op = op /\ call[a].slot = slot /\ call[a].at \in places}

(* The calls that have passed their first semWait() and not yet done their  *)
(* part of the critical section.                                            *)
WithToken(slot, op, s) == {a \in CallsAt(slot, op, {"mutex", "critical"}) : asleep[a] # s}

(* readPipe() and writePipe() keep two accounts of a pipe, the count and    *)
(* the two semaphores.  At every step, and whoever is between two semaphore *)
(* calls, they agree: each byte is one token of the readers, in the         *)
(* semaphore, with a reader or about to be posted; each free place is one   *)
(* token of the writers.                                                    *)
TokensMatchBytes ==
  \A id \in handed :
    LET slot == SlotOf(id)
        pipe == pipes[slot]
    IN /\ pipe.count = value[pipe.semReaders]
                        + Cardinality(WithToken(slot, "read", pipe.semReaders))
                        + Cardinality(CallsAt(slot, "write", {"post"}))
       /\ PIPE_BUFFER_SIZE - pipe.count = value[pipe.semWriters]
                        + Cardinality(WithToken(slot, "write", pipe.semWriters))
                        + Cardinality(CallsAt(slot, "read", {"post"}))

(* The tests of count in the critical sections never fail: no byte is       *)
(* dropped by a write and no read comes back with fewer bytes than asked.   *)
NothingSkipped ==
  \A a \in Actor :
    call[a].at = "critical" /\ asleep[a] = Awake =>
      /\ call[a].op = "write" => PipeOf(a).count < PIPE_BUFFER_SIZE
      /\ call[a].op = "read" => PipeOf(a).count > 0

(* A pipe that was handed out is open and has three semaphores to itself:   *)
(* no program and no other pipe, opened before or since, has one of them.   *)
SemaphoresAreItsOwn ==
  \A id \in handed :
    LET slot == SlotOf(id)
    IN /\ pipes[slot].isOpen
       /\ Cardinality(SemsOf(slot)) = 3 /\ SemsOf(slot) \subseteq (used \cap queued) \ opened
       /\ \A s \in Slot \ {slot} : SemsOf(s) \cap SemsOf(slot) = {}

(* Every slot is a bounded queue of bytes: what a read stores in its        *)
(* caller's buffer is the oldest byte written and not yet read, whatever    *)
(* the interleaving, the wrap-around, the kills and the calls that go on    *)
(* after a semWait() that gave them no token.                               *)
Contents(pipe) ==
  [i \in 1 .. pipe.count |-> pipe.buffer[(pipe.readIdx + i - 1) % PIPE_BUFFER_SIZE]]

Queue == INSTANCE Channel WITH
  Caller <- Actor, Capacity <- PIPE_BUFFER_SIZE, contents <- [s \in Slot |-> Contents(pipes[s])]

ImplementsChannel == Queue!ChannelSpec

(* With a filter that goes on reading, every write comes to its end, also   *)
(* one that is longer than the buffer, and whoever else writes.             *)
WriterFinishes == \A p \in Proc : call[p].op = "write" ~> call[p].op = "none"
=============================================================================
