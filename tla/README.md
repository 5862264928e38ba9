# SO_TP02 in TLA+

SO_TP02 is a small 64-bit kernel (x64BareBones) with preemptive processes, priorities, semaphores,
pipes, two interchangeable memory managers, a shell, and the tools that build its disk image. This
directory holds TLA+ modules that model it, TLC configurations that check them on small instances, and
theorems that TLAPS proves for every instance.

## The system

| Part | State | Operations | Interacts with |
|---|---|---|---|
| Process lists (`process/process.c`) | four queues of PCBs (ready, blocked, blockedBySem, zombie), `currentProcess`, `foregroundProcess`, `idleProcess` | add, switch between queues, kill, next process, count | used by the scheduler only |
| Scheduler (`process/scheduler.c`, `asm/interrupts.asm`, `asm/process.asm`) | `currentPid`, `nextFreePid`, `quantum`, every PCB | timer tick, create, yield, block, unblock, kill, exit, waitpid, changePrio, getProcessInfo | timer interrupt, system calls, semaphores, keyboard |
| Semaphores (`semaphores/semaphore.c`) | `NUM_SEMS` records: value, used, lock, queue of pids | init, open, close, wait, post | scheduler (sleep, wake), pipes, user programs |
| Pipes (`pipes/pipes.c`) | `MAX_PIPES` bounded buffers, three semaphore ids each, `next_sem_id` | create, read, write, close, clear | semaphores; standard input is pipe 0 |
| Keyboard (`drivers/keyboardDriver.c`) | shift, caps, ctrl flags | interrupt: write a key to pipe 0, or kill the foreground process | pipes, scheduler |
| Memory managers (`memoryManagement/`) | buddy: free lists per level and block headers; bitmap: one cell per block | alloc, free, info | everything that allocates |
| Queue (`ds/queue.c`) | a linked list with front, rear and size | enqueue, dequeue, contains, remove | process lists, semaphores |
| Text driver (`drivers/textModule.c`) | cursor, font size, the screen's cells | put, delete, line feed, scroll | `write`, echo of `readLine` |
| Clock (`drivers/clock.c`, `drivers/time.c`) | the registers of the real-time clock and its index, tick counter | read a date, difference of dates, wait for seconds | sleeping processes, which yield in between |
| Shell (`shell.c`, `shellfunctions.c`) | the line, its blocks of memory, the pids and the pipe of a pipeline | parse, start, wait, close, built-ins | processes, pipes, allocator |
| Philosophers (`phylo.c`) | seats, states, pids, a mutex and a semaphore per seat | take and put forks, seat, remove, kill all | semaphores, processes |
| Programs and tests (`programs.c`, `tests/`) | | filters, `readLine`, loops; `test_sync` counts up and down | system calls only |
| Packer and loader (`ModulePacker`, `moduleLoader.c`, `kernel.c`, `_loader.c`) | the image, the cells of memory | pack, copy each module, clear both BSS areas | once, before `main()` |
| Disk image tool (`Bootloader/BMFS/bmfs.c`) | directory records and blocks of an image file | initialize, format, create, read, write, delete | the build, on the host |
| Exceptions, sound, video, libraries | hardware registers | print, beep | |

There is one CPU. Every kernel entry is an interrupt gate (`idtLoader.c` 41-49) and every system call
starts with `cli` (`syscallDispatcher.c` 215), so a kernel entry runs alone up to the point where it
gives the CPU away with `int 20h` (`callTimerTick`). What makes the code hard is what happens
*between* those points: a process that comes back from `blockProcess` or `blockProcessBySem` goes on
inside the kernel with whatever it read before; the keyboard interrupt does kernel calls in the name
of the process it interrupted; and the running process may be killed while its stack is the one in use.
One call does not run alone at all: `rtc()` (`clock.c` 14-17) turns interrupts on and never off again, so
a process that sleeps in `wait_seconds()` can lose the CPU between any two instructions.

### What makes each part correct

* Process core: queues, states and the current and foreground pointers never disagree; a death is
  final and reaches the parent that waits for it; one process runs at a time, on its own stack; every
  ready process is dispatched.
* Semaphores: no more waits pass than tokens exist; no token is kept while somebody waits, and none is
  lost; sleepers are served in order and can be found by the post that should wake them.
* Pipes: what is read is what was written, in order; a full pipe and an empty one block the right side.
* Memory managers: blocks handed out are disjoint and inside the heap; what is freed can be had again.
* Queue: what is enqueued is dequeued once and in order; no link reaches a freed node.
* Philosophers: neighbours never eat at once; who is hungry eats; the manager gets back to the keyboard.
* Shell: the prompt comes back after every line; a pipe lives as long as its users; a line's blocks are freed once.
* Terminal: the screen shows what `readLine()` has stored.
* Clock: who waits, waits as long as asked and no longer, give or take a second.
* Loader: every module is where it was linked for, and no binary is cleared with the BSS.
* Disk image: files share no block and give back what was written.

## Modules

```
Scheduler  <--EXTENDS-- Semaphores  <--EXTENDS-- MCSemaphores
   ^   ^                  ^     |
   |   +-- MCScheduler    |     +--implements--> SemaphoreTable --EXTENDS--> CountingSemaphore
   |                      |                       ^            ^
   |                      |                       | INSTANCE   | EXTENDS
   +-- SchedulerProofs    |                     Pipes       DiningPhilosophers, TestSync
          ^               |                       |            ^
          |               |    MCPipes --EXTENDS->|            |
    LifecycleProofs       |  PipeProofs --EXTENDS>|         MCUserland --EXTENDS--> Shell
          ^               |                       |
          +------- SemaphoreProofs                +--implements--> Channel

DiningPhilosophers <--EXTENDS-- PhilosopherProofs        Shell, TestSync, Clock <--EXTENDS-- UserlandProofs

BuddyAllocator  --implements--> Allocator <--implements--  BitmapAllocator
      ^                                                          ^
      +-- MCBuddyAllocator       MemoryProofs --EXTENDS--> BuddyAllocator, BitmapAllocator

LinkedQueue --implements--> Fifo        Bmfs <-- MCBmfs        Clock <-- MCClock

ServiceProofs --EXTENDS--> LinkedQueue, Terminal, ModuleLoading, Bmfs

MCServices --EXTENDS--> MCBmfs, MCClock, ModuleLoading, LinkedQueue, Terminal, BitmapAllocator, BuddyAllocator
```

`Semaphores` has the scheduler underneath; its clients are modelled on `CountingSemaphore`, which it is
shown to implement. `MCUserland` and `MCServices` check several components in one run: the variable `part`
says whose behaviour it is, and the others' variables stay in an initial state.

### Scheduler

`Scheduler.tla` is `process.c`, `scheduler.c` and the switch of `interrupts.asm`.

* `pcb`: the PCB of each pid, `FREE` when there is none. `queue`: the four queues as sequences of pids.
  `current`, `foreground`: the two pointers of the process manager. `currentPid`, `quantum`,
  `nextFreePid`: the statics of `scheduler.c`.
* `cpu` and `frame` are what the code keeps in the stack pointer: `cpu` is the context (stack) in use,
  `frame[c]` what context `c` does when it runs: its program, the `hlt` loop, the loop behind the exit
  call of `wrapper`, or the rest of a system call that gave the CPU away. `pcb[p].rsp` names the context
  that a switch to `p` resumes. Keeping `cpu` apart from `current` matters: in this code they are not
  always the same.
* One action per kernel entry, up to the switch: `TimerTick`, `Yield`, `CreateProcess`, `ChangePrio`,
  `Block`, `Unblock`, `Kill`, `CtrlC`, `Exit`, `WaitpidReap`, `WaitpidBlock`, and `BlockBySem`,
  `UnblockBySem` for what semaphores do. `WaitpidResume` and `KernelReturn` are what a context does when
  it is given the CPU back. `Dispatch` is `schedule()` with `getNextProcess()`.
* Left out: names, arguments, return values and file descriptors of processes. The first switch
  (`static int first`) is the one made from the context of `main()`, `cpu = Boot`.

Bounds and constants: `MaxPid` bounds the pids handed out; `QUANTUM`, `MAX_PRIORITY` are the code's
(3 and 5) made smaller for TLC; `Priorities` the values callers pass; `BlockTargets` the pids that
programs name in `block` and `unblock`; `AllocFails` which allocations of `createProcess` may fail;
`SelfKill` whether the running process may be killed in place (Ctrl-C, `kill` on oneself) rather than
by `exit`.

### Semaphores

`Semaphores.tla` adds the semaphores of `semaphore.c` to the scheduler: `sem` is the table,
`sleepingOn[c]` the semaphore in whose `wait()` context `c` gave the CPU away, and `held` a history
variable that counts the tokens a context got less those it posted. `SemWaitTakes`, `SemWaitFails` and
`SemWaitSleeps` are the three ways through `wait()`; a post takes the first pid of the semaphore's own
queue and calls `unblockProcessBySem` on it, whatever has become of that process.

`Disciplined` restricts callers to the protocol of a mutex (as `tests/test_sync.c` and `phylo.c` use
theirs); without it anyone posts. `Sloppy` adds uses before `semInit()` and closes while in use.
`IdleWaits` lets the keyboard interrupt call `wait()` while `idle` halts (or loops on a dead process's
stack), which it does when standard input is full: pid 0 enters the semaphore's queue and nobody sleeps. `MaxAhead` bounds how far the waits
and posts of one context may drift apart, `MaxWaiters` the length of a semaphore's queue,
`SemAllocFails` says which allocations may fail.

A `semInit()` that gets no memory for its queue calls `freeMemory(manager)` (`semaphore.c` 50): not the one semaphore but the
table of all semaphores is freed, and every later call goes on using it. `table` records that. From then on the semaphores
work as before on what the memory still holds, until `TableReused` writes into one of them, at any time and any number of times: a
value of `Garbage`, the flag `used`, or the pointer to the queue, which is then null or points to no queue. `NoWaiterWithTokens`,
`NeverOverdrawn` and `NoTokenLost` say `TableKept =>`: they are lost with the table.

`ImplementsCountingSemaphore` relates the levels: `value`, `queued`, `waiters` and `table` are read off, and a
process is asleep on `sleepingOn[p]` as long as its PCB says WAITING_SEM.

### CountingSemaphore

`CountingSemaphore.tla` is what the semaphores' clients see: a value, a queue and who sleeps where. It
promises no more than the code: a waiter that was killed or unblocked by pid stays in the queue and
uses up a post, and a caller that cannot sleep queues and goes on.

`SemaphoreTable.tla` adds the table: a failing open frees it, and then values and queues may be overwritten, which wakes
nobody. This is what `Semaphores` implements. The clients (`Pipes`, `Shell`, `TestSync`, `DiningPhilosophers`) are modelled on
`CountingSemaphore` alone, with every `createQueue()` successful: what is said of them holds as long as the table is not freed.

### Pipes and Channel

`Pipes.tla` is `pipes.c`: the table `pipes`, `next_sem_id`, and for every actor (the processes, and idle
for the keyboard interrupt that finds it) the `call` it is in: which of the four places of the loop
it has reached (`tokens`, `mutex`, `critical`, `post`), how many bytes are left. `semWait` and `semPost` are
the abstract semaphores; a call keeps the CPU (`cpu`) between them unless it sleeps, as in the code. `used` and `queued` are
the semaphore table as `semInit` and `semClose` see it, `handed` and `opened` record which ids pipes
and programs own. Ids are checked and shifted as `PIPE_ID_CHECK` does it, so that with six slots ids 3
and 4 cannot be closed and 6 and 7 not be used.

After a close, a call that was inside meets semaphore -1, the element before the semaphore table. With the
buddy manager that is the header of the block the table lives in, whose two pointers are zero: a semaphore of
value zero without a queue, on which the caller sleeps for ever. If the slot was created again in the meantime,
the call goes on in the new pipe, and adds a token too many to it: `TokensMatchBytes` holds only while no
pipe is closed with calls inside, and `ImplementsChannel` in any case.

`Channel.tla` is the promise: a bounded queue of bytes per slot, from which a reader takes the oldest.

Bounds: `MaxSize` bytes a call, `MaxDrift` surplus tokens and queued pids when a call begins (they grow only
with kills, unblocks, failed waits and clears). `May` says which calls each process makes, `UserSems` which ids
programs open.

### Allocator, BuddyAllocator, BitmapAllocator

`Allocator.tla` is the promise of `memoryManager.h`: a block that is handed out lies in the heap, is as long as
was asked, and overlaps nothing that is out. Both managers are shown to implement it.

`BuddyAllocator.tla` is `buddyMemoryManager.c` down to the links: `header[a]` is what the memory at address `a` holds,
read as a `BuddyBlock`, whether or not a block starts there now; `blocks` are the heads of the lists. A header
outlives its block until an owner writes over it (`written`), and `mergeBlocks` reads such headers. An address counts
units of the smallest block. The kernel's heap starts at 0x600000; in units of 2 MB that is 3, which is why
`HeapStarts` has 3: below 2 MB every block is aligned as in the aligned heap. `owned` records what callers own.
Taken for granted: what callers write never looks like the header of a free block, and the memory behind the root
block is never written.

`BitmapAllocator.tla` is `bitmapMemoryManager.c`, cell by cell, in units of `BLOCK_SIZE`. A request of zero bytes, which
marks cells outside the bitmap, is left out.

`MaxGiven` bounds how many blocks are out at a time (buddy).

### LinkedQueue and Fifo

`LinkedQueue.tla` is `queue.c` with its nodes: `front`, `rear`, `size`, `data` and `next` of every address the heap can
give, and `allocated`, the ones it has given. Interrupts are off, so a call is one action; the loops of
`containsQueue` and `removeFromQueue` stop at the first node that compares equal. `chain`, a history variable,
lists the nodes from front to rear; `Chained` says that the links are that chain and that no other node is
allocated, and `KeepsOrder` that the data along it is the queue of `Fifo.tla`. `enqueueFails` is an allocation that fails.

### DiningPhilosophers

`DiningPhilosophers.tla` is `phylo.c`. `at[p]` is where the philosopher process `p` is between two semaphore calls,
`manager` where `phylo()` is; what a process does while it holds the mutex is one step, as nobody else
touches that state without it, except the manager, which kills without the mutex at the end
and is therefore split call by call. Removing closes the seat's semaphore (`semClose` frees its queue) and
kills the process wherever it is; a philosopher killed asleep stays in the mutex's queue and takes a post with it, after which
the table may stop for good (`swallowed`). When the last seat is removed while its two neighbours eat, the first and the new
last philosopher are side by side and both eat: `OnlyRemovalJoinsEaters` says that no other two neighbours ever do, and these
only at a table that a removal has made smaller. `MayFail` lets each call of `addPhilosopher()` that can fail do so.

### Shell

`Shell.tla` is the loop of `shell.c`, the handlers of `shellfunctions.c` and the programs as readers and writers of
one pipe. `line` is what was typed, as commands; `blocks` are the blocks of memory the line still owns (the command record, one
argument vector per command), `started` the `pids[]`, `child` the processes. A program reads (`cat`, `wc`), writes for ever
(`loop`) or writes and ends (`echo`, `clear`); handlers of the same form are represented by these. `waitpid()` is as
`Scheduler` has it: it blocks on a child that is ready, returns at once for one asleep on a semaphore.

Things the module contains because the code does them: a killed program writes no EOF, so that its reader
waits for ever (`Orphan`); a program alone in the background on the terminal is created blocked; a pipe is closed
under children that `waitpid()` did not wait for, and who sleeps in it then is `stranded`;
`clear` frees arguments the shell frees again; a built-in in front of a pipe and an unknown
command behind one lose the second argument, and all three blocks stay when no pipe can be opened
(`shell.c` 191-193); an unknown command in front of a pipe, and `exit` in one, call
`instruction_handlers[-1]` or `[19]` (`shell.c` 258), after which the model goes no further (`undefined`). Undefined
behaviour that is left out: handlers write the argument vector of a child through `char *args[1]` without a place for
its end (`shellfunctions.c` 199), and `getInstruction` passes `free` the pointer behind a pipe sign (`shell.c` 127, 153).

### TestSync

`TestSync.tla` is `tests/test_sync.c`: four processes that read, yield and write one number, with the semaphore around it or
without, and the parent that waits for them, closes the semaphore and prints. `early` records that `waitpid()` came back from a child
that was asleep on the semaphore; the parent may then close it under its children, and the number
it prints means nothing.

### Terminal

`Terminal.tla` follows a key: the keyboard interrupt with its modifiers, pipe 0 (`typed`), `readLine()` with its buffer and echo, and
`putChar()`, `deleteChar()`, `lineFeed()` and scrolling on a grid of cells of one font size. Glyphs are drawn over what a cell
holds, so a cell is the set of what was drawn since it was cleared. The last row is never written on.
`disturbed` records what spoils the line's picture: Ctrl-C (another program prints), Ctrl-D (whose EOF `readLine()` does
not see), and a backspace on a full row or over the beginning of one. Left out: font sizes, where
`fontSizeDown` may underflow (`textModule.c` 238) and a changed size leaves the cursor between cells.

### Clock

`Clock.tla` is a process in `wait_seconds()`. A date is six reads; each is `rtcChoose` (up to the `sti`) and `rtcRead`, with `Tick`
(the hardware's second) and `OtherChooses` (another process in `rtc()`) in between, so that a field may hold the number of another register.
`getTime(0)` then adjusts it, and reads `daytab` out of bounds when the month is such a number: the outcome is any of
`Strays`. `toMillis` is `diffTimeMillis`'s sum in an `int` (it wraps, as compiled), `GoesOn` the loop's test: a signed
quotient against an unsigned number, so that whatever makes the difference negative (a start read too late, a month of 31 days, a wrap)
ends the wait. The quotient is rounded towards zero, so that a difference of less than a second below zero does not. `slept`, `steady`,
`trusted` and `seam` are history. The calendar is small: minutes, hours and days have 2
of the next smaller unit, a year three months of 4, 2 (3 in leap years) and 4 days of which `diffTimeMillis` counts 3, a
century 2 years; a second has 3 of the units an `int` counts, which wraps after 128 of them: in the middle of the year, and not at a full
second, as the one of 32 bits does. `getTimeParam()` and
`getTime()` with an offset have no caller.

### ModuleLoading

`ModuleLoading.tla` goes from the packer to the first user instruction, cell by cell: `buildImage()` lays kernel, count, sizes and
binaries in a row; `loadModules()` copies each to its target, one cell a step; `clearBSS()` clears the area the packed
binaries lie in; `_start` clears the user's BSS. `ImageFits` is what the linker scripts provide for.

### Bmfs

`Bmfs.tla` is the tool `bmfs.c`: `directory` the records in their order on disk, `block` a datum per block. `initialize` reads the size
argument digit by digit in numbers below `Wrap` (2^64; `readDigit`, `timesKilo`), with a test for overflow that products which wrap and
still grow pass; the size every other call works with (`disksize`) is measured, and filling the disk may fail
half-way (`ShortSizes`) unnoticed, because `bmfs.c` 524 asks the wrong file for its error. `create` sorts a copy
of the directory with deleted records last, among each other in any order (`SortedCopies`: `qsort` is not
stable), and looks for room between the records in the copy; `strayed` records that it looked behind a deleted record, in a directory
without an end mark or on a disk too short, where the arithmetic is on numbers that mean nothing. `stored` records what was last written to each file.

## Runs

All passing runs but `userland` and `services` check deadlock too: the timer always ticks, the pipes' processes are
always dispatched. The dinner, a loaded image, and a buddy manager after a request that is too
large come to an end.

| Run | Instance | What it shows |
|---|---|---|
| `sched_all` | shell and two processes, priorities below, inside and at idle's, block by pid, failing allocations, kills in place, fair timer | lists, states and counts agree (`QueueDiscipline`), `foregroundProcess` never points to a dead PCB, no waiting parent misses a death (`NoLostWakeup`), deaths are final, only parents reap, only the awaited child wakes (`ReapedByParent`); round robin starves nobody, waiting parents come back |
| `sched_exit`, `sched_waitpid` | | two sentences of the sources the code contradicts, below |
| `sem_mutex` | one semaphore with one token, three processes, exits and kills of others | mutual exclusion (`NeverOverdrawn`), never a token and a waiter at once, no token lost while waiters live; with holders that post, a sleeper passes |
| `sem_any` | two processes, any use, a `semInit()` that fails and frees the table, no kills in place | one process is RUNNING and runs on its own stack; semaphores refine the scheduler's `Spec` and `SemaphoreTable`, which is `CountingSemaphore` until such a failure |
| `pipes_data` | one pipe of two places, three processes, two-byte calls | tokens and bytes agree at every step (`TokensMatchBytes`), no byte is dropped; with a filter that goes on reading, writes longer than the pipe end |
| `pipes_any` | kills, unblocks, clears, failing allocations, keys while idle halts | the pipe is still a bounded queue |
| `pipes_ids` | six slots, 17 semaphores, two of them wanted by programs, closes with calls inside | a pipe that was handed out has its semaphores to itself |
| `userland` | up to four seats and four philosopher processes, three asked for, calls that fail; three children, 16 lines, a pipe of two bytes; four counters of one round | neighbours do not eat together but for the first and the last after a removal, hungry tables eat, the manager returns to the keyboard; blocks are freed once, the pipe outlives its users, the prompt comes back; the counters cancel out |
| `services` | see below | sizes are read right and files read back; a wait is as long as was asked (`SleepsAsAsked`): a steady look at the clock ends one that is over, within a second even if its start was read from others' registers, as long as it was judged within the second, and none ends early but at a seam of the count; modules arrive whole; the screen shows the line; the list is a chain and a queue; both managers keep the promise of `Allocator`, find the room there is and merge what is free on the aligned heap |
| `buddy_merge` | the heap at 3 | a sentence the code contradicts, below |
| `disk_overlap` | three names and records | a sentence the code contradicts, below |

Processes: three contexts besides idle (the shell and two processes) are enough for a waiter, a waker and a killer to be
different processes, or for two sleepers and a holder; a dead process's place in a queue is told apart
from a living one's; one tick of quantum per priority step is enough for a tick that does not switch.
Two priorities are enough for quanta to differ. Larger counts only repeat these roles: the code
never compares pids except for equality and with 0 and 1.

Semaphores: one that fails to open, is closed and opened again stands for one that was open when another failed: both are live in a
freed table. A `Garbage` of 2 is a value no semaphore was opened with; smaller ones come from it by waits.

Pipes: two places have an empty, a partly filled and a full state and wrap around after two bytes; two byte
values tell an old byte from a new one. Six slots are the fewest with a pipe that can be closed, and
17 semaphores leave the last creation short of one or two.

Userland: with two seats left and right neighbour are the same, with three they differ, and four are the fewest at which some seats are
not side by side, so that two may eat at once and a removal can bring eaters together; the last process asked for may come after a
removal. Three children are a pipeline and whatever an earlier line left behind. The lines hold each path through the switch of
`shell.c`, alone and in pairs. One round of a counter is a read and a write that others can come between.

Services: eight units of heap give four levels, two of which are misaligned at 3, so that splits and merges of three steps happen,
with buddies of every kind: free, given out, split, before the heap and inside a larger block. Nine
bitmap cells hold groups with and without a middle that touch each other, and one that fits in one place only. Three nodes and items, two of
which compare equal, have a first, a middle and a last node, a match that is not the first node, and a key nobody has. A disk of six
blocks with three records is filled by files of one and two blocks, and lets one be deleted in front of, between
and behind others; sizes of 96 and 011M (176 where a K is 4) fit into words of 8 bits, the second with a leading zero and a unit. A kernel of two cells, targets 12 and 17 and
modules of up to six cells make images that fit exactly and ones that do not. On a screen of three by three a line of eight scrolls, fills
a row and wraps. States in which `strayed` or `disturbed` is set are not explored further (`Undisturbed`).

A wait is of two seconds and begins before the end of a day, of a long month, of February, of the century, or before the count of
milliseconds wraps. `MaxTouches` bounds how often others choose a register during a wait, `Patience` the seconds it lasts.

### Fairness

`FairSpec` is weak fairness of the timer tick and of the continuation of a context that was given the
CPU back inside the kernel. Both are hardware: the timer interrupts forever and the CPU executes the
next instruction. Nothing is assumed of programs: they may loop forever. `FairSemSpec` adds that a
program that holds a semaphore and is given the CPU again and again posts it (strong fairness of
`SemPost` by each context), which is the protocol of the semaphore's clients and not a promise of the
kernel.

For userland, `FairUserlandSpec` is weak fairness of each philosopher, of the manager, of the shell and of each child,
which the round robin gives them (`EveryReadyRuns`). Keys need not be pressed, except that the philosophers the command
line asks for are seated without any; a program that reads the terminal may wait for ever, and
`PromptComesBack` says so.

For pipes, `FairSpec` says that the CPU goes on with a call it is in, that every ready process is dispatched again and
again (`EveryReadyRuns`, checked by `sched_all`), and that a filter that is given the CPU in its program again and again
reads the next byte, as the loops of `cat`, `wc` and `filter` do.

### Where the code and its comments disagree

* `sched_exit`: `process.asm:10` says of the loop behind the exit call `should never be here`, and
  `syscallDispatcher.c:112` `no deberia ejecutarse`. `killProcess` (`process.c:302`) makes idle the
  current process before the switch, so `schedule()` (`scheduler.c:139`) stores the dead process's stack
  pointer in idle's PCB. The next time the ready queue is empty "idle" is the dead context, which
  returns from its exit call into the loop, on a stack that has been freed.
  Ctrl-C on the running process takes the same way (`keyboardDriver.c:189`, "mata al proceso actual"): the
  killed program itself goes on in the place of idle.
* `sched_waitpid`: `waitpid()` waits for a child with `state < ZOMBIE` (`scheduler.c:263`), and
  `WAITING_SEM` comes after `ZOMBIE`: a living child that sleeps on a semaphore makes `waitpid()` return
  -1 at once. The comment above the test says it blocks while the process still runs.
* `buddy_merge`: `buddyMemoryManager.c:276` says "Si el buddy está libre, fusionarlos". `getBuddy` flips a bit of the
  absolute address, and the heap is aligned to 2 MB only: for blocks of 2 and 4 MB the flipped address is
  before the heap or belongs to another pair. After one small allocation and its free, two halves of 2 MB
  stay apart. `NothingLostOrShared` holds on that heap all the same: blocks that merge are always
  neighbours.
* `disk_overlap`: `bmfs.c:659` says "Find an area with enough free blocks". The search takes the first deleted record, which the
  sort put last, for the end of the disk, and looks for room behind deleted records too: create two files, delete the first, create it again larger
  than it was, and it lies over the second.

Other behaviours of the code that the models contain, and that no sentence of the sources denies: a killed waiter's pid stays in
the semaphore's queue and takes the next token with it; `block` and `unblock` of a sleeper make its
`semWait` return without a token; a process created with the priority of idle is put in no queue; a waiter without memory for
its node sleeps in no queue and for ever; a `semInit()` without memory for its queue takes all semaphores with it; `clearPipe` resets the count but not the semaphores, so
that later reads come back empty; a key pressed while the input is full and idle halts is dropped and
leaves a token behind; a failed `createPipe` leaves its slot open; a
process whose queue node cannot be allocated is lost; `semClose` strands the sleepers; a wait that a month's end falls into
may end at once. What the sections on the shell, the philosophers, the terminal and the disk list belongs here as well.
A tick between `load_idt` and the end of `main` is not modelled (`Init` is the state after `main`).

## Proofs

Eight modules hold theorems. Unless an assumption is named, a theorem is about every value of the constants that the
`ASSUME` of its module allows: any number of processes, semaphores, slots, seats or blocks, any quantum, any choice of failing
allocations, interrupts and callers. The assumptions say of numbers that they are numbers and of ids that they do not collide
(`Awake` and `Nowhere` are no semaphores, `SEM_ID` is one; `ShellAssumption` says of the shell's bounds that they are natural numbers and
of the pipe that it holds a byte). `BuddyAssumption` takes from `defs.h` and `buddyMemoryManager.c` that the root block is the largest power of two
in the heap and that its level has a list; `TerminalAssumption`, `LoaderAssumption`, `BmfsAssumption` and the clock's `SeamAssumption` are explained with their modules below;
`ClockAssumption` and `BeginsAssumption` say that there are two tables of as many months each, that waits begin at dates, and that they last at most a day.

What a recursive definition computes is proved by induction where a theorem needs it (the sums of tokens, the walk over a free list, splits and
merges, the echo of a line, the image, the digits of a size). The library's induction theorems take an operator as a parameter and cannot
be used by the provers; `Naturals` states induction for a set instead and is proved from the well-foundedness of `<`.

| Module | Theorems |
|---|---|
| `SchedulerProofs` | `TypeCorrect`, `QueuesAgree` (`QueueDiscipline`) |
| `LifecycleProofs` | `ForegroundAlive`, `NoWakeupIsLost`, `OnlyParentsReap` (`ReapedByParent`); `OneProcessRuns` and `StacksAreNotShared` assuming `~SelfKill` |
| `SemaphoreProofs` | `SemaphoresUseScheduler` (`SemSpec => Spec`), `NoTokenIsMissed`, `SemaphoresRefine` (`ImplementsCountingSemaphore`); `TokensAreNotForged` (`NeverOverdrawn`) assuming `Orderly`, `NoTokenDisappears` (`NoTokenLost`) assuming `Orderly` and `~IdleWaits` |
| `PipeProofs` | `PipesAreChannels` (`ImplementsChannel`), `PipesOwnTheirSemaphores`; `BytesAreTokens` and `NoByteIsSkipped` assuming `Calm` |
| `MemoryProofs` | `BitmapIsExact` (`MarksMatchBlocks`), `BitmapKeepsThePromise` (`ImplementsAllocator`), `NoRoomIsOverlooked` (`RoomIsFound`); `BuddyKeepsThePromise` (`BuddyImplementsAllocator`), `BuddyLosesNothing` (`NothingLostOrShared`), `BuddyMergesHalves` (`AlignedHeapMerges`) |
| `ServiceProofs` | `QueueIsChained` (`Chained`), `QueueImplementsFifo` (`KeepsOrder`); `EchoIsFaithful` (`EchoMatchesLine`); `ImageIsUnpacked` (`ModulesAreInPlace`); `SizeIsTheOneAsked` (`DiskHasTheSizeAsked`), `FilesReadBack` (`ReadsWhatWasWritten`), `FilesShareNoBlock` |
| `PhilosopherProofs` | `EatersAreApart` (`OnlyRemovalJoinsEaters`), `MutexIsExclusive` |
| `UserlandProofs` | `CountersCancelOut` (`FinalValueIsZero`), `BlocksAreFreedOnce` (`BlocksAreReturned`), `PipeStaysOpen` (`PipeOutlivesItsUsers`); `WaitsAreAsLongAsAsked` (`SleepsAsAsked`) |

### Process core

`SchedulerProofs` has one inductive invariant, `IInv`: `TypeOK`, `QueueDiscipline` and three facts that make
them inductive. The pids from `nextFreePid` on have no PCB (`NoneBorn`), or a creation could enqueue a pid
twice; idle is never in a queue and never changes its parent, or a kill would reap it;
a frame that is inside `waitpid()` names the process that called it. The queue lemmas state what `switchProcess`,
`removeZombieProcess` and `rotateReady` do to the queues' contents and to `IsInjective`, over any
queues that satisfy the discipline; `Dispatch` is proved once, for any lists `P` and `Q`, and used by
every action that gives the CPU away. `NextInv` has one step per action.

`LifecycleProofs` adds `LifePart`, whatever is killed: idle can always be dispatched; the foreground process lives and asked for the
foreground; a process waits for a child of its own; and a context inside `waitpid()` belongs to one process as long as that one
lives, is the context it will run in, and waits for a child that lives while the process sleeps. A lost wake-up would
need the last to fail first: a child that dies between the test in `waitpid()` and the block, or a context
that is resumed for somebody else. `OnlyParentsReap` is a property of steps and follows from `LifeInv`, action by action. Its
statement had to be made more precise for the proof. `waitpid()` frees in the name of the process that called it, and
that need not be `current` (`Caller`): a running process killed in place leaves its context to idle, and when that
context is inside `waitpid()` it goes on there.

`StackInv` adds whose stack is whose. It needs `~SelfKill`: a running process killed in place leaves idle on a dead stack, from
which a process created in that moment may start (the finding of `sched_exit`).

### Semaphores

`SemaphoresUseScheduler` shows that every step of a semaphore call is a step of `Scheduler` or leaves it alone, so that all theorems above
hold under the semaphores. `NoTokenIsMissed` needs `TypeOK` and that a queue is there when its semaphore is used.

`SemaphoresRefine` is the refinement that the modules above the kernel rest on. Its invariant, `RefineInv`, is `LifeInv`, the semaphores' own
invariant, `QueuePart` and `ContextPart`. The last one carries the argument: the abstract semaphore knows which *process* sleeps, the code which
*context* called `wait()`. They agree because a process that is not idle runs in its own context, or in one whose process is idle or
dead (`Adrift`), and whoever runs in a borrowed context never slept in its own. Kills in place are allowed here, and so is every
failing allocation: a `semInit()` that fails is the abstract `OpenFails`, what a new owner writes is `Overwritten`, and a semaphore
that is opened over garbage is `Reopen`ed. `NoTokenIsMissed`, `TokensAreNotForged` and `NoTokenDisappears` speak of the time before
the table is freed; it is freed once and for all (`TableStays`).

`TokensAreNotForged` and `NoTokenDisappears` are two halves of one account. `TokenInv` adds to `RefineInv` and `StackPart`: `Accounts`, that
the value of a live semaphore and what each context has (its `held`, and one more if it was made ready in `wait()` and has not run
since: `Credit`) come to at most `InitialValue`, and to exactly that while nobody who is in `wait()` is dead; `Entries`, that
a pid in the semaphore's queue sleeps there or died there, and is there once; and `Sites`, where a sleeper's context is. A post that finds a
sleeper moves the token from its caller to the sleeper, one that finds a dead waiter loses it, and a kill can only take away. The account is a sum
over all contexts, `SumOver`; the lemmas about that fold (it changes as one of its terms does, grows with its terms, counts)
are proved by induction over the size of the set.

`Orderly` says that no running process is killed in place, nobody is blocked or unblocked by name and
semaphores are neither used before `semInit()` nor closed in use; `~IdleWaits` that the keyboard does not wait on behalf of idle. TLC finds
`NoTokenLost` violated as soon as one of these is dropped from the mutex, and `NeverOverdrawn` without the second or the third. A kill
in place, or a `wait()` for idle, breaks only the former there: the token goes to a pid that does not come for it. (`TokensAreNotForged` shares
its invariant with the other theorem and so assumes more than it may need.)

### Pipes

`PipesAreChannels` rests on `RingInv` only: `count` bytes lie behind `readIdx`, and `writeIdx` is where they end. It takes no token into
account, since each call tests `count` again in its critical section; this is why it holds with kills, unblocks, clears and
closes. `PipesOwnTheirSemaphores` adds to it that an open pipe has three consecutive ids below `next_sem_id`, that these triples are disjoint, and
that a pipe that was handed out has initialised its ids itself, in a table where no program had taken them (`OwnInv`).

`BytesAreTokens` and `NoByteIsSkipped` add the accounts (`CalmInv`): the bytes of a pipe are its readers' tokens, those that calls
hold, and those that are about to be posted, and likewise for the room; whoever sleeps does so in a `semWait()` of its call and is in
that queue once. They are proved where `Calm` holds, which leaves out what is known to break an account: the keyboard, which may add
a token too many when idle halts; kills and blocks by pid, which take a token along or give none; a `wait()` without memory for its
queue node; `clearPipe()`, which resets the count alone; and a close under a call.

### Memory

`MemoryProofs`, bitmap: the inductive invariant adds to `MarksMatchBlocks` that the blocks that are out are disjoint and inside the heap.
An allocation takes cells that are free, hence in no block; a free starts at a cell marked as a start, hence at the
first cell of a block, and meets the first end mark at the last one. `blocksUsed` and `current` play no part in that. `RoomInv` adds that
`blocksUsed` counts the used cells and that `current` lies in the heap: then a request that is refused by the counter
would not have fitted, and the two searches, from `current` on and from the start, miss no group.

Buddy: the three theorems share `BuddyInv`. Its core is `Neat`: there is a set `F` of free blocks such that, together with the blocks
that are out, they tile the heap (`Tiled`: every unit lies in exactly one of them, and none goes beyond the heap), and the list
of each level is linked through exactly those of `F` that have this level (`Sound`). `F` is named rather than computed from the
lists, so that a step is described by what it takes out of `F` and puts into it: a push, a pop at the head, an unlink from anywhere,
a split into two halves, a merge of two. What a list is, `OnList`, is read off the links only at the end, by
induction over the length of the walk. `splitBlockToLevel()` and the loop of `mergeBlocks()` are recursive functions
over the levels, and each is proved to preserve the tiling level by level. A merge believes the header at the buddy's address, and headers
of blocks that are no more are not wiped: `StaleAreUpper` says that one of them looks free only where the address has the bit of its level set. Such
an address is the buddy of the block below it, of the same level, which then covers no more than the space before it, so that what begins there is a
block (`BuddyIsBlock`). This does not depend on the heap's address: a heap that is not aligned, as the kernel's is not, loses nothing and
shares nothing, and merely does not merge (`buddy_merge`). On an aligned heap two more conjuncts hold: every block starts at a multiple of its size (`Multiples`) and no free block has its
other half free (`NoTwins`).

### Queue, terminal, loader, disk

`ServiceProofs`, queue: `Chained` is inductive together with the types. The work is in `removeFromQueue`: the chain without its place `i` is again
a chain, with one link bent over the removed node, front or rear moved when it was the first or the last; and its contents are
the queue's without the item at `i`, which is the first that matches.

Terminal: `TerminalInv` says that nothing stands behind the cursor (`CleanBehind`), whatever was typed, and that an undisturbed line is shown
(`Shows`). The line's places are counted from where it began (`PlaceFrom`), and that place moves up with the screen, above its upper edge if need be:
a scroll then moves cells and places alike. `TerminalAssumption` asks for two rows, because scrolling keeps the last one free, and that the
special keys are not letters. `typed` may hold any number of keys.

Loader: `LoaderInv` describes the image by a layout, the sequence of the places where the packed modules begin, which `buildImage()`
concatenates (`IsLayout`; `FlattenSeq` is a recursive function, whose values are shown to be beginnings of the later ones). The payload stays as it was packed until the
BSS is cleared (`PayloadLies`), and what was copied stays at its target (`CopiesLie`), because a target is never below the end of the payload and never
below the end of the module before. `LoaderAssumption` has what the linker scripts and `kernel.c` provide: the BSS is not inside the
kernel's binary, and the targets ascend.

Disk: `BmfsAssumption` says that there is a largest size to ask for, that a unit is more than 1 and that the two marks in a record are no names. A size
is read by two loops, whose values are compared with the plain products step by step (`DecimalBy`, `ReadBy`, `ScaledBy`,
`TimesBy`): as long as the product is below `Wrap`, so is everything on the way to it, and neither test for overflow refuses it or lets a product wrap. `DiskInv` is
about the directory: no record behind the first end mark is used (`NothingBehindTheEnd`), live records differ in name
(`NamesDiffer`), lie between block 0 and the last block with at least a block each (`OnTheDisk`) and apart from each other (`Apart`), and a name's
record leads to what was stored (`StoredIsRead`, `StoredIsNamed`). `PlaceIsFree` is the argument for `create()`: the sorted copy
has every live record (an injection between finite sets of one size misses nothing), the ones before the place it chooses end there or before, the others
begin behind the room, and the difference that is tested is not below zero. This needs that the record before the place is a live one and that there is
an end mark, and is where `strayed` comes in. `FilesShareNoBlock` says of the time before that what `disk_overlap` refutes for all time.

### Philosophers

The invariant relates each philosopher's place in its program to `state[]` of its seat and to the value and the queue of the seat's semaphore
(`SeatOK`): whoever eats was granted both forks, and a grant is used once. That needs the mutex (`MutexPart`), whose exclusion in turn needs
that a queue holds only sleepers and the dead; and that seats are given to one philosopher at a time (`SeatPart`), whose
semaphore's queue was empty when it sat down (`QueuePart`). `Separate` is the property itself, over the seats that `test()` compares. The property
says when two neighbours may eat, not which step may bring that about, because a removal is not the step: at four seats both may
have been granted their forks before the seat between them goes, and begin to eat after.
`MutexIsExclusive` justifies the steps of the module: what a process does while it holds the mutex is one step.

### Programs

`CountersCancelOut`: the number is the sum of what each counter has written (`SumPart`), while a counter that is about to write has read
the present number; the latter needs that one counter at a time is behind the semaphore (`CountersExclude`) and that the parent
does not close the semaphore before all are dead, which is what `early` is about. Nothing is assumed of the number of rounds.

`BlocksAreFreedOnce` and `PipeStaysOpen` share `ShellInv`: at each place of the loop, which blocks the line still has (`BlocksPart`), and that
every child that may touch the pipe is one of the two the shell has yet to wait for, or is started in the background
(`PipePart`).

`WaitsAreAsLongAsAsked` is about any calendar: any lengths of minutes, hours, days and months, any width of `int`. `ClockInv` says how far
the clock's count is from the start (`Apart`): what it was when the start was judged, the time that went by, at most one
end of a month, and a whole number of turns of the count. `NextSeconds` shows that a second counts for one unless a month ends, and how far the count
then jumps (`Jump`); a second end within the wait would be a day away (`IntoMonth`). `OverIsOver` is the argument: once the
time is over, the difference is either at least what was asked or, after a turn, a second or more below zero, and the test takes
neither for an unfinished wait. `DateIsKept`, `FromDigits` and `SteadyRead` say that six steady reads give the date itself.
`SeamAssumption` asks that the wait is over before the clock has caught up with what the end of a month counts again. With the constants of the
code every end of a month allows for more than a week, except that of a month of 31 days: it counts a day again, so that the start, the wait and the
looks at the clock have to fit into a day (86400 seconds, of which one is for the rounding). A longer wait across such an end may end early, and
a process that first looks at the clock a day too late may go on waiting.

### Model-checked only

* Every liveness property: TLAPS proves no argument that uses fairness.
* `NeverOverdrawn` and `NoTokenLost` outside of `Orderly` are not claimed; see above.
* `TokensMatchBytes` and `NothingSkipped` outside of `Calm`, and `OneRunning` and `RunsOwnStack` with `SelfKill`, are not claimed to hold.

## Not modelled

* The contents of freed memory are taken to survive until it is reused: a dead context resumes where it
  stopped. Calls on a semaphore whose queue was freed are undefined in the code and left out.
* When a failing `semInit()` has freed the table of semaphores (`semaphore.c` 50), what the next owner of that memory writes into it
  is modelled (`TableReused`). Left out are what the semaphores' calls write into the next owner's data, a second failure, which
  frees the block again, perhaps from its next owner, calls through a pointer that is no queue, and a flag `lock` that comes up
  set: `acquire()` then spins for ever with interrupts off and the machine stands still. The clients' modules leave the failure out altogether.
* The lock of a semaphore is never contended (one CPU, interrupts off) and is left out.
* The boot context: between `load_idt()`, which turns interrupts on, and the end of `main()` a tick would abandon `main`
  with the keyboard buffer's mutex held.
* The bitmap manager's addresses: its last blocks lie beyond the heap's end (`bitmapMemoryManager.c` 33), and a
  request of zero bytes marks cells outside the bitmap. The frame of a new process is data.
* Exceptions print and return; sound is output; video, fonts and glyphs are pixels; the two libraries format
  numbers and strings. None has state the properties are about. `beep()` waits for ticks, which `yield()` counts too, as it comes
  through the timer's interrupt; nothing says how long a tone has to be.
* `getTimeParam()`, `dumpQueue()` and the offsets of `getTime()` have no caller.
* The built-ins `block` and `unblock` of the shell are `Block` and `Unblock` of `Scheduler`; in `Shell` they are left out.
* The options of the module packer, host files and messages of `bmfs`, and the third-party boot loader.

## What could follow

1. `TokensAreNotForged` with kills in place, from an invariant that follows a dead process's context.
2. The boot context in `Scheduler`, with ticks from `load_idt()` on.
3. `Shell` over `Pipes` rather than over its own pipe of bytes.
