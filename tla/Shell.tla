-------------------------------- MODULE Shell --------------------------------
(***************************************************************************)
(* The shell's loop (SampleCodeModule/shell.c), the handlers that start    *)
(* its programs (shellfunctions.c) and the programs as far as they read,   *)
(* write and end (programs.c), over one pipe.  The blocks the shell takes  *)
(* for a line are followed one by one.                                     *)
(*                                                                         *)
(* A program that cannot read or write sleeps on a semaphore of the pipe,  *)
(* and waitpid() does not wait for such a child.                           *)
(***************************************************************************)
EXTENDS Integers, Sequences, FiniteSets

CONSTANTS
  Lines,             \* bound: the command lines that are typed
  MaxChild,          \* bound: children started in all
  PIPE_BUFFER_SIZE,
  Output             \* bound: bytes a program writes of its own

ASSUME ShellAssumption == MaxChild \in Nat /\ PIPE_BUFFER_SIZE \in Nat \ {0} /\ Output \in Nat

VARIABLES
  shellAt,   \* where the shell is
  line,      \* pipe_cmd
  blocks,    \* the blocks of the current line that are allocated
  misfreed,  \* history: was a block freed for this line that it did not have?
  started,   \* pids[] of the line: 0 for the background, -1 for none
  child,     \* the processes
  pipe,      \* "closed", or the bytes in the pipe
  hurried    \* history: did waitpid() return before a child of a pipeline was dead?

shellVars == <<shellAt, line, blocks, misfreed, started, child, pipe, hurried>>

Child == 1..MaxChild
Closed == <<"closed">>
Unborn == [at |-> "none", reads |-> FALSE, in |-> "tty", out |-> "tty",
           left |-> 0, ending |-> FALSE, foreground |-> FALSE]

NoCommand == [name |-> "", words |-> 0, amp |-> FALSE]

ShellInit ==
  /\ shellAt = "prompt"
  /\ line = [piped |-> FALSE, cmd1 |-> NoCommand, cmd2 |-> NoCommand]
  /\ blocks = {} /\ misfreed = FALSE
  /\ started = <<-1, -1>>
  /\ child = [c \in Child |-> Unborn]
  /\ pipe = Closed
  /\ hurried = FALSE

-----------------------------------------------------------------------------
(* The programs that tell the loop's paths apart, with what their handlers  *)
(* pass: whether they read standard input, run for ever, take arguments.    *)
Filters == {"cat", "wc"}
Programs == Filters \cup {"echo", "loop", "clear"}
BuiltIns == {"kill"}

IS_BUILT_IN(cmd) == cmd.name \in BuiltIns
Known(cmd) == cmd.name \in Programs \cup BuiltIns \cup {"exit"}

ExpectedArgs(name) == IF name = "loop" THEN 1 ELSE 0

(* anal_arg(): -1 for a wrong number of arguments, else whether "&" ends    *)
(* them.  echo and clear do not call it.                                    *)
anal_arg(cmd) ==
  IF cmd.name \in {"echo", "clear"} THEN 0
  ELSE IF cmd.words # ExpectedArgs(cmd.name) THEN -1
  ELSE IF cmd.amp THEN 1 ELSE 0

(* The new process: loop writes for ever, echo and clear write and end, a   *)
(* filter reads.  In the background and on the terminal it is created       *)
(* blocked; wc is always in the foreground.                                 *)
Process(cmd, in, out) ==
  LET fg == anal_arg(cmd) = 0 \/ cmd.name = "wc"
      stdin == IF cmd.name \in Filters \cup {"clear"} THEN in ELSE "none"
  IN [at |-> IF ~fg /\ stdin = "tty" THEN "blocked" ELSE "ready",
      reads |-> cmd.name \in Filters,
      in |-> stdin, out |-> out,
      left |-> IF cmd.name \in Filters THEN 0 ELSE Output,
      ending |-> cmd.name \in {"echo", "clear"}, foreground |-> fg]

Living(c) == child[c].at \in {"ready", "asleep", "blocked", "stranded"}
NextChild == CHOOSE c \in Child : child[c].at = "none" /\ \A d \in 1..c - 1 : child[d].at # "none"
MayStart == \E c \in Child : child[c].at = "none"

freedByHandler(cmd, arg) == IF cmd.name = "clear" THEN {arg} ELSE {}

free(freed) ==
  /\ blocks' = blocks \ freed
  /\ misfreed' = (misfreed \/ ~(freed \subseteq blocks))

(* A handler: it creates the process, unless the arguments are wrong, and   *)
(* returns its pid, 0 for the background or -1.  The child inherits.        *)
handle(slot, cmd, arg, in, out) ==
  /\ free(freedByHandler(cmd, arg))
  /\ IF anal_arg(cmd) = -1
     THEN started' = [started EXCEPT ![slot] = -1] /\ UNCHANGED child
     ELSE /\ MayStart
          /\ child' = [child EXCEPT ![NextChild] = Process(cmd, in, out)]
          /\ started' = [started EXCEPT ![slot] = IF anal_arg(cmd) = 1 THEN 0 ELSE NextChild]

-----------------------------------------------------------------------------
(* One round of the loop up to the switch: pipe_cmd, the line, and a block  *)
(* for the arguments of each command.  getInstruction() frees the line.     *)
bufferControl ==
  \E l \in Lines :
    /\ shellAt = "prompt"
    /\ line' = l
    /\ blocks' = {"pipe_cmd", "arg1"} \cup (IF l.piped THEN {"arg2"} ELSE {})
    /\ misfreed' = FALSE
    /\ started' = <<-1, -1>>
    /\ shellAt' = "switch"
    /\ UNCHANGED <<child, pipe, hurried>>

instructions ==
  (IF Known(line.cmd1) THEN 1 ELSE 0) + (IF line.piped /\ Known(line.cmd2) THEN 1 ELSE 0)

\* Faulty: the arguments of an unknown command are kept.
freedInSwitch_KeepsArgument == {"pipe_cmd"}

(* What is freed for a line that starts no program. *)
freedInSwitch ==
  IF \/ IS_BUILT_IN(line.cmd1) /\ line.piped /\ IS_BUILT_IN(line.cmd2)
     \/ ~IS_BUILT_IN(line.cmd1) /\ instructions = 2
  THEN {"pipe_cmd", "arg1", "arg2"} ELSE {"pipe_cmd", "arg1"}

(* built_in_handlers[]: a killed program writes no EOF (a dead child that   *)
(* was not ending was killed); there may be no process of that pid.         *)
builtIn ==
  \/ UNCHANGED child
  \/ \E c \in Child :
       Living(c) /\ child' = [child EXCEPT ![c].at = "zombie", ![c].ending = FALSE]

CallsBuiltIn ==
  IS_BUILT_IN(line.cmd1) /\ ~(line.piped /\ IS_BUILT_IN(line.cmd2))

StartsNothing ==
  /\ shellAt = "switch"
  /\ \/ IS_BUILT_IN(line.cmd1)
     \/ instructions = 0
     \/ instructions = 2 /\ IS_BUILT_IN(line.cmd2)
     \/ instructions = 1 /\ line.cmd1.name = "exit"
  /\ free(freedInSwitch)
  /\ shellAt' = IF instructions = 1 /\ line.cmd1.name = "exit" THEN "exit" ELSE "prompt"
  /\ IF CallsBuiltIn THEN builtIn ELSE UNCHANGED child
  /\ UNCHANGED <<line, started, pipe, hurried>>

(* instruction_handlers[] with an index that is none of its handlers. *)
CallsNoHandler ==
  /\ shellAt = "switch" /\ ~IS_BUILT_IN(line.cmd1)
  /\ \/ instructions = 1 /\ ~Known(line.cmd1)
     \/ instructions = 2 /\ ~IS_BUILT_IN(line.cmd2) /\ "exit" \in {line.cmd1.name, line.cmd2.name}
  /\ shellAt' = "undefined"
  /\ UNCHANGED <<line, blocks, misfreed, started, child, pipe, hurried>>

(* A program alone.  A second command that is unknown is ignored. *)
StartOne ==
  /\ shellAt = "switch" /\ instructions = 1 /\ line.cmd1.name \in Programs
  /\ handle(1, line.cmd1, "arg1", "tty", "tty")
  /\ shellAt' = "wait1"
  /\ UNCHANGED <<line, pipe, hurried>>

Piping == line.piped /\ instructions = 2

(* handle_piped_commands(); no pipe may be left. *)
OpenPipe ==
  /\ shellAt = "switch" /\ Piping /\ {line.cmd1.name, line.cmd2.name} \subseteq Programs
  /\ \/ pipe = Closed /\ pipe' = <<>> /\ shellAt' = "start1"
     \/ UNCHANGED pipe /\ shellAt' = "prompt"
  /\ UNCHANGED <<line, blocks, misfreed, started, child, hurried>>

StartTwo ==
  /\ \/ /\ shellAt = "start1" /\ shellAt' = "start2"
        /\ handle(1, line.cmd1, "arg1", "tty", "pipe")
     \/ /\ shellAt = "start2" /\ shellAt' = "wait1"
        /\ handle(2, line.cmd2, "arg2", "pipe", "tty")
  /\ UNCHANGED <<line, pipe, hurried>>

(* waitpid() on the first or the second child: it does not wait for a pid   *)
(* that is no child, nor for a child that sleeps on a semaphore; it blocks  *)
(* on one that is ready, and reaps a dead one.                              *)
waits(slot) == IF slot = 1 THEN "wait1" ELSE "wait2"
blocked(slot) == IF slot = 1 THEN "blocked1" ELSE "blocked2"

\* Faulty: the shell closes the pipe when the writer is done.
afterWait_OnlyWriter(slot) == IF Piping THEN "close" ELSE "prompt"

afterWait(slot) ==
  CASE Piping /\ slot = 1 -> "wait2"
    [] Piping /\ slot = 2 -> "close"
    [] OTHER              -> "prompt"

freedAfterWait(slot) ==
  CASE Piping /\ slot = 1 -> {"arg1"}
    [] Piping /\ slot = 2 -> {"arg2", "pipe_cmd"}
    [] OTHER              -> {"arg1", "pipe_cmd"}

Waitpid(slot) ==
  LET c == started[slot]
  IN /\ \/ /\ shellAt = waits(slot)
           /\ \/ c <= 0 /\ UNCHANGED child
              \/ c > 0 /\ child[c].at = "asleep" /\ UNCHANGED child
              \/ c > 0 /\ child[c].at = "zombie" /\ child' = [child EXCEPT ![c].at = "gone"]
        \/ /\ shellAt = blocked(slot)
           /\ child[c].at = "zombie" /\ child' = [child EXCEPT ![c].at = "gone"]
     /\ hurried' = (hurried \/ (Piping /\ (c = 0 \/ (c > 0 /\ child[c].at = "asleep"))))
     /\ shellAt' = afterWait(slot)
     /\ free(freedAfterWait(slot))
     /\ UNCHANGED <<line, started, pipe>>

WaitpidBlocks(slot) ==
  /\ shellAt = waits(slot) /\ started[slot] > 0
  /\ child[started[slot]].at \in {"ready", "blocked"}
  /\ shellAt' = blocked(slot)
  /\ UNCHANGED <<line, blocks, misfreed, started, child, pipe, hurried>>

Wants(c) == child[c].reads /\ child[c].left = 0 /\ ~child[c].ending

SleepsOnPipe(c) ==
  child[c].at = "asleep" /\ (IF Wants(c) THEN child[c].in = "pipe" ELSE child[c].out = "pipe")

(* Who sleeps on a semaphore of the pipe then sleeps for ever.              *)
ClosePipe ==
  /\ shellAt = "close"
  /\ pipe' = Closed
  /\ child' = [c \in Child |-> IF SleepsOnPipe(c)
                              THEN [child[c] EXCEPT !.at = "stranded"] ELSE child[c]]
  /\ shellAt' = "prompt"
  /\ UNCHANGED <<line, blocks, misfreed, started, hurried>>

ShellStep ==
  \/ StartsNothing \/ CallsNoHandler \/ StartOne \/ OpenPipe \/ StartTwo \/ ClosePipe
  \/ \E slot \in {1, 2} : Waitpid(slot) \/ WaitpidBlocks(slot)

-----------------------------------------------------------------------------
(* A read or a write wakes whoever sleeps at the other end of the pipe. *)
wakeOthers(c, after) ==
  child' = [d \in Child |-> IF d = c THEN after
                            ELSE IF SleepsOnPipe(d)
                            THEN [child[d] EXCEPT !.at = "ready"] ELSE child[d]]

OnCpu(c) == child[c].at = "ready"

(* cat and wc echo what they read and write a last line after the EOF. *)
afterRead(c, byte) ==
  [child[c] EXCEPT !.left = Output, !.ending = byte = "eof", !.at = "ready"]

(* A key, or Ctrl-D, for a program on the terminal. *)
Key(c) ==
  /\ child[c].at \in {"ready", "asleep"} /\ Wants(c) /\ child[c].in = "tty"
  /\ \E byte \in {"char", "eof"} : child' = [child EXCEPT ![c] = afterRead(c, byte)]
  /\ UNCHANGED <<shellAt, line, blocks, misfreed, started, pipe, hurried>>

(* A read on a pipe that was closed returns with whatever was in c. *)
ReadPipe(c) ==
  /\ OnCpu(c) /\ Wants(c) /\ child[c].in = "pipe"
  /\ \/ pipe = Closed /\ UNCHANGED pipe /\ \E byte \in {"char", "eof"} : wakeOthers(c, afterRead(c, byte))
     \/ pipe \notin {Closed, <<>>} /\ pipe' = Tail(pipe) /\ wakeOthers(c, afterRead(c, Head(pipe)))
  /\ UNCHANGED <<shellAt, line, blocks, misfreed, started, hurried>>

Endless(c) == Living(c) /\ ~child[c].reads /\ ~child[c].ending

CanWrite(c) == child[c].out = "tty" \/ pipe = Closed \/ Len(pipe) < PIPE_BUFFER_SIZE

put(c, byte) == pipe' = IF child[c].out = "tty" \/ pipe = Closed THEN pipe ELSE Append(pipe, byte)

WriteByte(c) ==
  /\ OnCpu(c) /\ child[c].left > 0 /\ CanWrite(c)
  /\ put(c, "char")
  /\ wakeOthers(c, IF Endless(c) THEN child[c] ELSE [child[c] EXCEPT !.left = @ - 1])
  /\ UNCHANGED <<shellAt, line, blocks, misfreed, started, hurried>>

\* Faulty: the end of a program is not written to its output.
Exit_WithoutEof(c) ==
  /\ OnCpu(c) /\ child[c].ending /\ child[c].left = 0 /\ CanWrite(c)
  /\ wakeOthers(c, [child[c] EXCEPT !.at = "zombie"])
  /\ UNCHANGED <<shellAt, line, blocks, misfreed, started, pipe, hurried>>

(* syscall_exit() writes EOF to the standard output, and kills the caller.  *)
Exit(c) ==
  /\ OnCpu(c) /\ child[c].ending /\ child[c].left = 0 /\ CanWrite(c)
  /\ put(c, "eof")
  /\ wakeOthers(c, [child[c] EXCEPT !.at = "zombie"])
  /\ UNCHANGED <<shellAt, line, blocks, misfreed, started, hurried>>

(* semWait() in the pipe, or on the keyboard's. *)
Sleep(c) ==
  /\ OnCpu(c)
  /\ \/ Wants(c) /\ (child[c].in = "tty" \/ (child[c].in = "pipe" /\ pipe = <<>>))
     \/ (child[c].left > 0 \/ child[c].ending) /\ ~CanWrite(c)
  /\ child' = [child EXCEPT ![c].at = "asleep"]
  /\ UNCHANGED <<shellAt, line, blocks, misfreed, started, pipe, hurried>>

(* Ctrl-C kills a process in the foreground, which then writes no EOF.      *)
CtrlC(c) ==
  /\ Living(c) /\ child[c].foreground
  /\ child' = [child EXCEPT ![c].at = "zombie", ![c].ending = FALSE]
  /\ UNCHANGED <<shellAt, line, blocks, misfreed, started, pipe, hurried>>

ChildStep(c) == ReadPipe(c) \/ WriteByte(c) \/ Exit(c) \/ Sleep(c)

ShellNext ==
  \/ bufferControl \/ ShellStep
  \/ \E c \in Child : ChildStep(c) \/ Key(c) \/ CtrlC(c)

ShellSpec == ShellInit /\ [][ShellNext]_shellVars

-----------------------------------------------------------------------------
UsesPipe(c) == Living(c) /\ "pipe" \in {child[c].in, child[c].out}

(* After a line the shell has given back what it took for it, each block    *)
(* once.  Not for "clear", whose handler frees what the shell frees again,  *)
(* not for a built-in in front of a pipe or an unknown command behind one,  *)
(* which lose the second argument, and not when no pipe could be opened.    *)
Clean(l) ==
  /\ "clear" \notin {l.cmd1.name, l.cmd2.name}
  /\ l.piped => Known(l.cmd2) /\ (IS_BUILT_IN(l.cmd1) => IS_BUILT_IN(l.cmd2))

BlocksAreReturned ==
  Clean(line) =>
    /\ ~misfreed
    /\ shellAt \in {"prompt", "exit"} => blocks = {} \/ (Piping /\ started = <<-1, -1>>)

(* The pipe is closed only when both its users are dead, as long as         *)
(* waitpid() waits for them: no child asleep on a semaphore when the shell  *)
(* came to it, and none in the background.                                  *)
PipeOutlivesItsUsers ==
  ~hurried /\ pipe = Closed => \A c \in Child : ~UsesPipe(c)

(* A child on the terminal, or one that never ends, may keep the shell      *)
(* waiting; so may a writer whose reader ended with the pipe full, and a    *)
(* reader whose writer was killed, or not started, before it wrote EOF.     *)
WriterLost ==
  started[1] = -1 \/ \E d \in Child : child[d].at \in {"zombie", "gone"} /\ ~child[d].ending

Orphan(c) ==
  /\ UsesPipe(c) /\ child[c].at = "asleep"
  /\ \A d \in Child \ {c} : UsesPipe(d) => child[d].at = "stranded"
  /\ child[c].out = "pipe" \/ WriterLost

KeepsWaiting(c) ==
  \E d \in Child :
    /\ d = c \/ (UsesPipe(c) /\ UsesPipe(d))
    /\ Endless(d) \/ (Living(d) /\ child[d].reads /\ child[d].in = "tty")

(* Otherwise the prompt comes back after every line.                        *)
PromptComesBack ==
  shellAt # "prompt" ~>
    \/ shellAt \in {"prompt", "exit", "undefined"}
    \/ \E slot \in {1, 2} : started[slot] > 0 /\ (Orphan(started[slot]) \/ KeepsWaiting(started[slot]))
    \/ ~MayStart
=============================================================================
