------------------------------ MODULE MCServices ------------------------------
(* Small instances of the components that share nothing with each other:    *)
(* the disk image, the clock, the loading of modules, the list queue, the   *)
(* terminal and the two memory managers.  A behaviour is a behaviour of one of them; the *)
(* others stay in an initial state.                                         *)
EXTENDS MCBmfs, MCClock, ModuleLoading, LinkedQueue, Terminal, BitmapAllocator, BuddyAllocator

CONSTANTS u, v, w, n1, n2, n3

MCKeyOf == [d \in {u, v, w} |-> IF d = w THEN 1 ELSE 2]
MCItem == {u, v, w}
MCAddress == {n1, n2, n3}
MCTarget == <<12, 17>>

VARIABLE part

clockPart == part = "clock" /\ ClockNext
diskPart == part = "disk" /\ BmfsNext
loaderPart == part = "loader" /\ LoaderNext
queuePart == part = "queue" /\ queueNext
terminalPart == part = "terminal" /\ TerminalNext
bitmapPart == part = "bitmap" /\ Next
buddyPart == part = "buddy" /\ BuddyNext

ServicesInit ==
  /\ part \in {"disk", "clock", "loader", "queue", "terminal", "bitmap", "buddy"}
  /\ ClockInit /\ (part # "clock" => now = <<1, 1, 1, 1, 1, 0>>)
  /\ BmfsInit /\ TerminalInit /\ Init
  /\ LoaderInit /\ (part # "loader" => modules = <<>>)
  /\ queueInit /\ (part # "queue" => data = [n \in Address |-> u])
  /\ BuddyInit /\ (part # "buddy" => managedMemory = 8)

ServicesNext ==
  \/ clockPart    /\ UNCHANGED <<part, diskVars, loaderVars, queueVars, terminalVars, vars, buddyVars>>
  \/ diskPart     /\ UNCHANGED <<part, clockVars, loaderVars, queueVars, terminalVars, vars, buddyVars>>
  \/ loaderPart   /\ UNCHANGED <<part, clockVars, diskVars, queueVars, terminalVars, vars, buddyVars>>
  \/ queuePart    /\ UNCHANGED <<part, clockVars, diskVars, loaderVars, terminalVars, vars, buddyVars>>
  \/ terminalPart /\ UNCHANGED <<part, clockVars, diskVars, loaderVars, queueVars, vars, buddyVars>>
  \/ bitmapPart   /\ UNCHANGED <<part, clockVars, diskVars, loaderVars, queueVars, terminalVars, buddyVars>>
  \/ buddyPart    /\ UNCHANGED <<part, clockVars, diskVars, loaderVars, queueVars, terminalVars, vars>>

ServicesSpec ==
  ServicesInit
  /\ [][ServicesNext]_<<part, clockVars, diskVars, loaderVars, queueVars, terminalVars, vars, buddyVars>>

(* What the properties claim nothing about: a directory in which create()   *)
(* has looked behind a deleted record, a line that was disturbed.           *)
Undisturbed == ~strayed /\ ~disturbed
=============================================================================
