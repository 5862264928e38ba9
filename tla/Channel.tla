-------------------------------- MODULE Channel --------------------------------
(***************************************************************************)
(* What Kernel/pipes/pipes.c promises: each slot holds a bounded queue of  *)
(* bytes.  A byte that is taken goes to the caller who takes it; a call may*)
(* also end without one, but never with a byte that was not at the head.   *)
(***************************************************************************)
EXTENDS Naturals, Sequences

CONSTANTS Caller, Slot, Byte, Capacity, Nothing

VARIABLES
  contents,  \* the bytes of each slot, the oldest first
  got        \* the byte a caller took last

channels == <<contents, got>>

Empty ==
  /\ contents = [s \in Slot |-> <<>>]
  /\ got = [c \in Caller |-> Nothing]

Put(s, b) ==
  /\ Len(contents[s]) < Capacity
  /\ contents' = [contents EXCEPT ![s] = Append(@, b)]
  /\ UNCHANGED got

Take(s, c) ==
  /\ contents[s] # <<>>
  /\ contents' = [contents EXCEPT ![s] = Tail(@)]
  /\ got' = [got EXCEPT ![c] = Head(contents[s])]

(* A caller begins a new read. *)
Begin(c) == got' = [got EXCEPT ![c] = Nothing] /\ UNCHANGED contents

(* The slot is cleared, closed or opened. *)
Drop(s) == contents' = [contents EXCEPT ![s] = <<>>] /\ UNCHANGED got

ChannelStep ==
  \/ \E s \in Slot : Drop(s) \/ \E b \in Byte : Put(s, b)
  \/ \E c \in Caller : Begin(c) \/ \E s \in Slot : Take(s, c)

ChannelSpec == Empty /\ [][ChannelStep]_channels
=============================================================================
