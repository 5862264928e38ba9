------------------------------- MODULE Allocator -------------------------------
(***************************************************************************)
(* What Kernel/include/memoryManager.h promises, whichever of the two      *)
(* managers is built in: a block that is handed out lies inside the heap,  *)
(* is as long as was asked and overlaps no other block; a block is given   *)
(* back once.                                                              *)
(***************************************************************************)
EXTENDS Integers

CONSTANTS
  Heap,   \* the addresses that may be handed out
  Asked,  \* the sizes callers ask for
  Sizes   \* the sizes of the blocks they get

VARIABLE allocated  \* the blocks handed out: address, size and what was asked

Extent(b) == b.at .. b.at + b.size - 1

NothingAllocated == allocated = {}

(* One block more: the new one. *)
Alloc ==
  \E b \in allocated' :
    /\ allocated' = allocated \cup {b}
    /\ b.asked \in Asked /\ b.size \in Sizes /\ b.asked <= b.size
    /\ Extent(b) \subseteq Heap
    /\ \A c \in allocated : Extent(b) \cap Extent(c) = {}

Free == \E b \in allocated : allocated' = allocated \ {b}

AllocatorSpec == NothingAllocated /\ [][Alloc \/ Free]_allocated
=============================================================================
