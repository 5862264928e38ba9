---------------------------- MODULE BitmapAllocator ----------------------------
(***************************************************************************)
(* Kernel/memoryManagement/bitmapMemoryManager.c: one cell per block of    *)
(* BLOCK_SIZE bytes, and a next-fit search from the block after the last   *)
(* allocation.  Addresses are block indices, sizes numbers of blocks, as   *)
(* sizeToBlockQty() rounds them up.  A request of zero bytes writes outside*)
(* the bitmap and is left out.                                             *)
(***************************************************************************)
EXTENDS Integers, FiniteSets

CONSTANTS
  blockQty,
  Asked      \* the sizes callers ask for, in blocks

ASSUME BitmapAssumption == blockQty \in Nat \ {0} /\ Asked \subseteq Nat \ {0}

VARIABLES
  bitmap,
  blocksUsed,
  current,  \* where the next search starts
  given     \* history: the blocks that callers own

vars == <<bitmap, blocksUsed, current, given>>

Block == 0 .. blockQty - 1
Cell == {"FREE", "USED", "START_BOUNDARY", "END_BOUNDARY", "SINGLE_BLOCK"}

(* createMemoryManager() *)
Init ==
  /\ bitmap = [i \in Block |-> "FREE"]
  /\ blocksUsed = 0 /\ current = 0
  /\ given = {}

Free(i) == bitmap[i] = "FREE"

\* Faulty: only the two ends of the group are looked at.
Fits_Ends(n, i, end) == i + n <= end /\ Free(i) /\ Free(i + n - 1)

(* n free blocks from i on, before end. *)
Fits(n, i, end) == i + n <= end /\ \A k \in i .. i + n - 1 : Free(k)

(* findFreeBlocks(): the first group that fits. *)
findFreeBlocks(n, start, end) == {i \in start .. end - 1 : Fits(n, i, end)}

\* Faulty: the blocks before the last allocation are not searched.
Candidates_NoWrap(n) == findFreeBlocks(n, current, blockQty)

(* From current to the end of the heap, and if there is nothing, from its   *)
(* beginning.                                                               *)
Candidates(n) ==
  LET ahead == findFreeBlocks(n, current, blockQty)
  IN IF ahead # {} THEN ahead ELSE findFreeBlocks(n, 0, blockQty)

\* Faulty: the end of a group is not marked.
cellOf_NoEnd(k, i, n) ==
  IF n = 1 THEN "SINGLE_BLOCK" ELSE IF k = i THEN "START_BOUNDARY" ELSE "USED"

(* The mark of block k of the group of n blocks at i. *)
cellOf(k, i, n) ==
  IF n = 1 THEN "SINGLE_BLOCK"
  ELSE IF k = i + n - 1 THEN "END_BOUNDARY"
  ELSE IF k = i THEN "START_BOUNDARY" ELSE "USED"

(* What an allocation adds to blocksUsed. *)
usedBy(n) == n

(* The test against blocksUsed comes before the search. *)
MayFit(n) == n <= blockQty - blocksUsed

AllocMemory ==
  \E n \in Asked : \E i \in Candidates(n) :
    /\ MayFit(n)
    /\ \A j \in Candidates(n) : i <= j
    /\ bitmap' = [k \in Block |-> IF k \in i .. i + n - 1 THEN cellOf(k, i, n) ELSE bitmap[k]]
    /\ current' = i + n
    /\ given' = given \cup {[at |-> i, size |-> n, asked |-> n]}
    /\ blocksUsed' = blocksUsed + usedBy(n)

(* The blocks freeMemory() walks over: up to the first end boundary.        *)
GroupAt(i) ==
  IF bitmap[i] = "SINGLE_BLOCK" THEN {i}
  ELSE {k \in Block : k >= i /\ \A j \in i .. k - 1 : bitmap[j] # "END_BOUNDARY"}

(* freeMemory() of any address, given out, given back before or never       *)
(* handed out: only the first block of a group is accepted.                 *)
FreeMemory ==
  \E i \in Block :
    /\ bitmap[i] \in {"SINGLE_BLOCK", "START_BOUNDARY"}
    /\ bitmap' = [k \in Block |-> IF k \in GroupAt(i) THEN "FREE" ELSE bitmap[k]]
    /\ blocksUsed' = blocksUsed - Cardinality(GroupAt(i))
    /\ given' = {b \in given : b.at # i}
    /\ UNCHANGED current

Next == AllocMemory \/ FreeMemory

Spec == Init /\ [][Next]_vars

-----------------------------------------------------------------------------
(* The marks of the bitmap spell exactly the blocks that callers own, also  *)
(* where two groups touch, so that a free walks to the end of its own group *)
(* and never into the next.                                                 *)
MarksMatchBlocks ==
  /\ \A b \in given : \A k \in b.at .. b.at + b.size - 1 : bitmap[k] = cellOf(k, b.at, b.size)
  /\ \A k \in Block : Free(k) <=> \A b \in given : k \notin b.at .. b.at + b.size - 1

(* blocksUsed, which can refuse a request before the search, counts what is *)
(* used, and the two searches together miss no group: a request fails only  *)
(* when there is no room for it.                                            *)
RoomIsFound ==
  \A n \in Asked :
    (\E i \in Block : Fits(n, i, blockQty)) <=> MayFit(n) /\ Candidates(n) # {}

(* What the callers see. *)
Promise == INSTANCE Allocator WITH Heap <- Block, Sizes <- Asked, allocated <- given

ImplementsAllocator == Promise!AllocatorSpec
=============================================================================
