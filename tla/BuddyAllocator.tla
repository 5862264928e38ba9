----------------------------- MODULE BuddyAllocator -----------------------------
(***************************************************************************)
(* Kernel/memoryManagement/buddyMemoryManager.c: free lists per level,     *)
(* threaded through headers that lie at the start of each block, blocks    *)
(* that are split down and merged with their buddy.                        *)
(*                                                                         *)
(* Headers are ordinary memory: after a merge or a split the old ones stay *)
(* where they were until a block is handed out over them and its owner     *)
(* writes there.  An address is a number of units of the smallest block;   *)
(* level 0 is one unit.  In the kernel the heap is 0x600000 .. 512 MB: with*)
(* units of 2 MB it starts at 3 and its root block is of level 7; inside a *)
(* unit every smaller block is aligned to its size.                        *)
(***************************************************************************)
EXTENDS Integers, FiniteSets, FiniteSetsExt

CONSTANTS
  HeapStarts,  \* the values of HEAP_START_ADDRESS
  MemorySize,  \* HEAP_SIZE
  RootLevel,   \* log2(MemorySize)
  BLOCKS,      \* the number of levels that have a list
  BuddyAsked,       \* the sizes callers ask for, with the header
  MaxGiven     \* bound: how many blocks are out at a time

(* 1ULL << n *)
Pow2[n \in Nat] == IF n = 0 THEN 1 ELSE 2 * Pow2[n - 1]

ASSUME BuddyAssumption ==
  /\ HeapStarts \subseteq Nat \ {0} /\ HeapStarts # {}
  /\ RootLevel \in Nat /\ BLOCKS \in Nat /\ RootLevel < BLOCKS
  /\ MemorySize \in Nat /\ Pow2[RootLevel] <= MemorySize /\ MemorySize < Pow2[RootLevel + 1]
  /\ BuddyAsked \subseteq Nat \ {0}
  /\ MaxGiven \in Nat

VARIABLES
  managedMemory,
  blocks,      \* the head of each level's list
  header,      \* what the memory at an address holds, read as a BuddyBlock
  usedMemory,
  status,
  owned        \* history: the addresses that callers own and what they asked for

buddyVars == <<managedMemory, blocks, header, usedMemory, status, owned>>

NIL == 0
Level == 0 .. BLOCKS - 1
HeapAddress == managedMemory .. managedMemory + Pow2[RootLevel] - 1
Header == [level : Nat, blockState : {"FREE", "SPLIT", "ALLOCATED", "data"}, next : Nat, prev : Nat]

(* Memory that callers wrote to: taken never to look like a free block. *)
Data == [level |-> 0, blockState |-> "data", next |-> NIL, prev |-> NIL]

(* initMemoryBlock() *)
FreshBlock(level) == [level |-> level, blockState |-> "FREE", next |-> NIL, prev |-> NIL]

(* createMemoryManager() *)
BuddyInit ==
  /\ managedMemory \in HeapStarts
  /\ blocks = [l \in Level |-> IF l = RootLevel THEN managedMemory ELSE NIL]
  /\ header = [a \in HeapAddress |-> IF a = managedMemory THEN FreshBlock(RootLevel) ELSE Data]
  /\ usedMemory = 0
  /\ status = "BUDDY_OK"
  /\ owned = {}

-----------------------------------------------------------------------------
(* The operators below take and return the memory m: headers and lists.     *)
Memory == [header |-> header, blocks |-> blocks]

SetNext(m, b, n) == IF b = NIL THEN m ELSE [m EXCEPT !.header[b].next = n]
SetPrev(m, b, p) == IF b = NIL THEN m ELSE [m EXCEPT !.header[b].prev = p]

(* A block becomes the head of its level's list; its prev is left alone.    *)
pushFree(m, b) ==
  LET l == m.header[b].level
  IN [SetPrev(SetNext(m, b, m.blocks[l]), m.blocks[l], b) EXCEPT !.blocks[l] = b]

(* The head of a list is taken out. *)
popFree(m, l) ==
  LET b == m.blocks[l]
      n == m.header[b].next
  IN SetPrev(SetPrev(SetNext([m EXCEPT !.blocks[l] = n], b, NIL), b, NIL), n, NIL)

(* Any block is taken out of its list (mergeBlocks() does it twice).        *)
unlink(m, b) ==
  LET h == m.header[b]
      before == IF h.prev # NIL THEN SetNext(m, h.prev, h.next) ELSE [m EXCEPT !.blocks[h.level] = h.next]
  IN SetPrev(before, h.next, h.prev)

(* The two halves, of level l, of the block at b. *)
halves(m, b, l) == [m EXCEPT !.header[b] = FreshBlock(l), !.header[b + Pow2[l]] = FreshBlock(l)]

(* splitBlockToLevel(): the left half is split on, the right ones are free. *)
splitBlockToLevel(m, b, current, target) ==
  LET after[n \in 0 .. current - target] ==
        IF n = 0 THEN m
        ELSE LET l == current - n IN pushFree(halves(after[n - 1], b, l), b + Pow2[l])
  IN after[current - target]

(* findFreeBlock(): the smallest level from this one on that has a block.   *)
LevelsToTakeFrom(level) == {i \in Level : i >= level /\ blocks[i] # NIL}

findFreeBlock(level) ==
  LET i == Min(LevelsToTakeFrom(level))
  IN splitBlockToLevel(popFree(Memory, i), blocks[i], i, level)

(* The smallest level whose blocks hold n units. *)
memoryToLevel(n) == Min({l \in 0 .. n : Pow2[l] >= n})

Inside(b, l) == b + 1 .. b + Pow2[l] - 1

(* allocMemory() with a block for the answer; its owner may or may not      *)
(* write over what lies inside.                                             *)
AllocSucceeds ==
  \E n \in BuddyAsked, written \in BOOLEAN :
    LET l == memoryToLevel(n)
        b == blocks[Min(LevelsToTakeFrom(l))]
        m == findFreeBlock(l)
    IN /\ status = "BUDDY_OK" /\ l < BLOCKS
       /\ Cardinality(owned) < MaxGiven
       /\ LevelsToTakeFrom(l) # {}
       /\ blocks[l] # NIL => header[b].blockState = "FREE"
       /\ header' = [a \in HeapAddress |->
            IF a = b THEN [m.header[b] EXCEPT !.blockState = "ALLOCATED"]
            ELSE IF written /\ a \in Inside(b, l) THEN Data ELSE m.header[a]]
       /\ blocks' = m.blocks
       /\ usedMemory' = usedMemory + Pow2[l]
       /\ owned' = owned \cup {[at |-> b, asked |-> n]}
       /\ UNCHANGED <<managedMemory, status>>

(* A request beyond the last level puts the manager out of order. *)
AllocTooLarge ==
  /\ status = "BUDDY_OK"
  /\ \E n \in BuddyAsked : memoryToLevel(n) >= BLOCKS
  /\ status' = "BUDDY_ERROR"
  /\ UNCHANGED <<managedMemory, blocks, header, usedMemory, owned>>

-----------------------------------------------------------------------------
\* Faulty: the buddy is always the block above.
getBuddy_Above(b, l) == IF b + Pow2[l] < managedMemory + MemorySize THEN b + Pow2[l] ELSE NIL

(* getBuddy(): bit l of the address is flipped. *)
getBuddy(b, l) ==
  LET buddy == IF (b \div Pow2[l]) % 2 = 0 THEN b + Pow2[l] ELSE b - Pow2[l]
  IN IF buddy \in managedMemory .. managedMemory + MemorySize - 1 THEN buddy ELSE NIL

(* Beyond the root block the memory of the heap is never written by us.     *)
HeaderAt(m, a) == IF a \in HeapAddress THEN m.header[a] ELSE Data

\* Faulty: a buddy that has been split counts as free.
canMerge_AnyLevel(m, b) ==
  LET buddy == getBuddy(b, m.header[b].level)
  IN buddy # NIL /\ HeaderAt(m, buddy).blockState = "FREE"

canMerge(m, b) ==
  LET l == m.header[b].level
      buddy == getBuddy(b, l)
  IN /\ l < BLOCKS /\ m.header[b].blockState = "FREE" /\ buddy # NIL
     /\ HeaderAt(m, buddy).blockState = "FREE" /\ HeaderAt(m, buddy).level = l

\* Faulty: only the freed block leaves the list.
mergeOnce_KeepsBuddy(m, b) ==
  LET l == m.header[b].level
      parent == Min({b, getBuddy(b, l)})
  IN pushFree([unlink(m, b) EXCEPT !.header[parent] = FreshBlock(l + 1)], parent)

mergeOnce(m, b) ==
  LET l == m.header[b].level
      buddy == getBuddy(b, l)
      parent == Min({b, buddy})
  IN pushFree([unlink(unlink(m, buddy), b) EXCEPT !.header[parent] = FreshBlock(l + 1)], parent)

(* mergeBlocks(): as long as the buddy of the result is free. *)
mergeBlocks(m, b) ==
  LET merged[n \in 0 .. BLOCKS] ==
        IF n = 0 THEN [memory |-> m, block |-> b]
        ELSE LET r == merged[n - 1]
             IN IF canMerge(r.memory, r.block)
                THEN [memory |-> mergeOnce(r.memory, r.block),
                      block  |-> Min({r.block, getBuddy(r.block, r.memory.header[r.block].level)})]
                ELSE r
  IN merged[BLOCKS].memory

(* The validation of freeMemory(). *)
IsAllocated(b) == header[b].blockState = "ALLOCATED"

(* The memory of owned blocks; the header of a given one is not its         *)
(* owner's.                                                                 *)
Owned == UNION {Inside(g.at, header[g.at].level) : g \in owned}

(* freeMemory(), also of an address that was given back before, unless it   *)
(* has since become somebody's data.                                        *)
BuddyFrees ==
  \E b \in HeapAddress :
    /\ status = "BUDDY_OK"
    /\ b \notin Owned /\ header[b].blockState # "data"
    /\ IsAllocated(b)
    /\ LET freed == [Memory EXCEPT !.header[b].blockState = "FREE"]
           m == mergeBlocks(pushFree(freed, b), b)
       IN header' = m.header /\ blocks' = m.blocks
    /\ usedMemory' = usedMemory - Pow2[header[b].level]
    /\ owned' = {g \in owned : g.at # b}
    /\ UNCHANGED <<managedMemory, status>>

BuddyNext == AllocSucceeds \/ AllocTooLarge \/ BuddyFrees

BuddySpec == BuddyInit /\ [][BuddyNext]_buddyVars

-----------------------------------------------------------------------------
(* The blocks of a level's list, found by following next from its head.     *)
OnList(l) ==
  LET upTo[n \in 0 .. Pow2[RootLevel]] ==
        IF n = 0 THEN {blocks[l]} \ {NIL}
        ELSE LET found == upTo[n - 1]
             IN found \cup ({header[a].next : a \in found} \ {NIL})
  IN upTo[Pow2[RootLevel]]

(* Each list is a doubly linked list of free blocks of its level, although  *)
(* blocks enter at the head and leave from anywhere, with headers that are  *)
(* reused: next and prev are inverse, and no block can be reached twice.    *)
ListsAreLinked ==
  \A l \in Level :
    /\ blocks[l] # NIL => header[blocks[l]].prev = NIL
    /\ \A a \in OnList(l) :
         /\ header[a].level = l /\ header[a].blockState = "FREE"
         /\ header[a].next # NIL => header[header[a].next].prev = a

(* mem reports as used what is given out, unit by unit. *)
UsedMemoryIsExact ==
  usedMemory = Cardinality(UNION {g.at .. g.at + Pow2[header[g.at].level] - 1 : g \in owned})

(* Every unit of the heap is in exactly one block, which is either given    *)
(* out or in the list of its level: nothing overlaps and nothing is lost,   *)
(* for an aligned heap and for the kernel's.                                *)
BlockStarts == {g.at : g \in owned} \cup UNION {OnList(l) : l \in Level}
NothingLostOrShared ==
  /\ ListsAreLinked /\ UsedMemoryIsExact
  /\ LET starts == BlockStarts
     IN \A a \in HeapAddress :
          Cardinality({b \in starts : b <= a /\ a < b + Pow2[header[b].level]}) = 1

(* buddyMemoryManager.c:276: "Si el buddy esta libre, fusionarlos".  The    *)
(* two halves of a block, as splitBlockToLevel() made them, are never both  *)
(* free.                                                                    *)
AreHalves(a, b) ==
  /\ header[a].level = header[b].level
  /\ LET size == Pow2[header[a].level]
     IN b = a + size /\ (a - managedMemory) % (2 * size) = 0
FreeHalvesAreMerged ==
  \A l \in Level : \A a, b \in OnList(l) : ~AreHalves(a, b)

(* With a heap that starts at a multiple of its root block, they are.       *)
AlignedHeapMerges == managedMemory % Pow2[RootLevel] = 0 => FreeHalvesAreMerged

(* What the callers see. *)
BuddyPromise == INSTANCE Allocator WITH
  Asked <- BuddyAsked, Heap <- 0 .. Pow2[RootLevel] - 1, Sizes <- {Pow2[l] : l \in 0 .. RootLevel},
  allocated <- {[at |-> g.at - managedMemory, size |-> Pow2[header[g.at].level], asked |-> g.asked] : g \in owned}

BuddyImplementsAllocator == BuddyPromise!AllocatorSpec
=============================================================================
